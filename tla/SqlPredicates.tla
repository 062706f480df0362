---------------------------- MODULE SqlPredicates ----------------------------
(***************************************************************************)
(* SQL conditions: sqlglot's syntax trees, how they print, what they mean, *)
(* the normaliser that compares two of them by their printed forms         *)
(* (drift/normalizer.py), and what the mutation engine (mutations/         *)
(* engine.py) makes of one.                                                *)
(*                                                                         *)
(* A printed form is a sequence of words.  Words are numbers in the order  *)
(* in which the sorted texts compare: a comparison such as status = 'paid' *)
(* is one word, of those below NOT, and so is status = 'PAID', which is    *)
(* the same word once both are in lower case.                              *)
(***************************************************************************)
EXTENDS Integers, Sequences, FiniteSets, SequencesExt, TLC

CONSTANTS
  Lower(_),        \* a word in lower case, string literals included
  EndsIn,          \* pairs of comparisons, the first's text ends in the other's
  BeginsWith,      \* pairs, the first's text begins with the other's
  MarksIn(_)       \* what a comparison mentions of a contract's components

LPAREN == 0
NOT    == 90
AND    == 91
OR     == 92
RPAREN == 93

Leaf(word)  == [op |-> "leaf", word |-> word, args |-> <<>>]
NotOf(e)    == [op |-> "not", word |-> NOT, args |-> <<e>>]
AndOf(l, r) == [op |-> "and", word |-> AND, args |-> <<l, r>>]
OrOf(l, r)  == [op |-> "or", word |-> OR, args |-> <<l, r>>]
ParenOf(e)  == [op |-> "paren", word |-> LPAREN, args |-> <<e>>]

(* sqlglot prints what the tree says: a parenthesis only where the tree    *)
(* has a Paren node.                                                       *)
RECURSIVE Sql(_)
Sql(e) ==
  CASE e.op = "leaf"  -> <<e.word>>
    [] e.op = "not"   -> <<NOT>> \o Sql(e.args[1])
    [] e.op = "paren" -> <<LPAREN>> \o Sql(e.args[1]) \o <<RPAREN>>
    [] OTHER          -> Sql(e.args[1]) \o <<e.word>> \o Sql(e.args[2])

(* What a condition says of a row of which exactly the comparisons in true *)
(* hold.                                                                   *)
RECURSIVE Holds(_, _)
Holds(e, true) ==
  CASE e.op = "leaf"  -> e.word \in true
    [] e.op = "not"   -> ~Holds(e.args[1], true)
    [] e.op = "paren" -> Holds(e.args[1], true)
    [] e.op = "and"   -> Holds(e.args[1], true) /\ Holds(e.args[2], true)
    [] e.op = "or"    -> Holds(e.args[1], true) \/ Holds(e.args[2], true)

Comparisons(e) == {w \in ToSet(Sql(e)) : LPAREN < w /\ w < NOT}

SameRows(p, q) ==
  \A true \in SUBSET (Comparisons(p) \cup Comparisons(q)) :
    Holds(p, true) <=> Holds(q, true)
-----------------------------------------------------------------------------
RECURSIVE Unwrapped(_)
Unwrapped(e) == IF e.op = "paren" THEN Unwrapped(e.args[1]) ELSE e

(* The operands of a chain of one connective, through parentheses.         *)
RECURSIVE Operands(_, _)
Operands(e, op) ==
  LET u == Unwrapped(e)
  IN  IF u.op = op THEN Operands(u.args[1], op) \o Operands(u.args[2], op)
      ELSE <<u>>

\* What is compared of a condition: its printed form in lower case.
LowerSql(e) == [i \in DOMAIN Sql(e) |-> Lower(Sql(e)[i])]

\* sorted() on these forms.
Precedes(d, e) ==
  LET s == LowerSql(d)
      t == LowerSql(e)
  IN  \/ IsStrictPrefix(s, t)
      \/ \E i \in 1 .. Len(s) :
           /\ i <= Len(t) /\ s[i] < t[i]
           /\ SubSeq(s, 1, i - 1) = SubSeq(t, 1, i - 1)

Chain(op, operands) ==
  FoldLeft(LAMBDA l, r : IF op = "and" THEN AndOf(l, r) ELSE OrOf(l, r),
           Head(operands), Tail(operands))

\* Mutant: the operands stay in the order they are written in.
Written(e) == Operands(e, e.op)

Sorted(e) == SortSeq(Operands(e, e.op), Precedes)

(* A node below the root: parentheses go, chains are sorted by the text    *)
(* their operands have before they are normalised themselves.              *)
RECURSIVE NormalizeNode(_)
NormalizeNode(e) ==
  LET u == Unwrapped(e)
  IN  CASE u.op = "leaf" -> u
        [] u.op = "not" -> NotOf(NormalizeNode(u.args[1]))
        [] OTHER -> LET operands == Sorted(u)
                    IN  Chain(u.op, [i \in DOMAIN operands |->
                                       NormalizeNode(operands[i])])

(* The root has no parent to be replaced in and keeps its parentheses.     *)
RECURSIVE Normalize(_)
Normalize(e) ==
  IF e.op = "paren" THEN ParenOf(Normalize(e.args[1])) ELSE NormalizeNode(e)

ArePredicatesEquivalent(p, q) ==
  LowerSql(Normalize(p)) = LowerSql(Normalize(q))

(* A required filter is looked for in the text: its first word may be the  *)
(* end of a longer one, and its last word the beginning.                   *)
OccursWithin(filter, where) ==
  LET f == Sql(filter)
      t == Sql(where)
  IN  \E k \in 0 .. Len(t) - Len(f) : \A i \in DOMAIN f :
        \/ t[k + i] = f[i]
        \/ i = 1 /\ <<t[k + i], f[i]>> \in EndsIn
        \/ i = Len(f) /\ <<t[k + i], f[i]>> \in BeginsWith

\* The marks in a condition's text.
MarksWithin(where) == UNION {MarksIn(w) : w \in ToSet(Sql(where))}
-----------------------------------------------------------------------------
\* The conditions that e may become if a topmost AND loses its right side.
RECURSIVE WithoutConjunct(_)
WithoutConjunct(e) ==
  IF e.op = "and" THEN {e.args[1]}
  ELSE UNION {{[e EXCEPT !.args[i] = sub] : sub \in WithoutConjunct(e.args[i])} :
              i \in DOMAIN e.args}

\* A comparison's word is even, and the next one is the comparison shifted.
RECURSIVE Shifted(_)
Shifted(e) ==
  IF e.op = "leaf" THEN IF e.word % 2 = 0 THEN {Leaf(e.word + 1)} ELSE {}
  ELSE UNION {{[e EXCEPT !.args[i] = sub] : sub \in Shifted(e.args[i])} :
              i \in DOMAIN e.args}
=============================================================================
