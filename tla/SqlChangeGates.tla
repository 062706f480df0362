--------------------------- MODULE SqlChangeGates ---------------------------
(***************************************************************************)
(* ChangeGates for conditions as SqlPredicates has them: what the gates    *)
(* say of a change of a WHERE clause, next to what the change does to the  *)
(* rows.  The configurations give the constants of ChangeGates that are    *)
(* operators on conditions their values in SqlPredicates.                  *)
(***************************************************************************)
EXTENDS ChangeGates, SqlPredicates

Literal(e) == e.op = "leaf" \/ (e.op = "not" /\ e.args[1].op = "leaf")

(* A WHERE clause of one connective only, its operands plain literals.     *)
PlainChain(where) ==
  /\ where # NoClause
  /\ where.op \in {"and", "or"}
  /\ \A e \in ToSet(Operands(where, where.op)) : Literal(e)

(* The conjuncts of a WHERE clause that has distinct comparisons only.     *)
PlainConjuncts(where) ==
  LET conjuncts == Operands(where, "and")
  IN  IF IsInjective(conjuncts) /\ \A e \in ToSet(conjuncts) : e.op = "leaf"
      THEN ToSet(conjuncts) ELSE {}

LogicShift == Drift("CRITICAL", "SEMANTIC_LOGIC_SHIFT")

\* The texts that the operands of a chain are compared by.
OperandTexts(where) ==
  LET operands == Operands(where, where.op)
  IN  [i \in DOMAIN operands |-> LowerSql(operands[i])]

\* No two comparisons of the conditions differ in case alone.
ToldApart(p, q) ==
  \A v, w \in Comparisons(p) \cup Comparisons(q) : Lower(v) = Lower(w) => v = w

(* Reordering or regrouping a chain of one connective is no drift, and     *)
(* nothing but a change of case is taken for it: two plain chains are      *)
(* reported exactly if connective or operands differ in more than case,    *)
(* and what is not reported keeps the rows unless two comparisons differ   *)
(* in case alone, as status = 'paid' and status = 'PAID' do.               *)
(* (ASTNormalizer's claim to canonicalise commutative variations.)         *)
ChainsCompareAsBags ==
  LET p == change.base.where
      q == change.candidate.where
  IN  Checked /\ PlainChain(p) /\ PlainChain(q) =>
        /\ LogicShift \notin check.drifts
             <=> p.op = q.op /\ ToBag(OperandTexts(p)) = ToBag(OperandTexts(q))
        /\ LogicShift \notin check.drifts /\ ToldApart(p, q) => SameRows(p, q)

(* What normalizer.py:79 says of are_predicates_equivalent: conditions     *)
(* that are not reported as shifted are logically equivalent, at least     *)
(* where no two comparisons differ in case alone.                          *)
EquivalentMeansSameRows ==
  /\ Checked /\ LogicShift \notin check.drifts
  /\ change.base.where # NoClause /\ change.candidate.where # NoClause
  /\ ToldApart(change.base.where, change.candidate.where)
  => SameRows(change.base.where, change.candidate.where)
=============================================================================
