---------------------------- MODULE MCChangeGates ----------------------------
(* Instances of the gates for TLC.                                         *)
EXTENDS SqlChangeGates

a == Leaf(2)
b == Leaf(4)
c == Leaf(6)

(* status = 'paid' in capitals is a word of its own until it is lowered;   *)
(* order_status = 'paid' ends in status = 'paid' and vip_since > 2 begins  *)
(* with vip, shifted or not; created at time zone ... mentions what it     *)
(* says and c the refund.                                                  *)
capital == Leaf(42)
order   == Leaf(8)
status  == Leaf(10)
vip     == Leaf(13)
since   == Leaf(14)
zone    == Leaf(16)

MCLower(w) == IF w \in 41 .. 80 THEN w - 40 ELSE w

MCEndsIn == {<<8, 10>>, <<9, 11>>}

MCBeginsWith == {<<14, 13>>, <<15, 13>>}

MCMarksIn(w) == CASE w \in {6, 7} -> {"refund"}
                  [] w \in {16, 17} -> {"time zone"}
                  [] OTHER -> {}

(* Conditions: chains of one connective in several orders and groupings,   *)
(* a repeated operand, negations, the two connectives mixed with and       *)
(* without parentheses, comparisons that differ in case alone, and some    *)
(* whose texts contain another's.                                          *)
Conditions ==
  {a, NotOf(a), ParenOf(a), AndOf(a, b), AndOf(b, a), OrOf(b, a), AndOf(a, a),
   ParenOf(AndOf(b, a)), AndOf(NotOf(b), a), AndOf(a, NotOf(b)),
   NotOf(ParenOf(AndOf(a, b))), AndOf(NotOf(a), b),
   AndOf(AndOf(c, b), a), AndOf(a, ParenOf(AndOf(b, c))), OrOf(OrOf(a, c), b),
   OrOf(b, OrOf(c, a)), AndOf(AndOf(a, b), c),
   AndOf(ParenOf(OrOf(a, b)), c), OrOf(a, AndOf(b, c)), AndOf(c, ParenOf(OrOf(b, a))),
   OrOf(AndOf(c, b), a), ParenOf(OrOf(ParenOf(AndOf(b, c)), a)),
   AndOf(capital, b), AndOf(b, capital), AndOf(a, capital), AndOf(capital, a),
   AndOf(order, status), AndOf(since, vip), AndOf(order, vip), AndOf(b, zone)}

Join(on) == [on |-> on, cross |-> FALSE]

Agg(func, arg) == [func |-> func, arg |-> arg]

(* A net amount by day and region over two tables.                         *)
NetAmount ==
  [where  |-> AndOf(AndOf(a, b), c),
   aggs   |-> <<Agg("Sum", {"amount", "-", "refund", "COALESCE"}),
                Agg("Count", {"DISTINCT", "id"})>>,
   outer  |-> {"net", "-"},
   joins  |-> <<Join({"comparison", "order"})>>,
   group  |-> <<{"day"}, {"region"}>>,
   having |-> {"comparison", "total"},
   tables |-> {"orders", "refunds"},
   graph  |-> [ctes |-> 0, subqueries |-> 0, windows |-> 0, cases |-> 1]]

(* The same with what the others do not have: no clause but FROM, an AVG,  *)
(* an addition, a CROSS JOIN with a condition on another, a COALESCE that  *)
(* is not in an aggregate.                                                 *)
Plain == [NetAmount EXCEPT !.where = NoClause, !.aggs = <<Agg("Count", {"id"})>>,
                           !.outer = {"n"}, !.joins = <<>>, !.group = <<>>,
                           !.having = NoClause, !.tables = {"orders"}]

Average == [NetAmount EXCEPT
  !.where = OrOf(a, b), !.aggs = <<Agg("Avg", {"amount", "+", "fee"})>>,
  !.outer = {"COALESCE", "ratio"}, !.having = NoClause, !.group = <<{"day"}, {"COALESCE", "region"}>>,
  !.joins = <<[on |-> NoClause, cross |-> TRUE], Join({"-", "COALESCE", "order"})>>,
  !.graph.cases = 2]

Queries == {NetAmount, Plain, Average}

Contract ==
  [declared |-> TRUE, filters |-> {a, b, c}, dimensions |-> {{"day"}, {"region"}},
   components |-> {"amount", "refund"}, utc |-> TRUE, parses |-> TRUE]

MCContracts ==
  {Contract,
   [Contract EXCEPT !.declared = FALSE],
   [Contract EXCEPT !.parses = FALSE],
   [Contract EXCEPT !.filters = {a}, !.dimensions = {{"day"}}, !.components = {},
                    !.utc = FALSE],
   [Contract EXCEPT !.filters = {order, status, vip, since}]}

\* region is found in COALESCE(region, ...).
MCSimilar == {<<{"COALESCE", "region"}, {"region"}>>}

EditsOf(q) ==
  {q, Unparseable,
   [q EXCEPT !.group = Append(@, {"hour"})],
   [q EXCEPT !.group = Reverse(@)],
   [q EXCEPT !.joins = Append(@, Join({"k"}))],
   [q EXCEPT !.joins = <<>>],
   [q EXCEPT !.tables = @ \cup {"staging"}],
   [q EXCEPT !.outer = {"plain"}],
   [q EXCEPT !.outer = @ \cup {"time zone"}],
   [q EXCEPT !.outer = @ \cup {"time zone", "utc"}],
   [q EXCEPT !.having = NoClause],
   [q EXCEPT !.where = NoClause],
   [q EXCEPT !.where = a],
   [q EXCEPT !.aggs = <<>>],
   [q EXCEPT !.graph.ctes = 2],
   [q EXCEPT !.graph.subqueries = 2],
   [q EXCEPT !.graph.windows = 1]}

With(condition) == [NetAmount EXCEPT !.where = condition]

MCBases == Queries \cup {With(p) : p \in Conditions}

MCEdits ==
  {[base |-> With(p), candidate |-> With(q), contract |-> Contract] :
     p \in Conditions, q \in Conditions}
  \cup UNION {[base : {q}, candidate : EditsOf(q), contract : MCContracts] : q \in Queries}

MCPolicies == [project_missing : BOOLEAN, budget : {0, 5, 20}]
=============================================================================
