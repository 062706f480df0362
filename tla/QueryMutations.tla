--------------------------- MODULE QueryMutations ---------------------------
(***************************************************************************)
(* The operators of the mutation engine (mutations/engine.py) on queries   *)
(* as DriftDetector has them: each gives the queries it may turn a query   *)
(* into, none if it finds nothing to edit.  An operator edits the first    *)
(* node of its kind that it meets; where a tree has several, which one is  *)
(* first is left open.                                                     *)
(***************************************************************************)
EXTENDS DriftDetector

\* The conditions that a mutation may turn a condition into.
CONSTANTS LosingConjunct(_), ShiftingBoundary(_)

InjectFilterDrop(q) ==
  IF q.where = NoClause THEN {}
  ELSE IF LosingConjunct(q.where) # {}
       THEN {[q EXCEPT !.where = w] : w \in LosingConjunct(q.where)}
       ELSE {[q EXCEPT !.where = NoClause]}

\* The queries in which one expression has the mark new for the mark old.
Replacing(q, old, new) ==
  LET Edit(e) == (e \ {old}) \cup {new}
  IN  {[q EXCEPT !.aggs[i].arg = Edit(@)] :
         i \in {i \in DOMAIN q.aggs : old \in q.aggs[i].arg}}
      \cup {[q EXCEPT !.joins[i].on = Edit(@)] :
         i \in {i \in DOMAIN q.joins : q.joins[i].on # NoClause /\ old \in q.joins[i].on}}
      \cup {[q EXCEPT !.group[i] = Edit(@)] :
         i \in {i \in DOMAIN q.group : old \in q.group[i]}}
      \cup (IF old \in q.outer THEN {[q EXCEPT !.outer = Edit(@)]} ELSE {})
      \cup (IF q.having # NoClause /\ old \in q.having
            THEN {[q EXCEPT !.having = Edit(@)]} ELSE {})

InjectBoundaryShift(q) ==
  Replacing(q, "comparison", "shifted comparison")
  \cup (IF q.where = NoClause THEN {}
        ELSE {[q EXCEPT !.where = w] : w \in ShiftingBoundary(q.where)})

Swap(q, old, new) ==
  {[q EXCEPT !.aggs[i].func = new] : i \in {i \in DOMAIN q.aggs : q.aggs[i].func = old}}

\* SUM becomes AVG; without a SUM, AVG becomes SUM; without either, COUNT does.
InjectAggregationSwap(q) ==
  CASE "Sum" \in ToSet(Funcs(q)) -> Swap(q, "Sum", "Avg")
    [] "Avg" \in ToSet(Funcs(q)) -> Swap(q, "Avg", "Sum")
    [] OTHER -> Swap(q, "Count", "Sum")

\* A COUNT whose node is flagged as distinct.
InjectDistinctDrop(q) ==
  {[q EXCEPT !.aggs[i].arg = @ \ {"DISTINCT"}] :
     i \in {i \in DOMAIN q.aggs : q.aggs[i].func = "Count"
                                  /\ "DISTINCT" \in q.aggs[i].arg}}

\* The first join that has a condition.
InjectJoinPredicateDrop(q) ==
  LET Conditional == {i \in DOMAIN q.joins : q.joins[i].on # NoClause}
  IN  {[q EXCEPT !.joins[i].on = NoClause] :
         i \in {i \in Conditional : \A k \in Conditional : i <= k}}

InjectGrainDrop(q) ==
  IF Len(q.group) > 1 THEN {[q EXCEPT !.group = Front(@)]} ELSE {}

\* What is left of COALESCE(column, default) is its second argument.
InjectCoalesceBypass(q) == Replacing(q, "COALESCE", "default")

InjectMathOperatorInvert(q) ==
  IF Replacing(q, "-", "+") # {} THEN Replacing(q, "-", "+")
                                 ELSE Replacing(q, "+", "-")

(* What the engine makes of a query, with the type of each mutation.       *)
Mutations(q) ==
  [type : {"FILTER_DROP"}, sql : InjectFilterDrop(q)]
  \cup [type : {"BOUNDARY_SHIFT"}, sql : InjectBoundaryShift(q)]
  \cup [type : {"AGGREGATION_SWAP"}, sql : InjectAggregationSwap(q)]
  \cup [type : {"DISTINCT_DROP"}, sql : InjectDistinctDrop(q)]
  \cup [type : {"JOIN_PREDICATE_DROP"}, sql : InjectJoinPredicateDrop(q)]
  \cup [type : {"GRAIN_DROP"}, sql : InjectGrainDrop(q)]
  \cup [type : {"COALESCE_BYPASS"}, sql : InjectCoalesceBypass(q)]
  \cup [type : {"MATH_OPERATOR_INVERT"}, sql : InjectMathOperatorInvert(q)]
=============================================================================
