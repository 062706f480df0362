--------------------------- MODULE MutationEngine ---------------------------
(***************************************************************************)
(* The mutation engine (mutations/engine.py): the mutants it makes of one  *)
(* query.  A query is the set of features the operators look for; what a   *)
(* mutant's text does is left to the modules that run it.                  *)
(***************************************************************************)
EXTENDS Sequences

\* comparison: > or < or =; aggregate: SUM, AVG or COUNT; distinct: a COUNT
\* marked distinct; grain: a GROUP BY of two columns or more; default: a
\* COALESCE with a default; arithmetic: - or +.
Features == {"where", "comparison", "aggregate", "distinct", "join_on",
             "grain", "default", "arithmetic"}

MutationTypes == {"FILTER_DROP", "GRAIN_DROP", "AGGREGATION_SWAP",
                  "MATH_OPERATOR_INVERT", "BOUNDARY_SHIFT", "DISTINCT_DROP",
                  "JOIN_PREDICATE_DROP", "COALESCE_BYPASS"}

LooksFor == [FILTER_DROP |-> "where", BOUNDARY_SHIFT |-> "comparison",
             AGGREGATION_SWAP |-> "aggregate", DISTINCT_DROP |-> "distinct",
             JOIN_PREDICATE_DROP |-> "join_on", GRAIN_DROP |-> "grain",
             COALESCE_BYPASS |-> "default", MATH_OPERATOR_INVERT |-> "arithmetic"]

(* An operator edits the first place it finds, so it makes one mutant or   *)
(* none.                                                                   *)
Injectable(query) == {t \in MutationTypes : LooksFor[t] \in query}

(* The operators' turns.                                                   *)
InOrder(types) ==
  LET Turn(t) == IF t \in types THEN <<t>> ELSE <<>>
  IN  Turn("FILTER_DROP") \o Turn("BOUNDARY_SHIFT") \o Turn("AGGREGATION_SWAP")
      \o Turn("DISTINCT_DROP") \o Turn("JOIN_PREDICATE_DROP") \o Turn("GRAIN_DROP")
      \o Turn("COALESCE_BYPASS") \o Turn("MATH_OPERATOR_INVERT")

GenerateAllMutations(query) == InOrder(Injectable(query))
=============================================================================
