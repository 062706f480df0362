---------------------------- MODULE DriftDetector ----------------------------
(***************************************************************************)
(* Drift detection (drift/detector.py, drift/rules.py): what is reported   *)
(* of two versions of a metric's query.                                    *)
(*                                                                         *)
(* A query is one SELECT block, a record of                                *)
(*   where    a condition (see SqlPredicates) or NoClause                  *)
(*   aggs     the aggregate calls, wherever they stand: [func, arg]        *)
(*   outer    what is around them in the SELECT list, ORDER BY and QUALIFY *)
(*   joins    the joined tables: [on, cross]                               *)
(*   group    the expressions grouped by, in order                         *)
(*   having   a condition on groups or NoClause                            *)
(*   tables   the tables read                                              *)
(*   graph    how many nodes of the kinds that make a query complex        *)
(* Outside WHERE an expression is the set of marks its text contains: two  *)
(* texts are equal if their marks are.                                     *)
(***************************************************************************)
EXTENDS Integers, Sequences, FiniteSets, SequencesExt

CONSTANTS
  NoClause,            \* what a query without the clause has for it
  Equivalent(_, _)     \* ASTNormalizer.are_predicates_equivalent

Severities == <<"INFO", "LOW", "MEDIUM", "HIGH", "CRITICAL", "FATAL">>

Rank(severity) == CHOOSE i \in DOMAIN Severities : Severities[i] = severity

Drift(severity, type) == [severity |-> severity, type |-> type]

If(condition, drift) == IF condition THEN {drift} ELSE {}

AnalyzeWhereClause(orig, cand) ==
  IF NoClause \in {orig.where, cand.where}
  THEN If(cand.where # orig.where,
          IF cand.where = NoClause THEN Drift("FATAL", "FILTER_REMOVAL")
                                   ELSE Drift("HIGH", "FILTER_ADDITION"))
  ELSE If(~Equivalent(orig.where, cand.where),
          Drift("CRITICAL", "SEMANTIC_LOGIC_SHIFT"))

Funcs(q) == [i \in DOMAIN q.aggs |-> q.aggs[i].func]

\* Mutant: the calls are compared by their functions only.
AnalyzeFunctions(orig, cand) ==
  If(ToBag(Funcs(orig)) # ToBag(Funcs(cand)),
     Drift("HIGH", "AGGREGATION_FUNCTION_SHIFT"))

AnalyzeAggregations(orig, cand) ==
  IF ToBag(Funcs(orig)) # ToBag(Funcs(cand))
  THEN {Drift("HIGH", "AGGREGATION_FUNCTION_SHIFT")}
  ELSE If(ToBag(orig.aggs) # ToBag(cand.aggs),
          Drift("HIGH", "AGGREGATION_EXPRESSION_SHIFT"))

(* The number of joins, and joins of the candidate without a condition.    *)
AnalyzeJoins(orig, cand) ==
  If(Len(orig.joins) # Len(cand.joins), Drift("HIGH", "JOIN_TYPE_SHIFT"))
  \cup
  If(\E j \in ToSet(cand.joins) : j.on = NoClause /\ ~j.cross,
     Drift("FATAL", "JOIN_PREDICATE_MUTATION"))

AnalyzeGroupBy(orig, cand) ==
  If(ToBag(orig.group) # ToBag(cand.group), Drift("CRITICAL", "GRAIN_DRIFT"))

\* Every expression of a query outside its WHERE clause, in a sequence.
Expressions(q) ==
  [i \in DOMAIN q.aggs |-> q.aggs[i].arg] \o <<q.outer>> \o q.group
  \o SelectSeq([i \in DOMAIN q.joins |-> q.joins[i].on] \o <<q.having>>,
               LAMBDA e : e # NoClause)

Coalesces(q) == Len(SelectSeq(Expressions(q), LAMBDA e : "COALESCE" \in e))

AnalyzeNullHandling(orig, cand) ==
  If(Coalesces(orig) > Coalesces(cand), Drift("MEDIUM", "NULL_HANDLING_DRIFT"))

AnalyzeHavingClause(orig, cand) ==
  If(orig.having # cand.having, Drift("HIGH", "HAVING_FILTER_SHIFT"))

AnalyzeTables(orig, cand) ==
  If(orig.tables # cand.tables, Drift("HIGH", "TABLE_TARGET_SHIFT"))

Analyze(orig, cand) ==
  AnalyzeWhereClause(orig, cand) \cup AnalyzeAggregations(orig, cand)
  \cup AnalyzeJoins(orig, cand) \cup AnalyzeGroupBy(orig, cand)
  \cup AnalyzeNullHandling(orig, cand) \cup AnalyzeHavingClause(orig, cand)
  \cup AnalyzeTables(orig, cand)
=============================================================================
