--------------------------- MODULE MCMutationBench ---------------------------
(* A small corpus for TLC: queries with two mutants each, on a fixture   *)
(* whose answers are the four that the comparison tells apart (the same    *)
(* total, a total that is a rounding error away, another total, another    *)
(* shape) or an error.                                                     *)
EXTENDS MutationBench

CONSTANTS not_null, population, error

Res(n, numeric, sum, data) ==
  [rows |-> n, columns |-> "as_declared", numeric |-> numeric,
   sum |-> sum, data |-> data]

Base == Res(2, TRUE, 300000, 1)
Zero == Res(2, TRUE, 0, 2)
Text == Res(2, FALSE, 0, 3)

MCResults == {Base, Zero, Text, Res(2, TRUE, 300002, 4), Res(2, TRUE, 300003, 5),
              Res(3, TRUE, 300000, 6)}

Wanted == {"FILTER_DROP", "AGGREGATION_SWAP"}

MCModel(state, base, a, b, fa, fb, std, sem) ==
  [state |-> state, features |-> {"where", "aggregate"}, baseline |-> base,
   mutated |-> [t \in MutationTypes |->
                  IF t = "FILTER_DROP" THEN a
                  ELSE IF t = "AGGREGATION_SWAP" THEN b ELSE error],
   fails |-> [t \in MutationTypes |->
                IF t = "FILTER_DROP" THEN fa
                ELSE IF t = "AGGREGATION_SWAP" THEN fb ELSE {}],
   suites |-> [s \in SuiteNames |-> IF s = "standard" THEN std ELSE sem]]

\* Models to benchmark: any answers to a compared query.
Measured ==
  {MCModel("ok", base, a, b, fa, fb, {not_null}, sem) :
     base \in {Base, Zero, Text, error}, a, b \in MCResults \cup {error},
     fa, fb \in SUBSET Assertions, sem \in {{population}, Assertions}}

\* Models whose place in the corpus matters.
Passed == MCModel("no_files", Base, Base, Base, {}, {}, {}, {})
Torn == MCModel("unreadable", Base, Base, Base, {}, {}, {}, {})
Bare == [MCModel("ok", Base, Base, Base, {}, {}, {}, {}) EXCEPT !.features = {}]

MCCorpora == {<<m>> : m \in Measured}
             \cup {<<Passed, m, Bare>> : m \in {n \in Measured : n.baseline = Zero}}
             \cup {<<Bare, Torn>>, <<Passed>>, <<>>}
=============================================================================
