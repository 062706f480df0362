--------------------------- MODULE MCSemanticGym ---------------------------
(* A small corpus for TLC: two families, one of which hashes into train,   *)
(* and files that stop at each of the generator's gates.                   *)
EXTENDS SemanticGym

CONSTANTS revenue, churn, finance, growth, p1, p2, out1, out2, none

MCAssignSplit == [f \in Families |-> IF f = finance THEN "train" ELSE "holdout"]

Mutated == {"FILTER_DROP", "AGGREGATION_SWAP", "GRAIN_DROP"}

\* A metric file with three mutants; the fixture tells two of them apart.
Good(metric, family, fixture, chosen) ==
  [kind |-> "contract", metric |-> metric, family |-> family,
   fixture |-> fixture, chosen |-> chosen,
   features |-> {"where", "aggregate", "grain"}, same_text |-> {},
   outcome |-> [t \in MutationTypes |->
                  IF t = "FILTER_DROP" THEN "differs"
                  ELSE IF t = "GRAIN_DROP" THEN "empty" ELSE "differs"],
   violates |-> {"FILTER_DROP", "GRAIN_DROP"}]

MCContents ==
  {Good(revenue, finance, "ok", "passes"),
   [Good(churn, finance, "none", "passes") EXCEPT
      !.same_text = {"FILTER_DROP"}, !.violates = Mutated],
   Good(churn, growth, "ok", "passes"), Good(churn, finance, "ok", "raises"),
   [Good(churn, growth, "ok", "passes") EXCEPT
      !.outcome = [t \in MutationTypes |-> IF t = "GRAIN_DROP" THEN "raises" ELSE "equal"],
      !.violates = MutationTypes],
   [Good(revenue, finance, "ok", "passes") EXCEPT !.chosen = "fails"]}
=============================================================================
