-------------------------- MODULE MCCandidateJudges --------------------------
(* Fixtures of up to three rows for TLC, with two customers, NULLs, sums   *)
(* that offset each other, amounts that a tolerance or rounding swallows,  *)
(* blanks around a text, and a status in capitals.                         *)
EXTENDS CandidateJudges

CONSTANTS null, its, word    \* its: a text with an apostrophe

k1 == One
k2 == 2 * One

\* An amount in whole numbers, and a row of it.
Row(k, s, v) ==
  [customer_id |-> k, status |-> s, amount |-> IF v = null THEN null ELSE v * One]

\* An amount in hundred-thousandths, and a row of it.
Fine(k, s, v) == [customer_id |-> k, status |-> s, amount |-> v]

Tables ==
  {<<>>,
   <<Row(k1, "active", 6), Row(k2, "active", 9)>>,
   <<Row(k1, "active", 6), Row(k1, "closed", -6), Row(k2, "active", 6)>>,
   <<Row(k1, "active", 6), Row(k1, "active", 6), Row(k1, "closed", 0)>>,
   <<Row(k1, "ACTIVE", 6), Row(k2, "active", 6)>>,
   <<Row(k1, "active", null), Row(null, "active", 9), Row(k2, null, 6)>>,
   <<Row(k1, "active", 0), Row(k2, "closed ", null), Row(k1, "active", -6)>>,
   <<Fine(k1, "active", 10 * One), Fine(k1, "closed", 10)>>,
   <<Fine(k1, "active", 0), Fine(k1, "closed", 1)>>,
   <<Fine(k1, "active", 9 * One + 4), Fine(k1, "closed", 4)>>}

Plainly(active, shape, agg) ==
  [fault |-> "none", active |-> active, shape |-> shape, agg |-> agg,
   swapped |-> FALSE, open |-> FALSE, zone |-> FALSE]

Queries == {Plainly(active, "rows", "SUM") : active \in BOOLEAN}
           \cup {Plainly(active, shape, agg) : active \in BOOLEAN,
                   shape \in {"grouped", "total"}, agg \in {"SUM", "COUNT", "AVG"}}

Broken(fault) == [Plainly(TRUE, "grouped", "SUM") EXCEPT !.fault = fault]

MCCandidates ==
  Queries \cup {Broken(f) : f \in Faults}
  \cup {[q EXCEPT !.swapped = TRUE] : q \in {Plainly(TRUE, s, "SUM") : s \in {"rows", "grouped"}}}
  \cup {[Plainly(TRUE, "grouped", "SUM") EXCEPT !.open = TRUE],
        [Plainly(TRUE, "rows", "SUM") EXCEPT !.zone = TRUE, !.open = TRUE],
        [Plainly(TRUE, "grouped", "SUM") EXCEPT !.zone = TRUE, !.swapped = TRUE]}

Goldens == {Plainly(TRUE, s, "SUM") : s \in {"rows", "grouped"}} \cup {Broken("catalog")}

Test(column, name, config) == [column |-> column, name |-> name, config |-> config]

Bounds(min, max) == [min_value |-> min, max_value |-> max]

\* Declarations with strict tests, with lenient ones only, with none that is
\* understood, and no schema.yml.
Schemas ==
  {<<Test("customer_id", "not_null", null), Test("customer_id", "unique", null),
     Test("amount", "accepted_range", Bounds(0, 12 * One)),
     Test(null, "unique_combination_of_columns", [columns |-> {"customer_id", "status"}]),
     Test(null, "row_count_bounds", [min_rows |-> 1, max_rows |-> 2])>>,
   <<Test("status", "accepted_values", [values |-> {"active"}]),
     Test("status", "accepted_values", [values |-> {"active", "ACTIVE", its}]),
     Test("amount", "accepted_values", [values |-> {0, 6 * One, 9 * One, word}]),
     Test("amount", "accepted_values", [values |-> {0, 6 * One, 12 * One, 10}]),
     Test("customer_id", "relationships", [to |-> "customers"]),
     Test("amount", "expression_is_true", null)>>,
   <<Test("customer_id", "relationships", [to |-> "customers"])>>,
   <<Test("amount", "accepted_values", null), Test(null, "equal_rowcount", null)>>,
   null}

Unknown == [type |-> "freshness"]

Realistic ==
  <<NonNullOutput({"customer_id", "amount"}), UniqueKey({}),
    AcceptedRange(0, null, TRUE), NonNullOutput({}), Unknown,
    AcceptedValues("status", {"closed"}, FALSE), AcceptedValues("amount", {}, TRUE),
    AcceptedValues("amount", {6 * One, 9 * One}, FALSE),
    Relationships, SingularSql("model"), SingularSql("customers"),
    ExpectedGrain({"customer_id"})>>

SemanticSuites ==
  {<<NonNullOutput({"amount"}), RequiredPopulation, MetricValue(12 * One, null, null)>>,
   <<ExpectedGrain({"customer_id"}), RowCountBounds(1, null),
     MetricValue(0, -6 * One, 6 * One)>>,
   <<Relationships, AcceptedRange(0, 12 * One, FALSE)>>}

MCSubjects ==
  [table : Tables, parents : {null, {k1}}, golden : Goldens, schema : Schemas,
   realistic : {Realistic}, assertions : SemanticSuites,
   contract : {null, [filter |-> TRUE, grain |-> TRUE, utc |-> FALSE]}]

MCStrip(s) == IF s = "closed " THEN "closed" ELSE s
=============================================================================
