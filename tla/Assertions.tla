----------------------------- MODULE Assertions -----------------------------
(***************************************************************************)
(* The assertions (assertions/structural.py, assertions/semantic.py), each *)
(* with its two ways to be evaluated: as a query around the candidate, and *)
(* on the candidate's data frame; and the two sources of suites, the       *)
(* registry's YAML (assertions/registry.py) and dbt's schema.yml           *)
(* (adapters/dbt_adapter.py).                                              *)
(*                                                                         *)
(* A database is a record: the fixture, and the keys of the parent table   *)
(* customers, Null if there is no such table.                              *)
(***************************************************************************)
EXTENDS ResultFrames

CONSTANT Apostrophes   \* texts with an apostrophe

NonNullOutput(columns) == [type |-> "not_null", columns |-> columns]
UniqueKey(columns) == [type |-> "unique_key", columns |-> columns]
ExpectedGrain(columns) == [type |-> "expected_grain", columns |-> columns]
RowCountBounds(min, max) ==
  [type |-> "row_count_bounds", min_rows |-> min, max_rows |-> max]
AcceptedRange(min, max, inclusive) ==
  [type |-> "accepted_range", column |-> "amount", min_value |-> min,
   max_value |-> max, inclusive |-> inclusive]
AcceptedValues(column, values, quote) ==
  [type |-> "accepted_values", column |-> column, values |-> values, quote |-> quote]
Relationships == [type |-> "relationships", from_column |-> "customer_id"]
\* "model": the total of each customer_id is not negative; "customers": the
\* parent table has no NULL key.
SingularSql(of) == [type |-> "singular_sql_test", of |-> of]
RequiredPopulation == [type |-> "required_population"]
MetricValue(expected, min, max) ==
  [type |-> "metric_value", expected_value |-> expected, min_value |-> min,
   max_value |-> max]

Types == {"not_null", "unique_key", "row_count_bounds", "accepted_range",
          "accepted_values", "relationships", "singular_sql_test",
          "required_population", "metric_value", "expected_grain"}

\* Those that evaluate_df is defined for.
HasEvaluateDf(a) ==
  a.type \notin {"required_population", "metric_value", "expected_grain"}
-----------------------------------------------------------------------------
(* What DuckDB raises for a query around one that was answered with ans,   *)
(* and that uses the columns wanted of it: WITH target_model AS ({sql}).   *)
Raised(ans, wanted) ==
  IF ans.open THEN "parse"
  ELSE IF ans.fault # "none" THEN ans.fault
  ELSE IF wanted \subseteq ans.columns THEN "none" ELSE "binder"

Runs(ans, wanted) == Raised(ans, wanted) = "none"

\* Of some assertions a binder's error means that the column is missing.
Skipped(ans, wanted) == Raised(ans, wanted) = "binder"

NonNull(rows, columns) == \A i \in DOMAIN rows, c \in columns : rows[i][c] # Null

Unique(rows, columns) ==
  \A i, j \in DOMAIN rows : i < j => \E c \in columns : rows[i][c] # rows[j][c]

\* A query that names no column is no SQL, and an error is a failure.
EvaluateNonNullOutput(a, ans) ==
  a.columns # {} /\ Runs(ans, a.columns) /\ NonNull(ans.rows, a.columns)

EvaluateUniqueKey(a, ans) ==
  a.columns # {} /\ Runs(ans, a.columns) /\ Unique(ans.rows, a.columns)

EvaluateRowCountBounds(a, ans) ==
  /\ Runs(ans, {})
  /\ Len(ans.rows) >= a.min_rows
  /\ a.max_rows = Null \/ Len(ans.rows) <= a.max_rows

WithinRange(a, v) ==
  /\ a.min_value = Null \/ IF a.inclusive THEN v >= a.min_value ELSE v > a.min_value
  /\ a.max_value = Null \/ IF a.inclusive THEN v <= a.max_value ELSE v < a.max_value

EvaluateAcceptedRange(a, ans) ==
  \/ Skipped(ans, {a.column})
  \/ /\ Runs(ans, {a.column})
     /\ \A v \in Cells(ans.rows, a.column) \ {Null} : WithinRange(a, v)

\* The values that are no numbers, or texts anyway in a column of texts.
Texts(a) ==
  IF a.column \in NumericColumns THEN {v \in a.values : v \notin Int} ELSE a.values

\* Without quotes a text is the name of a column, which there is not.
NotQuoted(a) == ~a.quote /\ Texts(a) # {}

\* With quotes it cannot be converted for a comparison with a number.
Inconvertible(a) == a.quote /\ a.column \in NumericColumns /\ Texts(a) # {}

\* The list of literals is SQL.
Parses(a) == a.values # {} /\ a.values \cap Apostrophes = {}

EvaluateAcceptedValues(a, ans) ==
  LET values == Cells(ans.rows, a.column) \ {Null}
  IN  /\ Parses(a)
      /\ \/ Skipped(ans, {a.column})
         \/ /\ Runs(ans, {a.column})
            /\ CASE NotQuoted(a) -> TRUE
                 [] Inconvertible(a) -> values = {}
                 [] OTHER -> values \subseteq a.values

EvaluateRelationships(a, ans, db) ==
  \/ db.parents = Null
  \/ Skipped(ans, {a.from_column})
  \/ /\ Runs(ans, {a.from_column})
     /\ Cells(ans.rows, a.from_column) \ {Null} \subseteq db.parents

CustomerTotals(rows) ==
  {Aggregate("SUM", rows, {i \in DOMAIN rows : rows[i].customer_id = k}) :
     k \in Cells(rows, "customer_id")}

(* A test of another table does not look at the candidate; a missing table *)
(* is a reason to skip as well, the candidate's or the test's.             *)
EvaluateSingularSql(a, ans, db) ==
  IF a.of = "model"
  THEN \/ Raised(ans, {"customer_id", "amount"}) \in {"binder", "catalog"}
       \/ /\ Runs(ans, {"customer_id", "amount"})
          /\ \A t \in CustomerTotals(ans.rows) \ {Null} : t >= 0
  ELSE db.parents = Null \/ Null \notin db.parents

(* required_filter is status = 'active', join_key customer_id.  A status   *)
(* among the candidate's columns makes the filter ambiguous: an error.     *)
EvaluateRequiredPopulation(ans, db) ==
  /\ Runs(ans, {"customer_id"}) /\ "status" \notin ans.columns
  /\ \A i \in DOMAIN db.table :
       db.table[i].customer_id \in Cells(ans.rows, "customer_id") \ {Null} =>
         db.table[i].status \in {"active", Null}

\* The tolerance is a hundredth of a percent of what is expected.
AsExpected(a, total) ==
  /\ a.expected_value # Null =>
       Abs(total - a.expected_value) <= Abs(a.expected_value) \div 10000
  /\ a.min_value # Null => total >= a.min_value
  /\ a.max_value # Null => total <= a.max_value

EvaluateMetricValue(a, ans) ==
  Runs(ans, {"amount"}) /\ AsExpected(a, Total(ans.rows, DOMAIN ans.rows, "amount"))

\* assertion.evaluate(con, sql)
Evaluate(a, ans, db) ==
  CASE a.type = "not_null" -> EvaluateNonNullOutput(a, ans)
    [] a.type \in {"unique_key", "expected_grain"} -> EvaluateUniqueKey(a, ans)
    [] a.type = "row_count_bounds" -> EvaluateRowCountBounds(a, ans)
    [] a.type = "accepted_range" -> EvaluateAcceptedRange(a, ans)
    [] a.type = "accepted_values" -> EvaluateAcceptedValues(a, ans)
    [] a.type = "relationships" -> EvaluateRelationships(a, ans, db)
    [] a.type = "singular_sql_test" -> EvaluateSingularSql(a, ans, db)
    [] a.type = "required_population" -> EvaluateRequiredPopulation(ans, db)
    [] OTHER -> EvaluateMetricValue(a, ans)
-----------------------------------------------------------------------------
\* A query for all of a view of the frame.
SelectAll(f) == [f EXCEPT !.open = FALSE]

NonNullOutputDf(a, f) == NonNull(f.rows, a.columns \cap f.columns)

UniqueKeyDf(a, f) ==
  a.columns # {} /\ a.columns \subseteq f.columns => Unique(f.rows, a.columns)

RowCountBoundsDf(a, f) == EvaluateRowCountBounds(a, SelectAll(f))

\* Mutant: the bounds are never included.
AcceptedRangeDfStrict(a, f) ==
  a.column \in f.columns =>
    \A v \in Cells(f.rows, a.column) \ {Null} :
      WithinRange([a EXCEPT !.inclusive = FALSE], v)

AcceptedRangeDf(a, f) ==
  a.column \in f.columns =>
    \A v \in Cells(f.rows, a.column) \ {Null} : WithinRange(a, v)

(* Compared as texts: the float 6.0 is not the value 6.                    *)
AcceptedValuesDf(a, f) ==
  a.column \in f.columns =>
    \A v \in Cells(f.rows, a.column) \ {Null} :
      v \in a.values /\ (a.column \in f.floats => v % One # 0)

\* The frame is registered as a view and queried.
RelationshipsDf(a, f, db) ==
  a.from_column \in f.columns => EvaluateRelationships(a, SelectAll(f), db)

SingularSqlDf(a, f, db) == EvaluateSingularSql(a, SelectAll(f), db)

\* assertion.evaluate_df(df)
EvaluateDf(a, f, db) ==
  CASE a.type = "not_null" -> NonNullOutputDf(a, f)
    [] a.type = "unique_key" -> UniqueKeyDf(a, f)
    [] a.type = "row_count_bounds" -> RowCountBoundsDf(a, f)
    [] a.type = "accepted_range" -> AcceptedRangeDf(a, f)
    [] a.type = "accepted_values" -> AcceptedValuesDf(a, f)
    [] a.type = "relationships" -> RelationshipsDf(a, f, db)
    [] a.type = "singular_sql_test" -> SingularSqlDf(a, f, db)
-----------------------------------------------------------------------------
(* AssertionSuite.from_yaml_file: an entry of no known type adds nothing,  *)
(* and an expected value of zero is taken for none.                        *)
FromYamlFile(entries) ==
  LET known == Picked(entries, {i \in DOMAIN entries : entries[i].type \in Types})
  IN  [i \in DOMAIN known |->
         IF known[i].type = "metric_value" /\ known[i].expected_value = 0
         THEN [known[i] EXCEPT !.expected_value = Null] ELSE known[i]]

(* A test of schema.yml, declared of a column (Null: of the model) by its  *)
(* name alone or with arguments; what is not understood is skipped.        *)
ColumnTest(t) ==
  CASE t.name = "not_null" -> <<NonNullOutput({t.column})>>
    [] t.name = "unique" -> <<UniqueKey({t.column})>>
    [] t.name = "accepted_values" /\ t.config # Null ->
         <<AcceptedValues(t.column, t.config.values, TRUE)>>
    [] t.name = "accepted_range" /\ t.config # Null ->
         <<AcceptedRange(t.config.min_value, t.config.max_value, TRUE)>>
    [] t.name = "relationships" /\ t.config # Null -> <<Relationships>>
    [] OTHER -> <<>>

ModelTest(t) ==
  CASE t.name = "unique_combination_of_columns" /\ t.config # Null ->
         <<UniqueKey(t.config.columns)>>
    [] t.name = "row_count_bounds" /\ t.config # Null ->
         <<RowCountBounds(t.config.min_rows, t.config.max_rows)>>
    [] OTHER -> <<>>

Parsed(t) == IF t.column = Null THEN ModelTest(t) ELSE ColumnTest(t)

(* parse_schema_yml: a suite is never empty.                               *)
ParseSchemaYml(tests) ==
  LET suite == FlattenSeq([i \in DOMAIN tests |-> Parsed(tests[i])])
  IN  IF suite = <<>> THEN <<RowCountBounds(1, Null)>> ELSE suite
=============================================================================
