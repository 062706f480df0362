---------------------------- MODULE ResultFrames ----------------------------
(***************************************************************************)
(* Fixture tables, the queries put to them, the data frames that come      *)
(* back, and what is compared of two frames: by the two-engine benchmark,  *)
(* by the gym's evaluator (gym/evaluator.py) and the agent benchmark's     *)
(* oracle, and by the mutation runner (FrameSummary).                      *)
(*                                                                         *)
(* Numbers are counted in hundred-thousandths, one digit more than the gym *)
(* looks at.  A query is a record of                                       *)
(*   fault    what DuckDB raises for it, "none" if it runs                 *)
(*   active   whether it has WHERE status = 'active'                       *)
(*   shape    "rows": the three columns; "grouped": customer_id and        *)
(*            agg(amount) AS amount for each; "total": agg(amount) alone   *)
(*   agg      the aggregate function                                       *)
(*   swapped  whether it lists its columns the other way round             *)
(*   open     whether its text ends in a semicolon or a comment, so that   *)
(*            it runs, but not within the brackets of another query        *)
(*   zone     whether its text has "time zone" in it, and not "utc"        *)
(***************************************************************************)
EXTENDS Integers, Sequences, FiniteSets, SequencesExt, FrameSummary

CONSTANTS
  Null,
  NumericColumns,  \* "amount" is a number, customer_id may be
  ExactIntegers,   \* whether pandas allows whole numbers no tolerance (2.2 on)
  Strip(_)         \* a text without the blanks around it

Columns == {"customer_id", "status", "amount"}

ASSUME ColumnsAssumption ==
  NumericColumns \in {{"amount"}, {"amount", "customer_id"}} /\ ExactIntegers \in BOOLEAN

One == 100000

Faults == {"parse", "binder", "catalog", "runtime"}

Query == [fault : Faults \cup {"none"}, active : BOOLEAN,
          shape : {"rows", "grouped", "total"}, agg : {"SUM", "COUNT", "AVG"},
          swapped : BOOLEAN, open : BOOLEAN, zone : BOOLEAN]

ColumnsOf(q) ==
  CASE q.shape = "rows" -> Columns
    [] q.shape = "grouped" -> {"customer_id", "amount"}
    [] q.shape = "total" -> {"amount"}

\* list(df.columns)
Listed(q) ==
  LET names == CASE q.shape = "rows" -> <<"customer_id", "status", "amount">>
                 [] q.shape = "grouped" -> <<"customer_id", "amount">>
                 [] q.shape = "total" -> <<"amount">>
  IN  IF q.swapped THEN Reverse(names) ELSE names

\* Tables, and the rows of frames: sequences of functions on columns.
Cells(rows, column) == {rows[i][column] : i \in DOMAIN rows}

\* The elements of s at the positions P, in order.
Picked(s, P) ==
  LET pick[i \in 0..Len(s)] ==
        IF i = 0 THEN <<>>
        ELSE IF i \in P THEN Append(pick[i - 1], s[i]) ELSE pick[i - 1]
  IN  pick[Len(s)]

\* Of the rows at P, those that are not NULL in a column.
Known(rows, P, c) == {i \in P : rows[i][c] # Null}

Total(rows, P, c) ==
  LET sum[i \in 0..Len(rows)] ==
        IF i = 0 THEN 0
        ELSE IF i \in Known(rows, P, c) THEN sum[i - 1] + rows[i][c] ELSE sum[i - 1]
  IN  sum[Len(rows)]

\* Cut off after the fifth digit, which is not 0 if there are more.
Average(total, n) ==
  LET digits == total \div n
  IN  IF total % n # 0 /\ digits % 10 = 0 THEN digits + 1 ELSE digits

\* Of the amounts that are not NULL.
Aggregate(agg, rows, P) ==
  LET known == Known(rows, P, "amount")
      total == Total(rows, P, "amount")
  IN  CASE agg = "COUNT" -> Cardinality(known) * One
        [] agg # "COUNT" /\ known = {} -> Null
        [] agg = "SUM" /\ known # {} -> total
        [] agg = "AVG" /\ known # {} -> Average(total, Cardinality(known))

Kept(q, table) == {i \in DOMAIN table : q.active => table[i].status = "active"}

\* The rows, with the groups in the order of keys.
RowsInOrder(q, table, keys) ==
  LET kept == Kept(q, table)
  IN  CASE q.shape = "rows" -> Picked(table, kept)
        [] q.shape = "total" -> <<[amount |-> Aggregate(q.agg, table, kept)]>>
        [] q.shape = "grouped" ->
             [i \in DOMAIN keys |->
                [customer_id |-> keys[i],
                 amount |-> Aggregate(q.agg, table,
                              {p \in kept : table[p].customer_id = keys[i]})]]

\* Which columns pandas holds as floats: those of fractions, those of whole
\* numbers when one is missing, and DuckDB's totals and averages always.
Floats(q, table) ==
  {c \in ColumnsOf(q) \cap NumericColumns :
     IF c = "amount" /\ q.shape # "rows" THEN q.agg # "COUNT"
     ELSE \/ \E i \in Kept(q, table) : table[i][c] = Null
          \/ \E i \in DOMAIN table : table[i][c] # Null /\ table[i][c] % One # 0}

ResultWith(q, table, keys) ==
  IF q.fault # "none"
  THEN [fault |-> q.fault, columns |-> {}, listed |-> <<>>, rows |-> <<>>,
        floats |-> {}, open |-> q.open]
  ELSE [fault |-> "none", columns |-> ColumnsOf(q), listed |-> Listed(q),
        rows |-> RowsInOrder(q, table, keys), floats |-> Floats(q, table),
        open |-> q.open]

Keys(q, table) == {table[i].customer_id : i \in Kept(q, table)}

(* Groups come in any order; one order will do where it is not looked at.  *)
Execute(q, table) ==
  {ResultWith(q, table, keys) : keys \in SetToSeqs(Keys(q, table))}

Answer(q, table) == ResultWith(q, table, SetToSeq(Keys(q, table)))
-----------------------------------------------------------------------------
\* math.isclose with rtol 1e-5; atol 1e-8 is less than a hundred-thousandth.
IsClose(x, y) ==
  LET larger == IF Abs(x) > Abs(y) THEN Abs(x) ELSE Abs(y)
  IN  Abs(x - y) <= larger \div 100000

(* assert_frame_equal(base, mut, check_dtype=False): the same columns in   *)
(* the same order and, row by row, the same cells, or numbers that are     *)
(* close.                                                                  *)
SameFrame(f, g) ==
  /\ f.listed = g.listed /\ Len(f.rows) = Len(g.rows)
  /\ \A i \in DOMAIN f.rows, c \in f.columns :
       LET x == f.rows[i][c]  y == g.rows[i][c]
       IN  \/ x = y
           \/ /\ c \in NumericColumns /\ x # Null /\ y # Null
              /\ ExactIntegers => c \in f.floats \cap g.floats
              /\ IsClose(x, y)

\* round(_, 4); a half, which the binary float decides, goes up.
Rounded(x) == ((x + 5) \div 10) * 10

\* canonical_row, by name of column
Canonical(row) ==
  [c \in DOMAIN row |-> IF row[c] = Null THEN Null
                        ELSE IF c \in NumericColumns THEN Rounded(row[c])
                        ELSE Strip(row[c])]

CanonicalRows(rows) == [i \in DOMAIN rows |-> Canonical(rows[i])]

\* Mutant: the rows are not sorted first.
MatchUnsorted(cand, true) ==
  \/ cand.rows = <<>> /\ true.rows = <<>>
  \/ /\ cand.rows # <<>> /\ cand.columns = true.columns
     /\ CanonicalRows(cand.rows) = CanonicalRows(true.rows)

(* _compare_dataframes: nothing on both sides, or the same rows under the  *)
(* same names, in any order of rows and columns.                           *)
CompareDataframes(cand, true) ==
  \/ cand.rows = <<>> /\ true.rows = <<>>
  \/ /\ cand.rows # <<>> /\ true.rows # <<>>
     /\ Len(cand.rows) = Len(true.rows)
     /\ Cardinality(cand.columns) = Cardinality(true.columns)
     /\ ToBag(CanonicalRows(cand.rows)) = ToBag(CanonicalRows(true.rows))

\* What the mutation runner computes of a frame.
Summary(f) ==
  LET total(c) == IF c \in NumericColumns \cap f.columns
                  THEN Total(f.rows, DOMAIN f.rows, c) ELSE 0
  IN  [rows |-> Len(f.rows), columns |-> f.listed, numeric |-> TRUE,
       sum |-> total("amount") + total("customer_id"), data |-> 0]
=============================================================================
