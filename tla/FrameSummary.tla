---------------------------- MODULE FrameSummary ----------------------------
(***************************************************************************)
(* What DuckDBFixtureRunner compares of two data frames.                   *)
(***************************************************************************)
EXTENDS Integers

\* A data frame: shape and names, whether it has numeric columns, the sum over
\* them, and the rows themselves, of which only equality matters.
Frame == [rows : Nat, columns : {"as_declared", "other"}, numeric : BOOLEAN,
          sum : Int, data : Nat]

Abs(n) == IF n < 0 THEN -n ELSE n

(* Same shape, and numeric columns that sum up to the same total within    *)
(* 0.001 percent; without numeric columns, the same rows.                  *)
IsEquivalent(base, mut) ==
  /\ base.rows = mut.rows /\ base.columns = mut.columns
  /\ IF base.numeric
     THEN /\ mut.numeric       \* else float() raises and is_equiv is False
          /\ IF base.sum # 0
             THEN Abs(mut.sum - base.sum) <= (Abs(base.sum) - 1) \div 100000
             ELSE mut.sum = 0
     ELSE mut.data = base.data
=============================================================================
