----------------------------- MODULE MCFirewall -----------------------------
(* Two versions of one metric's contract and a malformed one; directories  *)
(* with one well-named file, one file in its own subdirectory, one with a   *)
(* date for its version, and two files for the same metric.                *)
EXTENDS Firewall

CONSTANTS revenue, ghost, loose, tight, broken, filtered, bare, garbled, none,
          v1, v2, date, float

MCViolations ==
  [c \in Contracts |->
     [s \in Sqls |-> IF c = tight /\ s = bare THEN 2 ELSE 0]]

InFile(stem, top, c, v) ==
  [stem |-> stem, top |-> top, metric |-> revenue, contract |-> c, version |-> v]

MCHash ==
  [b \in 1 .. MaxBoots |-> [s \in Sqls |-> IF s = bare THEN b ELSE -b]]

MCDirs ==
  {{InFile(revenue, TRUE, tight, v2)},
   {InFile("contract", FALSE, loose, v1)},
   {InFile(revenue, TRUE, tight, date)},
   {InFile(revenue, TRUE, loose, v1), InFile("contract", FALSE, tight, v1)}}
=============================================================================
