-------------------------- MODULE MCReplayPipeline --------------------------
(* One metric; a loose contract that lets a query without the filter pass, *)
(* a tight one that does not, and a file that fails to load.               *)
EXTENDS ReplayPipeline

CONSTANTS revenue, ghost, loose, tight, filtered, bare, v1, v2, none

MCViolations ==
  [c \in Contracts |->
     [s \in Sqls |-> IF c = tight /\ s = bare THEN 1 ELSE 0]]

MCHash ==
  [b \in 1 .. MaxBoots |-> [s \in Sqls |-> IF s = bare THEN b ELSE -b]]

MCReplay ==
  [c \in Contracts |->
     [s \in Sqls |->
        [outcome |-> "report",
         survivors |-> IF s = bare THEN {"GRAIN_DROP"}
                       ELSE IF c = loose THEN {"BOUNDARY_SHIFT"} ELSE {}]]]

InFile(stem, top, m, c, v) ==
  [stem |-> stem, top |-> top, metric |-> m, contract |-> c, version |-> v]

MCDirs ==
  {{InFile(revenue, TRUE, revenue, loose, v1)},
   {InFile(revenue, FALSE, revenue, tight, v2)},
   {InFile(revenue, TRUE, none, loose, v1),
    InFile("contract", FALSE, revenue, tight, v1)}}
=============================================================================
