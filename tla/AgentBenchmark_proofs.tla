------------------------- MODULE AgentBenchmark_proofs -------------------------
(***************************************************************************)
(* Proofs about AgentBenchmark for every list of scenarios, number of      *)
(* rollouts, grading, agent and pair of limits.                            *)
(***************************************************************************)
EXTENDS AgentBenchmark, TLAPS, SequenceTheorems, FiniteSetTheorems

\* The schedule: as many rounds as there are scenarios and rollouts, each of
\* them with a scenario.
LEMMA ScheduleType ==
  /\ Len(Scenarios) \in Nat \ {0} /\ DOMAIN Scenarios = 1 .. Len(Scenarios)
  /\ Rounds \in Nat \ {0}
  /\ \A i \in Nat \ {0} : Turn(i) \in DOMAIN Scenarios
<1>1. Len(Scenarios) \in Nat \ {0} /\ DOMAIN Scenarios = 1 .. Len(Scenarios)
  BY AgentAssumption, LenProperties, EmptySeq
<1>2. Rollouts \in Nat \ {0}
  BY AgentAssumption
<1>3. Rounds \in Nat \ {0}
  BY <1>1, <1>2 DEF Rounds
<1>4. ASSUME NEW i \in Nat \ {0} PROVE Turn(i) \in DOMAIN Scenarios
  <2> DEFINE a == i - 1  n == Len(Scenarios)
  <2>1. a \in Nat /\ n \in Nat \ {0}
    BY <1>1
  <2> HIDE DEF a, n
  <2>2. a % n \in 0 .. n - 1
    BY <2>1
  <2>3. (a % n) + 1 \in 1 .. n
    BY <2>1, <2>2
  <2> QED
    BY <1>1, <2>3 DEF Turn, a, n
<1> QED
  BY <1>1, <1>3, <1>4

\* The types of what the process holds, of what is on disk, and of the rest.
LiveOK ==
  /\ phase \in {"idle", "blind", "governed", "score", "artifacts"}
  /\ config \in Configs \cup {None} /\ registry \in Contracts \cup {None}
  /\ phase # "idle" => config # None /\ registry # None
  /\ iteration \in Nat /\ tool_calls \in Nat /\ next_out \in Nat
  /\ blind \in Seq(Trajectory) /\ gov \in Seq(Trajectory)

DiskOK ==
  /\ scorecard # None =>
       scorecard \in [blind : Seq(DOMAIN Scenarios), governed : Seq(DOMAIN Scenarios)]
  /\ artifacts \in [Sqls -> {"absent", "empty", "whole"}]
  /\ file \in Seq(Trajectory) \cup {None} /\ torn \in BOOLEAN

RestOK ==
  /\ contracts \in Contracts
  /\ report # None =>
       /\ report.under \in Contracts /\ report.lines \in Seq(Trajectory)
       /\ report.unreplayable \in 0..Len(report.lines)

\* Together they are the type invariant.
LEMMA TypeParts == TypeOK <=> LiveOK /\ DiskOK /\ RestOK /\ Len(gov) <= Rounds
BY DEF TypeOK, LiveOK, DiskOK, RestOK

\* What a grade of a trajectory is.
LEMMA GradeType ==
  ASSUME NEW c \in Contracts, NEW scenario \in DOMAIN Scenarios,
         NEW sql \in Sqls \cup {None}
  PROVE  /\ GradeOf(c, scenario, sql) \in Grades
         /\ sql = None => GradeOf(c, scenario, sql) = Ungraded
<1>1. Ungraded \in Grades
  BY DEF Ungraded, Grades
<1> QED
  BY <1>1, AgentAssumption DEF GradeOf

\* The scenario that is asked next is the one whose turn it is.
LEMMA AskedType ==
  ASSUME LiveOK
  PROVE  /\ Asked \in DOMAIN Scenarios /\ Asked = Turn(Len(gov) + 1)
         /\ Len(gov) \in Nat /\ Len(blind) \in Nat
         /\ DOMAIN gov = 1 .. Len(gov) /\ DOMAIN blind = 1 .. Len(blind)
<1>1. /\ Len(gov) \in Nat /\ Len(blind) \in Nat
      /\ DOMAIN gov = 1 .. Len(gov) /\ DOMAIN blind = 1 .. Len(blind)
  BY LenProperties DEF LiveOK
<1>2. (Len(gov) + 1) - 1 = Len(gov)
  BY <1>1
<1>3. Asked = Turn(Len(gov) + 1)
  BY <1>2 DEF Asked, Turn
<1>4. Len(gov) + 1 \in Nat \ {0}
  BY <1>1
<1> QED
  BY <1>1, <1>3, <1>4, ScheduleType

\* A trajectory as the benchmark makes them, about the scenario just asked.
Fresh(t) ==
  /\ t \in Trajectory /\ t.scenario = Asked
  /\ t.sql = None => t.grade = Ungraded

\* Whatever the governed agent comes to is such a trajectory ...
LEMMA GovernedFresh ==
  ASSUME LiveOK, phase # "idle", NEW sql \in Sqls \cup {None}, NEW calls \in Nat,
         NEW abstained \in BOOLEAN, NEW ceiling \in BOOLEAN
  PROVE  Fresh(GovernedTrajectory(sql, calls, abstained, ceiling))
<1>1. registry \in Contracts
  BY DEF LiveOK
<1> DEFINE grade == GradeOf(registry, Asked, sql)
           appropriate == abstained /\ Scenarios[Asked] = "ABSTAIN"
           t == [scenario |-> Asked, agent_type |-> "governed", sql |-> sql,
                 grade |-> grade, calls |-> calls, abstained |-> abstained,
                 appropriate |-> appropriate, ceiling |-> ceiling]
<1>2. Asked \in DOMAIN Scenarios
  BY AskedType
<1>3. grade \in Grades /\ (sql = None => grade = Ungraded)
  BY <1>1, <1>2, GradeType
<1>4. appropriate \in BOOLEAN
  OBVIOUS
<1>5. GovernedTrajectory(sql, calls, abstained, ceiling) = t
  BY DEF GovernedTrajectory
<1> HIDE DEF grade, appropriate
<1>6. t \in Trajectory
  BY <1>2, <1>3, <1>4 DEF Trajectory
<1>7. t.scenario = Asked /\ (t.sql = None => t.grade = Ungraded)
  BY <1>3
<1> QED
  BY <1>5, <1>6, <1>7 DEF Fresh

\* ... and so is what the blind agent does.
LEMMA BlindFresh ==
  ASSUME LiveOK, phase # "idle"
  PROVE  Fresh(BlindTrajectory)
<1>1. registry \in Contracts /\ FlawedSql \in Sqls \cup {None}
  BY AgentAssumption DEF LiveOK
<1>2. Asked \in DOMAIN Scenarios
  BY AskedType
<1> DEFINE grade == GradeOf(registry, Asked, FlawedSql)
           t == [scenario |-> Asked, agent_type |-> "blind", sql |-> FlawedSql,
                 grade |-> grade, calls |-> 0, abstained |-> FALSE,
                 appropriate |-> FALSE, ceiling |-> FALSE]
<1>3. grade \in Grades /\ (FlawedSql = None => grade = Ungraded)
  BY <1>1, <1>2, GradeType
<1>4. BlindTrajectory = t
  BY DEF BlindTrajectory
<1> HIDE DEF grade
<1>5. t \in Trajectory /\ t.scenario = Asked /\ (t.sql = None => t.grade = Ungraded)
  BY <1>1, <1>2, <1>3 DEF Trajectory
<1> QED
  BY <1>4, <1>5 DEF Fresh

Finishes ==
  \/ RunOut \/ MockRun \/ AnswerAbstain
  \/ \E sql \in Sqls \cup {None} : AnswerSql(sql)

\* However the governed agent ends, it ends with a fresh trajectory.
LEMMA FinishesFresh ==
  ASSUME LiveOK, Finishes
  PROVE  phase = "governed" /\ \E t \in Trajectory : Fresh(t) /\ Finish(t)
<1>1. phase = "governed" /\ tool_calls \in Nat
  BY DEF LiveOK, Finishes, RunOut, MockRun, AnswerAbstain, AnswerSql
<1>2. CASE RunOut
  <2> DEFINE ceiling == iteration < config.max_iterations
  <2>1. ceiling \in BOOLEAN
    OBVIOUS
  <2>2. Finish(GovernedTrajectory(None, tool_calls, FALSE, ceiling))
    BY <1>2 DEF RunOut
  <2> HIDE DEF ceiling
  <2> QED
    BY <1>1, <2>1, <2>2, GovernedFresh DEF Fresh
<1>3. CASE MockRun
  <2>1. CASE Scenarios[Asked] = "ABSTAIN"
    BY <1>1, <1>3, <2>1, GovernedFresh DEF MockRun, Fresh
  <2>2. CASE Scenarios[Asked] # "ABSTAIN"
    <3>1. GoldenSql[Asked] \in Sqls
      BY AskedType, AgentAssumption
    <3> QED
      BY <1>1, <1>3, <2>2, <3>1, GovernedFresh DEF MockRun, Fresh
  <2> QED
    BY <2>1, <2>2
<1>4. CASE AnswerAbstain
  BY <1>1, <1>4, GovernedFresh DEF AnswerAbstain, Fresh
<1>5. ASSUME NEW sql \in Sqls \cup {None}, AnswerSql(sql)
      PROVE  \E t \in Trajectory : Fresh(t) /\ Finish(t)
  BY <1>1, <1>5, GovernedFresh DEF AnswerSql, Fresh
<1> QED
  BY <1>1, <1>2, <1>3, <1>4, <1>5 DEF Finishes
\* The steps there are; each ends the process, leaves its memory alone, or
\* is one of those that write to it.
LEMMA Steps ==
  ASSUME [Next]_vars
  PROVE  \/ Start \/ RunBlind \/ Finishes \/ CallTool
         \/ WriteScorecard \/ SaveArtifact
         \/ Exit /\ UNCHANGED rest /\ (RunRaises \/ ExportLines \/ Kill)
         \/ UNCHANGED live
            /\ (ReplayTrajectories \/ UNCHANGED vars
                \/ \E c \in Contracts : ChangeContracts(c))
BY DEF Next, LiveStep, Finishes, RunRaises, ExportLines, Kill, ReplayTrajectories,
       ChangeContracts, vars
-----------------------------------------------------------------------------
(* Types and the schedule.                                                 *)

\* The memory keeps its types.
LEMMA LiveType ==
  ASSUME LiveOK, RestOK, [Next]_vars
  PROVE  LiveOK'
<1>1. CASE Start
  <2>1. config' # None /\ registry' # None /\ registry' \in Contracts
    BY <1>1, AgentAssumption DEF Start, RestOK
  <2> QED
    BY <1>1, <2>1 DEF Start, LiveOK
<1>2. CASE RunBlind
  <2>1. Fresh(BlindTrajectory)
    BY <1>2, BlindFresh DEF RunBlind
  <2>2. blind' \in Seq(Trajectory)
    BY <1>2, <2>1, AppendProperties DEF RunBlind, Fresh, LiveOK
  <2> QED
    BY <1>2, <2>2 DEF RunBlind, LiveOK
<1>3. CASE Finishes
  <2>1. PICK t \in Trajectory : Fresh(t) /\ Finish(t)
    BY <1>3, FinishesFresh
  <2>2. phase = "governed" /\ phase' \in {"blind", "score"}
    BY <1>3, <2>1, FinishesFresh DEF Finish
  <2>3. gov' \in Seq(Trajectory)
    BY <2>1, AppendProperties DEF Finish, LiveOK
  <2> QED
    BY <2>1, <2>2, <2>3 DEF Finish, LiveOK
<1>4. CASE CallTool
  BY <1>4 DEF CallTool, LiveOK
<1>5. CASE WriteScorecard
  BY <1>5 DEF WriteScorecard, LiveOK
<1>6. CASE SaveArtifact
  BY <1>6 DEF SaveArtifact, LiveOK
<1>7. CASE Exit
  BY <1>7 DEF Exit, LiveOK
<1>8. CASE UNCHANGED live
  BY <1>8 DEF live, LiveOK
<1> QED
  BY <1>1, <1>2, <1>3, <1>4, <1>5, <1>6, <1>7, <1>8, Steps

\* A trajectory in its turn keeps a list on schedule.
LEMMA ScheduleAppend ==
  ASSUME NEW ts \in Seq(Trajectory), OnSchedule(ts), NEW t \in Trajectory,
         t.scenario = Turn(Len(ts) + 1)
  PROVE  /\ Len(ts) \in Nat /\ Len(Append(ts, t)) = Len(ts) + 1
         /\ OnSchedule(Append(ts, t))
<1>1. /\ Len(ts) \in Nat /\ DOMAIN ts = 1 .. Len(ts)
      /\ Len(Append(ts, t)) = Len(ts) + 1
      /\ DOMAIN Append(ts, t) = 1 .. Len(ts) + 1
      /\ \A i \in 1 .. Len(ts) : Append(ts, t)[i] = ts[i]
      /\ Append(ts, t)[Len(ts) + 1] = t
  BY AppendProperties, LenProperties
<1>2. ASSUME NEW i \in 1 .. Len(ts) + 1 PROVE Append(ts, t)[i].scenario = Turn(i)
  <2>1. CASE i \in 1 .. Len(ts)
    BY <1>1, <2>1 DEF OnSchedule
  <2>2. CASE i = Len(ts) + 1
    BY <1>1, <2>2
  <2> QED
    BY <1>1, <2>1, <2>2
<1> QED
  BY <1>1, <1>2 DEF OnSchedule

\* Every step keeps the run on schedule.
LEMMA RunKeeps ==
  ASSUME LiveOK, RunInv, [Next]_vars
  PROVE  RunInv'
<1>1. /\ Len(gov) \in Nat /\ Len(blind) \in Nat /\ Rounds \in Nat \ {0}
      /\ gov \in Seq(Trajectory) /\ blind \in Seq(Trajectory)
  BY AskedType, ScheduleType DEF LiveOK
<1>2. CASE Start
  <2>1. gov = <<>> /\ phase' = "blind" /\ phase = "idle" /\ UNCHANGED <<blind, gov>>
    BY <1>2 DEF Start, RunInv
  <2>2. Len(gov) = 0 /\ Len(blind) = 0
    BY <2>1 DEF RunInv
  <2> QED
    BY <1>1, <2>1, <2>2 DEF RunInv
<1>3. CASE RunBlind
  <2>1. /\ phase = "blind" /\ phase' = "governed" /\ gov' = gov
        /\ blind' = Append(blind, BlindTrajectory)
    BY <1>3 DEF RunBlind
  <2>2. Len(blind) = Len(gov) /\ Len(gov) < Rounds
        /\ OnSchedule(blind) /\ OnSchedule(gov)
    BY <1>1, <2>1 DEF RunInv
  <2>3. /\ BlindTrajectory \in Trajectory
        /\ BlindTrajectory.scenario = Turn(Len(blind) + 1)
    BY <2>1, <2>2, BlindFresh, AskedType DEF Fresh
  <2>4. Len(blind') = Len(blind) + 1 /\ OnSchedule(blind')
    BY <1>1, <2>1, <2>2, <2>3, ScheduleAppend
  <2> QED
    BY <1>1, <2>1, <2>2, <2>4 DEF RunInv, OnSchedule
<1>4. CASE Finishes
  <2>1. PICK t \in Trajectory : Fresh(t) /\ Finish(t)
    BY <1>4, FinishesFresh
  <2>2. /\ phase = "governed" /\ blind' = blind /\ gov' = Append(gov, t)
        /\ phase' = IF Len(gov) + 1 < Rounds THEN "blind" ELSE "score"
    BY <1>4, <2>1, FinishesFresh DEF Finish
  <2>3. Len(blind) = Len(gov) + 1 /\ Len(gov) < Rounds
        /\ OnSchedule(blind) /\ OnSchedule(gov)
    BY <1>1, <2>2 DEF RunInv
  <2>4. t.scenario = Turn(Len(gov) + 1)
    BY <2>1, AskedType DEF Fresh
  <2>5. Len(gov') = Len(gov) + 1 /\ OnSchedule(gov')
    BY <1>1, <2>2, <2>3, <2>4, ScheduleAppend
  <2> QED
    BY <1>1, <2>2, <2>3, <2>5 DEF RunInv, OnSchedule
<1>5. CASE Exit
  <2>1. phase' = "idle" /\ blind' = <<>> /\ gov' = <<>>
    BY <1>5 DEF Exit
  <2>2. Len(gov') = 0 /\ Len(blind') = 0 /\ DOMAIN gov' = {} /\ DOMAIN blind' = {}
    BY <2>1
  <2> QED
    BY <2>1, <2>2 DEF RunInv, OnSchedule
<1>6. CASE WriteScorecard
  BY <1>6 DEF WriteScorecard, RunInv, OnSchedule
<1>7. CASE UNCHANGED <<phase, blind, gov>>
  BY <1>7 DEF RunInv, OnSchedule
<1> QED
  BY <1>2, <1>3, <1>4, <1>5, <1>6, <1>7, Steps DEF CallTool, SaveArtifact, live

\* A scorecard is computed from two complete schedules.
LEMMA ScorecardKeeps ==
  ASSUME LiveOK, RunInv, ScorecardInv, [Next]_vars
  PROVE  ScorecardInv'
<1>1. CASE WriteScorecard
  <2>1. /\ scorecard' = [blind |-> ScenariosOf(blind), governed |-> ScenariosOf(gov)]
        /\ Len(gov) = Rounds /\ Len(blind) = Len(gov)
        /\ OnSchedule(blind) /\ OnSchedule(gov)
    BY <1>1, AskedType DEF WriteScorecard, RunInv
  <2>2. DOMAIN gov = 1 .. Rounds /\ DOMAIN blind = 1 .. Rounds
    BY <2>1, AskedType
  <2>3. ScenariosOf(blind) = Schedule /\ ScenariosOf(gov) = Schedule
    BY <2>1, <2>2 DEF ScenariosOf, Schedule, OnSchedule
  <2> QED
    BY <2>1, <2>3 DEF ScorecardInv
<1>2. CASE UNCHANGED scorecard \/ scorecard' = None
  BY <1>2 DEF ScorecardInv
<1> QED
  BY <1>1, <1>2, Steps, FinishesFresh
     DEF Start, RunBlind, Finish, CallTool, SaveArtifact, RunRaises, ExportLines,
         Kill, ReplayTrajectories, ChangeContracts, vars, disk
-----------------------------------------------------------------------------
(* The export.                                                             *)

\* What is exported is a list of trajectories, those of the blind agent first.
LEMMA TrajectoriesType ==
  ASSUME LiveOK
  PROVE  /\ Trajectories \in Seq(Trajectory) /\ Len(Trajectories) \in Nat
         /\ Len(blind) \in Nat /\ Len(gov) \in Nat
         /\ Len(Trajectories) = Len(blind) + Len(gov)
         /\ DOMAIN Trajectories = 1 .. Len(Trajectories)
         /\ \A i \in 1 .. Len(Trajectories) : Trajectories[i] \in Trajectory
         /\ \A i \in 1 .. Len(blind) : Trajectories[i] = blind[i]
         /\ \A i \in 1 .. Len(gov) : Trajectories[Len(blind) + i] = gov[i]
<1>1. blind \in Seq(Trajectory) /\ gov \in Seq(Trajectory)
  BY DEF LiveOK
<1>2. Trajectories \in Seq(Trajectory) /\ Len(Trajectories) = Len(blind) + Len(gov)
  BY <1>1, ConcatProperties DEF Trajectories
<1>3. /\ Len(blind) \in Nat /\ Len(gov) \in Nat /\ Len(Trajectories) \in Nat
      /\ DOMAIN Trajectories = 1 .. Len(Trajectories)
  BY <1>1, <1>2, LenProperties
<1>4. \A i \in 1 .. Len(Trajectories) : Trajectories[i] \in Trajectory
  BY <1>2, <1>3, ElementOfSeq
<1>5. /\ \A i \in 1 .. Len(blind) : Trajectories[i] = blind[i]
      /\ \A i \in 1 .. Len(gov) : Trajectories[Len(blind) + i] = gov[i]
  BY <1>1, <1>3, ConcatProperties DEF Trajectories
<1> QED
  BY <1>2, <1>3, <1>4, <1>5

\* A step that touches the file of lines writes the exported list, or the
\* beginning of it, after the SQL of all of it was saved.
LEMMA FileStep ==
  ASSUME LiveOK, [Next]_vars
  PROVE  \/ UNCHANGED file /\ (UNCHANGED torn)
         \/ /\ phase = "artifacts" /\ next_out > Len(Trajectories)
            /\ UNCHANGED artifacts
            /\ torn' \in BOOLEAN /\ file' \in Seq(Trajectory)
            /\ \E n \in 0 .. Len(Trajectories) :
                 DOMAIN file' = 1 .. n /\ \A i \in 1 .. n : file'[i] = Trajectories[i]
<1>1. /\ Trajectories \in Seq(Trajectory) /\ Len(Trajectories) \in Nat
      /\ DOMAIN Trajectories = 1 .. Len(Trajectories)
  BY TrajectoriesType
<1>2. CASE ExportLines
  <2>1. /\ phase = "artifacts" /\ next_out > Len(Trajectories)
        /\ UNCHANGED artifacts /\ file' = Trajectories
    BY <1>2 DEF ExportLines
  <2>2. torn' \in BOOLEAN
    BY <1>2 DEF ExportLines
  <2>3. Len(Trajectories) \in 0 .. Len(Trajectories)
    BY <1>1
  <2> QED
    BY <1>1, <2>1, <2>2, <2>3
<1>3. ASSUME phase = "artifacts", next_out > Len(Trajectories),
             NEW n \in 0 .. Len(Trajectories) - 1,
             file' = SubSeq(Trajectories, 1, n), torn' \in BOOLEAN,
             UNCHANGED artifacts
      PROVE  /\ torn' \in BOOLEAN /\ file' \in Seq(Trajectory)
             /\ \E k \in 0 .. Len(Trajectories) :
                  DOMAIN file' = 1 .. k /\ \A i \in 1 .. k : file'[i] = Trajectories[i]
  <2>1. /\ file' \in Seq(Trajectory) /\ DOMAIN file' = 1 .. n
        /\ \A i \in 1 .. n : file'[i] = Trajectories[i]
    BY <1>1, <1>3
  <2>2. n \in 0 .. Len(Trajectories)
    BY <1>1
  <2> QED
    BY <1>3, <2>1, <2>2
<1>4. CASE Kill
  BY <1>3, <1>4 DEF Kill, disk
<1> QED
  BY <1>2, <1>4, Steps, FinishesFresh
     DEF Start, RunBlind, Finish, CallTool, WriteScorecard, SaveArtifact, RunRaises,
         ReplayTrajectories, ChangeContracts, vars, disk

\* The SQL saved next is a query or none.
LEMMA SavedType ==
  ASSUME LiveOK, ExportInv, phase = "artifacts", next_out <= Len(Trajectories)
  PROVE  /\ next_out \in 1 .. Len(Trajectories)
         /\ Saved \in Sqls \cup {None}
<1>1. next_out \in 1 .. Len(Trajectories)
  BY TrajectoriesType DEF ExportInv
<1>2. Trajectories[next_out] \in Trajectory
  BY <1>1, TrajectoriesType
<1> QED
  BY <1>1, <1>2 DEF Saved, Trajectory

\* No step removes the file of a query.
LEMMA ArtifactsGrow ==
  ASSUME LiveOK, DiskOK, ExportInv, [Next]_vars
  PROVE  /\ artifacts' \in [Sqls -> {"absent", "empty", "whole"}]
         /\ \A s \in Sqls : artifacts[s] # "absent" => artifacts'[s] # "absent"
<1>1. artifacts \in [Sqls -> {"absent", "empty", "whole"}]
  BY DEF DiskOK
<1>2. ASSUME NEW v \in {"empty", "whole"}, Saved \in Sqls,
             artifacts' = [artifacts EXCEPT ![Saved] = v]
      PROVE  /\ artifacts' \in [Sqls -> {"absent", "empty", "whole"}]
             /\ \A s \in Sqls : artifacts[s] # "absent" => artifacts'[s] # "absent"
  BY <1>1, <1>2
<1>3. CASE SaveArtifact
  BY <1>1, <1>2, <1>3, SavedType DEF SaveArtifact
<1>4. CASE Kill
  BY <1>1, <1>2, <1>4, SavedType DEF Kill, disk
<1>5. CASE UNCHANGED artifacts
  BY <1>1, <1>5
<1> QED
  BY <1>3, <1>4, <1>5, Steps, FinishesFresh
     DEF Start, RunBlind, Finish, CallTool, WriteScorecard, RunRaises, ExportLines,
         ReplayTrajectories, ChangeContracts, vars, disk

\* The export saves in order.
LEMMA ExportKeeps ==
  ASSUME LiveOK, LiveOK', DiskOK, ExportInv, [Next]_vars
  PROVE  ExportInv'
<1>1. Len(Trajectories)' \in Nat /\ Len(Trajectories) \in Nat
  <2>1. blind' \in Seq(Trajectory) /\ gov' \in Seq(Trajectory)
    BY DEF LiveOK
  <2>2. Trajectories' \in Seq(Trajectory)
    BY <2>1, ConcatProperties DEF Trajectories
  <2> QED
    BY <2>2, TrajectoriesType, LenProperties
<1>2. CASE next_out' = 1
  <2>1. next_out' \in 1 .. Len(Trajectories)' + 1
    BY <1>1, <1>2
  <2>2. next_out' - 1 = 0
    BY <1>2
  <2>3. SavedUpTo(next_out - 1)'
    BY <2>2 DEF SavedUpTo
  <2> QED
    BY <1>2, <2>1, <2>3 DEF ExportInv
<1>3. CASE SaveArtifact
  <2>1. /\ phase = "artifacts" /\ next_out \in 1 .. Len(Trajectories)
        /\ next_out' = next_out + 1 /\ Saved \in Sqls \cup {None}
        /\ UNCHANGED <<phase, blind, gov>>
        /\ artifacts' = IF Saved = None THEN artifacts
                        ELSE [artifacts EXCEPT ![Saved] = "whole"]
    BY <1>3, SavedType DEF SaveArtifact
  <2>2. Trajectories' = Trajectories
    BY <2>1 DEF Trajectories
  <2>3. ASSUME NEW i \in 1 .. next_out, Trajectories[i].sql # None
        PROVE  artifacts'[Trajectories[i].sql] # "absent"
    <3>1. Trajectories[i] \in Trajectory
      BY <2>1, TrajectoriesType
    <3>2. Trajectories[i].sql \in Sqls
      BY <2>3, <3>1 DEF Trajectory
    <3>3. CASE i = next_out
      BY <2>1, <2>3, <3>2, <3>3 DEF Saved, DiskOK
    <3>4. CASE i \in 1 .. next_out - 1
      <4>1. artifacts[Trajectories[i].sql] # "absent"
        BY <2>3, <3>4 DEF ExportInv, SavedUpTo
      <4> QED
        BY <3>2, <4>1, ArtifactsGrow
    <3> QED
      BY <2>1, <3>3, <3>4
  <2>4. next_out' - 1 = next_out /\ next_out' \in 1 .. Len(Trajectories) + 1
    BY <1>1, <2>1
  <2>5. SavedUpTo(next_out - 1)'
    BY <2>2, <2>3, <2>4 DEF SavedUpTo
  <2> QED
    BY <2>1, <2>2, <2>4, <2>5 DEF ExportInv
<1>4. CASE UNCHANGED <<live, artifacts>>
  BY <1>4 DEF live, ExportInv, SavedUpTo, Trajectories
<1>5. CASE phase # "artifacts" /\ UNCHANGED next_out
  BY <1>2, <1>5 DEF ExportInv
<1> QED
  BY <1>2, <1>3, <1>4, <1>5, Steps, FinishesFresh
     DEF Start, RunBlind, Finish, CallTool, WriteScorecard, Exit,
         ReplayTrajectories, ChangeContracts, vars, disk

\* So the lines never run ahead of the queries they mean.
LEMMA LinesFollow ==
  ASSUME LiveOK, DiskOK, ExportInv, ArtifactsPrecedeLines, [Next]_vars
  PROVE  ArtifactsPrecedeLines'
<1>1. CASE UNCHANGED file
  <2> SUFFICES ASSUME file # None, NEW i \in DOMAIN file, file[i].sql # None
               PROVE  artifacts'[file[i].sql] # "absent"
    BY <1>1 DEF ArtifactsPrecedeLines
  <2>1. file \in Seq(Trajectory)
    BY DEF DiskOK
  <2>2. file[i] \in Trajectory
    BY <2>1, ElementOfSeq, LenProperties
  <2>3. file[i].sql \in Sqls
    BY <2>2 DEF Trajectory
  <2> QED
    BY <2>3, ArtifactsGrow DEF ArtifactsPrecedeLines
<1>2. ASSUME phase = "artifacts", next_out > Len(Trajectories), UNCHANGED artifacts,
             NEW n \in 0 .. Len(Trajectories), DOMAIN file' = 1 .. n,
             \A i \in 1 .. n : file'[i] = Trajectories[i]
      PROVE  ArtifactsPrecedeLines'
  <2>1. Len(Trajectories) \in Nat /\ next_out - 1 = Len(Trajectories)
    BY <1>2, TrajectoriesType DEF ExportInv
  <2>2. SavedUpTo(Len(Trajectories))
    BY <2>1 DEF ExportInv
  <2> QED
    BY <1>2, <2>1, <2>2 DEF SavedUpTo, ArtifactsPrecedeLines
<1> QED
  BY <1>1, <1>2, FileStep
-----------------------------------------------------------------------------
(* Replaying.                                                              *)

\* What is replayed of a trajectory.
LEMMA ReplayedType ==
  ASSUME NEW t \in Trajectory, contracts \in Contracts
  PROVE  /\ Replayed(t) \in Trajectory
         /\ Replayed(t).scenario = t.scenario /\ Replayed(t).sql = t.sql
         /\ Replayed(t).grade = IF Resolved(t)
                                THEN GradeOf(contracts, t.scenario, t.sql)
                                ELSE t.grade
<1>1. t.scenario \in DOMAIN Scenarios /\ t.sql \in Sqls \cup {None}
  BY DEF Trajectory
<1>2. GradeOf(contracts, t.scenario, t.sql) \in Grades
  BY <1>1, GradeType
<1>3. CASE Resolved(t)
  <2> DEFINE g == GradeOf(contracts, t.scenario, t.sql)
  <2>1. Replayed(t) = [t EXCEPT !.grade = g]
    BY <1>3 DEF Replayed
  <2> HIDE DEF g
  <2>2. g \in Grades
    BY <1>2 DEF g
  <2>3. /\ [t EXCEPT !.grade = g] \in Trajectory
        /\ [t EXCEPT !.grade = g].scenario = t.scenario
        /\ [t EXCEPT !.grade = g].sql = t.sql
        /\ [t EXCEPT !.grade = g].grade = g
    BY <2>2 DEF Trajectory
  <2> QED
    BY <1>3, <2>1, <2>3 DEF g
<1>4. CASE ~Resolved(t)
  BY <1>4 DEF Replayed
<1> QED
  BY <1>3, <1>4

\* What a replay reports, and that it admits to every grade it left stale.
LEMMA ReplayReports ==
  ASSUME DiskOK, RestOK, GradesInv, ReplayTrajectories
  PROVE  RestOK' /\ ReplayAdmitsStaleGrades'
<1> DEFINE lines == [i \in DOMAIN file |-> Replayed(file[i])]
           U == {i \in DOMAIN file : Unreplayable(file[i])}
           S == {i \in DOMAIN lines :
                   lines[i].grade # GradeOf(contracts, lines[i].scenario, lines[i].sql)}
<1>1. /\ file # None /\ UNCHANGED contracts
      /\ report' = [under |-> contracts, lines |-> lines,
                    unreplayable |-> Cardinality(U)]
  BY DEF ReplayTrajectories
<1>2. file \in Seq(Trajectory) /\ contracts \in Contracts
  BY <1>1 DEF DiskOK, RestOK
<1>3. Len(file) \in Nat /\ DOMAIN file = 1 .. Len(file)
  BY <1>2, LenProperties
<1>4. \A i \in 1 .. Len(file) : file[i] \in Trajectory
  BY <1>2, <1>3, ElementOfSeq
<1>5. \A i \in 1 .. Len(file) : lines[i] = Replayed(file[i]) /\ lines[i] \in Trajectory
  BY <1>2, <1>3, <1>4, ReplayedType
<1>6. lines \in Seq(Trajectory) /\ Len(lines) = Len(file) /\ DOMAIN lines = 1 .. Len(file)
  <2>1. lines \in [1 .. Len(file) -> Trajectory]
    BY <1>3, <1>5
  <2>2. lines \in Seq(Trajectory)
    BY <1>3, <2>1, SeqDef
  <2> QED
    BY <1>3, <2>1, <2>2, LenProperties
<1>7. IsFiniteSet(U) /\ Cardinality(U) \in 0 .. Len(file)
  <2>1. IsFiniteSet(1 .. Len(file)) /\ Cardinality(1 .. Len(file)) = Len(file)
    <3> DEFINE n == Len(file)
    <3>1. n \in Nat
      BY <1>3
    <3> HIDE DEF n
    <3>2. IsFiniteSet(1 .. n) /\ Cardinality(1 .. n) = IF 1 > n THEN 0 ELSE n - 1 + 1
      BY <3>1, FS_Interval
    <3>3. Cardinality(1 .. n) = n
      BY <3>1, <3>2
    <3> QED
      BY <3>2, <3>3 DEF n
  <2>2. U \in SUBSET (1 .. Len(file))
    BY <1>3
  <2>3. IsFiniteSet(U) /\ Cardinality(U) <= Len(file)
    BY <2>1, <2>2, FS_Subset
  <2> QED
    BY <1>3, <2>3, FS_CardinalityType
<1>8. S \subseteq U
  <2> SUFFICES ASSUME NEW i \in S PROVE Unreplayable(file[i])
    BY <1>3, <1>6
  <2>1. i \in 1 .. Len(file) /\ file[i] \in Trajectory
    BY <1>4, <1>6
  <2>2. /\ lines[i].grade # GradeOf(contracts, lines[i].scenario, lines[i].sql)
        /\ lines[i].scenario = file[i].scenario /\ lines[i].sql = file[i].sql
        /\ lines[i].grade = IF Resolved(file[i])
                            THEN GradeOf(contracts, file[i].scenario, file[i].sql)
                            ELSE file[i].grade
    BY <1>2, <1>5, <2>1, ReplayedType
  <2>3. ~Resolved(file[i])
    BY <2>2
  <2>4. file[i].sql # None
    <3> SUFFICES ASSUME file[i].sql = None PROVE FALSE
      OBVIOUS
    <3>1. file[i].grade = Ungraded
      BY <1>1, <1>3, <2>1 DEF GradesInv, UngradedWithoutSql
    <3> QED
      BY <2>2, <2>3, <3>1 DEF GradeOf
  <2> QED
    BY <2>3, <2>4 DEF Unreplayable
<1>9. Cardinality(S) <= Cardinality(U)
  BY <1>7, <1>8, FS_Subset
<1>10. /\ report'.under = contracts /\ report'.lines = lines
       /\ report'.unreplayable = Cardinality(U)
  BY <1>1
<1>11. StaleGrades' = S
  BY <1>10 DEF StaleGrades, GradeOf
<1> HIDE DEF lines, U, S
<1>12. RestOK'
  BY <1>1, <1>2, <1>6, <1>7, <1>10 DEF RestOK
<1>13. ReplayAdmitsStaleGrades'
  BY <1>9, <1>10, <1>11 DEF ReplayAdmitsStaleGrades
<1> QED
  BY <1>12, <1>13

\* An ungraded list stays one when a fresh trajectory is added.
LEMMA UngradedAppend ==
  ASSUME NEW ts \in Seq(Trajectory), UngradedWithoutSql(ts), NEW t, Fresh(t)
  PROVE  UngradedWithoutSql(Append(ts, t))
<1>1. t \in Trajectory
  BY DEF Fresh
<1>2. /\ Len(ts) \in Nat /\ DOMAIN ts = 1 .. Len(ts)
      /\ DOMAIN Append(ts, t) = 1 .. Len(ts) + 1
      /\ \A i \in 1 .. Len(ts) : Append(ts, t)[i] = ts[i]
      /\ Append(ts, t)[Len(ts) + 1] = t
  BY <1>1, AppendProperties, LenProperties
<1>3. \A i \in 1 .. Len(ts) + 1 : i \in 1 .. Len(ts) \/ i = Len(ts) + 1
  BY <1>2
<1> QED
  BY <1>2, <1>3 DEF UngradedWithoutSql, Fresh

\* In memory and in the file, what has no SQL has the lowest grade.
LEMMA GradesKeep ==
  ASSUME LiveOK, GradesInv, [Next]_vars
  PROVE  GradesInv'
<1>1. UngradedWithoutSql(blind) /\ UngradedWithoutSql(gov)
      /\ blind \in Seq(Trajectory) /\ gov \in Seq(Trajectory)
  BY DEF GradesInv, LiveOK
<1>2. UngradedWithoutSql(blind)' /\ UngradedWithoutSql(gov)'
  <2>1. CASE RunBlind
    <3>1. Fresh(BlindTrajectory)
      BY <2>1, BlindFresh DEF RunBlind
    <3>2. UngradedWithoutSql(Append(blind, BlindTrajectory))
      BY <1>1, <3>1, UngradedAppend
    <3>3. blind' = Append(blind, BlindTrajectory) /\ gov' = gov
      BY <2>1 DEF RunBlind
    <3> QED
      BY <1>1, <3>2, <3>3 DEF UngradedWithoutSql
  <2>2. CASE Finishes
    <3>1. PICK t \in Trajectory : Fresh(t) /\ Finish(t)
      BY <2>2, FinishesFresh
    <3>2. UngradedWithoutSql(Append(gov, t))
      BY <1>1, <3>1, UngradedAppend
    <3>3. gov' = Append(gov, t) /\ blind' = blind
      BY <3>1 DEF Finish
    <3> QED
      BY <1>1, <3>2, <3>3 DEF UngradedWithoutSql
  <2>3. CASE Exit
    BY <2>3 DEF Exit, UngradedWithoutSql
  <2>4. CASE UNCHANGED <<blind, gov>>
    BY <1>1, <2>4 DEF UngradedWithoutSql
  <2> QED
    BY <2>1, <2>2, <2>3, <2>4, Steps
       DEF Start, CallTool, WriteScorecard, SaveArtifact, live
<1>3. \A i \in 1 .. Len(Trajectories) :
        Trajectories[i].sql = None => Trajectories[i].grade = Ungraded
  <2> SUFFICES ASSUME NEW i \in 1 .. Len(Trajectories), Trajectories[i].sql = None
               PROVE  Trajectories[i].grade = Ungraded
    OBVIOUS
  <2>1. CASE i \in 1 .. Len(blind)
    BY <1>1, <2>1, TrajectoriesType, AskedType DEF UngradedWithoutSql
  <2>2. CASE i \notin 1 .. Len(blind)
    <3>1. PICK k \in 1 .. Len(gov) : i = Len(blind) + k
      <4>1. i - Len(blind) \in 1 .. Len(gov) /\ i = Len(blind) + (i - Len(blind))
        BY <2>2, TrajectoriesType
      <4> QED
        BY <4>1
    <3>2. Trajectories[i] = gov[k]
      BY <3>1, TrajectoriesType
    <3>3. k \in DOMAIN gov
      BY AskedType
    <3> QED
      BY <1>1, <3>2, <3>3 DEF UngradedWithoutSql
  <2> QED
    BY <2>1, <2>2
<1>4. file' # None => UngradedWithoutSql(file)'
  <2>1. CASE UNCHANGED file
    BY <2>1 DEF GradesInv, UngradedWithoutSql
  <2>2. CASE \E n \in 0 .. Len(Trajectories) :
               DOMAIN file' = 1 .. n /\ \A i \in 1 .. n : file'[i] = Trajectories[i]
    BY <1>3, <2>2, TrajectoriesType DEF UngradedWithoutSql
  <2> QED
    BY <2>1, <2>2, FileStep
<1> QED
  BY <1>2, <1>4 DEF GradesInv
-----------------------------------------------------------------------------
(* All of it together.                                                     *)

\* The schedule is a list of scenarios.
LEMMA ScheduleIsSeq == Schedule \in Seq(DOMAIN Scenarios) /\ Len(Schedule) = Rounds
<1>1. Rounds \in Nat /\ \A i \in 1 .. Rounds : Turn(i) \in DOMAIN Scenarios
  BY ScheduleType
<1>2. Schedule \in [1 .. Rounds -> DOMAIN Scenarios]
  BY <1>1 DEF Schedule
<1>3. Schedule \in Seq(DOMAIN Scenarios)
  BY <1>1, <1>2, SeqDef
<1> QED
  BY <1>1, <1>2, <1>3, LenProperties

\* What is on disk keeps its types.
LEMMA DiskType ==
  ASSUME LiveOK, DiskOK, ExportInv, ScorecardInv', [Next]_vars
  PROVE  DiskOK'
<1>1. artifacts' \in [Sqls -> {"absent", "empty", "whole"}]
  BY ArtifactsGrow
<1>2. scorecard' # None =>
        scorecard' \in [blind : Seq(DOMAIN Scenarios), governed : Seq(DOMAIN Scenarios)]
  BY ScheduleIsSeq DEF ScorecardInv
<1>3. file' \in Seq(Trajectory) \cup {None}
  <2>1. CASE UNCHANGED file
    BY <2>1 DEF DiskOK
  <2>2. CASE file' \in Seq(Trajectory)
    BY <2>2
  <2> QED
    BY <2>1, <2>2, FileStep
<1>4. torn' \in BOOLEAN
  <2>1. CASE UNCHANGED torn
    BY <2>1 DEF DiskOK
  <2>2. CASE torn' \in BOOLEAN
    BY <2>2
  <2> QED
    BY <2>1, <2>2, FileStep
<1> QED
  BY <1>1, <1>2, <1>3, <1>4 DEF DiskOK

\* Reports are made by replays only, and only edits change the contracts.
LEMMA RestKeeps ==
  ASSUME DiskOK, RestOK, GradesInv, ReplayAdmitsStaleGrades, [Next]_vars
  PROVE  RestOK' /\ ReplayAdmitsStaleGrades'
<1>1. CASE ReplayTrajectories
  BY <1>1, ReplayReports
<1>2. ASSUME NEW c \in Contracts, ChangeContracts(c)
      PROVE  RestOK' /\ ReplayAdmitsStaleGrades'
  BY <1>2 DEF ChangeContracts, RestOK, ReplayAdmitsStaleGrades, StaleGrades, GradeOf
<1>3. CASE UNCHANGED <<contracts, report>>
  BY <1>3 DEF RestOK, ReplayAdmitsStaleGrades, StaleGrades, GradeOf
<1> QED
  BY <1>1, <1>2, <1>3
     DEF Next, LiveStep, Start, RunBlind, CallTool, RunOut, MockRun, RunRaises,
         AnswerAbstain, AnswerSql, Finish, WriteScorecard, SaveArtifact,
         ExportLines, Kill, vars, rest

\* The inductive invariant: the types, the schedule of the run, and how its
\* memory, its files and the reports made of them hang together.
BenchmarkInv ==
  /\ LiveOK /\ DiskOK /\ RestOK
  /\ RunInv /\ ScorecardInv /\ ExportInv /\ GradesInv
  /\ ArtifactsPrecedeLines /\ ReplayAdmitsStaleGrades

\* It holds when nothing has run yet.
LEMMA InitBenchmark == Init => BenchmarkInv
<1> SUFFICES ASSUME Init PROVE BenchmarkInv
  OBVIOUS
<1>1. LiveOK
  BY DEF Init, LiveOK
<1>2. scorecard = None /\ file = None /\ report = None /\ blind = <<>> /\ gov = <<>>
      /\ phase = "idle" /\ next_out = 1
  BY DEF Init
<1>3. torn \in BOOLEAN
  BY DEF Init
<1>4. DiskOK /\ RestOK
  BY <1>2, <1>3 DEF Init, DiskOK, RestOK
<1>5. Len(gov) = 0 /\ Len(blind) = 0 /\ DOMAIN gov = {} /\ DOMAIN blind = {}
  BY <1>2
<1>6. RunInv /\ ScorecardInv /\ GradesInv
  BY <1>2, <1>5
     DEF RunInv, OnSchedule, ScorecardInv, GradesInv, UngradedWithoutSql
<1>7. ExportInv
  <2>1. 1 \in 1 .. Len(Trajectories) + 1 /\ 1 - 1 = 0
    BY <1>1, TrajectoriesType
  <2> QED
    BY <1>2, <2>1 DEF ExportInv, SavedUpTo
<1> QED
  BY <1>1, <1>2, <1>4, <1>6, <1>7
     DEF BenchmarkInv, ArtifactsPrecedeLines, ReplayAdmitsStaleGrades

\* Every step keeps it.
LEMMA NextBenchmark == BenchmarkInv /\ [Next]_vars => BenchmarkInv'
<1> SUFFICES ASSUME BenchmarkInv, [Next]_vars PROVE BenchmarkInv'
  OBVIOUS
<1>1. /\ LiveOK /\ DiskOK /\ RestOK
      /\ RunInv /\ ScorecardInv /\ ExportInv /\ GradesInv
      /\ ArtifactsPrecedeLines /\ ReplayAdmitsStaleGrades
  BY DEF BenchmarkInv
<1>2. LiveOK' /\ RunInv' /\ ScorecardInv' /\ GradesInv'
  BY <1>1, LiveType, RunKeeps, ScorecardKeeps, GradesKeep
<1>3. ExportInv' /\ ArtifactsPrecedeLines'
  BY <1>1, <1>2, ExportKeeps, LinesFollow
<1>4. DiskOK' /\ RestOK' /\ ReplayAdmitsStaleGrades'
  BY <1>1, <1>2, DiskType, RestKeeps
<1> QED
  BY <1>2, <1>3, <1>4 DEF BenchmarkInv

\* So it holds in every state.
LEMMA BenchmarkInvariant == Spec => []BenchmarkInv
BY InitBenchmark, NextBenchmark, PTL DEF Spec

(* The benchmark's memory and files keep their types, and the governed     *)
(* agent never has more rounds than the schedule.                          *)
THEOREM BenchmarkTypeCorrect == Spec => []TypeOK
<1>1. BenchmarkInv => TypeOK
  <2> SUFFICES ASSUME BenchmarkInv PROVE TypeOK
    OBVIOUS
  <2>1. LiveOK /\ DiskOK /\ RestOK /\ RunInv
    BY DEF BenchmarkInv
  <2>2. Len(gov) <= Rounds
    <3>1. Len(gov) \in Nat /\ Rounds \in Nat \ {0} /\ Len(<<>>) = 0
      BY <2>1, AskedType, ScheduleType
    <3>2. phase \in {"idle", "blind", "governed", "score", "artifacts"}
      BY <2>1 DEF LiveOK
    <3> QED
      BY <2>1, <3>1, <3>2 DEF RunInv
  <2> QED
    BY <2>1, <2>2, TypeParts
<1> QED
  BY <1>1, BenchmarkInvariant, PTL

(* Whatever an exported line means by its hash is a file on disk, however  *)
(* exports were killed and repeated.                                       *)
THEOREM LinesHaveArtifacts == Spec => []ArtifactsPrecedeLines
<1>1. BenchmarkInv => ArtifactsPrecedeLines
  BY DEF BenchmarkInv
<1> QED
  BY <1>1, BenchmarkInvariant, PTL

(* A replay under edited contracts leaves no more grades stale than it     *)
(* reports trajectories it could not replay.                               *)
THEOREM StaleGradesAdmitted == Spec => []ReplayAdmitsStaleGrades
<1>1. BenchmarkInv => ReplayAdmitsStaleGrades
  BY DEF BenchmarkInv
<1> QED
  BY <1>1, BenchmarkInvariant, PTL
-----------------------------------------------------------------------------
(* The paired design.                                                      *)

\* In a list that goes through n things r times each has its turn r times.
LEMMA TurnsAreEven ==
  ASSUME NEW r \in Nat, NEW n \in Nat \ {0}, NEW j \in 1 .. n
  PROVE  Cardinality({i \in 1 .. r * n : ((i - 1) % n) + 1 = j}) = r
<1> DEFINE S == {i \in 1 .. r * n : ((i - 1) % n) + 1 = j}
           f == [k \in 1 .. r |-> (k - 1) * n + j]
<1>1. ASSUME NEW k \in 1 .. r PROVE f[k] \in S
  <2> DEFINE a == k - 1  c == j - 1
  <2>1. a \in Nat /\ c \in 0 .. n - 1 /\ f[k] = a * n + c + 1
    BY DEF f
  <2>2. a * n \in Nat /\ a + 1 <= r
    BY <2>1
  <2>3. (a + 1) * n <= r * n /\ (a + 1) * n = a * n + n
    BY <2>1, <2>2
  <2>4. a * n + c + 1 \in 1 .. r * n
    BY <2>1, <2>2, <2>3
  <2>5. (a * n + c) % n = c
    BY <2>1
  <2>6. (a * n + c + 1) - 1 = a * n + c
    BY <2>1, <2>2
  <2> QED
    BY <2>1, <2>4, <2>5, <2>6
<1>2. ASSUME NEW k \in 1 .. r, NEW l \in 1 .. r, f[k] = f[l] PROVE k = l
  <2> DEFINE a == k - 1  b == l - 1
  <2>1. a \in Nat /\ b \in Nat /\ a * n \in Nat /\ b * n \in Nat
        /\ f[k] = a * n + j /\ f[l] = b * n + j
    BY DEF f
  <2>2. a * n = b * n
    BY <1>2, <2>1
  <2>3. a = b
    BY <2>1, <2>2
  <2> QED
    BY <2>3
<1>3. ASSUME NEW i \in S PROVE \E k \in 1 .. r : f[k] = i
  <2> DEFINE b == i - 1  q == b \div n
  <2>1. b \in Nat /\ r * n \in Nat /\ b < r * n /\ b % n = j - 1
    OBVIOUS
  <2>2. q \in Nat /\ b = n * q + (b % n) /\ b % n \in 0 .. n - 1
    BY <2>1
  <2>3. n * q <= b
    BY <2>2
  <2> HIDE DEF q, b
  <2>4. n * q < n * r
    BY <2>1, <2>2, <2>3
  <2>5. q < r
    BY <2>2, <2>4
  <2>6. q + 1 \in 1 .. r /\ (q + 1) - 1 = q
    BY <2>2, <2>5
  <2>7. i = q * n + j
    BY <2>1, <2>2 DEF b
  <2> QED
    BY <2>6, <2>7
<1> HIDE DEF f
<1>4. f \in [1 .. r -> S]
  BY <1>1 DEF f
<1>5. f \in Bijection(1 .. r, S)
  BY <1>2, <1>3, <1>4 DEF Bijection, Injection, Surjection, IsInjective
<1>6. ExistsBijection(1 .. r, S)
  BY <1>5 DEF ExistsBijection
<1> QED
  BY <1>6, FS_CountingElements

(* A scorecard compares the agents on the same scenarios in the same order,*)
(* each as often as there are rollouts, whatever failed before.            *)
THEOREM PairedConditions == Spec => []ConditionsArePaired
<1>1. BenchmarkInv => ConditionsArePaired
  <2> SUFFICES ASSUME BenchmarkInv, scorecard # None PROVE ConditionsArePaired
    BY DEF ConditionsArePaired
  <2>1. scorecard.blind = Schedule /\ scorecard.governed = Schedule
    BY DEF BenchmarkInv, ScorecardInv
  <2>2. ASSUME NEW j \in DOMAIN Scenarios
        PROVE  Cardinality({i \in DOMAIN Schedule : Schedule[i] = j}) = Rollouts
    <3>1. {i \in DOMAIN Schedule : Schedule[i] = j}
            = {i \in 1 .. Rollouts * Len(Scenarios) :
                 ((i - 1) % Len(Scenarios)) + 1 = j}
      BY DEF Schedule, Rounds, Turn
    <3>2. /\ Rollouts \in Nat /\ Len(Scenarios) \in Nat \ {0}
          /\ j \in 1 .. Len(Scenarios)
      BY ScheduleType, AgentAssumption
    <3> QED
      BY <3>1, <3>2, TurnsAreEven
  <2> QED
    BY <2>1, <2>2 DEF ConditionsArePaired
<1> QED
  BY <1>1, BenchmarkInvariant, PTL
-----------------------------------------------------------------------------
(* The steps of a run.                                                     *)

\* What a round costs is a number, and the rest of a run one of these sums.
LEMMA StepsLeftType ==
  ASSUME LiveOK, RunInv, ExportInv, LoopInv
  PROVE  /\ StepsLeft \in Nat
         /\ phase # "idle" => StepsLeft > 0 /\ config.max_iterations \in Nat
<1>1. /\ Len(gov) \in Nat /\ Rounds \in Nat \ {0} /\ iteration \in Nat
      /\ Len(Trajectories) \in Nat /\ next_out \in Nat /\ ExportSteps \in Nat \ {0}
  BY AskedType, ScheduleType, TrajectoriesType DEF LiveOK, ExportSteps
<1>2. phase # "idle" => config.max_iterations \in Nat
  BY AgentAssumption DEF LiveOK, Config
<1>3. CASE phase = "idle"
  BY <1>3 DEF StepsLeft
<1>4. CASE phase \in {"blind", "governed"}
  <2>1. Rounds - Len(gov) \in Nat \ {0} /\ Rounds - Len(gov) - 1 \in Nat
    BY <1>1, <1>4 DEF RunInv
  <2>2. config.max_iterations + 2 \in Nat
    BY <1>2, <1>4
  <2> DEFINE all == (Rounds - Len(gov)) * (config.max_iterations + 2)
             others == (Rounds - Len(gov) - 1) * (config.max_iterations + 2)
  <2>3. all \in Nat /\ others \in Nat
    BY <2>1, <2>2
  <2>4. phase = "governed" => config.max_iterations - iteration \in Nat
    BY <1>1, <1>2, <1>4 DEF LoopInv
  <2>5. /\ phase = "blind" => StepsLeft = all + ExportSteps
        /\ phase = "governed" =>
             StepsLeft = others + (config.max_iterations - iteration) + 1 + ExportSteps
    BY DEF StepsLeft
  <2> HIDE DEF all, others
  <2> QED
    BY <1>1, <1>2, <1>4, <2>3, <2>4, <2>5
<1>5. CASE phase = "score"
  BY <1>1, <1>2, <1>5 DEF StepsLeft
<1>6. CASE phase = "artifacts"
  <2>1. next_out <= Len(Trajectories) + 1
    BY <1>1 DEF ExportInv
  <2> QED
    BY <1>1, <1>2, <1>6, <2>1 DEF StepsLeft
<1> QED
  BY <1>3, <1>4, <1>5, <1>6 DEF LiveOK

\* The loop keeps to its limit.
LEMMA LoopKeeps ==
  ASSUME LiveOK, LoopInv, [Next]_vars
  PROVE  LoopInv'
<1>1. /\ iteration \in Nat
      /\ phase # "idle" => config \in Config /\ config.max_iterations \in Nat
  BY AgentAssumption DEF LiveOK, Config
<1>2. CASE RunBlind
  BY <1>1, <1>2 DEF RunBlind, LoopInv
<1>3. CASE CallTool
  BY <1>1, <1>3 DEF CallTool, MayCall, LoopInv
<1>4. CASE Finishes
  <2>1. PICK t \in Trajectory : Finish(t)
    BY <1>4, FinishesFresh
  <2> QED
    BY <2>1 DEF Finish, LoopInv
<1>5. CASE Start \/ WriteScorecard \/ Exit
  BY <1>5 DEF Start, WriteScorecard, Exit, LoopInv
<1>6. CASE UNCHANGED <<phase, config, iteration>>
  BY <1>6 DEF LoopInv
<1> QED
  BY <1>2, <1>3, <1>4, <1>5, <1>6, Steps DEF SaveArtifact, live

\* A step of the run leaves fewer steps.
LEMMA StepsFall ==
  ASSUME LiveOK, RunInv, ExportInv, LoopInv,
         LiveOK', RunInv', ExportInv', LoopInv', LiveStep
  PROVE  StepsLeft' < StepsLeft
<1>1. /\ Len(gov) \in Nat /\ Rounds \in Nat \ {0} /\ iteration \in Nat
      /\ Len(blind) \in Nat /\ Len(Trajectories) \in Nat /\ next_out \in Nat
      /\ Len(Trajectories) = Len(blind) + Len(gov)
      /\ ExportSteps = 2 * Rounds + 2 /\ ExportSteps \in Nat
  BY AskedType, ScheduleType, TrajectoriesType DEF LiveOK, ExportSteps
<1> DEFINE left == Rounds - Len(gov)  cost == config.max_iterations + 2
           all == left * cost  others == (left - 1) * cost
<1>2. phase # "idle" => config.max_iterations \in Nat
  BY StepsLeftType
<1>3. /\ phase # "idle" => all \in Int /\ others \in Int /\ all = others + cost
      /\ phase = "governed" => others \in Nat
  <2>1. left \in Int /\ (phase # "idle" => cost \in Nat)
    BY <1>1, <1>2
  <2>2. phase = "governed" => left - 1 \in Nat
    BY <1>1 DEF RunInv
  <2> HIDE DEF left, cost
  <2> QED
    BY <2>1, <2>2
<1>4. CASE RunBlind
  <2>1. /\ phase = "blind" /\ phase' = "governed" /\ iteration' = 0
        /\ UNCHANGED <<gov, config>>
    BY <1>4 DEF RunBlind
  <2>2. StepsLeft = all + ExportSteps
    BY <2>1 DEF StepsLeft
  <2>3. StepsLeft' = others + (config.max_iterations - 0) + 1 + ExportSteps
    BY <2>1 DEF StepsLeft, ExportSteps
  <2>4. /\ others \in Int /\ all = others + cost
        /\ config.max_iterations \in Nat /\ ExportSteps \in Nat
    BY <1>1, <1>2, <1>3, <2>1
  <2> HIDE DEF all, others
  <2> QED
    BY <2>2, <2>3, <2>4
<1>5. CASE CallTool
  <2>1. /\ phase = "governed" /\ phase' = phase /\ iteration' = iteration + 1
        /\ UNCHANGED <<gov, config>>
    BY <1>5 DEF CallTool
  <2>2. StepsLeft = others + (config.max_iterations - iteration) + 1 + ExportSteps
    BY <2>1 DEF StepsLeft
  <2>3. StepsLeft' = others + (config.max_iterations - (iteration + 1)) + 1 + ExportSteps
    BY <2>1 DEF StepsLeft, ExportSteps
  <2>4. /\ others \in Int /\ config.max_iterations \in Nat
        /\ iteration \in Nat /\ ExportSteps \in Nat
    BY <1>1, <1>2, <1>3, <2>1
  <2> HIDE DEF all, others
  <2> QED
    BY <2>2, <2>3, <2>4
<1>6. CASE Finishes
  <2>1. PICK t \in Trajectory : Finish(t)
    BY <1>6, FinishesFresh
  <2>2. /\ phase = "governed" /\ UNCHANGED config
        /\ phase' = IF Len(gov) + 1 < Rounds THEN "blind" ELSE "score"
        /\ Len(gov') = Len(gov) + 1
    BY <1>6, <2>1, FinishesFresh, AppendProperties DEF Finish, LiveOK
  <2>3. /\ StepsLeft = others + (config.max_iterations - iteration) + 1 + ExportSteps
        /\ iteration <= config.max_iterations
    BY <2>2 DEF StepsLeft, LoopInv
  <2>4. CASE phase' = "blind"
    <3>1. Rounds - Len(gov') = left - 1
      BY <1>1, <2>2
    <3>2. StepsLeft' = others + ExportSteps
      BY <2>2, <2>4, <3>1 DEF StepsLeft, ExportSteps
    <3>3. /\ others \in Int /\ config.max_iterations \in Nat
          /\ iteration \in Nat /\ ExportSteps \in Nat
      BY <1>1, <1>2, <1>3, <2>2
    <3> HIDE DEF all, others
    <3> QED
      BY <2>3, <3>2, <3>3
  <2>5. CASE phase' = "score"
    <3>1. StepsLeft' = ExportSteps
      BY <2>5 DEF StepsLeft, ExportSteps
    <3>2. /\ others \in Nat /\ config.max_iterations \in Nat
          /\ iteration \in Nat /\ ExportSteps \in Nat
      BY <1>1, <1>2, <1>3, <2>2
    <3> HIDE DEF all, others
    <3> QED
      BY <2>3, <3>1, <3>2
  <2> QED
    BY <2>2, <2>4, <2>5
<1>7. CASE WriteScorecard
  <2>1. /\ phase = "score" /\ phase' = "artifacts" /\ next_out = 1
        /\ UNCHANGED <<blind, gov, next_out>>
    BY <1>7 DEF WriteScorecard, ExportInv
  <2>2. Len(Trajectories) = 2 * Rounds /\ Trajectories' = Trajectories
    BY <1>1, <2>1 DEF RunInv, Trajectories
  <2> QED
    BY <1>1, <2>1, <2>2 DEF StepsLeft
<1>8. CASE SaveArtifact
  BY <1>1, <1>8 DEF SaveArtifact, StepsLeft, Trajectories
<1>9. CASE RunRaises \/ ExportLines
  <2>1. phase # "idle" /\ phase' = "idle"
    BY <1>9 DEF RunRaises, ExportLines, Exit
  <2>2. StepsLeft' = 0
    BY <2>1 DEF StepsLeft
  <2> QED
    BY <2>1, <2>2, StepsLeftType
<1> QED
  BY <1>4, <1>5, <1>6, <1>7, <1>8, <1>9 DEF LiveStep, Finishes

(* Every step of a run leaves less to do than there was, for any model,    *)
(* limits and scenarios: with weak fairness the command ends.              *)
THEOREM RunsGetShorter == Spec => StepsRunOut
<1>1. Init => LoopInv
  BY DEF Init, LoopInv
<1>2. BenchmarkInv /\ LoopInv /\ [Next]_vars => LoopInv'
  BY LoopKeeps DEF BenchmarkInv
<1>3. BenchmarkInv /\ LoopInv => StepsLeft \in Nat
  BY StepsLeftType DEF BenchmarkInv
<1>4. /\ BenchmarkInv /\ LoopInv /\ StepsLeft \in Nat
      /\ BenchmarkInv' /\ LoopInv' /\ (StepsLeft \in Nat)'
      => [LiveStep => StepsLeft' \in 0 .. StepsLeft - 1]_vars
  <2> SUFFICES ASSUME BenchmarkInv, LoopInv, BenchmarkInv', LoopInv', LiveStep,
                      StepsLeft \in Nat, (StepsLeft \in Nat)'
               PROVE  StepsLeft' \in 0 .. StepsLeft - 1
    OBVIOUS
  <2>1. LiveOK /\ RunInv /\ ExportInv /\ LiveOK' /\ RunInv' /\ ExportInv'
    BY DEF BenchmarkInv
  <2>2. StepsLeft' < StepsLeft
    BY <2>1, StepsFall
  <2> QED
    BY <2>2
<1> QED
  BY <1>1, <1>2, <1>3, <1>4, BenchmarkInvariant, PTL DEF Spec, StepsRunOut
=============================================================================
