--------------------------- MODULE AgentBenchmark ---------------------------
(***************************************************************************)
(* The agent benchmark (benchmark/adapters.py, oracle.py, replay.py and    *)
(* cli.py benchmark-live, benchmark-replay): a blind and a governed agent  *)
(* answer every scenario, their SQL is graded, and the trajectories are    *)
(* exported with hashes in place of SQL, to be replayed against the        *)
(* contracts of a later day.                                               *)
(*                                                                         *)
(* benchmark-live is one process that may fail or be killed at any step;   *)
(* benchmark-replay reads what it left behind.                             *)
(***************************************************************************)
EXTENDS Integers, Sequences, FiniteSets, SequencesExt, FiniteSetsExt

CONSTANTS
  Scenarios,       \* the sequence SCENARIOS: which behaviour each expects
  Sqls,            \* answers an agent may give; the hash is the text
  FlawedSql,       \* the blind agent's answer to everything
  GoldenSql,       \* [DOMAIN Scenarios -> Sqls]: what the mock model answers
  Contracts,       \* contents of the contract directory
  Grade,           \* [Contracts -> [DOMAIN Scenarios -> [Sqls -> Grades]]]
  Configs,         \* what a run may be started with
  Rollouts,
  None,
  MaxRuns, MaxReplays, MaxChanges           \* bounds, on actions only

Grades == [execution_success : BOOLEAN, contract_compliant : BOOLEAN,
           result_correct : BOOLEAN]

\* live: a model is called; otherwise the mock loop runs.
Config == [live : BOOLEAN, max_iterations : Nat, max_tool_calls : Nat]

ASSUME AgentAssumption ==
  /\ Scenarios \in Seq({"PRODUCE_SQL", "ABSTAIN"}) /\ Scenarios # <<>>
  /\ FlawedSql \in Sqls /\ GoldenSql \in [DOMAIN Scenarios -> Sqls]
  /\ Grade \in [Contracts -> [DOMAIN Scenarios -> [Sqls -> Grades]]]
  /\ Configs \subseteq Config /\ Configs # {}
  /\ Rollouts \in Nat \ {0}
  /\ None \notin Sqls /\ None \notin Config /\ None \notin Contracts

VARIABLES
  phase,           \* where benchmark-live is; "idle" between runs
  config,          \* what it was started with, None between runs
  registry,        \* the contracts it loaded then, None between runs
  iteration,       \* of the governed agent's loop
  tool_calls,      \* made by that agent so far
  blind, gov,      \* the trajectories of the run
  next_out,        \* the next trajectory whose SQL is saved
  scorecard,       \* the scenarios the scorecard file was computed from
  artifacts,       \* [Sqls -> state of <hash>.sql]
  file,            \* the exported lines
  torn,            \* that file ends in half a line
  contracts,       \* the contract directory now
  report,          \* of the last replay
  runs, replays, changes

live == <<phase, config, registry, iteration, tool_calls, blind, gov, next_out>>
disk == <<scorecard, artifacts, file, torn>>
rest == <<contracts, report, runs, replays, changes>>
vars == <<live, disk, rest>>
-----------------------------------------------------------------------------
Trajectory == [scenario : DOMAIN Scenarios, agent_type : {"blind", "governed"},
               sql : Sqls \cup {None}, grade : Grades, calls : Nat,
               abstained : BOOLEAN, appropriate : BOOLEAN, ceiling : BOOLEAN]

Ungraded == [execution_success |-> FALSE, contract_compliant |-> FALSE,
             result_correct |-> FALSE]

(* evaluate_agent_sql, on the contracts of a registry.                     *)
GradeOf(c, scenario, sql) == IF sql = None THEN Ungraded ELSE Grade[c][scenario][sql]

\* The scenario that is asked next: all of them in turn, once per rollout.
Asked == (Len(gov) % Len(Scenarios)) + 1
Rounds == Rollouts * Len(Scenarios)

BlindTrajectory ==
  [scenario |-> Asked, agent_type |-> "blind", sql |-> FlawedSql,
   grade |-> GradeOf(registry, Asked, FlawedSql), calls |-> 0,
   abstained |-> FALSE, appropriate |-> FALSE, ceiling |-> FALSE]

GovernedTrajectory(sql, calls, abstained, ceiling) ==
  [scenario |-> Asked, agent_type |-> "governed", sql |-> sql,
   grade |-> GradeOf(registry, Asked, sql), calls |-> calls,
   abstained |-> abstained,
   appropriate |-> abstained /\ Scenarios[Asked] = "ABSTAIN",
   ceiling |-> ceiling]

Trajectories == blind \o gov
-----------------------------------------------------------------------------
Init ==
  /\ phase = "idle" /\ config = None /\ registry = None
  /\ contracts \in Contracts
  /\ iteration = 0 /\ tool_calls = 0
  /\ blind = <<>> /\ gov = <<>> /\ next_out = 1
  /\ scorecard = None
  /\ artifacts = [s \in Sqls |-> "absent"]
  /\ file = None /\ torn = FALSE
  /\ report = None /\ runs = 0 /\ replays = 0 /\ changes = 0

(* The process ends, and its memory with it.                               *)
Exit ==
  /\ phase' = "idle" /\ config' = None /\ registry' = None
  /\ iteration' = 0 /\ tool_calls' = 0
  /\ blind' = <<>> /\ gov' = <<>> /\ next_out' = 1

(* benchmark-live loads the contracts.                                     *)
Start ==
  /\ phase = "idle" /\ runs < MaxRuns
  /\ runs' = runs + 1
  /\ phase' = "blind" /\ config' \in Configs /\ registry' = contracts
  /\ UNCHANGED <<iteration, tool_calls, blind, gov, next_out>>
  /\ UNCHANGED <<disk, contracts, report, replays, changes>>

(* The blind agent answers and is graded.                                  *)
RunBlind ==
  /\ phase = "blind"
  /\ blind' = Append(blind, BlindTrajectory)
  /\ phase' = "governed" /\ iteration' = 0 /\ tool_calls' = 0
  /\ UNCHANGED <<config, registry, gov, next_out, disk, rest>>

\* Mutant: one scenario too many.
FinishAndGoOn(t) ==
  /\ gov' = Append(gov, t)
  /\ phase' = IF Len(gov) < Rounds THEN "blind" ELSE "score"
  /\ UNCHANGED <<config, registry, iteration, tool_calls, blind, next_out, disk, rest>>

(* The governed agent is done with a scenario.                             *)
Finish(t) ==
  /\ gov' = Append(gov, t)
  /\ phase' = IF Len(gov) + 1 < Rounds THEN "blind" ELSE "score"
  /\ UNCHANGED <<config, registry, iteration, tool_calls, blind, next_out, disk, rest>>

MayCall == iteration < config.max_iterations
           /\ tool_calls < config.max_tool_calls

(* The model asks for a tool, and gets its result.                         *)
CallTool ==
  /\ phase = "governed" /\ config.live /\ MayCall
  /\ tool_calls' = tool_calls + 1
  /\ iteration' = iteration + 1
  /\ UNCHANGED <<phase, config, registry, blind, gov, next_out, disk, rest>>

(* The model answers: with SQL or with neither SQL nor ABSTAIN (None) ...  *)
AnswerSql(sql) ==
  /\ phase = "governed" /\ config.live /\ MayCall
  /\ Finish(GovernedTrajectory(sql, tool_calls, FALSE, FALSE))

(* ... or with ABSTAIN.                                                    *)
AnswerAbstain ==
  /\ phase = "governed" /\ config.live /\ MayCall
  /\ Finish(GovernedTrajectory(None, tool_calls, TRUE, FALSE))

\* Mutant: the iteration limit does not end the loop.
RunOutAtCeiling ==
  /\ phase = "governed" /\ config.live /\ tool_calls >= config.max_tool_calls
  /\ Finish(GovernedTrajectory(None, tool_calls, FALSE, TRUE))

(* The loop ends by itself, at the ceiling of tool calls or of iterations. *)
RunOut ==
  /\ phase = "governed" /\ config.live /\ ~MayCall
  /\ Finish(GovernedTrajectory(None, tool_calls, FALSE,
                               iteration < config.max_iterations))

(* Without a model: read the contract, then abstain, or answer with the    *)
(* golden SQL after validating it.                                         *)
MockRun ==
  /\ phase = "governed" /\ ~config.live
  /\ Finish(IF Scenarios[Asked] = "ABSTAIN"
            THEN GovernedTrajectory(None, 1, TRUE, FALSE)
            ELSE GovernedTrajectory(GoldenSql[Asked], 2, FALSE, FALSE))

\* Mutant: the failed scenario is passed over and the command goes on.
RunRaisesAndGoesOn ==
  /\ phase = "governed" /\ config.live /\ MayCall
  /\ phase' = "blind"
  /\ UNCHANGED <<config, registry, iteration, tool_calls, blind, gov, next_out,
                 disk, rest>>

(* The provider, a tool, or the model's answer raises: the command ends.   *)
RunRaises ==
  /\ phase = "governed" /\ config.live /\ MayCall
  /\ Exit /\ UNCHANGED <<disk, rest>>

ScenariosOf(ts) == [i \in DOMAIN ts |-> ts[i].scenario]

(* The scorecard is computed and written.                                  *)
WriteScorecard ==
  /\ phase = "score"
  /\ scorecard' = [blind |-> ScenariosOf(blind), governed |-> ScenariosOf(gov)]
  /\ phase' = "artifacts"
  /\ UNCHANGED <<config, registry, iteration, tool_calls, blind, gov, next_out,
                 artifacts, file, torn, rest>>

Saved == Trajectories[next_out].sql

(* export_trajectories saves the SQL of one trajectory after the other ... *)
SaveArtifact ==
  /\ phase = "artifacts" /\ next_out <= Len(Trajectories)
  /\ artifacts' = IF Saved = None THEN artifacts
                  ELSE [artifacts EXCEPT ![Saved] = "whole"]
  /\ next_out' = next_out + 1
  /\ UNCHANGED <<phase, config, registry, iteration, tool_calls, blind, gov,
                 scorecard, file, torn, rest>>

\* Mutant: the lines do not wait for the artifacts.
ExportLinesAtOnce ==
  /\ phase = "artifacts"
  /\ file' = Trajectories /\ torn' = FALSE
  /\ Exit /\ UNCHANGED <<scorecard, artifacts, rest>>

(* ... and then writes the lines.                                          *)
ExportLines ==
  /\ phase = "artifacts" /\ next_out > Len(Trajectories)
  /\ file' = Trajectories /\ torn' = FALSE
  /\ Exit /\ UNCHANGED <<scorecard, artifacts, rest>>

(* External: the process is killed, perhaps while it writes: a scorecard   *)
(* is then none, an artifact it just opened is empty, and the line file    *)
(* ends somewhere.                                                         *)
Kill ==
  /\ phase # "idle"
  /\ \/ UNCHANGED disk
     \/ /\ phase = "score"
        /\ scorecard' = None
        /\ UNCHANGED <<artifacts, file, torn>>
     \/ /\ phase = "artifacts" /\ next_out <= Len(Trajectories) /\ Saved # None
        /\ artifacts' = [artifacts EXCEPT ![Saved] = "empty"]
        /\ UNCHANGED <<scorecard, file, torn>>
     \/ /\ phase = "artifacts" /\ next_out > Len(Trajectories)
        /\ \E n \in 0..(Len(Trajectories) - 1) : file' = SubSeq(Trajectories, 1, n)
        /\ torn' \in BOOLEAN
        /\ UNCHANGED <<scorecard, artifacts>>
  /\ Exit /\ UNCHANGED rest

(* External: the contract directory is edited.                             *)
ChangeContracts(c) ==
  /\ changes < MaxChanges /\ c # contracts
  /\ changes' = changes + 1
  /\ contracts' = c
  /\ UNCHANGED <<live, disk, report, runs, replays>>
-----------------------------------------------------------------------------
Resolved(t) == t.sql # None /\ artifacts[t.sql] = "whole"

Replayed(t) ==
  IF Resolved(t)
  THEN [t EXCEPT !.grade = GradeOf(contracts, t.scenario, t.sql)]
  ELSE t

\* Mutant: only a file that is not there makes a trajectory unreplayable.
UnreplayableIfMissing(t) == t.sql # None /\ artifacts[t.sql] = "absent"

Unreplayable(t) == t.sql # None /\ ~Resolved(t)

(* benchmark-replay: every exported trajectory is graded again, if its SQL *)
(* can be found.  A torn line ends the command without a report.           *)
ReplayTrajectories ==
  /\ replays < MaxReplays /\ file # None /\ ~torn
  /\ replays' = replays + 1
  /\ report' = [under |-> contracts,
                 lines |-> [i \in DOMAIN file |-> Replayed(file[i])],
                 unreplayable |->
                   Cardinality({i \in DOMAIN file : Unreplayable(file[i])})]
  /\ UNCHANGED <<live, disk, contracts, runs, changes>>
-----------------------------------------------------------------------------
LiveStep ==
  \/ RunBlind \/ CallTool \/ RunOut \/ MockRun \/ RunRaises \/ AnswerAbstain
  \/ \E sql \in Sqls \cup {None} : AnswerSql(sql)
  \/ WriteScorecard \/ SaveArtifact \/ ExportLines

Next ==
  \/ Start \/ LiveStep \/ Kill \/ ReplayTrajectories
  \/ \E c \in Contracts : ChangeContracts(c)

Spec == Init /\ [][Next]_vars

(* The process runs until it ends or is killed; a call of the model has a  *)
(* timeout, so it answers or raises.                                       *)
FairSpec == Spec /\ WF_vars(LiveStep)
-----------------------------------------------------------------------------
(* Types of the benchmark's state, in memory and on disk.                  *)
TypeOK ==
  /\ phase \in {"idle", "blind", "governed", "score", "artifacts"}
  /\ config \in Configs \cup {None} /\ registry \in Contracts \cup {None}
  /\ phase # "idle" => config # None /\ registry # None
  /\ contracts \in Contracts
  /\ iteration \in Nat /\ tool_calls \in Nat /\ next_out \in Nat
  /\ blind \in Seq(Trajectory) /\ gov \in Seq(Trajectory)
  /\ scorecard # None =>
       scorecard \in [blind : Seq(DOMAIN Scenarios), governed : Seq(DOMAIN Scenarios)]
  /\ artifacts \in [Sqls -> {"absent", "empty", "whole"}]
  /\ file \in Seq(Trajectory) \cup {None} /\ torn \in BOOLEAN
  /\ report # None =>
       /\ report.under \in Contracts /\ report.lines \in Seq(Trajectory)
       /\ report.unreplayable \in 0..Len(report.lines)
  /\ Len(gov) <= Rounds

(* The paired design: a scorecard compares the two agents on the same      *)
(* scenarios, each of them as often, whatever failed on the way.           *)
ConditionsArePaired ==
  scorecard # None =>
    /\ scorecard.blind = scorecard.governed
    /\ \A j \in DOMAIN Scenarios :
         Cardinality({i \in DOMAIN scorecard.blind : scorecard.blind[i] = j}) = Rollouts

(* What it rests on: the run keeps to its schedule, and what it holds, or  *)
(* has written, is about the scenario whose turn it was.                   *)
Turn(i) == ((i - 1) % Len(Scenarios)) + 1

OnSchedule(ts) == \A i \in DOMAIN ts : ts[i].scenario = Turn(i)

RunInv ==
  /\ phase = "idle" => gov = <<>>
  /\ phase \in {"blind", "governed"} => Len(gov) < Rounds
  /\ phase \in {"score", "artifacts"} => Len(gov) = Rounds
  /\ Len(blind) = Len(gov) + IF phase = "governed" THEN 1 ELSE 0
  /\ OnSchedule(blind) /\ OnSchedule(gov)

Schedule == [i \in 1 .. Rounds |-> Turn(i)]

ScorecardInv ==
  scorecard # None => scorecard = [blind |-> Schedule, governed |-> Schedule]

(* The SQL behind an exported hash is on disk, at least as a file, however *)
(* the export that wrote the line, or a later one, ended.                  *)
ArtifactsPrecedeLines ==
  file # None =>
    \A i \in DOMAIN file : file[i].sql # None => artifacts[file[i].sql] # "absent"

(* What it rests on: the export saves the SQL in the order of the lines.   *)
SavedUpTo(n) ==
  \A i \in 1 .. n :
    Trajectories[i].sql # None => artifacts[Trajectories[i].sql] # "absent"

ExportInv ==
  /\ next_out \in 1 .. Len(Trajectories) + 1
  /\ phase # "artifacts" => next_out = 1
  /\ SavedUpTo(next_out - 1)

(* A replay that reports no unreplayable trajectory graded every query by  *)
(* the contracts of the day it ran; otherwise no more grades are stale     *)
(* than it admits.                                                         *)
StaleGrades ==
  {i \in DOMAIN report.lines :
     LET t == report.lines[i]
     IN  t.grade # GradeOf(report.under, t.scenario, t.sql)}

ReplayAdmitsStaleGrades ==
  report # None => Cardinality(StaleGrades) <= report.unreplayable

(* What it rests on: without SQL a trajectory has the lowest grade.        *)
UngradedWithoutSql(ts) ==
  \A i \in DOMAIN ts : ts[i].sql = None => ts[i].grade = Ungraded

GradesInv ==
  /\ UngradedWithoutSql(blind) /\ UngradedWithoutSql(gov)
  /\ file # None => UngradedWithoutSql(file)

(* What a run has left to do, at most: in each round the blind agent's     *)
(* answer, the calls the loop allows and an answer or the end of the loop, *)
(* then the scorecard, an artifact for every trajectory, and the lines.    *)
ExportSteps == 2 * Rounds + 2

StepsLeft ==
  CASE phase = "idle" -> 0
    [] phase = "blind" ->
         (Rounds - Len(gov)) * (config.max_iterations + 2) + ExportSteps
    [] phase = "governed" ->
         (Rounds - Len(gov) - 1) * (config.max_iterations + 2)
           + (config.max_iterations - iteration) + 1 + ExportSteps
    [] phase = "score" -> ExportSteps
    [] phase = "artifacts" -> Len(Trajectories) + 2 - next_out

(* No step of a run is for nothing: whatever the model asks for or         *)
(* answers, and wherever something raises, less is left to do, and never   *)
(* less than nothing.  With StepsLeft as it is at the start this bounds    *)
(* what one command asks of the provider.                                  *)
StepsRunOut == [][LiveStep => StepsLeft' \in 0 .. StepsLeft - 1]_vars

(* What it rests on: the loop does not go past its limit.                  *)
LoopInv == phase = "governed" => iteration <= config.max_iterations

(* Every run of the command comes to an end: the agent loop, whatever the  *)
(* model asks for, and the export.                                         *)
CommandEnds == phase # "idle" ~> phase = "idle"
=============================================================================
