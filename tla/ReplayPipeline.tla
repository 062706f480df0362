--------------------------- MODULE ReplayPipeline ---------------------------
(***************************************************************************)
(* The replay worker (replay/worker.py, main.py, patcher.py) behind the    *)
(* firewall: log lines reach a file, and cycles started by cron read that  *)
(* file from its first line, replay what was allowed against the contract  *)
(* files of the day and draft a pull request for what mutants survive.     *)
(***************************************************************************)
EXTENDS Firewall

CONSTANTS
  Fixtures,      \* the fixture directory holds a CSV file (for any metric)
  Replay,        \* [Contracts -> [Sqls -> Report]]: the mutation benchmark
  SendsSql,      \* lines come from the gateway, with SQL, not the firewall
  MaxLines, MaxCrashes, MaxDeploys    \* bounds, on actions only

MutationTypes == {"FILTER_DROP", "GRAIN_DROP", "AGGREGATION_SWAP",
                  "MATH_OPERATOR_INVERT", "BOUNDARY_SHIFT", "DISTINCT_DROP",
                  "JOIN_PREDICATE_DROP", "COALESCE_BYPASS"}

\* The engine or DuckDB raises, there is nothing to mutate, or a report with
\* the types of the valid defects that survived.
Report == [outcome : {"raises", "no_mutations", "report"},
           survivors : SUBSET MutationTypes]

VARIABLES
  log,           \* the lines of the audit log file; None is a torn line
  pos,           \* the line a running cycle reads next; 0: no cycle runs
  results,       \* the results of this cycle so far
  moved,         \* ghost: the contract directory changed during this cycle
  reported,      \* ghost: lines some cycle gave a result for
  crashes,       \* ghost: cycles killed
  deploys        \* ghost: contract directories deployed

rpVars == <<log, pos, results, moved, reported, crashes, deploys>>
vars == <<fwVars, rpVars>>
-----------------------------------------------------------------------------
Line == [trace_id : Nat, metric_id : Metrics \cup {Unregistered},
         decision : Decisions, sql : Sqls \cup {None},
         query : Sqls,                         \* ghost: what was asked
         under : Contracts \cup {None}]        \* ghost: what decided it

ASSUME PipelineAssumption ==
  /\ Fixtures \in BOOLEAN /\ SendsSql \in BOOLEAN
  /\ Replay \in [Contracts -> [Sqls -> Report]]
  /\ None \notin Sqls /\ None \notin Contracts /\ None \notin Line

SuggestionKeys == {"population_required", "grain_dimensions",
                   "aggregation_review_needed", "boundary_rules"}

Result == [line : Nat, trace_id : Nat, metric_id : Metrics, sql : Sqls,
           against : Contracts, survivors : SUBSET MutationTypes,
           pr : SUBSET SuggestionKeys]

(* What the patcher suggests for the survivors; other types it ignores.    *)
SuggestInvariants(survivors) ==
  {k \in SuggestionKeys :
     \/ k = "population_required" /\ "FILTER_DROP" \in survivors
     \/ k = "grain_dimensions" /\ "GRAIN_DROP" \in survivors
     \/ k = "aggregation_review_needed"
        /\ survivors \cap {"AGGREGATION_SWAP", "MATH_OPERATOR_INVERT"} # {}
     \/ k = "boundary_rules" /\ "BOUNDARY_SHIFT" \in survivors}

(* The sections that the body of the pull request is given.                *)
GeneratePrBody(suggestions) ==
  suggestions \cap {"population_required", "grain_dimensions",
                    "aggregation_review_needed"}

(* The contract files the worker may take for a metric, by their names: the*)
(* one at the top of the directory or else any one below it.               *)
FindContractPath(m) ==
  LET named == {f \in dir : f.stem = m}
      direct == {f \in named : f.top}
  IN  IF direct # {} THEN direct ELSE named

\* Mutant: whatever the decision was.
ReplaysAnyDecision(line) == line # None

\* Was it allowed?
WasAllowed(line) == line # None /\ line.decision \in {"ALLOW", "AUDIT"}

(* process_trace: drop the line, raise, or report.  file is the contract   *)
(* file it found, None if there is none.                                   *)
ProcessTrace(line, file) ==
  IF line = None THEN "raises"
  ELSE IF ~WasAllowed(line) \/ line.sql = None \/ file = None THEN "dropped"
  ELSE IF file.metric = None THEN "raises"
  ELSE IF ~Fixtures THEN "dropped"
  ELSE LET outcome == Replay[file.contract][line.sql].outcome
       IN  IF outcome = "no_mutations" THEN "dropped" ELSE outcome
-----------------------------------------------------------------------------
PInit ==
  /\ Init
  /\ log = <<>> /\ pos = 0 /\ results = <<>>
  /\ moved = FALSE /\ reported = {} /\ crashes = 0 /\ deploys = 0

(* External: a line about the last answer reaches the file, perhaps twice: *)
(* from the gateway that sent the query and got the answer, with the SQL,  *)
(* or else the trace the firewall wrote, which tells only the SQL's hash.  *)
GatewayLogs ==
  /\ last # None /\ Len(log) < MaxLines
  /\ IF SendsSql THEN last.answered
     ELSE \E t \in shipped : t.trace_id = last.trace_id
  /\ log' = Append(log,
       [trace_id |-> last.trace_id, metric_id |-> last.metric,
        decision |-> last.decision, sql |-> IF SendsSql THEN last.sql ELSE None,
        query |-> last.sql, under |-> last.under])
  /\ UNCHANGED <<fwVars, pos, results, moved, reported, crashes, deploys>>

(* External: the writer dies in the middle of a line.                      *)
TornLine ==
  /\ Len(log) < MaxLines
  /\ log' = Append(log, None)
  /\ UNCHANGED <<fwVars, pos, results, moved, reported, crashes, deploys>>

(* Cron starts a cycle; it opens the file at its first line.               *)
StartCycle ==
  /\ pos = 0
  /\ pos' = 1 /\ results' = <<>> /\ moved' = FALSE
  /\ UNCHANGED <<fwVars, log, reported, crashes, deploys>>

ResultOf(line, file) ==
  LET survivors == Replay[file.contract][line.sql].survivors
  IN  [line |-> pos, trace_id |-> line.trace_id, metric_id |-> line.metric_id,
       sql |-> line.sql, against |-> file.contract, survivors |-> survivors,
       pr |-> GeneratePrBody(SuggestInvariants(survivors))]

\* Mutant: the list of results is begun anew for each line.
OnlyLast(line, file) == <<ResultOf(line, file)>>

Collected(line, file) == Append(results, ResultOf(line, file))

\* Mutant: one try around the whole loop.
ReadLineStoppingAtErrors ==
  /\ pos \in 1 .. Len(log)
  /\ LET line == log[pos]
         files == IF line = None THEN {} ELSE FindContractPath(line.metric_id)
     IN  \E file \in IF files = {} THEN {None} ELSE files :
           LET outcome == ProcessTrace(line, file)
           IN  /\ pos' = IF outcome = "raises" THEN 0 ELSE pos + 1
               /\ IF outcome = "report"
                  THEN /\ results' = Collected(line, file)
                       /\ reported' = reported \cup {pos}
                  ELSE UNCHANGED <<results, reported>>
  /\ UNCHANGED <<fwVars, log, moved, crashes, deploys>>

(* The cycle processes one line.  An exception costs that line only.       *)
ReadLine ==
  /\ pos \in 1 .. Len(log)
  /\ pos' = pos + 1
  /\ LET line == log[pos]
         files == IF line = None THEN {} ELSE FindContractPath(line.metric_id)
     IN  \E file \in IF files = {} THEN {None} ELSE files :
           IF ProcessTrace(line, file) = "report"
           THEN /\ results' = Collected(line, file)
                /\ reported' = reported \cup {pos}
           ELSE UNCHANGED <<results, reported>>
  /\ UNCHANGED <<fwVars, log, moved, crashes, deploys>>

\* Mutant: the cycle follows the file instead of ending.
EndCycleNever ==
  /\ pos > Len(log)
  /\ pos' = pos + 1
  /\ UNCHANGED <<fwVars, log, results, moved, reported, crashes, deploys>>

(* The end of the file is reached; the cycle's results are returned.       *)
EndCycle ==
  /\ pos > Len(log)
  /\ pos' = 0
  /\ UNCHANGED <<fwVars, log, results, moved, reported, crashes, deploys>>

(* External: the cycle's process is killed.                                *)
KillCycle ==
  /\ pos > 0 /\ crashes < MaxCrashes
  /\ pos' = 0 /\ results' = <<>>
  /\ crashes' = crashes + 1
  /\ UNCHANGED <<fwVars, log, moved, reported, deploys>>

(* A step of the firewall, of those who call it or who deploy contracts.   *)
FirewallStep ==
  \/ /\ Evaluate \/ Restart
        \/ \E m \in Metrics, c \in Contracts, v \in Versions : Register(m, c, v)
     /\ UNCHANGED rpVars
  \/ /\ deploys < MaxDeploys
     /\ \E d \in Dirs : Deploy(d)
     /\ deploys' = deploys + 1
     /\ moved' = TRUE
     /\ UNCHANGED <<log, pos, results, reported, crashes>>

Cycle == StartCycle \/ ReadLine \/ EndCycle

PNext == FirewallStep \/ GatewayLogs \/ TornLine \/ Cycle \/ KillCycle

PSpec == PInit /\ [][PNext]_vars

(* Cron starts cycles again and again, and a running cycle goes on.        *)
FairSpec == PSpec /\ WF_vars(Cycle)
-----------------------------------------------------------------------------
(* Types of the pipeline's state and of the ghosts.                        *)
PTypeOK ==
  /\ log \in Seq(Line \cup {None})
  /\ pos \in 0 .. Len(log) + 1
  /\ results \in Seq(Result)
  /\ moved \in BOOLEAN
  /\ reported \subseteq DOMAIN log
  /\ crashes \in Nat /\ deploys \in Nat

(* The worker can report on line i, whichever file it finds.               *)
Replayable(i) ==
  /\ i \in DOMAIN log /\ WasAllowed(log[i])
  /\ FindContractPath(log[i].metric_id) # {}
  /\ \A file \in FindContractPath(log[i].metric_id) :
       ProcessTrace(log[i], file) = "report"

(* A cycle leaves out no line it could report on and reports none twice,   *)
(* though some lines raise and the file grows under it.                    *)
CycleCoversLog ==
  /\ \A i, j \in DOMAIN results : i < j => results[i].line < results[j].line
  /\ pos > 0 /\ ~moved =>
       \A i \in 1 .. pos - 1 :
         Replayable(i) => \E r \in DOMAIN results : results[r].line = i

(* What a cycle reports as a silent survivor had passed the firewall: the  *)
(* contract that decided about it found no violation in that SQL.          *)
SurvivorsWereAllowed ==
  \A r \in DOMAIN results :
    LET line == log[results[r].line]
    IN  line.under # None /\ Violations[line.under][results[r].sql] = 0

(* What these rest on.  The last answer, and each line that reports it,    *)
(* allows nothing but what a contract found no violation in ...            *)
AllowedIsClean(metric, under, sql) ==
  /\ metric \in Metrics /\ under \in Contracts
  /\ Violations[under][sql] = 0

LastInv ==
  last # None /\ ExecutionAllowed(last.decision) =>
    AllowedIsClean(last.metric, last.under, last.sql)

LogInv ==
  \A i \in DOMAIN log : WasAllowed(log[i]) =>
    /\ AllowedIsClean(log[i].metric_id, log[i].under, log[i].query)
    /\ log[i].sql \in {None, log[i].query}

(* ... and each result is about an allowed line that the cycle has passed. *)
ResultsInv ==
  \A r \in DOMAIN results :
    /\ results[r].line \in DOMAIN log
    /\ pos > 0 => results[r].line < pos
    /\ WasAllowed(log[results[r].line])
    /\ results[r].sql = log[results[r].line].sql

(* A line the worker can report on from some time on is reported in the    *)
(* end, whatever lines precede it and though cycles are killed.            *)
ReplayableLinesAreReported ==
  \A i \in 1 .. MaxLines : <>[]Replayable(i) => <>(i \in reported)

(* The architecture's reading: the worker replays the traces that the      *)
(* firewall wrote of allowed queries.                                      *)
FirewallTracesAreReplayed ==
  pos > 0 /\ ~moved =>
    \A i \in 1 .. pos - 1 :
      /\ WasAllowed(log[i]) /\ FindContractPath(log[i].metric_id) # {} /\ Fixtures
      /\ \A file \in FindContractPath(log[i].metric_id) :
           file.metric # None /\ Replay[file.contract][log[i].query].outcome = "report"
      => \E r \in DOMAIN results : results[r].line = i
=============================================================================
