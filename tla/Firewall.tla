------------------------------ MODULE Firewall ------------------------------
(***************************************************************************)
(* The semantic firewall (firewall/engine.py, policy.py, main.py): the     *)
(* contract registry, the evaluation of a query against the contract of    *)
(* its metric, the audit log and the counters of the HTTP service.         *)
(*                                                                         *)
(* evaluate_sql never awaits, so a request is one step.  SQL is a constant *)
(* that parses or not, a contract one that counts violations of it.        *)
(***************************************************************************)
EXTENDS Integers, Sequences, FiniteSets, SequencesExt, FiniteSetsExt

CONSTANTS
  Metrics,          \* metric ids that some contract file defines
  Unregistered,     \* a metric id that none defines
  Contracts,        \* contract definitions
  Malformed,        \* those with a required filter that does not parse
  Sqls,             \* queries, each in the dialect of its request
  Parses,           \* those that parse in that dialect
  Violations,       \* [Contracts -> [Sqls -> Nat]]
  Versions,         \* version labels, of a file or passed to register
  NotText,          \* those that are no text: YAML's 1.0, a date, nothing
  Opaque,           \* those of them that JSON cannot write: a date
  Hash,             \* [1 .. MaxBoots -> [Sqls -> Int]]: hash() of each process
  Dirs,             \* contract directories the process may start on
  StrictMode,       \* the PolicyEngine's flag; TRUE in the HTTP service
  None,
  MaxRequests, MaxRegisters, MaxBoots    \* bounds, over all processes

\* A contract file: its stem, whether it lies at the top of the directory,
\* and its content; metric None stands for a file that fails to load.
File == [stem : Metrics \cup {"contract"}, top : BOOLEAN,
         metric : Metrics \cup {None}, contract : Contracts, version : Versions]

Entry == [contract : Contracts, version : Versions]

ASSUME FirewallAssumption ==
  /\ Unregistered \notin Metrics /\ None \notin Metrics
  /\ Malformed \subseteq Contracts /\ Parses \subseteq Sqls
  /\ Violations \in [Contracts -> [Sqls -> Nat]]
  /\ Opaque \subseteq NotText /\ NotText \subseteq Versions
  /\ MaxBoots \in Nat \ {0}
  /\ Hash \in [1 .. MaxBoots -> [Sqls -> Int]]
  /\ Dirs \subseteq SUBSET File
  /\ StrictMode \in BOOLEAN
  /\ None \notin Entry

VARIABLES
  dir,              \* the contract directory
  contracts,        \* the registry: metric -> entry, None if there is none
  audit_log,        \* traces of this process
  shipped,          \* the traces that processes wrote to their logger
  counters,         \* its Prometheus counters
  boot,             \* processes started; salts Python's hash()
  next_id,          \* the next uuid4
  last,             \* ghost: the last request that was decided
  kept,             \* ghost: what clients keep of the answers they got
  early,            \* ghost: requests denied before the contract was read
  failed,           \* ghost: requests that ended in the validator's exception
  registers,        \* ghost: calls of register
  labels            \* ghost: every <<metric, entry>> the registry ever held

fwVars == <<dir, contracts, audit_log, shipped, counters, boot, next_id, last,
            kept, early, failed, registers, labels>>
-----------------------------------------------------------------------------
Decisions == {"ALLOW", "AUDIT", "REQUIRE_REVIEW", "DENY"}

Trace == [trace_id : Nat, metric_id : Metrics, contract_version : Versions,
          sql_hash : Int, decision : Decisions, violation_count : Nat]

\* What a client keeps: its query, and the answer's trace id.
Receipt == [trace_id : Nat, sql : Sqls]

Counters == [requests : Nat, decisions : [Decisions -> Nat],
             violations : Nat, blocked : Nat]

NoCounts == [requests |-> 0, decisions |-> [d \in Decisions |-> 0],
             violations |-> 0, blocked |-> 0]

ContentOf(f) == [contract |-> f.contract, version |-> f.version]

(* What loading a directory may give: for each metric one of the files     *)
(* that define it, the last one the file system lists.                     *)
LoadContracts(d) ==
  {reg \in [Metrics -> Entry \cup {None}] :
     \A m \in Metrics :
       LET files == {f \in d : f.metric = m}
       IN  IF files = {} THEN reg[m] = None
           ELSE reg[m] \in {ContentOf(f) : f \in files}}

LabelsOf(reg) == {<<m, reg[m]>> : m \in {n \in Metrics : reg[n] # None}}

(* The policy decides on the severities of the violations ...              *)
Policy(severities) ==
  IF severities = {} THEN "ALLOW"
  ELSE IF severities \cap {"ERROR", "CRITICAL", "FATAL"} # {}
       THEN IF StrictMode THEN "DENY" ELSE "REQUIRE_REVIEW"
       ELSE "AUDIT"

(* ... which the evaluator all sets to ERROR.                              *)
Severities(n) == IF n = 0 THEN {} ELSE {"ERROR"}

ExecutionAllowed(decision) == decision \in {"ALLOW", "AUDIT"}
-----------------------------------------------------------------------------
Init ==
  /\ dir \in Dirs
  /\ contracts \in LoadContracts(dir)
  /\ audit_log = <<>> /\ shipped = {} /\ counters = NoCounts
  /\ boot = 1 /\ next_id = 0
  /\ last = None /\ kept = {} /\ early = 0 /\ failed = 0 /\ registers = 0
  /\ labels = LabelsOf(contracts)

\* Mutant: blocked counts denials only.
CountOnlyDenials(decision, n) ==
  [requests |-> counters.requests + 1,
   decisions |-> [counters.decisions EXCEPT ![decision] = @ + 1],
   violations |-> counters.violations + n,
   blocked |-> counters.blocked + IF decision = "DENY" THEN 1 ELSE 0]

(* The counters of the HTTP handler for a request that was answered.       *)
Count(decision, n) ==
  [requests |-> counters.requests + 1,
   decisions |-> [counters.decisions EXCEPT ![decision] = @ + 1],
   violations |-> counters.violations + n,
   blocked |-> counters.blocked + IF ExecutionAllowed(decision) THEN 0 ELSE 1]

(* The one counter that is written before the request is evaluated.        *)
CountRequest ==
  [requests |-> counters.requests + 1, decisions |-> counters.decisions,
   violations |-> counters.violations, blocked |-> counters.blocked]

Registered(m) == m \in Metrics /\ contracts[m] # None

(* An unknown metric, or SQL (or a dialect) that does not parse: denied    *)
(* without an audit trace.                                                 *)
EvaluateDeniesEarly(m, sql) ==
  /\ next_id < MaxRequests
  /\ ~Registered(m) \/ sql \notin Parses
  /\ counters' = Count("DENY", 0)
  /\ last' = [metric |-> m, sql |-> sql, decision |-> "DENY",
              trace_id |-> next_id, under |-> None, answered |-> TRUE]
  /\ kept' = kept \cup {[trace_id |-> next_id, sql |-> sql]}
  /\ next_id' = next_id + 1
  /\ early' = early + 1
  /\ UNCHANGED <<dir, contracts, audit_log, shipped, boot, failed, registers,
                 labels>>

(* The validator raises on a contract whose filter does not parse: the     *)
(* request was counted, nothing else happens and the client gets a 500.    *)
EvaluateRaises(m, sql) ==
  /\ next_id < MaxRequests
  /\ Registered(m) /\ sql \in Parses
  /\ contracts[m].contract \in Malformed
  /\ counters' = CountRequest
  /\ last' = None
  /\ next_id' = next_id + 1
  /\ failed' = failed + 1
  /\ UNCHANGED <<dir, contracts, audit_log, shipped, boot, kept, early,
                 registers, labels>>

\* Mutant: get's second result, the version, is not passed on.
TraceWithoutVersion(m, sql, n, decision) ==
  [trace_id |-> next_id, metric_id |-> m, contract_version |-> None,
   sql_hash |-> Hash[boot][sql],
   decision |-> decision, violation_count |-> n]

(* What the trace of a decided request says; not the SQL.                  *)
TraceOf(m, sql, n, decision) ==
  [trace_id |-> next_id, metric_id |-> m,
   contract_version |-> contracts[m].version,
   sql_hash |-> Hash[boot][sql],
   decision |-> decision, violation_count |-> n]

(* The contract is evaluated, the policy decides; the trace is appended to *)
(* the log and then written to the logger, which takes what JSON can write.*)
Decide(m, sql, answered) ==
  /\ next_id < MaxRequests
  /\ Registered(m) /\ sql \in Parses
  /\ contracts[m].contract \notin Malformed
  /\ LET n == Violations[contracts[m].contract][sql]
         decision == Policy(Severities(n))
         trace == TraceOf(m, sql, n, decision)
     IN  /\ audit_log' = Append(audit_log, trace)
         /\ shipped' = shipped \cup
              IF contracts[m].version \in Opaque THEN {} ELSE {trace}
         /\ counters' = IF answered THEN Count(decision, n) ELSE CountRequest
         /\ last' = [metric |-> m, sql |-> sql, decision |-> decision,
                     trace_id |-> next_id, under |-> contracts[m].contract,
                     answered |-> answered]
  /\ kept' = kept \cup
       IF answered THEN {[trace_id |-> next_id, sql |-> sql]} ELSE {}
  /\ next_id' = next_id + 1
  /\ UNCHANGED <<dir, contracts, boot, early, failed, registers, labels>>

(* The answer repeats the version.                                         *)
EvaluateDecides(m, sql) ==
  /\ Registered(m) /\ contracts[m].version \notin NotText
  /\ Decide(m, sql, TRUE)

(* If that is no text, writing the trace or building the answer raises: the*)
(* trace is on the log, the client gets a 500 and nothing else is counted. *)
EvaluateUnanswered(m, sql) ==
  /\ Registered(m) /\ contracts[m].version \in NotText
  /\ Decide(m, sql, FALSE)

\* Mutant: the new definition keeps the label of the one it replaces.
RegisterKeepingVersion(m, c, v) ==
  [contracts EXCEPT ![m] =
     [contract |-> c, version |-> IF @ = None THEN v ELSE @.version]]

Replaced(m, c, v) == [contracts EXCEPT ![m] = [contract |-> c, version |-> v]]

(* register: the new definition replaces the metric's old one.             *)
Register(m, c, v) ==
  /\ registers < MaxRegisters
  /\ registers' = registers + 1
  /\ contracts' = Replaced(m, c, v)
  /\ labels' = labels \cup {<<m, [contract |-> c, version |-> v]>>}
  /\ UNCHANGED <<dir, audit_log, shipped, counters, boot, next_id, last, kept,
                 early, failed>>

(* A new process: the directory is loaded again, log and counters are new; *)
(* what was written to the logger stays, and so does what clients keep.    *)
Restart ==
  /\ boot < MaxBoots
  /\ boot' = boot + 1
  /\ contracts' \in LoadContracts(dir)
  /\ labels' = labels \cup LabelsOf(contracts')
  /\ audit_log' = <<>> /\ counters' = NoCounts
  /\ last' = None /\ early' = 0 /\ failed' = 0
  /\ UNCHANGED <<dir, shipped, next_id, kept, registers>>

(* External: somebody deploys another contract directory.                  *)
Deploy(d) ==
  /\ d # dir
  /\ dir' = d
  /\ UNCHANGED <<contracts, audit_log, shipped, counters, boot, next_id, last,
                 kept, early, failed, registers, labels>>
-----------------------------------------------------------------------------
Evaluate ==
  \E m \in Metrics \cup {Unregistered}, sql \in Sqls :
    \/ EvaluateDeniesEarly(m, sql)
    \/ EvaluateRaises(m, sql)
    \/ EvaluateDecides(m, sql)
    \/ EvaluateUnanswered(m, sql)

Next ==
  \/ Evaluate
  \/ \E m \in Metrics, c \in Contracts, v \in Versions : Register(m, c, v)
  \/ Restart
  \/ \E d \in Dirs : Deploy(d)

Spec == Init /\ [][Next]_fwVars
-----------------------------------------------------------------------------
(* Types of the firewall's state and of the ghosts.                        *)
TypeOK ==
  /\ dir \in Dirs
  /\ contracts \in [Metrics -> Entry \cup {None}]
  /\ audit_log \in Seq(Trace) /\ shipped \subseteq Trace
  /\ kept \subseteq Receipt
  /\ counters \in Counters
  /\ boot \in 1 .. MaxBoots /\ next_id \in Nat
  /\ last \in {None} \cup
       [metric : Metrics \cup {Unregistered}, sql : Sqls, decision : Decisions,
        trace_id : Nat, under : Contracts \cup {None}, answered : BOOLEAN]
  /\ early \in Nat /\ failed \in Nat /\ registers \in Nat
  /\ labels \subseteq Metrics \X Entry

Traces(decisions, versions) ==
  Cardinality({i \in DOMAIN audit_log :
                 /\ audit_log[i].decision \in decisions
                 /\ audit_log[i].contract_version \in versions})

Answered(d) == Traces({d}, Versions \ NotText)

Unanswered == Traces(Decisions, NotText)

Decided == counters.decisions["ALLOW"] + counters.decisions["AUDIT"]
           + counters.decisions["REQUIRE_REVIEW"] + counters.decisions["DENY"]

(* The HTTP handler's counters and the evaluator's log are written in two  *)
(* places and do not agree, but the difference can be told: a decision is  *)
(* counted but not logged if it is an early denial, and logged but not     *)
(* counted if the version in its trace is no text; every request was       *)
(* decided, left such a trace or made the validator raise; and blocked is  *)
(* what was answered and not allowed.                                      *)
CountersBalance ==
  /\ counters.requests = Decided + Unanswered + failed
  /\ counters.blocked = counters.decisions["REQUIRE_REVIEW"]
                        + counters.decisions["DENY"]
  /\ \A d \in Decisions :
       counters.decisions[d] = Answered(d) + IF d = "DENY" THEN early ELSE 0

(* No label of the metric was ever given to two definitions.               *)
LabelsPin ==
  \A p, q \in labels : p[1] = q[1] /\ p[2].version = q[2].version => p = q

\* The contract finds in the query what the trace says.
Reproduces(contract, sql, t) ==
  /\ Violations[contract][sql] = t.violation_count
  /\ ExecutionAllowed(t.decision) <=> t.violation_count = 0

(* A trace that was written to the logger holds a hash that only its own   *)
(* process can compute, so it takes the query from the client that got the *)
(* trace id with its answer.  As long as versions are not reused, the two  *)
(* together can be re-checked, also after the registry moved on or the     *)
(* process restarted: the definition that the trace's label names finds as *)
(* many violations in that query, and the trace says that the query may    *)
(* run exactly if there are none.                                          *)
TracesAreReproducible ==
  LabelsPin =>
    \A t \in shipped, k \in kept, p \in labels :
      /\ k.trace_id = t.trace_id
      /\ p[1] = t.metric_id /\ p[2].version = t.contract_version
      => Reproduces(p[2].contract, k.sql, t)

(* What reproducibility rests on: labels has every entry of the registry,  *)
(* and one that explains each trace whose answer was kept; no id that was  *)
(* ever used is used again.                                                *)
LabelsInv ==
  /\ \A m \in Metrics : contracts[m] # None => <<m, contracts[m]>> \in labels
  /\ \A t \in shipped : t.trace_id < next_id
  /\ \A k \in kept : k.trace_id < next_id
  /\ \A t \in shipped, k \in kept : k.trace_id = t.trace_id =>
       \E p \in labels :
         /\ p[1] = t.metric_id /\ p[2].version = t.contract_version
         /\ Reproduces(p[2].contract, k.sql, t)
=============================================================================
