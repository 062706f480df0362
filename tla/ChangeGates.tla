----------------------------- MODULE ChangeGates -----------------------------
(***************************************************************************)
(* The gates a change of a metric's query has to pass: the check command   *)
(* (cli.py), dbt-check (adapters/dbt_integration.py), the BigQuery dry run *)
(* (adapters/bigquery.py) and the hybrid router (firewall/                 *)
(* hybrid_router.py), on top of drift detection and of the contract        *)
(* validator (compiler/contracts.py).                                      *)
(*                                                                         *)
(* CI runs check on a change; then one of the other gates is asked about   *)
(* it.  All of them compare or judge the same query and contract.          *)
(***************************************************************************)
EXTENDS QueryMutations

CONSTANTS
  Bases,           \* queries that the mutation engine is applied to
  Contracts,       \* contracts that the mutants of a base are judged by
  Edits,           \* hand-made changes: [base, candidate, contract]
  Unparseable,     \* a candidate that sqlglot does not parse
  Similar,         \* pairs of dimensions, one's text within the other's
  Policies,        \* [project_missing, budget]: 0 is no budget
  Estimates,       \* bytes that BigQuery may estimate
  SimulatedBytes,  \* what is assumed without a client: 10 MiB
  SuiteSizes,      \* numbers of assertions of a runtime suite
  OccursIn(_, _),  \* whether a required filter is found in a condition
  MarksOf(_),      \* the marks in a condition's text
  ConjunctsOf(_)   \* a condition's conjuncts if all are comparisons, and no
                   \* two the same; {} if not

ASSUME GatesAssumption ==
  /\ \A p \in Policies : p.budget \in Nat /\ p.project_missing \in BOOLEAN
  /\ Estimates \subseteq Nat /\ SimulatedBytes \in Nat /\ SuiteSizes \subseteq Nat

\* A query as DriftDetector has it; of the condition, the detector's business.
IsQuery(q) ==
  q \in [where : {q.where}, aggs : Seq([func : STRING, arg : SUBSET STRING]),
         outer : SUBSET STRING,
         joins : Seq([on : {NoClause} \cup SUBSET STRING, cross : BOOLEAN]),
         group : Seq(SUBSET STRING), having : {NoClause} \cup SUBSET STRING,
         tables : SUBSET STRING, graph : {q.graph}]

(* A CROSS JOIN has no condition; a condition is not NoClause, edited or   *)
(* not; and the normal form of a condition keeps the comparisons that are  *)
(* in it, so that with one less or another one it is not equivalent.       *)
ASSUME BasesAssumption ==
  \A q \in Bases :
    /\ IsQuery(q)
    /\ \A j \in ToSet(q.joins) :
         /\ j.cross => j.on = NoClause
         /\ j.on # NoClause =>
              \A e \in SUBSET (j.on \cup {"shifted comparison", "default", "+", "-"}) :
                e # NoClause
    /\ q.where # NoClause =>
         \A w \in LosingConjunct(q.where) \cup ShiftingBoundary(q.where) :
           ~Equivalent(q.where, w)

(* None of several comparisons is found in the text of another.            *)
Apart(conjuncts) == \A f, g \in conjuncts : OccursIn(f, g) => f = g

(* What the engine edits is a query still, and a condition that loses one  *)
(* of several comparisons no longer has them all, unless the one it lost   *)
(* is found in another.                                                    *)
ASSUME MutantsAssumption ==
  \A q \in Bases :
    /\ \A m \in Mutations(q) : m.sql # Unparseable
    /\ q.where # NoClause =>
         \A w \in LosingConjunct(q.where) :
           ConjunctsOf(q.where) # {} /\ Apart(ConjunctsOf(q.where)) =>
             \E f \in ConjunctsOf(q.where) : ~OccursIn(f, w)

VARIABLES
  change,          \* the change in question, and where it comes from
  check,           \* what the check command said
  gate             \* what the gate asked next says, or is doing

vars == <<change, check, gate>>
-----------------------------------------------------------------------------
(* A contract: whether invariants are declared at all and, if so, required *)
(* filters (conditions), required dimensions, components of the aggregate  *)
(* (marks) and whether the time zone has to be UTC, which is the default.  *)
(* parses is FALSE if a required filter does not parse.                    *)
Invariants(contract) ==
  IF contract.declared THEN contract
  ELSE [contract EXCEPT !.filters = {}, !.dimensions = {}, !.components = {},
                        !.utc = TRUE, !.parses = TRUE]

FilterPresent(filter, q) ==
  q.where # NoClause /\ OccursIn(filter, q.where)

\* Mutant: any grouping will do.
GroupsBySomething(d, q) == q.group # <<>>

DimensionPresent(d, q) ==
  \E g \in ToSet(q.group) : g = d \/ <<g, d>> \in Similar \/ <<d, g>> \in Similar

\* The marks of the whole text of a query.
Text(q) ==
  UNION ToSet(Expressions(q)) \cup q.tables
  \cup (IF q.where = NoClause THEN {} ELSE MarksOf(q.where))

(* SemanticContractValidator.validate.                                     *)
Violations(contract, q) ==
  LET inv == Invariants(contract)
  IN  {<<"Population", f>> : f \in {f \in inv.filters : ~FilterPresent(f, q)}}
      \cup {<<"Grain", d>> : d \in {d \in inv.dimensions : ~DimensionPresent(d, q)}}
      \cup {<<"Aggregation", w>> : w \in inv.components \ Text(q)}
      \cup If(inv.utc /\ "time zone" \in Text(q) /\ "utc" \notin Text(q),
              <<"Timezone", "UTC">>)

\* The validator, like the detector, parses the candidate before all else.
Raises(contract, q) == q = Unparseable \/ ~Invariants(contract).parses
-----------------------------------------------------------------------------
Init ==
  /\ \/ \E e \in Edits :
          change = [base |-> e.base, candidate |-> e.candidate,
                    contract |-> e.contract, origin |-> "edit"]
     \/ \E q \in Bases, contract \in Contracts : \E m \in Mutations(q) :
          change = [base |-> q, candidate |-> m.sql,
                    contract |-> contract, origin |-> m.type]
  /\ check = [exit |-> "not run", metric |-> FALSE, drifts |-> {}, violations |-> {}]
  /\ gate = [kind |-> "none"]

\* Mutant: what blocks a change is what the table shows in red.
FatalOrCritical(drifts) == \E d \in drifts : d.severity \in {"FATAL", "CRITICAL"}

Blocking(drifts) == \E d \in drifts : d.severity \in {"FATAL", "CRITICAL", "HIGH"}

(* check --fail-on-drift against a metric's contract or a file (--base).   *)
Check(metric) ==
  /\ check.exit = "not run"
  /\ LET judged == metric /\ change.contract.declared
         raises == \/ change.candidate = Unparseable
                   \/ judged /\ ~change.contract.parses
         drifts == Analyze(change.base, change.candidate)
         violations == IF judged THEN Violations(change.contract, change.candidate)
                       ELSE {}
     IN  check' = IF raises
                  THEN [exit |-> "raises", metric |-> metric, drifts |-> {},
                        violations |-> {}]
                  ELSE [exit |-> IF Blocking(drifts) \/ violations # {}
                                 THEN "fail" ELSE "pass",
                        metric |-> metric, drifts |-> drifts,
                        violations |-> violations]
  /\ UNCHANGED <<change, gate>>

Ready == check.exit # "not run" /\ gate.kind = "none"

Worst(drifts) == CHOOSE n \in 1 .. 6 :
  /\ n = 1 \/ \E d \in drifts : Rank(d.severity) = n
  /\ \A d \in drifts : Rank(d.severity) <= n

Threshold(failOn) ==
  Rank(CASE failOn = "critical" -> "CRITICAL"
         [] failOn = "high" -> "HIGH" [] failOn = "any" -> "LOW")

(* dbt-check on a manifest's node; only compiled SQL is accepted.          *)
DbtCheck(node, failOn) ==
  /\ Ready
  /\ LET drifts == Analyze(change.base, change.candidate)
         raises == node # "compiled" \/ change.candidate = Unparseable
     IN  gate' = IF raises
                 THEN [kind |-> "dbt", failOn |-> failOn, exit |-> "raises",
                       decision |-> "none"]
                 ELSE [kind |-> "dbt", failOn |-> failOn,
                       exit |-> IF Worst(drifts) >= Threshold(failOn)
                                   /\ drifts # {} THEN "fail" ELSE "pass",
                       decision |-> IF Worst(drifts) >= Rank("CRITICAL") THEN "DENY"
                                    ELSE IF drifts # {} THEN "REQUIRE_REVIEW"
                                    ELSE "ALLOW"]
  /\ UNCHANGED <<change, check>>

BigQueryAnswer(policy, mode, bytes, decision) ==
  [kind |-> "bigquery", budget |-> policy.budget, mode |-> mode,
   bytes |-> bytes, decision |-> decision]

OverBudget(policy, bytes) == policy.budget > 0 /\ bytes > policy.budget

\* Mutant: elif for if, the budget is looked at for compliant queries only.
DecideReviewFirst(policy, bytes, failed, violations) ==
  CASE failed -> "DENY"
    [] ~failed /\ violations # {} -> "REQUIRE_REVIEW"
    [] OTHER -> IF OverBudget(policy, bytes) THEN "DENY" ELSE "ALLOW"

Decide(policy, bytes, failed, violations) ==
  IF OverBudget(policy, bytes) \/ failed THEN "DENY"
  ELSE IF violations # {} THEN "REQUIRE_REVIEW" ELSE "ALLOW"

(* BigQueryDryRunAdapter.evaluate: service is what the client answers,     *)
(* bytes or an exception, or that there is no client.                      *)
BigQueryEvaluate(policy, service) ==
  /\ Ready
  /\ gate' =
       IF policy.project_missing THEN BigQueryAnswer(policy, "policy_denied", 0, "DENY")
       ELSE IF Raises(change.contract, change.candidate)
            THEN BigQueryAnswer(policy, "parse_failed", 0, "DENY")
       ELSE LET bytes == CASE service.is = "absent" -> SimulatedBytes
                           [] service.is = "raises" -> 0
                           [] service.is = "answers" -> service.bytes
                mode == CASE service.is = "absent" -> "dry_run_simulated"
                          [] service.is = "raises" -> "dry_run_failed"
                          [] service.is = "answers" -> "dry_run"
            IN  BigQueryAnswer(
                  policy, IF OverBudget(policy, bytes) THEN "budget_exceeded" ELSE mode,
                  bytes,
                  Decide(policy, bytes, service.is = "raises",
                         Violations(change.contract, change.candidate)))
  /\ UNCHANGED <<change, check>>

Routed(decision, size) == [kind |-> "router", decision |-> decision,
                           size |-> size, left |-> size, answers |-> <<>>]

\* Nodes that the router counts; one CASE is still simple.
Complex(q) == \/ q.graph.ctes > 1 \/ q.graph.subqueries > 1
              \/ q.graph.windows > 0 \/ q.graph.cases > 1

(* validate_hybrid up to the runtime tier: reject or approve statically,   *)
(* or ask the suite, if there is one (size -1: there is none).             *)
RouteStatically(size, force) ==
  /\ Ready
  /\ gate' = IF Raises(change.contract, change.candidate) THEN Routed("raises", 0)
             ELSE IF Violations(change.contract, change.candidate) # {}
                  THEN Routed("tier_3_static_rejected", 0)
             ELSE IF ~(force \/ Complex(change.candidate)) \/ size < 0
                  THEN Routed("tier_3_static_approved", 0)
             ELSE Routed("escalated", size)
  /\ UNCHANGED <<change, check>>

\* Mutant: the loop takes one turn too many.
AskOneMore(answer) ==
  /\ gate.kind = "router" /\ gate.decision = "escalated" /\ gate.left >= 0
  /\ gate' = [gate EXCEPT !.left = IF answer = "raises" THEN 0 ELSE @ - 1,
                          !.answers = Append(@, answer)]
  /\ UNCHANGED <<change, check>>

(* One assertion of the suite; the first that raises ends the loop.        *)
AskAssertion(answer) ==
  /\ gate.kind = "router" /\ gate.decision = "escalated" /\ gate.left > 0
  /\ gate' = [gate EXCEPT !.left = IF answer = "raises" THEN 0 ELSE @ - 1,
                          !.answers = Append(@, answer)]
  /\ UNCHANGED <<change, check>>

RuntimePassed(answers) == \A i \in DOMAIN answers : answers[i] = "passes"

DecideAtRuntime ==
  /\ gate.kind = "router" /\ gate.decision = "escalated" /\ gate.left = 0
  /\ gate' = [gate EXCEPT !.decision = IF RuntimePassed(gate.answers)
                                       THEN "tier_4_escalated_approved"
                                       ELSE "tier_4_escalated_rejected"]
  /\ UNCHANGED <<change, check>>
-----------------------------------------------------------------------------
Services == {[is |-> "absent", bytes |-> 0], [is |-> "raises", bytes |-> 0]}
            \cup [is : {"answers"}, bytes : Estimates]

Next ==
  \/ \E metric \in BOOLEAN : Check(metric)
  \/ \E node \in {"compiled", "raw", "missing"}, f \in {"critical", "high", "any"} :
       DbtCheck(node, f)
  \/ \E policy \in Policies, service \in Services : BigQueryEvaluate(policy, service)
  \/ \E size \in SuiteSizes \cup {-1}, force \in BOOLEAN : RouteStatically(size, force)
  \/ \E answer \in {"passes", "fails", "raises"} : AskAssertion(answer)
  \/ DecideAtRuntime

Spec == Init /\ [][Next]_vars
-----------------------------------------------------------------------------
Exits == {"pass", "fail", "raises"}

Decisions == [dbt      |-> {"none", "DENY", "REQUIRE_REVIEW", "ALLOW"},
              bigquery |-> {"DENY", "REQUIRE_REVIEW", "ALLOW"},
              router   |-> {"raises", "escalated",
                            "tier_3_static_rejected", "tier_3_static_approved",
                            "tier_4_escalated_rejected", "tier_4_escalated_approved"}]

(* The state has its types: verdicts are those that the commands return,   *)
(* drifts are of the declared severities, and the router never asks for    *)
(* more assertions than its suite has.                                     *)
TypeOK ==
  /\ check.exit \in Exits \cup {"not run"} /\ check.metric \in BOOLEAN
  /\ \A d \in check.drifts : d.severity \in ToSet(Severities)
  /\ \/ gate = [kind |-> "none"]
     \/ /\ gate.kind = "dbt"
        /\ gate.exit \in Exits /\ gate.decision \in Decisions.dbt
     \/ /\ gate.kind = "bigquery"
        /\ gate.bytes \in Nat /\ gate.decision \in Decisions.bigquery
     \/ /\ gate.kind = "router"
        /\ gate.decision \in Decisions.router /\ gate.left \in 0 .. gate.size

Checked == check.exit \in {"pass", "fail"}

(* What the properties rest on: check comes first and its verdict is on    *)
(* the change in question ...                                              *)
CheckInv ==
  /\ check.exit = "not run" => gate = [kind |-> "none"]
  /\ Checked => check.drifts = Analyze(change.base, change.candidate)
  /\ check.exit = "pass" =>
       /\ ~Blocking(check.drifts)
       /\ check.metric /\ change.contract.declared =>
            /\ ~Raises(change.contract, change.candidate)
            /\ Violations(change.contract, change.candidate) = {}

(* ... and the router has asked all it was to ask, or was stopped by an    *)
(* assertion that raised, about a query that satisfies its contract.       *)
RouterInv ==
  gate.kind = "router" =>
    /\ gate \in [kind : {"router"}, decision : Decisions.router, size : Nat,
                 left : Nat, answers : Seq({"passes", "fails", "raises"})]
    /\ gate.left <= gate.size
    /\ RuntimePassed(gate.answers) => Len(gate.answers) + gate.left = gate.size
    /\ gate.decision = "tier_4_escalated_approved" =>
         gate.left = 0 /\ RuntimePassed(gate.answers)
    /\ gate.decision = "escalated" \/ gate.answers # <<>> =>
         Violations(change.contract, change.candidate) = {}

(* ... and check and the router have been told what the validator says.    *)
VerdictInv ==
  /\ Checked /\ check.metric /\ change.contract.declared =>
       check.violations = Violations(change.contract, change.candidate)
  /\ gate.kind = "router" =>
       /\ gate.decision = "raises" => Raises(change.contract, change.candidate)
       /\ gate.decision \notin {"raises", "tier_3_static_rejected"} =>
            Violations(change.contract, change.candidate) = {}

JoinsKept(base, candidate) ==
  /\ Len(base.joins) = Len(candidate.joins)
  /\ \A i \in DOMAIN base.joins :
       base.joins[i].on = NoClause <=> candidate.joins[i].on = NoClause

(* The detector sees what the mutation engine does, two blind spots apart: *)
(* a mutant it reports nothing about differs from its base only around the *)
(* aggregates in the SELECT list, ORDER BY or QUALIFY, or inside join      *)
(* conditions that are still there.  (The mutation engine's operators      *)
(* against all seven analyses of SemanticDriftDetector.)                   *)
MutantsAreSeen ==
  Checked /\ change.origin # "edit" /\ check.drifts = {} =>
    /\ JoinsKept(change.base, change.candidate)
    /\ [change.candidate EXCEPT !.outer = change.base.outer,
                                !.joins = change.base.joins] = change.base

(* A change that CI's check lets pass is refused by no later gate for its  *)
(* SQL: dbt-check blocks it neither at critical nor at high, the dry run   *)
(* asks for no review, the router does not reject it statically.  And what *)
(* dbt-check denies, check has stopped.  (Three commands with thresholds   *)
(* of their own, one detector and one validator.)                          *)
GatesAgree ==
  /\ check.exit = "pass" /\ check.metric /\ change.contract.declared =>
       /\ gate.kind = "dbt" => /\ gate.decision # "DENY"
                               /\ gate.failOn # "any" => gate.exit # "fail"
       /\ gate.kind = "bigquery" => /\ gate.decision # "REQUIRE_REVIEW"
                                    /\ gate.mode # "parse_failed"
       /\ gate.kind = "router" =>
            gate.decision \notin {"raises", "tier_3_static_rejected"}
  /\ gate.kind = "dbt" /\ gate.decision = "DENY" => check.exit # "pass"

\* Under a byte budget nothing above it is let through, reviewed or not, and
\* what the dry run allows satisfies the contract.
AllowedWithinBudget ==
  gate.kind = "bigquery" =>
    /\ gate.decision # "DENY" /\ gate.budget > 0 => gate.bytes <= gate.budget
    /\ gate.decision = "ALLOW" =>
         /\ ~Raises(change.contract, change.candidate)
         /\ Violations(change.contract, change.candidate) = {}

\* The runtime tier approves only what every assertion of the suite has passed,
\* one that raised is not passed over, and it is asked only about queries that
\* satisfy the contract.
ApprovedMeansJudged ==
  gate.kind = "router" =>
    /\ gate.decision = "tier_4_escalated_approved" =>
         /\ Len(gate.answers) = gate.size
         /\ ToSet(gate.answers) \subseteq {"passes"}
    /\ gate.answers # <<>> =>
         Violations(change.contract, change.candidate) = {}

(* No gate lets a change through that it has not judged to the end: the    *)
(* dry run by budget and contract, the router's last tier by contract and  *)
(* by every assertion, though estimates are missing and assertions raise.  *)
AllowanceIsEarned == AllowedWithinBudget /\ ApprovedMeansJudged

(* The contract says all of its base: each conjunct of WHERE is required   *)
(* and so is each dimension, and none is found in the text of another.     *)
Complete(contract, base) ==
  /\ contract.declared /\ contract.parses
  /\ base.where # NoClause
  /\ ConjunctsOf(base.where) # {} /\ ConjunctsOf(base.where) \subseteq contract.filters
  /\ Apart(ConjunctsOf(base.where))
  /\ IsInjective(base.group) /\ ToSet(base.group) \subseteq contract.dimensions
  /\ \A d, e \in ToSet(base.group) : <<d, e>> \notin Similar

(* A contract that declares the population and the grain of its metric, in *)
(* filters and dimensions that are not found in one another's text,        *)
(* catches the mutants that lose a part of them, whatever the detector     *)
(* says: check reports violations, the dry run never allows and the router *)
(* rejects without running anything.  (contracts.py looks for a filter by  *)
(* its text: status = 'paid' is not missed where order_status = 'paid' is  *)
(* left, and nothing is said of such a contract.)                          *)
DropsBreakTheContract ==
  /\ change.origin \in {"FILTER_DROP", "GRAIN_DROP"}
  /\ Complete(change.contract, change.base)
  => /\ Checked /\ check.metric => check.violations # {}
     /\ gate.kind = "bigquery" => gate.decision # "ALLOW"
     /\ gate.kind = "router" => gate.decision = "tier_3_static_rejected"
=============================================================================
