------------------------- MODULE ChangeGates_proofs -------------------------
(***************************************************************************)
(* Proofs about ChangeGates, for every set of base queries, edits and      *)
(* contracts, every comparison of conditions that BasesAssumption bounds,  *)
(* and every budget, estimate and size of a suite.                         *)
(***************************************************************************)
EXTENDS ChangeGates, TLAPS, SequenceTheorems, FiniteSetTheorems

-----------------------------------------------------------------------------
(* Severities and their ranks.                                             *)

\* The severities are ranked in the order they are declared in.
LEMMA Ranks ==
  /\ Rank("INFO") = 1 /\ Rank("LOW") = 2 /\ Rank("MEDIUM") = 3
  /\ Rank("HIGH") = 4 /\ Rank("CRITICAL") = 5 /\ Rank("FATAL") = 6
<1>1. DOMAIN Severities = 1 .. 6
  BY DEF Severities
<1>2. /\ Severities[1] = "INFO" /\ Severities[2] = "LOW" /\ Severities[3] = "MEDIUM"
      /\ Severities[4] = "HIGH" /\ Severities[5] = "CRITICAL" /\ Severities[6] = "FATAL"
  BY DEF Severities
<1> QED
  BY <1>1, <1>2 DEF Rank

\* The members of the enumeration.
LEMMA SeverityNames ==
  ToSet(Severities) = {"INFO", "LOW", "MEDIUM", "HIGH", "CRITICAL", "FATAL"}
<1>1. DOMAIN Severities = 1 .. 6
  BY DEF Severities
<1>2. /\ Severities[1] = "INFO" /\ Severities[2] = "LOW" /\ Severities[3] = "MEDIUM"
      /\ Severities[4] = "HIGH" /\ Severities[5] = "CRITICAL" /\ Severities[6] = "FATAL"
  BY DEF Severities
<1> QED
  BY <1>1, <1>2 DEF ToSet

\* The detector reports drifts of declared severities.
LEMMA AnalyzeType ==
  ASSUME NEW orig, NEW cand, NEW d \in Analyze(orig, cand)
  PROVE  /\ d.severity \in {"MEDIUM", "HIGH", "CRITICAL", "FATAL"}
         /\ d.severity \in ToSet(Severities)
<1>1. d.severity \in {"MEDIUM", "HIGH", "CRITICAL", "FATAL"}
  BY DEF Analyze, AnalyzeWhereClause, AnalyzeAggregations, AnalyzeJoins,
         AnalyzeGroupBy, AnalyzeNullHandling, AnalyzeHavingClause, AnalyzeTables,
         If, Drift
<1> QED
  BY <1>1, SeverityNames

\* The worst drift is one of those reported, or there is none.
LEMMA WorstIsReported ==
  ASSUME NEW drifts, \A d \in drifts : d.severity \in ToSet(Severities)
  PROVE  /\ Worst(drifts) \in 1 .. 6
         /\ Worst(drifts) = 1 \/ \E d \in drifts : Rank(d.severity) = Worst(drifts)
<1> DEFINE Has(n) == \E d \in drifts : Rank(d.severity) = n
           Is(n) == /\ n = 1 \/ Has(n)
                    /\ \A d \in drifts : Rank(d.severity) <= n
<1>1. \A d \in drifts : Rank(d.severity) \in 1 .. 6
  BY SeverityNames, Ranks
<1>2. \E n \in 1 .. 6 : Is(n)
  <2>1. CASE Has(6)
    <3>1. Is(6)
      BY <1>1, <2>1
    <3> QED
      BY <3>1
  <2>2. CASE ~Has(6) /\ Has(5)
    <3>1. Is(5)
      BY <1>1, <2>2
    <3> QED
      BY <3>1
  <2>3. CASE ~Has(6) /\ ~Has(5) /\ Has(4)
    <3>1. Is(4)
      BY <1>1, <2>3
    <3> QED
      BY <3>1
  <2>4. CASE ~Has(6) /\ ~Has(5) /\ ~Has(4) /\ Has(3)
    <3>1. Is(3)
      BY <1>1, <2>4
    <3> QED
      BY <3>1
  <2>5. CASE ~Has(6) /\ ~Has(5) /\ ~Has(4) /\ ~Has(3) /\ Has(2)
    <3>1. Is(2)
      BY <1>1, <2>5
    <3> QED
      BY <3>1
  <2>6. CASE ~Has(6) /\ ~Has(5) /\ ~Has(4) /\ ~Has(3) /\ ~Has(2)
    <3>1. Is(1)
      BY <1>1, <2>6
    <3> QED
      BY <3>1
  <2> HIDE DEF Has, Is
  <2> QED
    BY <2>1, <2>2, <2>3, <2>4, <2>5, <2>6
<1>3. Worst(drifts) = CHOOSE n \in 1 .. 6 : Is(n)
  BY DEF Worst
<1> HIDE DEF Is
<1>4. Worst(drifts) \in 1 .. 6 /\ Is(Worst(drifts))
  BY <1>2, <1>3
<1> QED
  BY <1>4 DEF Is

\* A drift that a gate stops for at critical or high, check stops for.
LEMMA WorstBlocks ==
  ASSUME NEW drifts, \A d \in drifts : d.severity \in ToSet(Severities),
         ~Blocking(drifts)
  PROVE  Worst(drifts) < 4
<1>1. \A d \in drifts : Rank(d.severity) < 4
  BY SeverityNames, Ranks DEF Blocking
<1> QED
  BY <1>1, WorstIsReported

-----------------------------------------------------------------------------
(* The invariant: check comes first, the router asks what it is to ask.    *)

GateInv == TypeOK /\ CheckInv /\ RouterInv

\* Nothing has been asked at first.
LEMMA InitGates ==
  ASSUME Init
  PROVE  GateInv
<1>1. /\ check.exit = "not run" /\ check.metric = FALSE /\ check.drifts = {}
      /\ gate = [kind |-> "none"] /\ gate.kind = "none"
  BY DEF Init
<1>2. TypeOK
  BY <1>1 DEF TypeOK
<1>3. CheckInv /\ RouterInv
  BY <1>1 DEF CheckInv, RouterInv, Checked
<1> QED
  BY <1>2, <1>3 DEF GateInv

\* What check says of a change.
LEMMA CheckSteps ==
  ASSUME GateInv, NEW metric \in BOOLEAN, Check(metric)
  PROVE  GateInv' /\ gate' = [kind |-> "none"]
<1> DEFINE judged == metric /\ change.contract.declared
           raises == \/ change.candidate = Unparseable
                     \/ judged /\ ~change.contract.parses
           drifts == Analyze(change.base, change.candidate)
           violations == IF judged THEN Violations(change.contract, change.candidate)
                         ELSE {}
           verdict == IF Blocking(drifts) \/ violations # {} THEN "fail" ELSE "pass"
<1>0. check.exit = "not run" /\ UNCHANGED <<change, gate>>
  BY DEF Check
<1>1. gate = [kind |-> "none"]
  BY <1>0 DEF GateInv, CheckInv
<1>2. /\ gate = [kind |-> "none"] /\ gate' = gate
      /\ gate.kind = "none" /\ change' = change
  BY <1>0, <1>1
<1>3. CASE raises
  <2>1. /\ check'.exit = "raises" /\ check'.metric = metric /\ check'.drifts = {}
    BY <1>3 DEF Check
  <2>2. TypeOK' /\ CheckInv' /\ RouterInv'
    BY <1>2, <2>1 DEF TypeOK, CheckInv, RouterInv, Checked, Exits
  <2> QED
    BY <1>2, <2>2 DEF GateInv
<1>4. CASE ~raises
  <2>1. /\ check'.exit = verdict /\ check'.metric = metric /\ check'.drifts = drifts
    BY <1>4 DEF Check
  <2>2. TypeOK'
    BY <1>2, <2>1, AnalyzeType DEF TypeOK, Exits
  <2>3. CheckInv'
    <3>1. verdict = "pass" => ~Blocking(drifts) /\ violations = {}
      OBVIOUS
    <3>2. change.contract.declared => Invariants(change.contract) = change.contract
      BY DEF Invariants
    <3>3. judged => ~Raises(change.contract, change.candidate)
      BY <1>4, <3>2 DEF Raises
    <3>4. check'.exit \in {"pass", "fail"} /\ check'.exit # "not run"
      BY <2>1
    <3> QED
      BY <1>2, <2>1, <3>1, <3>3, <3>4 DEF CheckInv, Checked
  <2>4. RouterInv'
    BY <1>2 DEF RouterInv
  <2> QED
    BY <1>2, <2>2, <2>3, <2>4 DEF GateInv
<1> QED
  BY <1>3, <1>4

\* What dbt-check answers.
DbtAnswer(failOn, exit, decision) ==
  [kind |-> "dbt", failOn |-> failOn, exit |-> exit, decision |-> decision]

\* dbt-check denies, and stops a change at high or critical, only for drifts
\* that check stops it for.
LEMMA DbtSteps ==
  ASSUME NEW node, NEW failOn \in {"critical", "high", "any"}, DbtCheck(node, failOn)
  PROVE  \E exit \in Exits, decision \in Decisions.dbt :
           /\ gate' = DbtAnswer(failOn, exit, decision)
           /\ decision = "DENY" \/ (failOn # "any" /\ exit = "fail") =>
                Blocking(Analyze(change.base, change.candidate))
<1> DEFINE drifts == Analyze(change.base, change.candidate)
           stops == Worst(drifts) >= Threshold(failOn) /\ drifts # {}
           exit == IF stops THEN "fail" ELSE "pass"
           decision == IF Worst(drifts) >= Rank("CRITICAL") THEN "DENY"
                       ELSE IF drifts # {} THEN "REQUIRE_REVIEW" ELSE "ALLOW"
           raises == node # "compiled" \/ change.candidate = Unparseable
<1>1. CASE raises
  <2>1. gate' = DbtAnswer(failOn, "raises", "none")
    BY <1>1 DEF DbtCheck, DbtAnswer
  <2> QED
    BY <2>1 DEF Exits, Decisions
<1>2. CASE ~raises
  <2>1. gate' = DbtAnswer(failOn, exit, decision)
    BY <1>2 DEF DbtCheck, DbtAnswer
  <2>2. ~Blocking(drifts) => Worst(drifts) < 4 /\ Worst(drifts) \in 1 .. 6
    BY AnalyzeType, WorstBlocks, WorstIsReported
  <2>3. decision = "DENY" => Blocking(drifts)
    BY <2>2, Ranks
  <2>4. failOn # "any" => Threshold(failOn) \in {4, 5}
    BY Ranks DEF Threshold
  <2>5. failOn # "any" /\ exit = "fail" => Blocking(drifts)
    BY <2>2, <2>4
  <2>6. exit \in Exits /\ decision \in Decisions.dbt
    BY DEF Exits, Decisions
  <2> HIDE DEF exit, decision
  <2> QED
    BY <2>1, <2>3, <2>5, <2>6
<1> QED
  BY <1>1, <1>2

\* How the dry run comes to its answer.
Modes == {"policy_denied", "parse_failed", "budget_exceeded",
          "dry_run_simulated", "dry_run_failed", "dry_run"}

\* The dry run's answer: within the budget, and by the contract's verdict.
LEMMA BigQuerySteps ==
  ASSUME NEW policy \in Policies, NEW service \in Services,
         BigQueryEvaluate(policy, service)
  PROVE  \E mode \in Modes, bytes \in Nat, decision \in Decisions.bigquery :
           /\ gate' = BigQueryAnswer(policy, mode, bytes, decision)
           /\ mode = "parse_failed" => Raises(change.contract, change.candidate)
           /\ decision # "DENY" =>
                /\ ~Raises(change.contract, change.candidate)
                /\ policy.budget > 0 => bytes <= policy.budget
           /\ decision = "ALLOW" =>
                Violations(change.contract, change.candidate) = {}
           /\ decision = "REQUIRE_REVIEW" =>
                Violations(change.contract, change.candidate) # {}
<1> DEFINE raises == Raises(change.contract, change.candidate)
           violations == Violations(change.contract, change.candidate)
           bytes == CASE service.is = "absent" -> SimulatedBytes
                      [] service.is = "raises" -> 0
                      [] service.is = "answers" -> service.bytes
           said == CASE service.is = "absent" -> "dry_run_simulated"
                     [] service.is = "raises" -> "dry_run_failed"
                     [] service.is = "answers" -> "dry_run"
           mode == IF OverBudget(policy, bytes) THEN "budget_exceeded" ELSE said
           decision == Decide(policy, bytes, service.is = "raises", violations)
<1>1. CASE policy.project_missing
  <2>1. gate' = BigQueryAnswer(policy, "policy_denied", 0, "DENY")
    BY <1>1 DEF BigQueryEvaluate
  <2>2. "DENY" \in Decisions.bigquery /\ {"policy_denied", "parse_failed"} \subseteq Modes
    BY DEF Decisions, Modes
  <2> QED
    BY <2>1, <2>2
<1>2. CASE ~policy.project_missing /\ raises
  <2>1. gate' = BigQueryAnswer(policy, "parse_failed", 0, "DENY")
    BY <1>2 DEF BigQueryEvaluate
  <2>2. "DENY" \in Decisions.bigquery /\ {"policy_denied", "parse_failed"} \subseteq Modes
    BY DEF Decisions, Modes
  <2> QED
    BY <1>2, <2>1, <2>2
<1>3. CASE ~policy.project_missing /\ ~raises
  <2>1. gate' = BigQueryAnswer(policy, mode, bytes, decision)
    BY <1>3 DEF BigQueryEvaluate
  <2>2. bytes \in Nat
    BY GatesAssumption DEF Services
  <2>3. mode # "parse_failed" /\ mode \in Modes
    <3>1. service.is \in {"absent", "raises", "answers"}
      BY DEF Services
    <3> QED
      BY <3>1 DEF Modes
  <2>4. policy.budget \in Nat
    BY GatesAssumption
  <2> HIDE DEF bytes, mode
  <2>5. decision \in Decisions.bigquery
    BY DEF Decide, Decisions
  <2>6. decision # "DENY" => (policy.budget > 0 => bytes <= policy.budget)
    BY <2>2, <2>4 DEF Decide, OverBudget
  <2>7. /\ decision = "ALLOW" => violations = {}
        /\ decision = "REQUIRE_REVIEW" => violations # {}
    BY DEF Decide
  <2> HIDE DEF decision
  <2> QED
    BY <1>3, <2>1, <2>2, <2>3, <2>5, <2>6, <2>7
<1> QED
  BY <1>1, <1>2, <1>3

\* What the router has not asked the suite about.
LEMMA RoutedFields ==
  ASSUME NEW decision \in Decisions.router, NEW size \in Nat
  PROVE  LET r == Routed(decision, size)
         IN  /\ r \in [kind : {"router"}, decision : Decisions.router, size : Nat,
                       left : Nat, answers : Seq({"passes", "fails", "raises"})]
             /\ r.kind = "router" /\ r.decision = decision /\ r.size = size
             /\ r.left = size /\ r.answers = <<>>
BY DEF Routed

\* The static tier: it rejects what the contract is against, and escalates
\* only what the contract is not against.
LEMMA RouterSteps ==
  ASSUME NEW size \in SuiteSizes \cup {-1}, NEW force \in BOOLEAN,
         RouteStatically(size, force)
  PROVE  \E decision \in Decisions.router, n \in Nat :
           /\ gate' = Routed(decision, n)
           /\ decision # "tier_4_escalated_approved"
           /\ decision = "raises" => Raises(change.contract, change.candidate)
           /\ decision = "tier_3_static_rejected" =>
                Violations(change.contract, change.candidate) # {}
           /\ decision \notin {"raises", "tier_3_static_rejected"} =>
                Violations(change.contract, change.candidate) = {}
<1> DEFINE violations == Violations(change.contract, change.candidate)
           static == ~(force \/ Complex(change.candidate)) \/ size < 0
<1>1. /\ {"raises", "tier_3_static_rejected", "tier_3_static_approved", "escalated"}
           \subseteq Decisions.router
      /\ 0 \in Nat
  BY DEF Decisions
<1>2. CASE Raises(change.contract, change.candidate)
  <2>1. gate' = Routed("raises", 0)
    BY <1>2 DEF RouteStatically
  <2> QED
    BY <1>1, <1>2, <2>1
<1>3. CASE ~Raises(change.contract, change.candidate) /\ violations # {}
  <2>1. gate' = Routed("tier_3_static_rejected", 0)
    BY <1>3 DEF RouteStatically
  <2> QED
    BY <1>1, <1>3, <2>1
<1>4. CASE ~Raises(change.contract, change.candidate) /\ violations = {} /\ static
  <2>1. gate' = Routed("tier_3_static_approved", 0)
    BY <1>4 DEF RouteStatically
  <2> QED
    BY <1>1, <1>4, <2>1
<1>5. CASE ~Raises(change.contract, change.candidate) /\ violations = {} /\ ~static
  <2>1. gate' = Routed("escalated", size)
    BY <1>5 DEF RouteStatically
  <2>2. size \in Nat
    BY <1>5, GatesAssumption
  <2> QED
    BY <1>1, <1>5, <2>1, <2>2
<1> QED
  BY <1>2, <1>3, <1>4, <1>5

-----------------------------------------------------------------------------
(* Every step keeps the invariant, and what the gates' answers stand for.  *)

Sound == GateInv /\ GatesAgree /\ AllowanceIsEarned

\* As long as no gate is asked there is nothing to agree about.
LEMMA NothingAsked ==
  ASSUME gate = [kind |-> "none"]
  PROVE  GatesAgree /\ AllowanceIsEarned
<1>1. gate.kind = "none"
  OBVIOUS
<1> QED
  BY <1>1 DEF GatesAgree, AllowanceIsEarned, AllowedWithinBudget, ApprovedMeansJudged

\* A gate is asked about the change that check has judged.
LEMMA AskedAfterCheck ==
  ASSUME GateInv, Ready, UNCHANGED <<change, check>>
  PROVE  /\ CheckInv'
         /\ check.exit \in Exits \cup {"not run"} /\ check.metric \in BOOLEAN
         /\ \A d \in check.drifts : d.severity \in ToSet(Severities)
         /\ check.exit = "pass" => ~Blocking(Analyze(change.base, change.candidate))
<1>1. check' = check /\ change' = change /\ check.exit # "not run"
  BY DEF Ready
<1>2. CheckInv'
  BY <1>1 DEF GateInv, CheckInv, Checked
<1>3. check.exit = "pass" => ~Blocking(Analyze(change.base, change.candidate))
  BY DEF GateInv, CheckInv, Checked
<1> QED
  BY <1>2, <1>3 DEF GateInv, TypeOK

\* dbt-check.
LEMMA DbtSound ==
  ASSUME Sound, NEW node, NEW failOn \in {"critical", "high", "any"},
         DbtCheck(node, failOn)
  PROVE  Sound'
<1>1. Ready /\ check' = check /\ change' = change /\ UNCHANGED <<change, check>>
  BY DEF DbtCheck
<1>2. PICK exit \in Exits, decision \in Decisions.dbt :
        /\ gate' = DbtAnswer(failOn, exit, decision)
        /\ decision = "DENY" \/ (failOn # "any" /\ exit = "fail") =>
             Blocking(Analyze(change.base, change.candidate))
  BY DbtSteps
<1>3. /\ gate'.kind = "dbt" /\ gate'.failOn = failOn
      /\ gate'.exit = exit /\ gate'.decision = decision
  BY <1>2 DEF DbtAnswer
<1>4. /\ CheckInv'
      /\ check.exit \in Exits \cup {"not run"} /\ check.metric \in BOOLEAN
      /\ \A d \in check.drifts : d.severity \in ToSet(Severities)
      /\ check.exit = "pass" => ~Blocking(Analyze(change.base, change.candidate))
  BY <1>1, AskedAfterCheck DEF Sound
<1>5. TypeOK'
  BY <1>1, <1>2, <1>3, <1>4 DEF TypeOK
<1>6. RouterInv'
  BY <1>3 DEF RouterInv
<1>7. GatesAgree'
  BY <1>1, <1>2, <1>3, <1>4 DEF GatesAgree
<1>8. AllowanceIsEarned'
  BY <1>3 DEF AllowanceIsEarned, AllowedWithinBudget, ApprovedMeansJudged
<1> QED
  BY <1>4, <1>5, <1>6, <1>7, <1>8 DEF Sound, GateInv

\* What check let pass with its contract, the validator has nothing against.
LEMMA PassedContract ==
  ASSUME GateInv, check.exit = "pass", check.metric, change.contract.declared
  PROVE  /\ ~Raises(change.contract, change.candidate)
         /\ Violations(change.contract, change.candidate) = {}
BY DEF GateInv, CheckInv

\* The dry run.
LEMMA BigQuerySound ==
  ASSUME Sound, NEW policy \in Policies, NEW service \in Services,
         BigQueryEvaluate(policy, service)
  PROVE  Sound'
<1>1. Ready /\ check' = check /\ change' = change /\ UNCHANGED <<change, check>>
  BY DEF BigQueryEvaluate
<1>2. PICK mode \in Modes, bytes \in Nat, decision \in Decisions.bigquery :
           /\ gate' = BigQueryAnswer(policy, mode, bytes, decision)
           /\ mode = "parse_failed" => Raises(change.contract, change.candidate)
           /\ decision # "DENY" =>
                /\ ~Raises(change.contract, change.candidate)
                /\ policy.budget > 0 => bytes <= policy.budget
           /\ decision = "ALLOW" =>
                Violations(change.contract, change.candidate) = {}
           /\ decision = "REQUIRE_REVIEW" =>
                Violations(change.contract, change.candidate) # {}
  BY BigQuerySteps
<1>3. /\ gate'.kind = "bigquery" /\ gate'.budget = policy.budget /\ gate'.mode = mode
      /\ gate'.bytes = bytes /\ gate'.decision = decision
  BY <1>2 DEF BigQueryAnswer
<1>4. /\ CheckInv'
      /\ check.exit \in Exits \cup {"not run"} /\ check.metric \in BOOLEAN
      /\ \A d \in check.drifts : d.severity \in ToSet(Severities)
  BY <1>1, AskedAfterCheck DEF Sound
<1>5. TypeOK'
  BY <1>1, <1>2, <1>3, <1>4 DEF TypeOK
<1>6. RouterInv'
  BY <1>3 DEF RouterInv
<1>7. GatesAgree'
  <2>1. check.exit = "pass" /\ check.metric /\ change.contract.declared =>
          decision # "REQUIRE_REVIEW" /\ mode # "parse_failed"
    BY <1>2, PassedContract DEF Sound
  <2> QED
    BY <1>1, <1>3, <2>1 DEF GatesAgree
<1>8. AllowanceIsEarned'
  <2>1. AllowedWithinBudget'
    BY <1>1, <1>2, <1>3 DEF AllowedWithinBudget, Decisions
  <2>2. ApprovedMeansJudged'
    BY <1>3 DEF ApprovedMeansJudged
  <2> QED
    BY <2>1, <2>2 DEF AllowanceIsEarned
<1> QED
  BY <1>4, <1>5, <1>6, <1>7, <1>8 DEF Sound, GateInv

\* The router's static tier.
LEMMA RouterSound ==
  ASSUME Sound, NEW size \in SuiteSizes \cup {-1}, NEW force \in BOOLEAN,
         RouteStatically(size, force)
  PROVE  Sound'
<1>1. Ready /\ check' = check /\ change' = change /\ UNCHANGED <<change, check>>
  BY DEF RouteStatically
<1>2. PICK decision \in Decisions.router, n \in Nat :
           /\ gate' = Routed(decision, n)
           /\ decision # "tier_4_escalated_approved"
           /\ decision = "raises" => Raises(change.contract, change.candidate)
           /\ decision = "tier_3_static_rejected" =>
                Violations(change.contract, change.candidate) # {}
           /\ decision \notin {"raises", "tier_3_static_rejected"} =>
                Violations(change.contract, change.candidate) = {}
  BY RouterSteps
<1>3. /\ gate' \in [kind : {"router"}, decision : Decisions.router, size : Nat,
                    left : Nat, answers : Seq({"passes", "fails", "raises"})]
      /\ gate'.kind = "router" /\ gate'.decision = decision
      /\ gate'.size = n /\ gate'.left = n /\ gate'.answers = <<>>
  BY <1>2, RoutedFields
<1>4. /\ CheckInv'
      /\ check.exit \in Exits \cup {"not run"} /\ check.metric \in BOOLEAN
      /\ \A d \in check.drifts : d.severity \in ToSet(Severities)
  BY <1>1, AskedAfterCheck DEF Sound
<1>5. TypeOK'
  <2>1. gate'.left \in 0 .. gate'.size
    BY <1>3
  <2> QED
    BY <1>1, <1>3, <1>4, <2>1 DEF TypeOK
<1>6. RouterInv'
  <2>1. Len(<<>>) = 0
    OBVIOUS
  <2> QED
    BY <1>1, <1>2, <1>3, <2>1 DEF RouterInv
<1>7. GatesAgree'
  <2>1. check.exit = "pass" /\ check.metric /\ change.contract.declared =>
          decision \notin {"raises", "tier_3_static_rejected"}
    BY <1>2, PassedContract DEF Sound
  <2> QED
    BY <1>1, <1>3, <2>1 DEF GatesAgree
<1>8. AllowanceIsEarned'
  <2>1. AllowedWithinBudget'
    BY <1>3 DEF AllowedWithinBudget
  <2>2. ApprovedMeansJudged'
    BY <1>2, <1>3 DEF ApprovedMeansJudged
  <2> QED
    BY <2>1, <2>2 DEF AllowanceIsEarned
<1> QED
  BY <1>4, <1>5, <1>6, <1>7, <1>8 DEF Sound, GateInv

\* Answers all of which have passed are nothing but passes.
LEMMA PassesOnly ==
  ASSUME NEW answers
  PROVE  RuntimePassed(answers) <=> ToSet(answers) \subseteq {"passes"}
BY DEF RuntimePassed, ToSet

\* One assertion of the suite.
LEMMA AskSound ==
  ASSUME Sound, NEW answer \in {"passes", "fails", "raises"}, AskAssertion(answer)
  PROVE  Sound'
<1> DEFINE left == IF answer = "raises" THEN 0 ELSE gate.left - 1
           answers == Append(gate.answers, answer)
<1>1. /\ gate.kind = "router" /\ gate.decision = "escalated" /\ gate.left > 0
      /\ gate' = [gate EXCEPT !.left = left, !.answers = answers]
      /\ check' = check /\ change' = change
  BY DEF AskAssertion
<1>2. /\ gate \in [kind : {"router"}, decision : Decisions.router, size : Nat,
                   left : Nat, answers : Seq({"passes", "fails", "raises"})]
      /\ gate.left <= gate.size
      /\ RuntimePassed(gate.answers) => Len(gate.answers) + gate.left = gate.size
      /\ Violations(change.contract, change.candidate) = {}
  BY <1>1 DEF Sound, GateInv, RouterInv
<1>3. /\ gate.left \in Nat /\ gate.size \in Nat
      /\ gate.answers \in Seq({"passes", "fails", "raises"})
  BY <1>2
<1>4. left \in Nat /\ left <= gate.size
  BY <1>1, <1>2, <1>3
<1>5. /\ answers \in Seq({"passes", "fails", "raises"})
      /\ Len(answers) = Len(gate.answers) + 1 /\ Len(gate.answers) \in Nat
      /\ DOMAIN answers = 1 .. Len(gate.answers) + 1
      /\ DOMAIN gate.answers = 1 .. Len(gate.answers)
      /\ answers[Len(gate.answers) + 1] = answer
      /\ \A i \in 1 .. Len(gate.answers) : answers[i] = gate.answers[i]
  BY <1>3, AppendProperties, LenProperties
<1>6. RuntimePassed(answers) => RuntimePassed(gate.answers) /\ answer = "passes"
  <2>1. Len(gate.answers) + 1 \in DOMAIN answers
        /\ \A i \in DOMAIN gate.answers : i \in DOMAIN answers
    BY <1>5
  <2> QED
    BY <1>5, <2>1 DEF RuntimePassed
<1>7. RuntimePassed(answers) => Len(answers) + left = gate.size
  BY <1>2, <1>3, <1>5, <1>6
<1> HIDE DEF left, answers
<1>8. /\ gate'.kind = "router" /\ gate'.decision = "escalated"
      /\ gate'.size = gate.size /\ gate'.left = left /\ gate'.answers = answers
      /\ gate' \in [kind : {"router"}, decision : Decisions.router, size : Nat,
                    left : Nat, answers : Seq({"passes", "fails", "raises"})]
  BY <1>1, <1>2, <1>4, <1>5
<1>9. CheckInv'
  <2>1. check.exit # "not run"
    <3>1. gate # [kind |-> "none"]
      BY <1>1
    <3> QED
      BY <3>1 DEF Sound, GateInv, CheckInv
  <2> QED
    BY <1>1, <2>1 DEF Sound, GateInv, CheckInv, Checked
<1>10. TypeOK'
  <2>1. gate'.left \in 0 .. gate'.size /\ gate'.decision \in Decisions.router
    BY <1>3, <1>4, <1>8
  <2> QED
    BY <1>1, <1>8, <2>1 DEF Sound, GateInv, TypeOK
<1>11. RouterInv'
  BY <1>1, <1>2, <1>4, <1>7, <1>8 DEF RouterInv
<1>12. GatesAgree'
  BY <1>8 DEF GatesAgree
<1>13. AllowanceIsEarned'
  BY <1>1, <1>2, <1>8 DEF AllowanceIsEarned, AllowedWithinBudget, ApprovedMeansJudged
<1> QED
  BY <1>9, <1>10, <1>11, <1>12, <1>13 DEF Sound, GateInv

\* The runtime tier's decision.
LEMMA DecideSound ==
  ASSUME Sound, DecideAtRuntime
  PROVE  Sound'
<1> DEFINE decision == IF RuntimePassed(gate.answers) THEN "tier_4_escalated_approved"
                       ELSE "tier_4_escalated_rejected"
<1>1. /\ gate.kind = "router" /\ gate.decision = "escalated" /\ gate.left = 0
      /\ gate' = [gate EXCEPT !.decision = decision]
      /\ check' = check /\ change' = change
  BY DEF DecideAtRuntime
<1>2. /\ gate \in [kind : {"router"}, decision : Decisions.router, size : Nat,
                   left : Nat, answers : Seq({"passes", "fails", "raises"})]
      /\ gate.left <= gate.size
      /\ RuntimePassed(gate.answers) => Len(gate.answers) + gate.left = gate.size
      /\ Violations(change.contract, change.candidate) = {}
  BY <1>1 DEF Sound, GateInv, RouterInv
<1>3. decision \in Decisions.router
  BY DEF Decisions
<1>4. decision = "tier_4_escalated_approved" => RuntimePassed(gate.answers)
  OBVIOUS
<1>5. decision \in {"tier_4_escalated_approved", "tier_4_escalated_rejected"}
  OBVIOUS
<1> HIDE DEF decision
<1>6. /\ gate'.kind = "router" /\ gate'.decision = decision /\ gate'.size = gate.size
      /\ gate'.left = 0 /\ gate'.answers = gate.answers
      /\ gate' \in [kind : {"router"}, decision : Decisions.router, size : Nat,
                    left : Nat, answers : Seq({"passes", "fails", "raises"})]
  BY <1>1, <1>2, <1>3
<1>7. gate.size \in Nat /\ gate.answers \in Seq({"passes", "fails", "raises"})
      /\ Len(gate.answers) \in Nat
  BY <1>2, LenProperties
<1>8. CheckInv'
  <2>1. check.exit # "not run"
    <3>1. gate # [kind |-> "none"]
      BY <1>1
    <3> QED
      BY <3>1 DEF Sound, GateInv, CheckInv
  <2> QED
    BY <1>1, <2>1 DEF Sound, GateInv, CheckInv, Checked
<1>9. TypeOK'
  <2>1. gate'.left \in 0 .. gate'.size /\ gate'.decision \in Decisions.router
    BY <1>3, <1>6, <1>7
  <2> QED
    BY <1>1, <1>6, <2>1 DEF Sound, GateInv, TypeOK
<1>10. RouterInv'
  BY <1>1, <1>2, <1>4, <1>6, <1>7 DEF RouterInv
<1>11. GatesAgree'
  BY <1>5, <1>6 DEF GatesAgree
<1>12. AllowanceIsEarned'
  <2>1. decision = "tier_4_escalated_approved" =>
          Len(gate.answers) = gate.size /\ ToSet(gate.answers) \subseteq {"passes"}
    BY <1>1, <1>2, <1>4, <1>7, PassesOnly
  <2> QED
    BY <1>1, <1>2, <1>6, <2>1
       DEF AllowanceIsEarned, AllowedWithinBudget, ApprovedMeansJudged
<1> QED
  BY <1>8, <1>9, <1>10, <1>11, <1>12 DEF Sound, GateInv

\* Every reachable state.
LEMMA SoundInvariant == Spec => []Sound
<1>1. Init => Sound
  <2> SUFFICES ASSUME Init PROVE Sound
    OBVIOUS
  <2>1. gate = [kind |-> "none"]
    BY DEF Init
  <2> QED
    BY <2>1, InitGates, NothingAsked DEF Sound
<1>2. Sound /\ [Next]_vars => Sound'
  <2> SUFFICES ASSUME Sound, [Next]_vars PROVE Sound'
    OBVIOUS
  <2>1. ASSUME NEW metric \in BOOLEAN, Check(metric) PROVE Sound'
    <3>1. GateInv' /\ gate' = [kind |-> "none"]
      BY <2>1, CheckSteps DEF Sound
    <3>2. gate'.kind = "none"
      BY <3>1
    <3> QED
      BY <3>1, <3>2 DEF Sound, GatesAgree, AllowanceIsEarned, AllowedWithinBudget,
                        ApprovedMeansJudged
  <2>2. ASSUME NEW node \in {"compiled", "raw", "missing"},
               NEW f \in {"critical", "high", "any"}, DbtCheck(node, f)
        PROVE  Sound'
    BY <2>2, DbtSound
  <2>3. ASSUME NEW policy \in Policies, NEW service \in Services,
               BigQueryEvaluate(policy, service)
        PROVE  Sound'
    BY <2>3, BigQuerySound
  <2>4. ASSUME NEW size \in SuiteSizes \cup {-1}, NEW force \in BOOLEAN,
               RouteStatically(size, force)
        PROVE  Sound'
    BY <2>4, RouterSound
  <2>5. ASSUME NEW answer \in {"passes", "fails", "raises"}, AskAssertion(answer)
        PROVE  Sound'
    BY <2>5, AskSound
  <2>6. CASE DecideAtRuntime
    BY <2>6, DecideSound
  <2>7. CASE UNCHANGED vars
    BY <2>7 DEF vars, Sound, GateInv, TypeOK, CheckInv, Checked, RouterInv, GatesAgree,
                AllowanceIsEarned, AllowedWithinBudget, ApprovedMeansJudged
  <2> QED
    BY <2>1, <2>2, <2>3, <2>4, <2>5, <2>6, <2>7 DEF Next
<1> QED
  BY <1>1, <1>2, PTL DEF Spec

\* The types of check's verdict and of the gates' answers; the router asks for
\* no more assertions than the suite has.
THEOREM GatesTypeCorrect == Spec => []TypeOK
<1>1. Sound => TypeOK
  BY DEF Sound, GateInv
<1> QED
  BY <1>1, SoundInvariant, PTL

\* What check lets pass no later gate refuses for its SQL, and what dbt-check
\* denies check has stopped: for any query, contract and comparison of
\* conditions.
THEOREM NoContradiction == Spec => []GatesAgree
<1>1. Sound => GatesAgree
  BY DEF Sound
<1> QED
  BY <1>1, SoundInvariant, PTL

\* The dry run lets nothing through above its budget or against the contract,
\* and the runtime tier approves only what every assertion has passed.
THEOREM EarnedAllowance == Spec => []AllowanceIsEarned
<1>1. Sound => AllowanceIsEarned
  BY DEF Sound
<1> QED
  BY <1>1, SoundInvariant, PTL

-----------------------------------------------------------------------------
(* What the detector sees of a mutant.                                     *)

Occurrences(s, x) == Cardinality({k \in DOMAIN s : s[k] = x})

\* Bags are equal only if each element is in both as often.
LEMMA BagCounts ==
  ASSUME NEW s, NEW t, NEW x, ToBag(s) = ToBag(t)
  PROVE  Occurrences(s, x) = Occurrences(t, x)
<1> DEFINE A == {k \in DOMAIN s : s[k] = x}
           B == {k \in DOMAIN t : t[k] = x}
<1>1. Range(s) = Range(t)
  <2>1. DOMAIN ToBag(s) = Range(s) /\ DOMAIN ToBag(t) = Range(t)
    BY DEF ToBag
  <2> QED
    BY <2>1
<1>2. CASE x \in Range(s)
  <2>1. ToBag(s)[x] = Cardinality(A) /\ ToBag(t)[x] = Cardinality(B)
    BY <1>1, <1>2 DEF ToBag
  <2> QED
    BY <2>1 DEF Occurrences
<1>3. CASE x \notin Range(s)
  <2>1. A = {} /\ B = {}
    BY <1>1, <1>3 DEF Range
  <2> QED
    BY <2>1 DEF Occurrences
<1> QED
  BY <1>2, <1>3

\* A sequence that lacks one occurrence of an element is another bag.
LEMMA OnceLess ==
  ASSUME NEW s, NEW t, NEW n \in Nat, DOMAIN s = 1 .. n, NEW i \in 1 .. n,
         DOMAIN t \subseteq DOMAIN s, i \in DOMAIN t => t[i] # s[i],
         \A k \in DOMAIN s : k # i => k \in DOMAIN t /\ t[k] = s[k]
  PROVE  ToBag(s) # ToBag(t)
<1> DEFINE A == {k \in DOMAIN s : s[k] = s[i]}
           B == {k \in DOMAIN t : t[k] = s[i]}
<1>1. A = B \cup {i} /\ i \notin B /\ B \subseteq 1 .. n
  OBVIOUS
<1>2. ToBag(s) = ToBag(t) => Cardinality(A) = Cardinality(B)
  <2> SUFFICES ASSUME ToBag(s) = ToBag(t)
               PROVE  Cardinality(A) = Cardinality(B)
    OBVIOUS
  <2>1. Occurrences(s, s[i]) = Occurrences(t, s[i])
    BY BagCounts
  <2> QED
    BY <2>1 DEF Occurrences
<1> HIDE DEF A, B
<1>3. IsFiniteSet(1 .. n)
  BY FS_Interval
<1>4. IsFiniteSet(B) /\ Cardinality(B) \in Nat
  BY <1>1, <1>3, FS_Subset, FS_CardinalityType
<1>5. Cardinality(A) = Cardinality(B) + 1
  BY <1>1, <1>4, FS_AddElement
<1>6. Cardinality(A) # Cardinality(B)
  BY <1>4, <1>5
<1> QED
  BY <1>2, <1>6

\* An aggregate call that is edited is reported ...
LEMMA SeesCalls ==
  ASSUME NEW q, IsQuery(q), NEW c, NEW i \in DOMAIN q.aggs,
         DOMAIN c.aggs = DOMAIN q.aggs, c.aggs[i] # q.aggs[i],
         \A k \in DOMAIN q.aggs : k # i => c.aggs[k] = q.aggs[k]
  PROVE  Analyze(q, c) # {}
<1>1. DOMAIN q.aggs = 1 .. Len(q.aggs) /\ Len(q.aggs) \in Nat
  BY LenProperties DEF IsQuery
<1>2. ToBag(q.aggs) # ToBag(c.aggs)
  BY <1>1, OnceLess
<1>3. AnalyzeAggregations(q, c) # {}
  BY <1>2 DEF AnalyzeAggregations, If
<1> QED
  BY <1>3 DEF Analyze

\* ... whatever becomes of its argument ...
LEMMA SeesArgument ==
  ASSUME NEW q, IsQuery(q), NEW i \in DOMAIN q.aggs, NEW e, e # q.aggs[i].arg,
         NEW c, c = [q EXCEPT !.aggs[i].arg = e]
  PROVE  Analyze(q, c) # {}
<1>1. /\ DOMAIN c.aggs = DOMAIN q.aggs /\ c.aggs[i].arg = e
      /\ \A k \in DOMAIN q.aggs : k # i => c.aggs[k] = q.aggs[k]
  BY DEF IsQuery
<1>2. c.aggs[i] # q.aggs[i]
  BY <1>1
<1> QED
  BY <1>1, <1>2, SeesCalls

\* ... so is a HAVING clause ...
LEMMA SeesHaving ==
  ASSUME NEW q, NEW c, c.having # q.having
  PROVE  Analyze(q, c) # {}
<1>1. AnalyzeHavingClause(q, c) # {}
  BY DEF AnalyzeHavingClause, If
<1> QED
  BY <1>1 DEF Analyze

\* ... a WHERE clause that is gone or not equivalent ...
LEMMA SeesWhere ==
  ASSUME NEW q, NEW c, q.where # NoClause,
         c.where = NoClause \/ ~Equivalent(q.where, c.where)
  PROVE  Analyze(q, c) # {}
<1>1. AnalyzeWhereClause(q, c) # {}
  BY DEF AnalyzeWhereClause, If
<1> QED
  BY <1>1 DEF Analyze

\* ... a GROUP BY that lost its last expression ...
LEMMA SeesGrain ==
  ASSUME NEW q, IsQuery(q), NEW c, Len(q.group) > 1, c.group = Front(q.group)
  PROVE  Analyze(q, c) # {}
<1> DEFINE g == q.group  n == Len(g)
<1>1. g \in Seq(SUBSET STRING) /\ n \in Nat /\ n > 1 /\ DOMAIN g = 1 .. n
  BY LenProperties DEF IsQuery
<1>2. /\ DOMAIN Front(g) = 1 .. n - 1
      /\ \A k \in 1 .. n - 1 : Front(g)[k] = g[k]
  BY <1>1 DEF Front
<1>3. ToBag(g) # ToBag(c.group)
  <2> HIDE DEF n
  <2>1. /\ n \in 1 .. n /\ n \notin 1 .. n - 1
        /\ \A k \in 1 .. n : k # n => k \in 1 .. n - 1
        /\ 1 .. n - 1 \subseteq 1 .. n
    BY <1>1
  <2> QED
    BY <1>1, <1>2, <2>1, OnceLess
<1>4. AnalyzeGroupBy(q, c) # {}
  BY <1>3 DEF AnalyzeGroupBy, If
<1> QED
  BY <1>4 DEF Analyze

\* ... or of which an expression is edited ...
LEMMA SeesGrouping ==
  ASSUME NEW q, IsQuery(q), NEW i \in DOMAIN q.group, NEW e, e # q.group[i],
         NEW c, c = [q EXCEPT !.group[i] = e]
  PROVE  Analyze(q, c) # {}
<1>1. DOMAIN q.group = 1 .. Len(q.group) /\ Len(q.group) \in Nat
  BY LenProperties DEF IsQuery
<1>2. /\ DOMAIN c.group = DOMAIN q.group /\ c.group[i] = e
      /\ \A k \in DOMAIN q.group : k # i => c.group[k] = q.group[k]
  BY DEF IsQuery
<1>3. ToBag(q.group) # ToBag(c.group)
  BY <1>1, <1>2, OnceLess
<1>4. AnalyzeGroupBy(q, c) # {}
  BY <1>3 DEF AnalyzeGroupBy, If
<1> QED
  BY <1>4 DEF Analyze

\* ... and a join that has lost its condition.
LEMMA SeesJoin ==
  ASSUME NEW q, NEW c, NEW i \in DOMAIN c.joins,
         c.joins[i].on = NoClause, ~c.joins[i].cross
  PROVE  Analyze(q, c) # {}
<1>1. AnalyzeJoins(q, c) # {}
  BY DEF AnalyzeJoins, If, ToSet
<1> QED
  BY <1>1 DEF Analyze

\* What MutantsAreSeen allows of an unreported mutant.
BlindSpot(q, c) ==
  /\ JoinsKept(q, c)
  /\ [c EXCEPT !.outer = q.outer, !.joins = q.joins] = q

\* What is around the aggregates is such a blind spot ...
LEMMA BlindOuter ==
  ASSUME NEW q, IsQuery(q), NEW e, NEW c, c = [q EXCEPT !.outer = e]
  PROVE  BlindSpot(q, c)
<1>1. c.joins = q.joins
  BY DEF IsQuery
<1>2. JoinsKept(q, c)
  BY <1>1 DEF JoinsKept
<1>3. [c EXCEPT !.outer = q.outer, !.joins = q.joins] = q
  BY DEF IsQuery
<1> QED
  BY <1>2, <1>3 DEF BlindSpot

\* ... and so is a join condition that is still one.
LEMMA BlindOn ==
  ASSUME NEW q, IsQuery(q), NEW i \in DOMAIN q.joins, NEW e, NEW c,
         q.joins[i].on # NoClause, e # NoClause, c = [q EXCEPT !.joins[i].on = e]
  PROVE  BlindSpot(q, c)
<1>1. q.joins \in Seq([on : {NoClause} \cup SUBSET STRING, cross : BOOLEAN])
  BY DEF IsQuery
<1>2. /\ DOMAIN c.joins = DOMAIN q.joins /\ c.joins[i].on = e
      /\ \A k \in DOMAIN q.joins : k # i => c.joins[k] = q.joins[k]
  BY DEF IsQuery
<1>3. Len(c.joins) = Len(q.joins)
  BY DEF IsQuery
<1>4. JoinsKept(q, c)
  BY <1>2, <1>3 DEF JoinsKept
<1>5. [c EXCEPT !.outer = q.outer, !.joins = q.joins] = q
  BY DEF IsQuery
<1> QED
  BY <1>4, <1>5 DEF BlindSpot

\* What an edit of an expression leaves is none of the marks it took away.
LEMMA EditDiffers ==
  ASSUME NEW e, NEW old \in e, NEW new, old # new
  PROVE  (e \ {old}) \cup {new} # e
OBVIOUS

\* An edit of one mark is seen in an aggregate, in GROUP BY or in HAVING, and
\* not elsewhere.
LEMMA SeesEdit ==
  ASSUME NEW q \in Bases, NEW old, NEW new \in {"shifted comparison", "default", "+", "-"},
         old # new, NEW c \in Replacing(q, old, new)
  PROVE  Analyze(q, c) # {} \/ BlindSpot(q, c)
<1> DEFINE Edit(e) == (e \ {old}) \cup {new}
<1>0. IsQuery(q)
  BY BasesAssumption
<1>1. \/ \E i \in DOMAIN q.aggs : /\ old \in q.aggs[i].arg
                                  /\ c = [q EXCEPT !.aggs[i].arg = Edit(@)]
      \/ \E i \in DOMAIN q.joins : /\ q.joins[i].on # NoClause /\ old \in q.joins[i].on
                                   /\ c = [q EXCEPT !.joins[i].on = Edit(@)]
      \/ \E i \in DOMAIN q.group : /\ old \in q.group[i]
                                   /\ c = [q EXCEPT !.group[i] = Edit(@)]
      \/ c = [q EXCEPT !.outer = Edit(@)]
      \/ old \in q.having /\ c = [q EXCEPT !.having = Edit(@)]
  BY DEF Replacing
<1>2. ASSUME NEW i \in DOMAIN q.aggs, old \in q.aggs[i].arg,
             c = [q EXCEPT !.aggs[i].arg = Edit(@)]
      PROVE  Analyze(q, c) # {}
  <2>1. Edit(q.aggs[i].arg) # q.aggs[i].arg
    BY <1>2, EditDiffers
  <2>2. c = [q EXCEPT !.aggs[i].arg = Edit(q.aggs[i].arg)]
    BY <1>2
  <2> HIDE DEF Edit
  <2> QED
    BY <1>0, <2>1, <2>2, SeesArgument
<1>3. ASSUME NEW i \in DOMAIN q.joins, q.joins[i].on # NoClause, old \in q.joins[i].on,
             c = [q EXCEPT !.joins[i].on = Edit(@)]
      PROVE  BlindSpot(q, c)
  <2> DEFINE on == q.joins[i].on
  <2>1. q.joins[i] \in ToSet(q.joins)
    BY DEF ToSet
  <2>2. Edit(on) \in SUBSET (on \cup {"shifted comparison", "default", "+", "-"})
    OBVIOUS
  <2>3. Edit(on) # NoClause
    BY <1>3, <2>1, <2>2, BasesAssumption
  <2>4. c = [q EXCEPT !.joins[i].on = Edit(on)]
    BY <1>3
  <2> HIDE DEF Edit
  <2> QED
    BY <1>0, <1>3, <2>3, <2>4, BlindOn
<1>4. ASSUME c = [q EXCEPT !.outer = Edit(@)]
      PROVE  BlindSpot(q, c)
  <2>1. c = [q EXCEPT !.outer = Edit(q.outer)]
    BY <1>4
  <2> QED
    BY <1>0, <2>1, BlindOuter
<1>5. ASSUME old \in q.having, c = [q EXCEPT !.having = Edit(@)]
      PROVE  Analyze(q, c) # {}
  <2>1. Edit(q.having) # q.having
    BY <1>5, EditDiffers
  <2>2. c.having = Edit(q.having)
    BY <1>0, <1>5 DEF IsQuery
  <2> HIDE DEF Edit
  <2> QED
    BY <2>1, <2>2, SeesHaving
<1>6. ASSUME NEW i \in DOMAIN q.group, old \in q.group[i],
             c = [q EXCEPT !.group[i] = Edit(@)]
      PROVE  Analyze(q, c) # {}
  <2>1. Edit(q.group[i]) # q.group[i]
    BY <1>6, EditDiffers
  <2>2. c = [q EXCEPT !.group[i] = Edit(q.group[i])]
    BY <1>6
  <2> HIDE DEF Edit
  <2> QED
    BY <1>0, <2>1, <2>2, SeesGrouping
<1> HIDE DEF Edit
<1> QED
  BY <1>1, <1>2, <1>3, <1>4, <1>5, <1>6

\* A call whose function is swapped is seen.
LEMMA SeesSwap ==
  ASSUME NEW q \in Bases, NEW old, NEW new, old # new, NEW c \in Swap(q, old, new)
  PROVE  Analyze(q, c) # {}
<1>0. IsQuery(q)
  BY BasesAssumption
<1>1. PICK i \in DOMAIN q.aggs : /\ q.aggs[i].func = old
                                 /\ c = [q EXCEPT !.aggs[i].func = new]
  BY DEF Swap
<1>2. /\ DOMAIN c.aggs = DOMAIN q.aggs /\ c.aggs[i].func = new
      /\ \A k \in DOMAIN q.aggs : k # i => c.aggs[k] = q.aggs[k]
  BY <1>0, <1>1 DEF IsQuery
<1>3. c.aggs[i] # q.aggs[i]
  BY <1>1, <1>2
<1> QED
  BY <1>0, <1>2, <1>3, SeesCalls

\* A WHERE clause that loses a conjunct or has a comparison shifted is seen.
LEMMA SeesCondition ==
  ASSUME NEW q \in Bases, q.where # NoClause,
         NEW w \in LosingConjunct(q.where) \cup ShiftingBoundary(q.where) \cup {NoClause},
         NEW c, c = [q EXCEPT !.where = w]
  PROVE  Analyze(q, c) # {}
<1>1. IsQuery(q)
  BY BasesAssumption
<1>2. c.where = w
  BY <1>1 DEF IsQuery
<1>3. w = NoClause \/ ~Equivalent(q.where, w)
  BY BasesAssumption
<1> QED
  BY <1>2, <1>3, SeesWhere

\* What an operator of the engine may make of a query.
Mutated(q) ==
  UNION {InjectFilterDrop(q), InjectBoundaryShift(q), InjectAggregationSwap(q),
         InjectDistinctDrop(q), InjectJoinPredicateDrop(q), InjectGrainDrop(q),
         InjectCoalesceBypass(q), InjectMathOperatorInvert(q)}

\* What the engine's operators make of a query, the detector reports or it is
\* in one of the two blind spots.
LEMMA SeesMutants ==
  ASSUME NEW q \in Bases, NEW c \in Mutated(q)
  PROVE  Analyze(q, c) # {} \/ BlindSpot(q, c)
<1>0. IsQuery(q)
  BY BasesAssumption
<1>1. \/ c \in InjectFilterDrop(q) \/ c \in InjectBoundaryShift(q)
      \/ c \in InjectAggregationSwap(q) \/ c \in InjectDistinctDrop(q)
      \/ c \in InjectJoinPredicateDrop(q) \/ c \in InjectGrainDrop(q)
      \/ c \in InjectCoalesceBypass(q) \/ c \in InjectMathOperatorInvert(q)
  BY DEF Mutated
<1>2. CASE c \in InjectFilterDrop(q)
  <2>1. /\ q.where # NoClause
        /\ \E w \in LosingConjunct(q.where) \cup {NoClause} : c = [q EXCEPT !.where = w]
    BY <1>2 DEF InjectFilterDrop
  <2> QED
    BY <2>1, SeesCondition
<1>3. CASE c \in InjectBoundaryShift(q)
  <2>1. CASE c \in Replacing(q, "comparison", "shifted comparison")
    BY <2>1, SeesEdit, Zenon
  <2>2. CASE c \notin Replacing(q, "comparison", "shifted comparison")
    <3>1. /\ q.where # NoClause
          /\ \E w \in ShiftingBoundary(q.where) : c = [q EXCEPT !.where = w]
      BY <1>3, <2>2 DEF InjectBoundaryShift
    <3> QED
      BY <3>1, SeesCondition
  <2> QED
    BY <2>1, <2>2
<1>4. CASE c \in InjectAggregationSwap(q)
  <2>1. c \in Swap(q, "Sum", "Avg") \/ c \in Swap(q, "Avg", "Sum") \/ c \in Swap(q, "Count", "Sum")
    BY <1>4 DEF InjectAggregationSwap
  <2> QED
    BY <2>1, SeesSwap, Zenon
<1>5. CASE c \in InjectDistinctDrop(q)
  <2>1. PICK i \in DOMAIN q.aggs :
          /\ "DISTINCT" \in q.aggs[i].arg
          /\ c = [q EXCEPT !.aggs[i].arg = @ \ {"DISTINCT"}]
    BY <1>5 DEF InjectDistinctDrop
  <2> DEFINE e == q.aggs[i].arg \ {"DISTINCT"}
  <2>2. e # q.aggs[i].arg /\ c = [q EXCEPT !.aggs[i].arg = e]
    BY <2>1
  <2> HIDE DEF e
  <2> QED
    BY <1>0, <2>2, SeesArgument
<1>6. CASE c \in InjectJoinPredicateDrop(q)
  <2>1. PICK i \in DOMAIN q.joins : /\ q.joins[i].on # NoClause
                                    /\ c = [q EXCEPT !.joins[i].on = NoClause]
    BY <1>6 DEF InjectJoinPredicateDrop
  <2>2. q.joins[i] \in ToSet(q.joins)
    BY DEF ToSet
  <2>3. ~q.joins[i].cross
    BY <2>1, <2>2, BasesAssumption
  <2>4. /\ i \in DOMAIN c.joins /\ c.joins[i].on = NoClause
        /\ c.joins[i].cross = q.joins[i].cross
    BY <1>0, <2>1 DEF IsQuery
  <2> QED
    BY <2>3, <2>4, SeesJoin
<1>7. CASE c \in InjectGrainDrop(q)
  <2>1. Len(q.group) > 1 /\ c = [q EXCEPT !.group = Front(q.group)]
    BY <1>7 DEF InjectGrainDrop
  <2>2. c.group = Front(q.group)
    BY <1>0, <2>1 DEF IsQuery
  <2> QED
    BY <1>0, <2>1, <2>2, SeesGrain
<1>8. CASE c \in InjectCoalesceBypass(q)
  <2>1. c \in Replacing(q, "COALESCE", "default")
    BY <1>8 DEF InjectCoalesceBypass
  <2> QED
    BY <2>1, SeesEdit, Zenon
<1>9. CASE c \in InjectMathOperatorInvert(q)
  <2>1. c \in Replacing(q, "-", "+") \/ c \in Replacing(q, "+", "-")
    BY <1>9 DEF InjectMathOperatorInvert
  <2> QED
    BY <2>1, SeesEdit, Zenon
<1> QED
  BY <1>1, <1>2, <1>3, <1>4, <1>5, <1>6, <1>7, <1>8, <1>9

\* A change is one of the edits or a mutant of its base.
Proposed ==
  change.origin # "edit" =>
    change.base \in Bases /\ change.candidate \in Mutated(change.base)

\* A mutant that the detector reports nothing about differs from its base only
\* around the aggregates in SELECT, ORDER BY or QUALIFY or inside join conditions: of
\* any base, whatever its clauses, once the comparison of conditions tells
\* a condition from one with a comparison less or another one.
THEOREM TwoBlindSpots == Spec => []MutantsAreSeen
<1>1. Init => Proposed
  <2> SUFFICES ASSUME Init, change.origin # "edit" PROVE Proposed
    BY DEF Proposed
  <2>1. ASSUME NEW e \in Edits,
               change = [base |-> e.base, candidate |-> e.candidate,
                         contract |-> e.contract, origin |-> "edit"]
        PROVE  FALSE
    BY <2>1
  <2>2. \E q \in Bases, contract \in Contracts : \E m \in Mutations(q) :
          change = [base |-> q, candidate |-> m.sql,
                    contract |-> contract, origin |-> m.type]
    BY <2>1, Zenon DEF Init
  <2>3. PICK q \in Bases : \E m \in Mutations(q) :
          change.base = q /\ change.candidate = m.sql
    BY <2>2
  <2>4. \A m \in Mutations(q) : m.sql \in Mutated(q)
    BY DEF Mutations, Mutated
  <2> QED
    BY <2>3, <2>4 DEF Proposed
<1>2. Proposed /\ [Next]_vars => Proposed'
  <2> SUFFICES ASSUME Proposed, [Next]_vars PROVE Proposed'
    OBVIOUS
  <2>1. change' = change
    BY DEF Next, Check, DbtCheck, BigQueryEvaluate, RouteStatically, AskAssertion,
           DecideAtRuntime, vars
  <2> QED
    BY <2>1 DEF Proposed
<1>3. Sound /\ Proposed => MutantsAreSeen
  <2> SUFFICES ASSUME Sound, Proposed, Checked, change.origin # "edit", check.drifts = {}
               PROVE  /\ JoinsKept(change.base, change.candidate)
                      /\ [change.candidate EXCEPT !.outer = change.base.outer,
                                                  !.joins = change.base.joins] = change.base
    BY DEF MutantsAreSeen
  <2>1. Analyze(change.base, change.candidate) = {}
    BY DEF Sound, GateInv, CheckInv
  <2>2. BlindSpot(change.base, change.candidate)
    BY <2>1, SeesMutants DEF Proposed
  <2> QED
    BY <2>2 DEF BlindSpot
<1> QED
  BY <1>1, <1>2, <1>3, SoundInvariant, PTL DEF Spec

-----------------------------------------------------------------------------
(* What check and the router have been told of the contract.               *)

\* check reports the violations that the validator finds ...
LEMMA CheckVerdict ==
  ASSUME Sound, NEW metric \in BOOLEAN, Check(metric)
  PROVE  VerdictInv'
<1> DEFINE judged == metric /\ change.contract.declared
           violations == Violations(change.contract, change.candidate)
<1>1. check.exit = "not run" /\ gate' = gate /\ change' = change
  BY DEF Check
<1>2. gate'.kind = "none"
  <2>1. gate = [kind |-> "none"]
    BY <1>1 DEF Sound, GateInv, CheckInv
  <2> QED
    BY <1>1, <2>1
<1>3. check'.exit \in {"pass", "fail"} =>
        check'.metric = metric /\ check'.violations = IF judged THEN violations ELSE {}
  BY DEF Check
<1> HIDE DEF violations
<1>4. check'.exit \in {"pass", "fail"} /\ check'.metric /\ change.contract.declared =>
        check'.violations = violations
  BY <1>3
<1> QED
  BY <1>1, <1>2, <1>4 DEF VerdictInv, Checked, violations

\* ... and the router decides by them.
LEMMA RouterVerdict ==
  ASSUME Sound, VerdictInv, NEW size \in SuiteSizes \cup {-1}, NEW force \in BOOLEAN,
         RouteStatically(size, force)
  PROVE  VerdictInv'
<1>1. check' = check /\ change' = change
  BY DEF RouteStatically
<1>2. PICK decision \in Decisions.router, n \in Nat :
           /\ gate' = Routed(decision, n)
           /\ decision = "raises" => Raises(change.contract, change.candidate)
           /\ decision \notin {"raises", "tier_3_static_rejected"} =>
                Violations(change.contract, change.candidate) = {}
  BY RouterSteps
<1>3. gate'.kind = "router" /\ gate'.decision = decision
  BY <1>2, RoutedFields
<1> QED
  BY <1>1, <1>2, <1>3 DEF VerdictInv, Checked

\* In every reachable state.
LEMMA VerdictInvariant == Spec => []VerdictInv
<1>1. Init => VerdictInv
  <2> SUFFICES ASSUME Init PROVE VerdictInv
    OBVIOUS
  <2>1. check.exit = "not run" /\ gate.kind = "none"
    BY DEF Init
  <2> QED
    BY <2>1 DEF VerdictInv, Checked
<1>2. Sound /\ VerdictInv /\ [Next]_vars => VerdictInv'
  <2> SUFFICES ASSUME Sound, VerdictInv, [Next]_vars PROVE VerdictInv'
    OBVIOUS
  <2>1. ASSUME NEW metric \in BOOLEAN, Check(metric) PROVE VerdictInv'
    BY <2>1, CheckVerdict
  <2>2. ASSUME NEW node, NEW f \in {"critical", "high", "any"}, DbtCheck(node, f)
        PROVE  VerdictInv'
    <3>1. gate'.kind = "dbt" /\ check' = check /\ change' = change
      <4>1. \E exit \in Exits, decision \in Decisions.dbt : gate' = DbtAnswer(f, exit, decision)
        BY <2>2, DbtSteps
      <4> QED
        BY <2>2, <4>1 DEF DbtAnswer, DbtCheck
    <3> QED
      BY <3>1 DEF VerdictInv, Checked
  <2>3. ASSUME NEW policy \in Policies, NEW service \in Services,
               BigQueryEvaluate(policy, service)
        PROVE  VerdictInv'
    <3>1. gate'.kind = "bigquery" /\ check' = check /\ change' = change
      <4>1. \E mode \in Modes, bytes \in Nat, decision \in Decisions.bigquery :
              gate' = BigQueryAnswer(policy, mode, bytes, decision)
        BY <2>3, BigQuerySteps
      <4> QED
        BY <2>3, <4>1 DEF BigQueryAnswer, BigQueryEvaluate
    <3> QED
      BY <3>1 DEF VerdictInv, Checked
  <2>4. ASSUME NEW size \in SuiteSizes \cup {-1}, NEW force \in BOOLEAN,
               RouteStatically(size, force)
        PROVE  VerdictInv'
    BY <2>4, RouterVerdict
  <2>5. CASE DecideAtRuntime \/ \E answer \in {"passes", "fails", "raises"} : AskAssertion(answer)
    <3>1. /\ gate.kind = "router" /\ gate.decision = "escalated"
          /\ check' = check /\ change' = change
      BY <2>5 DEF DecideAtRuntime, AskAssertion
    <3>2. Violations(change.contract, change.candidate) = {}
      BY <3>1 DEF VerdictInv
    <3>3. gate'.decision # "raises"
      <4>1. gate \in [kind : {"router"}, decision : Decisions.router, size : Nat,
                      left : Nat, answers : Seq({"passes", "fails", "raises"})]
        BY <3>1 DEF Sound, GateInv, RouterInv
      <4> QED
        BY <2>5, <3>1, <4>1 DEF DecideAtRuntime, AskAssertion
    <3> QED
      BY <3>1, <3>2, <3>3 DEF VerdictInv, Checked
  <2>6. CASE UNCHANGED vars
    BY <2>6 DEF vars, VerdictInv, Checked
  <2> QED
    BY <2>1, <2>2, <2>3, <2>4, <2>5, <2>6 DEF Next
<1> QED
  BY <1>1, <1>2, SoundInvariant, PTL DEF Spec

-----------------------------------------------------------------------------
(* Contracts that declare all of their base.                               *)

\* A mutant that lost a part of its base is one of those that the engine makes.
Dropped ==
  /\ change.origin = "FILTER_DROP" =>
       /\ change.base \in Bases /\ change.candidate \in InjectFilterDrop(change.base)
  /\ change.origin = "GRAIN_DROP" =>
       /\ change.base \in Bases /\ change.candidate \in InjectGrainDrop(change.base)

\* With a conjunct, a filter is lost that the contract requires.
LEMMA LostFilter ==
  ASSUME NEW q \in Bases, NEW contract, Complete(contract, q), NEW c \in InjectFilterDrop(q)
  PROVE  Violations(contract, c) # {}
<1>1. q.where # NoClause /\ ConjunctsOf(q.where) # {}
      /\ ConjunctsOf(q.where) \subseteq contract.filters
      /\ Apart(ConjunctsOf(q.where))
      /\ Invariants(contract) = contract
  BY DEF Complete, Invariants
<1>2. \E f \in ConjunctsOf(q.where) : ~FilterPresent(f, c)
  <2>1. CASE LosingConjunct(q.where) # {}
    <3>1. PICK w \in LosingConjunct(q.where) : c = [q EXCEPT !.where = w]
      BY <1>1, <2>1 DEF InjectFilterDrop
    <3>2. c.where = w
      BY <3>1, BasesAssumption DEF IsQuery
    <3>3. \E f \in ConjunctsOf(q.where) : ~OccursIn(f, w)
      BY <1>1, MutantsAssumption
    <3> QED
      BY <3>2, <3>3 DEF FilterPresent
  <2>2. CASE LosingConjunct(q.where) = {}
    <3>1. c = [q EXCEPT !.where = NoClause]
      BY <1>1, <2>2 DEF InjectFilterDrop
    <3>2. c.where = NoClause
      BY <3>1, BasesAssumption DEF IsQuery
    <3> QED
      BY <1>1, <3>2 DEF FilterPresent
  <2> QED
    BY <2>1, <2>2
<1>3. PICK f \in contract.filters : ~FilterPresent(f, c)
  BY <1>1, <1>2
<1>4. <<"Population", f>> \in Violations(contract, c)
  BY <1>1, <1>3 DEF Violations
<1> QED
  BY <1>4

\* With the last expression grouped by, a dimension is.
LEMMA LostDimension ==
  ASSUME NEW q \in Bases, NEW contract, Complete(contract, q), NEW c \in InjectGrainDrop(q)
  PROVE  Violations(contract, c) # {}
<1> DEFINE g == q.group  n == Len(g)  d == g[n]
<1>1. IsQuery(q) /\ Len(q.group) > 1 /\ c = [q EXCEPT !.group = Front(q.group)]
  BY BasesAssumption DEF InjectGrainDrop
<1>2. g \in Seq(SUBSET STRING) /\ n \in Nat /\ n > 1 /\ DOMAIN g = 1 .. n
  BY <1>1 DEF IsQuery
<1>3. c.group = Front(g)
  BY <1>1 DEF IsQuery
<1>4. /\ \A i, j \in DOMAIN g : g[i] = g[j] => i = j
      /\ ToSet(g) \subseteq contract.dimensions
      /\ \A x, y \in ToSet(g) : <<x, y>> \notin Similar
      /\ Invariants(contract) = contract
  BY DEF Complete, IsInjective, Invariants
<1> HIDE DEF g, n
<1>5. Front(g) = [i \in 1 .. n - 1 |-> g[i]]
  <2>1. Front(g) = SubSeq(g, 1, n - 1)
    BY DEF Front, n
  <2> QED
    BY <1>2, <2>1
<1>6. ToSet(Front(g)) \subseteq ToSet(g) /\ d \in ToSet(g)
  BY <1>2, <1>5 DEF ToSet
<1>7. d \notin ToSet(Front(g))
  <2>1. ASSUME NEW i \in 1 .. n - 1 PROVE g[i] # d
    BY <1>2, <1>4
  <2> QED
    BY <1>5, <2>1 DEF ToSet
<1> HIDE DEF d
<1>8. ~DimensionPresent(d, c)
  <2>1. \A e \in ToSet(Front(g)) : e # d /\ <<e, d>> \notin Similar /\ <<d, e>> \notin Similar
    BY <1>4, <1>6, <1>7
  <2> QED
    BY <1>3, <2>1 DEF DimensionPresent
<1>9. <<"Grain", d>> \in Violations(contract, c)
  BY <1>4, <1>6, <1>8 DEF Violations
<1> QED
  BY <1>9

\* A contract that declares the population and the grain of its metric, in
\* filters and dimensions none of which is found in another's text, catches
\* every mutant that loses a part of them: check reports it, the dry run does
\* not allow it, the router rejects it without running anything.  Of a base
\* of which one conjunct's text contains another's it says nothing.
THEOREM DropsAreCaught == Spec => []DropsBreakTheContract
<1>1. Init => Dropped
  <2> SUFFICES ASSUME Init, change.origin \in {"FILTER_DROP", "GRAIN_DROP"} PROVE Dropped
    BY DEF Dropped
  <2>1. ~\E e \in Edits : change = [base |-> e.base, candidate |-> e.candidate,
                                    contract |-> e.contract, origin |-> "edit"]
    OBVIOUS
  <2>2. PICK q \in Bases : \E contract \in Contracts : \E m \in Mutations(q) :
          change = [base |-> q, candidate |-> m.sql,
                    contract |-> contract, origin |-> m.type]
    BY <2>1, Zenon DEF Init
  <2>3. PICK m \in Mutations(q) :
          change.base = q /\ change.candidate = m.sql /\ change.origin = m.type
    BY <2>2
  <2>4. /\ m.type = "FILTER_DROP" => m.sql \in InjectFilterDrop(q)
        /\ m.type = "GRAIN_DROP" => m.sql \in InjectGrainDrop(q)
    BY DEF Mutations
  <2> QED
    BY <2>3, <2>4 DEF Dropped
<1>2. Dropped /\ [Next]_vars => Dropped'
  <2> SUFFICES ASSUME Dropped, [Next]_vars PROVE Dropped'
    OBVIOUS
  <2>1. change' = change
    BY DEF Next, Check, DbtCheck, BigQueryEvaluate, RouteStatically, AskAssertion,
           DecideAtRuntime, vars
  <2> QED
    BY <2>1 DEF Dropped
<1>3. Sound /\ VerdictInv /\ Dropped => DropsBreakTheContract
  <2> SUFFICES ASSUME Sound, VerdictInv, Dropped,
                      change.origin \in {"FILTER_DROP", "GRAIN_DROP"},
                      Complete(change.contract, change.base)
               PROVE  /\ Checked /\ check.metric => check.violations # {}
                      /\ gate.kind = "bigquery" => gate.decision # "ALLOW"
                      /\ gate.kind = "router" => gate.decision = "tier_3_static_rejected"
    BY DEF DropsBreakTheContract
  <2>1. Violations(change.contract, change.candidate) # {}
    BY LostFilter, LostDimension DEF Dropped
  <2>2. ~Raises(change.contract, change.candidate)
    <3>1. change.candidate # Unparseable
      <4>1. ASSUME NEW q \in Bases, NEW c \in InjectFilterDrop(q) \cup InjectGrainDrop(q)
            PROVE  c # Unparseable
        <5>1. [type |-> "FILTER_DROP", sql |-> c] \in Mutations(q)
              \/ [type |-> "GRAIN_DROP", sql |-> c] \in Mutations(q)
          BY DEF Mutations
        <5> QED
          BY <5>1, MutantsAssumption
      <4> QED
        BY <4>1 DEF Dropped
    <3> QED
      BY <3>1 DEF Raises, Complete, Invariants
  <2>3. Checked /\ check.metric => check.violations # {}
    BY <2>1 DEF VerdictInv, Complete
  <2>4. gate.kind = "bigquery" => gate.decision # "ALLOW"
    BY <2>1 DEF Sound, AllowanceIsEarned, AllowedWithinBudget
  <2>5. gate.kind = "router" => gate.decision = "tier_3_static_rejected"
    BY <2>1, <2>2 DEF VerdictInv
  <2> QED
    BY <2>3, <2>4, <2>5
<1> QED
  BY <1>1, <1>2, <1>3, SoundInvariant, VerdictInvariant, PTL DEF Spec
=============================================================================
