----------------------- MODULE CandidateJudges_proofs -----------------------
(***************************************************************************)
(* Proofs about CandidateJudges for every set of subjects, with whatever   *)
(* fixtures, suites and contracts, and for every candidate.                *)
(*                                                                         *)
(* The model picks and totals the rows of a table with recursive functions *)
(* on positions.  What they compute is proved for every table, from the    *)
(* least position at which it would go wrong.                              *)
(***************************************************************************)
EXTENDS CandidateJudges, TLAPS, WellFoundedInduction, SequenceTheorems, FiniteSetTheorems

\* A frame says of a query that fails why it fails, and of no other query.
LEMMA FrameFault ==
  ASSUME NEW q, NEW table, NEW f \in Execute(q, table)
  PROVE  f.fault = q.fault
<1>1. PICK keys : f = ResultWith(q, table, keys)
  BY DEF Execute
<1> QED
  BY <1>1 DEF ResultWith

\* A strict assertion takes an error for a failure.
LEMMA StrictFails ==
  ASSUME NEW a, Strict(a), NEW f, f.fault # "none", NEW db
  PROVE  ~Evaluate(a, f, db)
<1>1. \A wanted : ~Runs(f, wanted)
  BY DEF Runs, Raised
<1> QED
  BY <1>1 DEF Strict, Evaluate, EvaluateNonNullOutput, EvaluateUniqueKey,
              EvaluateRowCountBounds, EvaluateRequiredPopulation, EvaluateMetricValue

\* What passes where there is a parent table passes where there is none: tests
\* of it are skipped there, and no other assertion looks at it.
LEMMA SkippedWithoutParents ==
  ASSUME NEW a, NEW f, NEW db, NEW poor, poor.table = db.table, poor.parents = Null,
         Evaluate(a, f, db)
  PROVE  Evaluate(a, f, poor)
<1>1. EvaluateRelationships(a, f, poor)
  BY DEF EvaluateRelationships
<1>2. EvaluateSingularSql(a, f, db) => EvaluateSingularSql(a, f, poor)
  BY DEF EvaluateSingularSql
<1>3. EvaluateRequiredPopulation(f, db) => EvaluateRequiredPopulation(f, poor)
  BY DEF EvaluateRequiredPopulation
<1> QED
  BY <1>1, <1>2, <1>3 DEF Evaluate

-----------------------------------------------------------------------------
(* What the judges answer is about the candidate in work.                  *)

\* Nobody has judged anything yet.
LEMMA InitJudgement == Init => JudgementInv /\ RecordInv
BY DEF Init, JudgementInv, RecordInv, Untouched, NoRecord, Judged

\* Loading a model: no answer is there that its suites could make stale.
LEMMA LoadJudgement == JudgementInv /\ LoadModel => JudgementInv'
BY DEF JudgementInv, LoadModel, Judged, Untouched

\* The next candidate: the answers on the last one are cleared.
LEMMA NextJudgement == JudgementInv /\ NextCandidate => JudgementInv'
<1> SUFFICES ASSUME JudgementInv, NextCandidate PROVE JudgementInv'
  OBVIOUS
<1>1. frame'.fault = candidate'.fault
  BY FrameFault DEF NextCandidate
<1>2. judged' \in Nat /\ pc' = "compare" /\ caught' = Untouched
  BY DEF NextCandidate, JudgementInv
<1> QED
  BY <1>1, <1>2 DEF JudgementInv, Untouched, Judged

\* The comparison drops a candidate or passes it on.
LEMMA CompareJudgement == JudgementInv /\ Compare => JudgementInv'
BY DEF JudgementInv, Compare, Judged, LeftOut, TierPasses, ScriptDb

\* A tier adds its answer to those of the tiers before it.
LEMMA TierJudgement ==
  ASSUME JudgementInv, NEW tier \in 0..4, JudgeTier(tier)
  PROVE  JudgementInv'
<1>1. /\ pc = "tiers" /\ DOMAIN caught = 0..(tier - 1) /\ pc' \in {"agent", "tiers"}
      /\ caught' = [t \in 0..tier |-> IF t < tier THEN caught[t] ELSE ~TierPasses(tier)]
      /\ UNCHANGED <<subject, suites, base, candidate, frame, judged>>
  BY DEF JudgeTier
<1>2. \A t : TierPasses(t)' = TierPasses(t)
  BY <1>1 DEF TierPasses, ScriptDb
<1>3. ASSUME NEW t \in DOMAIN caught' PROVE caught'[t] <=> ~TierPasses(t)'
  <2>1. CASE t < tier
    <3>1. t \in DOMAIN caught /\ caught'[t] = caught[t]
      BY <1>1, <1>3, <2>1
    <3> QED
      BY <1>2, <3>1 DEF JudgementInv
  <2>2. CASE ~(t < tier)
    <3>1. t = tier
      BY <1>1, <1>3, <2>2
    <3>2. caught'[tier] <=> ~TierPasses(tier)
      <4>1. ~(tier < tier) /\ tier \in 0..tier
        OBVIOUS
      <4>2. caught'[tier] = IF tier < tier THEN caught[tier] ELSE ~TierPasses(tier)
        BY <1>1, <4>1, Zenon
      <4> QED
        BY <4>1, <4>2, Zenon
    <3>3. TierPasses(tier)' <=> TierPasses(tier)
      BY <1>2
    <3> QED
      BY <3>1, <3>2, <3>3
  <2> QED
    BY <2>1, <2>2
<1>4. caught' # Untouched
  <2>1. tier \in DOMAIN caught'
    BY <1>1
  <2> QED
    BY <2>1 DEF Untouched
<1> QED
  BY <1>1, <1>3, <1>4 DEF JudgementInv, Judged, LeftOut

\* evaluate-agent reports on it ...
LEMMA AgentJudgement == JudgementInv /\ EvaluateAgent => JudgementInv'
<1> SUFFICES ASSUME JudgementInv, EvaluateAgent PROVE JudgementInv'
  OBVIOUS
<1>1. /\ pc = "agent" /\ pc' = "gym"
      /\ UNCHANGED <<subject, suites, base, candidate, frame, caught, judged>>
  BY DEF EvaluateAgent
<1>2. \E fixtures, suite \in BOOLEAN : verdict' = AgentReport(fixtures, suite)
  BY DEF EvaluateAgent
<1>3. \A fixtures, suite \in BOOLEAN :
        AgentReport(fixtures, suite)' = AgentReport(fixtures, suite)
  BY <1>1 DEF AgentReport, FullDb
<1>4. \A t : TierPasses(t)' = TierPasses(t)
  BY <1>1 DEF TierPasses, ScriptDb
<1> QED
  BY <1>1, <1>2, <1>3, <1>4 DEF JudgementInv, Judged, LeftOut

\* ... and the gym's evaluator classifies it.
LEMMA GymJudgement == JudgementInv /\ EvaluateCandidate => JudgementInv'
<1> SUFFICES ASSUME JudgementInv, EvaluateCandidate PROVE JudgementInv'
  OBVIOUS
<1>1. /\ pc = "gym" /\ pc' = "next"
      /\ UNCHANGED <<subject, suites, base, candidate, frame, caught, verdict, judged>>
      /\ \E fixture \in BOOLEAN :
           class' = Classification(candidate, frame, base, subject.contract, fixture)
  BY DEF EvaluateCandidate
<1>3. \A fixtures, suite \in BOOLEAN :
        AgentReport(fixtures, suite)' = AgentReport(fixtures, suite)
  BY <1>1 DEF AgentReport, FullDb
<1>4. \A t : TierPasses(t)' = TierPasses(t)
  BY <1>1 DEF TierPasses, ScriptDb
<1> QED
  BY <1>1, <1>3, <1>4 DEF JudgementInv, Judged, LeftOut

\* No step makes an answer stale.
LEMMA JudgementInvariant == Spec => []JudgementInv
<1>1. Init => JudgementInv
  BY InitJudgement
<1>2. JudgementInv /\ [Next]_vars => JudgementInv'
  <2> SUFFICES ASSUME JudgementInv, [Next]_vars PROVE JudgementInv'
    OBVIOUS
  <2>1. CASE UNCHANGED vars
    BY <2>1 DEF vars, JudgementInv, Judged, LeftOut, TierPasses, ScriptDb, AgentReport,
                FullDb
  <2>2. CASE LoadModel
    BY <2>2, LoadJudgement
  <2>3. CASE NextCandidate
    BY <2>3, NextJudgement
  <2>4. CASE Compare
    BY <2>4, CompareJudgement
  <2>5. ASSUME NEW tier \in 0..4, JudgeTier(tier) PROVE JudgementInv'
    BY <2>5, TierJudgement
  <2>6. CASE EvaluateAgent
    BY <2>6, AgentJudgement
  <2>7. CASE EvaluateCandidate
    BY <2>7, GymJudgement
  <2> QED
    BY <2>1, <2>2, <2>3, <2>4, <2>5, <2>6, <2>7 DEF Next
<1> QED
  BY <1>1, <1>2, PTL DEF Spec

-----------------------------------------------------------------------------
(* What follows of the answers.                                            *)

\* What tier 1 catches, tier 2 does; of a query that does not run, if its suite
\* has a strict assertion.
LEMMA TiersInOrder ==
  ASSUME JudgementInv, ByAllTiers, caught[1],
         frame.fault = "none" \/ \E i \in DOMAIN suites.dbt : Strict(suites.dbt[i])
  PROVE  caught[2]
<1>1. /\ caught[1] <=> ~EvaluateTier1(frame)
      /\ caught[2] <=> ~EvaluateTier2(frame, suites.dbt, ScriptDb)
  BY DEF JudgementInv, ByAllTiers, TierPasses
<1>2. CASE frame.fault = "none"
  BY <1>1, <1>2 DEF EvaluateTier2
<1>3. CASE frame.fault # "none"
  <2>1. PICK i \in DOMAIN suites.dbt : Strict(suites.dbt[i])
    BY <1>3
  <2>2. ~Evaluate(suites.dbt[i], frame, ScriptDb)
    BY <1>3, <2>1, StrictFails
  <2> QED
    BY <1>1, <1>3, <2>2 DEF EvaluateTier2
<1> QED
  BY <1>2, <1>3

\* What the contract or the oracle catches is not accepted of an agent that is
\* tested on a fixture with the oracle's suite, if the metric has invariants.
LEMMA CaughtNotAccepted ==
  ASSUME JudgementInv, ByAllTiers, caught[4] \/ (caught[3] /\ subject.contract # Null),
         verdict.fixtures, verdict.suite
  PROVE  verdict.verdict # "ACCEPTED_SEMANTICALLY_COMPLIANT"
<1>1. PICK fixtures \in BOOLEAN, suite \in BOOLEAN : verdict = AgentReport(fixtures, suite)
  BY DEF JudgementInv, ByAllTiers
<1>2. /\ fixtures /\ suite
      /\ verdict.verdict = AgentVerdict(candidate, frame, subject.contract,
                                        suites.semantic, FullDb, TRUE)
  BY <1>1 DEF AgentReport
<1>3. /\ caught[3] <=> ~EvaluateTier3(candidate, subject.contract)
      /\ caught[4] <=> ~EvaluateTier4(frame, suites.semantic, ScriptDb)
  BY DEF JudgementInv, ByAllTiers, TierPasses
<1> DEFINE runs == frame.fault = "none"
           violations == IF subject.contract = Null THEN {}
                         ELSE Violations(subject.contract, candidate)
           failures == {i \in DOMAIN suites.semantic :
                          ~Evaluate(suites.semantic[i], frame, FullDb)}
<1>4. runs => violations # {} \/ failures # {}
  <2> SUFFICES ASSUME runs, violations = {} PROVE failures # {}
    OBVIOUS
  <2>1. ~EvaluateTier4(frame, suites.semantic, ScriptDb)
    <3>1. subject.contract # Null => EvaluateTier3(candidate, subject.contract)
      BY DEF EvaluateTier3
    <3> QED
      BY <1>3, <3>1
  <2>2. PICK i \in DOMAIN suites.semantic : ~Evaluate(suites.semantic[i], frame, ScriptDb)
    BY <2>1 DEF EvaluateTier4
  <2>3. ScriptDb.table = FullDb.table /\ ScriptDb.parents = Null
    BY DEF ScriptDb, FullDb
  <2>4. ~Evaluate(suites.semantic[i], frame, FullDb)
    BY <2>2, <2>3, SkippedWithoutParents
  <2> QED
    BY <2>4
<1>5. CASE candidate.fault = "parse"
  BY <1>2, <1>5 DEF AgentVerdict
<1>6. CASE candidate.fault # "parse" /\ ~runs
  <2>1. verdict.verdict = "REJECTED_EXECUTION_FAILURE"
    BY <1>2, <1>6 DEF AgentVerdict, VerdictOf
  <2> QED
    BY <2>1
<1>7. CASE candidate.fault # "parse" /\ runs
  <2>1. verdict.verdict = VerdictOf(TRUE, TRUE, violations, failures)
    BY <1>2, <1>7 DEF AgentVerdict
  <2>2. violations # {} \/ failures # {}
    BY <1>4, <1>7
  <2> HIDE DEF violations, failures
  <2> QED
    BY <2>1, <2>2 DEF VerdictOf
<1> QED
  BY <1>5, <1>6, <1>7

\* A match of a compliant query was not caught by the contract.
LEMMA MatchNotCaught ==
  ASSUME JudgementInv, ByAllTiers, class = "CONTRACT_COMPLIANT_RESULT_MATCH"
  PROVE  ~caught[3]
<1>1. \E fixture \in BOOLEAN :
        class = Classification(candidate, frame, base, subject.contract, fixture)
  BY DEF JudgementInv, ByAllTiers
<1>2. Violations(subject.contract, candidate) = {}
  BY <1>1 DEF Classification
<1>3. caught[3] <=> ~EvaluateTier3(candidate, subject.contract)
  BY DEF JudgementInv, ByAllTiers, TierPasses
<1> QED
  BY <1>2, <1>3 DEF EvaluateTier3

\* What does not run for the agent is an error in the gym.
LEMMA RejectedIsError ==
  ASSUME JudgementInv, Judged,
         verdict.verdict \in {"REJECTED_SYNTAX_ERROR", "REJECTED_EXECUTION_FAILURE"}
  PROVE  class = "EXECUTION_ERROR"
<1>1. PICK fixtures \in BOOLEAN, suite \in BOOLEAN : verdict = AgentReport(fixtures, suite)
  BY DEF JudgementInv
<1>2. candidate.fault = "parse" \/ (fixtures /\ frame.fault # "none")
  BY <1>1 DEF AgentReport, AgentVerdict, VerdictOf
<1>3. frame.fault # "none"
  BY <1>2 DEF JudgementInv, Judged
<1>4. \E fixture \in BOOLEAN :
        class = Classification(candidate, frame, base, subject.contract, fixture)
  BY DEF JudgementInv
<1> QED
  BY <1>3, <1>4 DEF Classification

-----------------------------------------------------------------------------
(* The script's counters.                                                  *)

\* No step lets a tier count more than there are valid defects.
LEMMA RecordStep == RecordInv /\ [Next]_vars => RecordInv'
<1> SUFFICES ASSUME RecordInv, [Next]_vars PROVE RecordInv'
  OBVIOUS
<1>1. CASE LoadModel
  BY <1>1 DEF LoadModel, RecordInv
<1>2. CASE NextCandidate
  BY <1>2 DEF NextCandidate, RecordInv
<1>3. CASE Compare
  BY <1>3 DEF Compare, RecordInv
<1>4. ASSUME NEW tier \in 0..4, JudgeTier(tier) PROVE RecordInv'
  <2>1. /\ pc = "tiers" /\ DOMAIN caught = 0..(tier - 1) /\ DOMAIN caught' = 0..tier
        /\ pc' \in {"agent", "tiers"} /\ judged' = judged
        /\ \/ record' = record
           \/ record' = [record EXCEPT !.caught[tier] = @ + 1]
    BY <1>4 DEF JudgeTier
  <2> DEFINE n == record.caught[tier]  v == record.valid
  <2>2. n \in Nat /\ v \in Nat /\ n + 1 <= v
    <3>1. tier \notin DOMAIN caught
      BY <2>1
    <3> QED
      BY <2>1, <3>1 DEF RecordInv
  <2>3. record \in [valid : Nat, caught : [0..4 -> Nat]]
    BY DEF RecordInv
  <2>4. /\ record' \in [valid : Nat, caught : [0..4 -> Nat]]
        /\ record'.valid = v /\ record'.caught[tier] \in {n, n + 1}
        /\ \A t \in 0..4 : t # tier => record'.caught[t] = record.caught[t]
    <3>1. CASE record' = record
      BY <2>3, <3>1
    <3>2. CASE record' = [record EXCEPT !.caught[tier] = @ + 1]
      BY <2>2, <2>3, <3>2
    <3> QED
      BY <2>1, <3>1, <3>2
  <2>5. ASSUME NEW t \in 0..4
        PROVE  record'.caught[t] + (IF pc' = "tiers" /\ t \notin DOMAIN caught' THEN 1 ELSE 0)
                 <= record'.valid
    <3>1. CASE t = tier
      <4>1. t \in DOMAIN caught'
        BY <2>1, <3>1
      <4>2. record'.caught[t] <= v
        <5> HIDE DEF n, v
        <5> QED
          BY <2>2, <2>4, <3>1
      <4>3. record'.caught[t] \in Nat
        BY <2>4
      <4> QED
        BY <2>4, <4>1, <4>2, <4>3
    <3>2. CASE t # tier
      <4>1. t \in DOMAIN caught <=> t \in DOMAIN caught'
        BY <2>1, <3>2
      <4>2. record'.caught[t] = record.caught[t] /\ record'.valid = record.valid
        BY <2>4, <3>2
      <4>3. record.caught[t] \in Nat
        BY <2>3
      <4>4. record.caught[t] + (IF t \notin DOMAIN caught THEN 1 ELSE 0) <= v
        BY <2>1 DEF RecordInv
      <4> QED
        BY <2>2, <4>1, <4>2, <4>3, <4>4
    <3> QED
      BY <3>1, <3>2
  <2> QED
    BY <2>1, <2>4, <2>5 DEF RecordInv
<1>5. CASE EvaluateAgent
  BY <1>5 DEF EvaluateAgent, RecordInv
<1>6. CASE EvaluateCandidate
  BY <1>6 DEF EvaluateCandidate, RecordInv
<1>7. CASE UNCHANGED vars
  BY <1>7 DEF vars, RecordInv
<1> QED
  BY <1>1, <1>2, <1>3, <1>4, <1>5, <1>6, <1>7 DEF Next

\* No tier's rate is above one: a tier counts a valid defect at most once, and
\* every valid defect is a candidate.
THEOREM RatesAreRates ==
  Spec => [](\A t \in 0..4 : record.caught[t] <= record.valid /\ record.valid <= judged)
<1>1. Init => RecordInv
  BY InitJudgement
<1>2. RecordInv => \A t \in 0..4 : record.caught[t] <= record.valid /\ record.valid <= judged
  BY DEF RecordInv
<1> QED
  BY <1>1, <1>2, RecordStep, PTL DEF Spec

-----------------------------------------------------------------------------
(* Functions that are defined position by position: they exist, and what   *)
(* each step preserves holds at the end.                                   *)

\* A set of naturals has a least element.
LEMMA Least ==
  ASSUME NEW S \in SUBSET Nat, S # {}
  PROVE  \E n \in S : \A m \in S : n <= m
<1> DEFINE R == OpToRel(<, Nat)
<1>1. \A x, y \in Nat : x < y => <<x, y>> \in R
  BY DEF OpToRel
<1>2. IsWellFoundedOn(R, Nat)
  BY NatLessThanWellFounded
<1> HIDE DEF R
<1>3. PICK n \in S : \A m \in S : ~ (<<m, n>> \in R)
  BY <1>2, WFMin
<1>4. ASSUME NEW m \in S PROVE n <= m
  <2>1. ~(m < n)
   BY <1>1, <1>3, Zenon
  <2> QED
    BY <2>1
<1> QED
  BY <1>4

\* Induction, the formula as a set: holds at 0 and is passed on, all below n.
LEMMA Upto ==
  ASSUME NEW n \in Nat, NEW P, 0 \in P, \A i \in 1 .. n : i - 1 \in P => i \in P
  PROVE  0 .. n \subseteq P
<1> SUFFICES ASSUME ~(0 .. n \subseteq P) PROVE FALSE
  OBVIOUS
<1> DEFINE S == {i \in 0 .. n : i \notin P}
<1>1. S \in SUBSET Nat /\ S # {}
  OBVIOUS
<1>2. PICK i \in S : \A m \in S : i <= m
  <2> HIDE DEF S
  <2> QED
   BY <1>1, Least
<1>3. i # 0 /\ i \in 1 .. n /\ i - 1 \in 0 .. n
  OBVIOUS
<1>4. i - 1 \notin S
  BY <1>2, <1>3
<1>5. i - 1 \in P
 BY <1>3, <1>4
<1> QED
  BY <1>3, <1>5

\* Functions that say how a value follows from the one before it.
Steps(n, V) == [1 .. n -> [V -> V]]

Recurs(f, n, V, start, step) ==
  /\ f \in [0 .. n -> V] /\ f[0] = start
  /\ \A i \in 1 .. n : f[i] = step[i][f[i - 1]]

\* A recursive function on 0 .. n exists.
LEMMA Recursion ==
  ASSUME NEW n \in Nat, NEW V, NEW start \in V, NEW step \in Steps(n, V)
  PROVE  \E f : Recurs(f, n, V, start, step)
<1> DEFINE Good(k, f) == /\ f \in [0 .. k -> V] /\ f[0] = start
                         /\ \A i \in 1 .. k : f[i] = step[i][f[i - 1]]
           P == {k \in 0 .. n : \E f \in [0 .. k -> V] : Good(k, f)}
<1>0. step \in [1 .. n -> [V -> V]]
  BY DEF Steps
<1>1. 0 \in P
  <2>1. Good(0, [i \in 0 .. 0 |-> start])
    OBVIOUS
  <2> HIDE DEF Good
  <2>2. [i \in 0 .. 0 |-> start] \in [0 .. 0 -> V]
    OBVIOUS
  <2>3. 0 \in 0 .. n
    OBVIOUS
  <2> QED
    BY <2>1, <2>2, <2>3
<1>2. ASSUME NEW k \in 1 .. n, k - 1 \in P PROVE k \in P
  <2>1. PICK f \in [0 .. k - 1 -> V] : Good(k - 1, f)
    BY <1>2
  <2> DEFINE g == [i \in 0 .. k |-> IF i = k THEN step[k][f[k - 1]] ELSE f[i]]
  <2>2. k \in Nat /\ k - 1 \in Nat /\ f[k - 1] \in V /\ step[k] \in [V -> V]
    BY <1>0
  <2>3. g \in [0 .. k -> V]
    <3>1. step[k][f[k - 1]] \in V
      BY <2>2
    <3>2. ASSUME NEW i \in 0 .. k, i # k PROVE f[i] \in V
      BY <3>2, <2>2
    <3> QED
      BY <3>1, <3>2
  <2>4. g[0] = start /\ g[k] = step[k][f[k - 1]]
    BY <2>1, <2>2
  <2>5. ASSUME NEW i \in 1 .. k PROVE g[i] = step[i][g[i - 1]]
    <3>1. CASE i = k
      <4>1. g[k - 1] = f[k - 1]
        BY <2>2
      <4> HIDE DEF g
      <4> QED
        BY <2>4, <3>1, <4>1
    <3>2. CASE i # k
      <4>1. i \in 1 .. k - 1 /\ i - 1 \in 0 .. k /\ i - 1 # k /\ i \in 0 .. k
        BY <2>2, <3>2
      <4>2. g[i] = f[i] /\ g[i - 1] = f[i - 1]
        BY <3>2, <4>1
      <4>3. f[i] = step[i][f[i - 1]]
        BY <2>1, <4>1
      <4> HIDE DEF g
      <4> QED
        BY <4>2, <4>3
    <3> QED
      BY <3>1, <3>2
  <2> HIDE DEF g
  <2>6. Good(k, g)
    BY <2>3, <2>4, <2>5
  <2> HIDE DEF Good
  <2> QED
    BY <2>2, <2>3, <2>6
<1> HIDE DEF P
<1>3. 0 .. n \subseteq P
  <2>1. \A i \in 1 .. n : i - 1 \in P => i \in P
    BY <1>2
  <2> QED
    BY <1>1, <2>1, Upto
<1>4. n \in P
  BY <1>3
<1>5. PICK f \in [0 .. n -> V] : Good(n, f)
  <2> HIDE DEF Good
  <2> QED
    BY <1>4 DEF P
<1> QED
  BY <1>5 DEF Recurs

\* Its values are in V, if only the steps from values in V are known.
LEMMA RecursTyped ==
  ASSUME NEW n \in Nat, NEW V, NEW start \in V, NEW step \in Steps(n, V),
         NEW f, f = [i \in 0 .. n |-> f[i]], f[0] = start,
         \A i \in 1 .. n : f[i - 1] \in V => f[i] = step[i][f[i - 1]]
  PROVE  Recurs(f, n, V, start, step)
<1> DEFINE P == {i \in 0 .. n : f[i] \in V}
<1>1. 0 \in P
  OBVIOUS
<1>2. ASSUME NEW i \in 1 .. n, i - 1 \in P PROVE i \in P
  <2>1. f[i - 1] \in V /\ step[i] \in [V -> V] /\ i \in 0 .. n
    BY <1>2 DEF Steps
  <2>2. f[i] = step[i][f[i - 1]]
    BY <2>1
  <2>3. f[i] \in V
    BY <2>1, <2>2
  <2> QED
    BY <2>1, <2>3
<1> HIDE DEF P
<1>3. 0 .. n \subseteq P
  <2>1. \A i \in 1 .. n : i - 1 \in P => i \in P
    BY <1>2
  <2> QED
    BY <1>1, <2>1, Upto
<1>4. \A i \in 0 .. n : f[i] \in V
  BY <1>3 DEF P
<1>5. \A i \in 1 .. n : i - 1 \in 0 .. n
  OBVIOUS
<1> QED
  BY <1>4, <1>5 DEF Recurs

-----------------------------------------------------------------------------
(* What is picked of a sequence.                                           *)

\* f has what is picked of the first elements of s.
Picks(f, S, s, P) ==
  /\ f \in [0 .. Len(s) -> Seq(S)] /\ f[0] = <<>>
  /\ \A i \in 1 .. Len(s) : f[i] = IF i \in P THEN Append(f[i - 1], s[i]) ELSE f[i - 1]

\* Picking takes one element at a time.
LEMMA PickedSteps ==
  ASSUME NEW S, NEW s \in Seq(S), NEW P
  PROVE  \E f : Picks(f, S, s, P) /\ Picked(s, P) = f[Len(s)]
<1> DEFINE n == Len(s)
           V == Seq(S)
           step == [i \in 1 .. n |->
                      [t \in V |-> IF i \in P THEN Append(t, s[i]) ELSE t]]
           pick[i \in 0 .. n] ==
             IF i = 0 THEN <<>>
             ELSE IF i \in P THEN Append(pick[i - 1], s[i]) ELSE pick[i - 1]
<1> HIDE DEF pick
<1>1. n \in Nat /\ <<>> \in V
  OBVIOUS
<1>2. \A i \in 1 .. n, t \in V : Append(t, s[i]) \in V
  BY ElementOfSeq, AppendProperties
<1> HIDE DEF n, V
<1>3. step \in Steps(n, V)
  BY <1>2 DEF Steps
<1>4. \A i \in 1 .. n, t \in V : step[i][t] = IF i \in P THEN Append(t, s[i]) ELSE t
  OBVIOUS
<1> HIDE DEF step
<1>5. PICK f : Recurs(f, n, V, <<>>, step)
  BY <1>1, <1>3, Recursion
<1>6. ASSUME NEW i \in 1 .. n
      PROVE  f[i] = IF i \in P THEN Append(f[i - 1], s[i]) ELSE f[i - 1]
  <2>1. i - 1 \in 0 .. n
    BY <1>1
  <2> QED
    BY <1>4, <1>5, <2>1 DEF Recurs
<1>7. f = [i \in 0 .. n |-> IF i = 0 THEN <<>>
                            ELSE IF i \in P THEN Append(f[i - 1], s[i]) ELSE f[i - 1]]
  <2>1. \A i \in 0 .. n : i = 0 \/ i \in 1 .. n
    BY <1>1
  <2>2. f = [i \in 0 .. n |-> f[i]]
    BY <1>5 DEF Recurs
  <2> QED
    BY <1>5, <1>6, <2>1, <2>2 DEF Recurs
<1>8. pick = [i \in 0 .. n |-> IF i = 0 THEN <<>>
                 ELSE IF i \in P THEN Append(pick[i - 1], s[i]) ELSE pick[i - 1]]
  BY <1>7, Zenon DEF pick
<1>9. /\ pick = [i \in 0 .. n |-> pick[i]] /\ pick[0] = <<>>
      /\ \A i \in 1 .. n :
           pick[i] = IF i \in P THEN Append(pick[i - 1], s[i]) ELSE pick[i - 1]
  <2>1. 0 \in 0 .. n /\ \A i \in 1 .. n : i \in 0 .. n /\ i # 0
    BY <1>1
  <2> QED
    BY <1>8, <2>1
<1>10. Recurs(pick, n, V, <<>>, step)
  BY <1>1, <1>3, <1>4, <1>9, RecursTyped
<1>11. Picked(s, P) = pick[n]
  BY Zenon DEF Picked, pick, n
<1> QED
  BY <1>9, <1>10, <1>11 DEF Picks, Recurs, n, V

\* What is picked are elements of s at positions in P.
LEMMA PickedElements ==
  ASSUME NEW S, NEW s \in Seq(S), NEW P
  PROVE  /\ Picked(s, P) \in Seq(S)
         /\ \A k \in DOMAIN Picked(s, P) : \E j \in 1 .. Len(s) : j \in P /\ Picked(s, P)[k] = s[j]
<1>1. PICK f : Picks(f, S, s, P) /\ Picked(s, P) = f[Len(s)]
  BY PickedSteps
<1> DEFINE n == Len(s)
           From(t) == \A k \in DOMAIN t : \E j \in 1 .. n : j \in P /\ t[k] = s[j]
           I == {i \in 0 .. n : From(f[i])}
<1>2. n \in Nat
  OBVIOUS
<1>3. 0 \in I
  BY <1>1, <1>2 DEF Picks
<1>4. ASSUME NEW i \in 1 .. n, i - 1 \in I PROVE i \in I
  <2>1. f[i - 1] \in Seq(S) /\ s[i] \in S /\ From(f[i - 1]) /\ i \in 0 .. n
    BY <1>1, <1>2, <1>4, ElementOfSeq DEF Picks
  <2>2. f[i] = IF i \in P THEN Append(f[i - 1], s[i]) ELSE f[i - 1]
    BY <1>1 DEF Picks
  <2>3. From(f[i])
    <3>1. CASE i \in P
      <4>1. f[i] = Append(f[i - 1], s[i])
        BY <2>2, <3>1
      <4> DEFINE t == f[i - 1]
      <4>2. /\ DOMAIN f[i] = 1 .. Len(t) + 1 /\ DOMAIN t = 1 .. Len(t) /\ Len(t) \in Nat
            /\ f[i][Len(t) + 1] = s[i]
            /\ \A k \in 1 .. Len(t) : f[i][k] = t[k]
        BY <2>1, <4>1, AppendProperties
      <4>3. ASSUME NEW k \in 1 .. Len(t) + 1
            PROVE  \E j \in 1 .. n : j \in P /\ f[i][k] = s[j]
        <5>1. CASE k = Len(t) + 1
          BY <3>1, <4>2, <5>1
        <5>2. CASE k # Len(t) + 1
          <6>1. k \in 1 .. Len(t)
            BY <4>2, <5>2
          <6> QED
            BY <2>1, <4>2, <6>1
        <5> QED
          BY <5>1, <5>2
      <4> QED
        BY <4>2, <4>3
    <3>2. CASE i \notin P
      BY <2>1, <2>2, <3>2
    <3> QED
      BY <3>1, <3>2
  <2> QED
    BY <2>1, <2>3
<1>5. 0 .. n \subseteq I
  <2> HIDE DEF I, n
  <2>1. \A i \in 1 .. n : i - 1 \in I => i \in I
    BY <1>4
  <2> QED
    BY <1>2, <1>3, <2>1, Upto
<1>6. From(f[n])
  BY <1>2, <1>5
<1>7. Picked(s, P) = f[n] /\ f[n] \in Seq(S)
  BY <1>1, <1>2 DEF Picks
<1> QED
  BY <1>6, <1>7

\* Fewer positions pick no more, and as many only what the others do.
LEMMA PickedFewer ==
  ASSUME NEW S, NEW s \in Seq(S), NEW P, NEW Q, P \subseteq Q
  PROVE  /\ Len(Picked(s, P)) <= Len(Picked(s, Q))
         /\ Len(Picked(s, P)) = Len(Picked(s, Q)) =>
              /\ Picked(s, P) = Picked(s, Q)
              /\ \A j \in 1 .. Len(s) : j \in Q => j \in P
<1>1. PICK f : Picks(f, S, s, P) /\ Picked(s, P) = f[Len(s)]
  BY PickedSteps
<1>2. PICK g : Picks(g, S, s, Q) /\ Picked(s, Q) = g[Len(s)]
  BY PickedSteps
<1> DEFINE n == Len(s)
           Fewer(i) == /\ Len(f[i]) <= Len(g[i])
                       /\ Len(f[i]) = Len(g[i]) =>
                            f[i] = g[i] /\ \A j \in 1 .. i : j \in Q => j \in P
           I == {i \in 0 .. n : Fewer(i)}
<1>3. n \in Nat
  OBVIOUS
<1>4. 0 \in I
  BY <1>1, <1>2, <1>3 DEF Picks
<1>5. ASSUME NEW i \in 1 .. n, i - 1 \in I PROVE i \in I
  <2>1. /\ f[i - 1] \in Seq(S) /\ g[i - 1] \in Seq(S) /\ s[i] \in S
        /\ Fewer(i - 1) /\ i \in 0 .. n
    BY <1>1, <1>2, <1>3, <1>5, ElementOfSeq DEF Picks
  <2>2. /\ f[i] = IF i \in P THEN Append(f[i - 1], s[i]) ELSE f[i - 1]
        /\ g[i] = IF i \in Q THEN Append(g[i - 1], s[i]) ELSE g[i - 1]
    BY <1>1, <1>2 DEF Picks
  <2>3. /\ Len(Append(f[i - 1], s[i])) = Len(f[i - 1]) + 1
        /\ Len(Append(g[i - 1], s[i])) = Len(g[i - 1]) + 1
        /\ Len(f[i - 1]) \in Nat /\ Len(g[i - 1]) \in Nat
    BY <2>1, AppendProperties
  <2>4. \A j \in 1 .. i : j = i \/ j \in 1 .. i - 1
    BY <1>3
  <2>5. Fewer(i)
    <3>1. CASE i \in P
      <4>1. f[i] = Append(f[i - 1], s[i]) /\ g[i] = Append(g[i - 1], s[i])
        BY <2>2, <3>1
      <4> QED
        BY <2>1, <2>3, <2>4, <3>1, <4>1
    <3>2. CASE i \in Q /\ i \notin P
      <4>1. f[i] = f[i - 1] /\ g[i] = Append(g[i - 1], s[i])
        BY <2>2, <3>2
      <4> QED
        BY <2>1, <2>3, <2>4, <4>1
    <3>3. CASE i \notin Q
      <4>1. f[i] = f[i - 1] /\ g[i] = g[i - 1]
        BY <2>2, <3>3
      <4> QED
        BY <2>1, <2>3, <2>4, <3>3, <4>1
    <3> QED
      BY <3>1, <3>2, <3>3
  <2> QED
    BY <2>1, <2>5
<1>6. 0 .. n \subseteq I
  <2> HIDE DEF I, n
  <2>1. \A i \in 1 .. n : i - 1 \in I => i \in I
    BY <1>5
  <2> QED
    BY <1>3, <1>4, <2>1, Upto
<1>7. Fewer(n)
  BY <1>3, <1>6
<1> QED
  BY <1>1, <1>2, <1>7 DEF Picks

-----------------------------------------------------------------------------
(* Totals.  The library has none for sums; neither order nor skipping of   *)
(* positions may matter: a sum is a function on sets of positions.         *)

\* The cells of a column are numbers, or missing.
Amounts(rows, c) == \A i \in DOMAIN rows : rows[i][c] \in Int \cup {Null}

\* f has the totals of the first rows.
Totals(f, rows, P, c) ==
  /\ f \in [0 .. Len(rows) -> Int] /\ f[0] = 0
  /\ \A i \in 1 .. Len(rows) :
       f[i] = IF i \in Known(rows, P, c) THEN f[i - 1] + rows[i][c] ELSE f[i - 1]

\* A total adds up a column one row at a time.
LEMMA TotalSteps ==
  ASSUME NEW S, NEW rows \in Seq(S), NEW c, Amounts(rows, c), NEW P
  PROVE  \E f : Totals(f, rows, P, c) /\ Total(rows, P, c) = f[Len(rows)]
<1> DEFINE n == Len(rows)
           V == Int
           K == Known(rows, P, c)
           step == [i \in 1 .. n |->
                      [t \in V |-> IF i \in K THEN t + rows[i][c] ELSE t]]
           sum[i \in 0 .. n] ==
             IF i = 0 THEN 0
             ELSE IF i \in K THEN sum[i - 1] + rows[i][c] ELSE sum[i - 1]
<1> HIDE DEF sum
<1>1. n \in Nat /\ 0 \in V
  OBVIOUS
<1>2. \A i \in 1 .. n, t \in V : i \in K => t + rows[i][c] \in V
  BY DEF Amounts, Known
<1> HIDE DEF n, V, K
<1>3. step \in Steps(n, V)
  BY <1>2 DEF Steps
<1>4. \A i \in 1 .. n, t \in V : step[i][t] = IF i \in K THEN t + rows[i][c] ELSE t
  OBVIOUS
<1> HIDE DEF step
<1>5. PICK f : Recurs(f, n, V, 0, step)
  BY <1>1, <1>3, Recursion
<1>6. ASSUME NEW i \in 1 .. n
      PROVE  f[i] = IF i \in K THEN f[i - 1] + rows[i][c] ELSE f[i - 1]
  <2>1. i - 1 \in 0 .. n
    BY <1>1
  <2> QED
    BY <1>4, <1>5, <2>1 DEF Recurs
<1>7. f = [i \in 0 .. n |-> IF i = 0 THEN 0
                            ELSE IF i \in K THEN f[i - 1] + rows[i][c] ELSE f[i - 1]]
  <2>1. \A i \in 0 .. n : i = 0 \/ i \in 1 .. n
    BY <1>1
  <2>2. f = [i \in 0 .. n |-> f[i]]
    BY <1>5 DEF Recurs
  <2> QED
    BY <1>5, <1>6, <2>1, <2>2 DEF Recurs
<1>8. sum = [i \in 0 .. n |-> IF i = 0 THEN 0
                ELSE IF i \in K THEN sum[i - 1] + rows[i][c] ELSE sum[i - 1]]
  BY <1>7, Zenon DEF sum
<1>9. /\ sum = [i \in 0 .. n |-> sum[i]] /\ sum[0] = 0
      /\ \A i \in 1 .. n :
           sum[i] = IF i \in K THEN sum[i - 1] + rows[i][c] ELSE sum[i - 1]
  <2>1. 0 \in 0 .. n /\ \A i \in 1 .. n : i \in 0 .. n /\ i # 0
    BY <1>1
  <2> QED
    BY <1>8, <2>1
<1>10. Recurs(sum, n, V, 0, step)
  BY <1>1, <1>3, <1>4, <1>9, RecursTyped
<1>11. Total(rows, P, c) = sum[n]
  BY Zenon DEF Total, sum, n, K
<1> QED
  BY <1>9, <1>10, <1>11 DEF Totals, Recurs, n, V, K

\* Sums over sets of positions: nothing sums to zero, and a position adds its weight.
SumsOver(G, n, w) ==
  /\ G \in [SUBSET (1 .. n) -> Int] /\ G[{}] = 0
  /\ \A T \in SUBSET (1 .. n), x \in 1 .. n : x \notin T => G[T \cup {x}] = G[T] + w[x]

\* There are such sums.
LEMMA SumsExist ==
  ASSUME NEW n \in Nat, NEW w \in [1 .. n -> Int]
  PROVE  \E G : SumsOver(G, n, w)
<1> DEFINE I == {k \in 0 .. n : \E G : SumsOver(G, k, w)}
<1>1. 0 \in I
  <2>1. SumsOver([T \in SUBSET (1 .. 0) |-> 0], 0, w)
    <3>1. 1 .. 0 = {}
      OBVIOUS
    <3> QED
      BY <3>1 DEF SumsOver
  <2> QED
    BY <2>1
<1>2. ASSUME NEW k \in 1 .. n, k - 1 \in I PROVE k \in I
  <2>1. PICK F : SumsOver(F, k - 1, w)
    BY <1>2
  <2> DEFINE G == [T \in SUBSET (1 .. k) |-> IF k \in T THEN F[T \ {k}] + w[k] ELSE F[T]]
  <2>2. k \in Nat /\ w[k] \in Int /\ k \in 0 .. n /\ {} \in SUBSET (1 .. k)
    OBVIOUS
  <2>3. \A T \in SUBSET (1 .. k) :
          /\ T \ {k} \in SUBSET (1 .. k - 1)
          /\ k \notin T => T \in SUBSET (1 .. k - 1)
    BY <2>2
  <2>4. \A T \in SUBSET (1 .. k - 1) : F[T] \in Int
    BY <2>1 DEF SumsOver
  <2>5. G \in [SUBSET (1 .. k) -> Int]
    <3>1. ASSUME NEW T \in SUBSET (1 .. k)
          PROVE  (IF k \in T THEN F[T \ {k}] + w[k] ELSE F[T]) \in Int
      <4>1. CASE k \in T
        <5>1. F[T \ {k}] \in Int
          BY <2>3, <2>4
        <5> QED
          BY <2>2, <4>1, <5>1
      <4>2. CASE k \notin T
        BY <2>3, <2>4, <4>2
      <4> QED
        BY <4>1, <4>2
    <3> QED
      BY <3>1
  <2>6. \A T \in SUBSET (1 .. k) : G[T] = IF k \in T THEN F[T \ {k}] + w[k] ELSE F[T]
    OBVIOUS
  <2> HIDE DEF G
  <2>7. G[{}] = 0
    BY <2>1, <2>2, <2>6 DEF SumsOver
  <2>8. ASSUME NEW T \in SUBSET (1 .. k), NEW x \in 1 .. k, x \notin T
        PROVE  G[T \cup {x}] = G[T] + w[x]
    <3>1. T \cup {x} \in SUBSET (1 .. k)
      OBVIOUS
    <3>2. CASE x = k
      <4>1. (T \cup {x}) \ {k} = T /\ k \in T \cup {x}
        BY <2>8, <3>2
      <4> QED
        BY <2>6, <2>8, <3>1, <3>2, <4>1
    <3>3. CASE x # k
      <4>1. x \in 1 .. k - 1 /\ w[x] \in Int
        BY <2>2, <3>3
      <4>2. CASE k \in T
        <5>1. (T \cup {x}) \ {k} = (T \ {k}) \cup {x} /\ x \notin T \ {k}
          BY <2>8, <3>3
        <5>2. F[(T \ {k}) \cup {x}] = F[T \ {k}] + w[x]
          BY <2>1, <2>3, <4>1, <5>1 DEF SumsOver
        <5>3. G[T \cup {x}] = F[(T \ {k}) \cup {x}] + w[k] /\ G[T] = F[T \ {k}] + w[k]
          BY <2>6, <3>1, <4>2, <5>1
        <5> DEFINE t == F[T \ {k}]
        <5>4. t \in Int
          BY <2>3, <2>4
        <5>5. G[T \cup {x}] = (t + w[x]) + w[k] /\ G[T] = t + w[k]
          BY <5>2, <5>3
        <5> HIDE DEF t
        <5> QED
          BY <2>2, <4>1, <5>4, <5>5
      <4>3. CASE k \notin T
        <5>1. F[T \cup {x}] = F[T] + w[x]
          BY <2>1, <2>3, <2>8, <4>1, <4>3 DEF SumsOver
        <5>2. G[T \cup {x}] = F[T \cup {x}] /\ G[T] = F[T]
          BY <2>6, <3>1, <3>3, <4>3
        <5> QED
          BY <5>1, <5>2
      <4> QED
        BY <4>2, <4>3
    <3> QED
      BY <3>2, <3>3
  <2>9. SumsOver(G, k, w)
    BY <2>5, <2>7, <2>8 DEF SumsOver
  <2> QED
    BY <2>2, <2>9
<1> HIDE DEF I
<1>3. 0 .. n \subseteq I
  <2>1. \A i \in 1 .. n : i - 1 \in I => i \in I
    BY <1>2
  <2> QED
    BY <1>1, <2>1, Upto
<1>4. n \in I
  BY <1>3
<1> QED
  BY <1>4 DEF I

\* A way to put the positions 1 .. n in another order.
Reordering(e, n) ==
  /\ e \in [1 .. n -> 1 .. n]
  /\ \A i, j \in 1 .. n : e[i] = e[j] => i = j
  /\ \A j \in 1 .. n : \E i \in 1 .. n : e[i] = j

\* f sums up the weights one by one, in the order of e.
SumsUp(f, n, w, e) == f[0] = 0 /\ \A i \in 1 .. n : f[i] = f[i - 1] + w[e[i]]

\* In whatever order that is, the end is the sum over all.
LEMMA ReorderedSum ==
  ASSUME NEW n \in Nat, NEW w \in [1 .. n -> Int], NEW G, SumsOver(G, n, w),
         NEW e, Reordering(e, n), NEW f, SumsUp(f, n, w, e)
  PROVE  f[n] = G[1 .. n]
<1> DEFINE Firsts(i) == {e[j] : j \in 1 .. i}
           I == {i \in 0 .. n : f[i] = G[Firsts(i)]}
<1>1. 0 \in I
  <2>1. Firsts(0) = {} /\ 0 \in 0 .. n
    OBVIOUS
  <2>2. f[0] = G[{}]
    BY DEF SumsOver, SumsUp
  <2> HIDE DEF Firsts
  <2> QED
    BY <2>1, <2>2
<1>2. ASSUME NEW i \in 1 .. n, i - 1 \in I PROVE i \in I
  <2>1. i \in 0 .. n /\ f[i - 1] = G[Firsts(i - 1)] /\ e[i] \in 1 .. n
    BY <1>2 DEF Reordering
  <2>2. \A j \in 1 .. i - 1 : j \in 1 .. n /\ j # i
    OBVIOUS
  <2>3. Firsts(i - 1) \in SUBSET (1 .. n) /\ e[i] \notin Firsts(i - 1)
    BY <2>2 DEF Reordering
  <2>4. Firsts(i) = Firsts(i - 1) \cup {e[i]}
    <3>1. 1 .. i = (1 .. i - 1) \cup {i}
      OBVIOUS
    <3> QED
      BY <3>1
  <2> HIDE DEF Firsts
  <2>5. G[Firsts(i)] = G[Firsts(i - 1)] + w[e[i]]
    <3>1. \A T \in SUBSET (1 .. n), x \in 1 .. n : x \notin T => G[T \cup {x}] = G[T] + w[x]
      BY DEF SumsOver
    <3>2. G[Firsts(i - 1) \cup {e[i]}] = G[Firsts(i - 1)] + w[e[i]]
      BY <2>1, <2>3, <3>1, Zenon
    <3> QED
      BY <2>4, <3>2
  <2>6. f[i] = f[i - 1] + w[e[i]]
    BY DEF SumsUp
  <2> QED
    BY <2>1, <2>5, <2>6
<1>3. 0 .. n \subseteq I
  <2> HIDE DEF I
  <2>1. \A i \in 1 .. n : i - 1 \in I => i \in I
    BY <1>2
  <2> QED
    BY <1>1, <2>1, Upto
<1>4. f[n] = G[Firsts(n)]
  BY <1>3
<1>5. Firsts(n) = 1 .. n
  BY DEF Reordering
<1> QED
  BY <1>4, <1>5

\* The total does not depend on the order of the rows.
LEMMA ReorderedTotal ==
  ASSUME NEW S, NEW f \in Seq(S), NEW T, NEW g \in Seq(T), NEW c, Amounts(f, c),
         Len(f) = Len(g),
         NEW e, Reordering(e, Len(f)), \A i \in 1 .. Len(f) : g[i] = f[e[i]],
         NEW P, NEW Q, \A i \in 1 .. Len(f) : i \in Q <=> e[i] \in P
  PROVE  Total(g, Q, c) = Total(f, P, c)
<1> DEFINE n == Len(f)
           w == [i \in 1 .. n |-> IF i \in Known(f, P, c) THEN f[i][c] ELSE 0]
           id == [i \in 1 .. n |-> i]
<1>1. n \in Nat /\ DOMAIN f = 1 .. n /\ DOMAIN g = 1 .. n
  OBVIOUS
<1>2. w \in [1 .. n -> Int]
  BY <1>1 DEF Amounts, Known
<1>3. Amounts(g, c)
  BY <1>1 DEF Amounts, Reordering
<1>4. PICK a : Totals(a, f, P, c) /\ Total(f, P, c) = a[n]
  BY TotalSteps
<1>5. PICK b : Totals(b, g, Q, c) /\ Total(g, Q, c) = b[n]
  BY <1>3, TotalSteps
<1>6. \A i \in 1 .. n : a[i] = a[i - 1] + w[id[i]]
  <2>1. ASSUME NEW i \in 1 .. n PROVE a[i] = a[i - 1] + w[id[i]]
    <3>1. a[i] = IF i \in Known(f, P, c) THEN a[i - 1] + f[i][c] ELSE a[i - 1]
      BY <1>4 DEF Totals
    <3>2. a[i - 1] \in Int
      BY <1>1, <1>4 DEF Totals
    <3> QED
      BY <3>1, <3>2
  <2> QED
    BY <2>1
<1>7. \A i \in 1 .. n : b[i] = b[i - 1] + w[e[i]]
  <2>1. ASSUME NEW i \in 1 .. n PROVE b[i] = b[i - 1] + w[e[i]]
    <3>1. b[i] = IF i \in Known(g, Q, c) THEN b[i - 1] + g[i][c] ELSE b[i - 1]
      BY <1>5 DEF Totals
    <3>2. b[i - 1] \in Int
      BY <1>1, <1>5 DEF Totals
    <3>3. e[i] \in 1 .. n /\ g[i] = f[e[i]] /\ (i \in Q <=> e[i] \in P)
      BY DEF Reordering
    <3>4. i \in Known(g, Q, c) <=> e[i] \in Known(f, P, c)
      BY <3>3 DEF Known
    <3> QED
      BY <3>1, <3>2, <3>3, <3>4
  <2> QED
    BY <2>1
<1>8. Reordering(id, n)
  BY DEF Reordering
<1> HIDE DEF w, id
<1>9. PICK G : SumsOver(G, n, w)
  <2> HIDE DEF n
  <2> QED
    BY <1>1, <1>2, SumsExist
<1>10. SumsUp(a, n, w, id) /\ SumsUp(b, n, w, e) /\ Reordering(e, n)
  BY <1>4, <1>5, <1>6, <1>7 DEF Totals, SumsUp
<1>11. a[n] = G[1 .. n]
  <2> HIDE DEF n
  <2> QED
    BY <1>1, <1>2, <1>8, <1>9, <1>10, ReorderedSum
<1>12. b[n] = G[1 .. n]
  <2> HIDE DEF n
  <2> QED
    BY <1>1, <1>2, <1>9, <1>10, ReorderedSum
<1> QED
  BY <1>4, <1>5, <1>11, <1>12

-----------------------------------------------------------------------------
(* Results of a query.                                                     *)

\* A sequence is a sequence of its elements.
LEMMA SequenceOfItsOwn ==
  ASSUME NEW S, NEW s \in Seq(S)
  PROVE  IsSequence(s)
<1>1. Len(s) \in Nat /\ DOMAIN s = 1 .. Len(s) /\ s = [i \in 1 .. Len(s) |-> s[i]]
  OBVIOUS
<1>2. s \in [1 .. Len(s) -> ToSet(s)]
  BY <1>1 DEF ToSet
<1> QED
  BY <1>1, <1>2 DEF IsSequence

\* The rows of a table; the positions that a query keeps are some of them.
LEMMA TableRows ==
  ASSUME NEW table, IsTable(table)
  PROVE  /\ table \in Seq(ToSet(table))
         /\ \A c \in NumericColumns : Amounts(table, c)
         /\ "amount" \in NumericColumns /\ NumericColumns \subseteq Columns
         /\ Len(table) \in Nat /\ DOMAIN table = 1 .. Len(table)
         /\ \A q : Kept(q, table) \subseteq 1 .. Len(table)
<1>1. "amount" \in NumericColumns /\ NumericColumns \subseteq Columns
  BY ColumnsAssumption DEF Columns
<1> QED
  BY <1>1 DEF IsTable, IsSequence, Amounts, Kept

\* Positions are finitely many, and so are the keys at them.
LEMMA FiniteKeys ==
  ASSUME NEW table, IsTable(table), NEW q
  PROVE  IsFiniteSet(Keys(q, table))
<1> DEFINE K == Kept(q, table)
           key == [i \in K |-> table[i].customer_id]
<1>1. IsFiniteSet(1 .. Len(table)) /\ K \in SUBSET (1 .. Len(table))
  BY TableRows, FS_Interval
<1>2. IsFiniteSet(K)
  BY <1>1, FS_Subset
<1>3. key \in Surjection(K, Keys(q, table))
  BY DEF Surjection, Keys
<1> HIDE DEF K, key
<1> QED
  BY <1>2, <1>3, FS_Surjection

\* The orders of finitely many keys: each has them all, and none twice.
LEMMA OrdersOfKeys ==
  ASSUME NEW S, IsFiniteSet(S), NEW keys \in SetToSeqs(S)
  PROVE  /\ Cardinality(S) \in Nat
         /\ keys \in [1 .. Cardinality(S) -> S]
         /\ \A i, j \in 1 .. Cardinality(S) : keys[i] = keys[j] => i = j
         /\ \A k \in S : \E i \in 1 .. Cardinality(S) : keys[i] = k
<1> DEFINE n == Cardinality(S)
<1>1. n \in Nat
  BY FS_CardinalityType
<1>2. keys \in [1 .. n -> S] /\ \A i, j \in 1 .. n : keys[i] = keys[j] => i = j
  BY DEF SetToSeqs
<1>3. keys \in Injection(1 .. n, S)
  BY <1>2 DEF Injection, IsInjective
<1>4. Cardinality(1 .. n) = n
  BY <1>1, FS_Interval
<1>5. keys \in Surjection(1 .. n, S)
  BY <1>3, <1>4, FS_Injection
<1> QED
  BY <1>1, <1>2, <1>5 DEF Surjection

\* The order that will do where none is looked at is one of them.
LEMMA SomeOrder ==
  ASSUME NEW S, IsFiniteSet(S)
  PROVE  SetToSeq(S) \in SetToSeqs(S)
<1> DEFINE D == 1 .. Cardinality(S)
<1>1. PICK f \in Bijection(D, S) : TRUE
  BY FS_CardinalityType DEF ExistsBijection
<1>2. f \in [D -> S] /\ IsInjective(f)
  BY <1>1 DEF Bijection, Injection
<1>3. SetToSeq(S) \in [D -> S] /\ IsInjective(SetToSeq(S))
  BY <1>2 DEF SetToSeq
<1> HIDE DEF D
<1>4. \A i, j \in D : i # j => SetToSeq(S)[i] # SetToSeq(S)[j]
  BY <1>3 DEF IsInjective
<1> QED
  BY <1>3, <1>4 DEF SetToSeqs, D

\* An answer is a result.
LEMMA AnswerIsResult ==
  ASSUME NEW table, IsTable(table), NEW q
  PROVE  Answer(q, table) \in Execute(q, table)
BY FiniteKeys, SomeOrder DEF Answer, Execute

\* An aggregate is a number or NULL.
LEMMA AggregateType ==
  ASSUME NEW S, NEW rows \in Seq(S), Amounts(rows, "amount"),
         NEW P \in SUBSET (1 .. Len(rows)),
         NEW agg \in {"SUM", "COUNT", "AVG"}
  PROVE  Aggregate(agg, rows, P) \in Int \cup {Null}
<1> DEFINE K == Known(rows, P, "amount")  c == Cardinality(K)
           t == Total(rows, P, "amount")
<1>1. IsFiniteSet(1 .. Len(rows)) /\ K \in SUBSET (1 .. Len(rows))
  <2>1. Len(rows) \in Nat
    OBVIOUS
  <2>2. IsFiniteSet(1 .. Len(rows))
    BY <2>1, FS_Interval
  <2> QED
    BY <2>2 DEF Known
<1>2. IsFiniteSet(K) /\ c \in Nat /\ (K # {} => c # 0)
  BY <1>1, FS_Subset, FS_CardinalityType, FS_EmptySet
<1>3. t \in Int
  <2>1. PICK f : Totals(f, rows, P, "amount") /\ t = f[Len(rows)]
    BY TotalSteps
  <2> QED
    BY <2>1 DEF Totals
<1> HIDE DEF K, c, t
<1>4. K # {} => Average(t, c) \in Int
  BY <1>2, <1>3 DEF Average
<1>5. c * One \in Int
  BY <1>2 DEF One
<1> QED
  BY <1>3, <1>4, <1>5 DEF Aggregate, K, c, t

\* What the queries of the corpus return, if anything.
LEMMA ResultShape ==
  ASSUME NEW table, IsTable(table), NEW q \in Query, NEW f \in Execute(q, table)
  PROVE  /\ f.fault = q.fault
         /\ IsSequence(f.rows) /\ Len(f.rows) \in Nat /\ DOMAIN f.rows = 1 .. Len(f.rows)
         /\ \A c \in (NumericColumns \cap f.columns) \cup {"amount"} : Amounts(f.rows, c)
         /\ f.columns \subseteq Columns
         /\ q.fault = "none" =>
              /\ f.columns = ColumnsOf(q) /\ f.listed = Listed(q)
              /\ \A i \in DOMAIN f.rows : f.rows[i] = [c \in ColumnsOf(q) |-> f.rows[i][c]]
<1>1. PICK keys \in SetToSeqs(Keys(q, table)) : f = ResultWith(q, table, keys)
  BY DEF Execute
<1> DEFINE K == Kept(q, table)
           R == RowsInOrder(q, table, keys)
           cols == ColumnsOf(q)
           Good(rows) == /\ IsSequence(rows) /\ Len(rows) \in Nat
                         /\ DOMAIN rows = 1 .. Len(rows)
                         /\ \A c \in (NumericColumns \cap cols) \cup {"amount"} : Amounts(rows, c)
                         /\ \A i \in DOMAIN rows : rows[i] = [c \in cols |-> rows[i][c]]
<1>0. /\ cols \subseteq Columns /\ "amount" \in NumericColumns
      /\ \A c \in NumericColumns : Amounts(table, c)
  BY TableRows DEF ColumnsOf, Columns, Query
<1>2. ASSUME NEW S, NEW rows \in Seq(S),
             \A c \in (NumericColumns \cap cols) \cup {"amount"} : Amounts(rows, c),
             \A i \in DOMAIN rows : rows[i] = [c \in cols |-> rows[i][c]]
      PROVE  Good(rows)
  BY <1>2, SequenceOfItsOwn
<1>3. CASE q.fault # "none"
  <2>1. f.fault = q.fault /\ f.rows = <<>> /\ f.columns = {}
    BY <1>1, <1>3 DEF ResultWith
  <2> DEFINE r == f.rows
  <2>2. r \in Seq({}) /\ DOMAIN r = {}
    BY <2>1
  <2> HIDE DEF r
  <2>3. IsSequence(r)
    BY <2>2, SequenceOfItsOwn
  <2>4. Len(r) \in Nat /\ DOMAIN r = 1 .. Len(r)
    BY <2>2
  <2>5. \A c : Amounts(r, c)
    BY <2>2 DEF Amounts
  <2> QED
    BY <1>3, <2>1, <2>3, <2>4, <2>5 DEF r
<1>4. CASE q.fault = "none"
  <2>1. f.fault = "none" /\ f.columns = cols /\ f.rows = R /\ f.listed = Listed(q)
    BY <1>1, <1>4 DEF ResultWith
  <2>2. \A P \in SUBSET K : Aggregate(q.agg, table, P) \in Int \cup {Null}
    <3>1. q.agg \in {"SUM", "COUNT", "AVG"}
      BY DEF Query
    <3>2. Amounts(table, "amount")
      BY <1>0
    <3> QED
      BY <3>1, <3>2, TableRows, AggregateType
  <2>3. CASE q.shape = "rows"
    <3>1. R = Picked(table, K) /\ cols = Columns
      BY <2>3 DEF RowsInOrder, ColumnsOf
    <3>2. table \in Seq(ToSet(table)) /\ DOMAIN table = 1 .. Len(table)
      BY TableRows
    <3>3. R \in Seq(ToSet(table))
          /\ \A k \in DOMAIN R : \E j \in 1 .. Len(table) : R[k] = table[j]
      BY <3>1, <3>2, PickedElements
    <3> HIDE DEF R
    <3>4. \A c \in NumericColumns : Amounts(R, c)
      BY <1>0, <3>2, <3>3 DEF Amounts
    <3>5. \A k \in DOMAIN R : R[k] = [c \in Columns |-> R[k][c]]
      BY <3>2, <3>3 DEF IsTable
    <3>6. Good(R)
      BY <1>0, <1>2, <3>1, <3>3, <3>4, <3>5
    <3> QED
      BY <1>0, <1>4, <2>1, <3>6
  <2>4. CASE q.shape = "total"
    <3> DEFINE row == [amount |-> Aggregate(q.agg, table, K)]
    <3>1. R = <<row>> /\ cols = {"amount"}
      BY <2>4 DEF RowsInOrder, ColumnsOf
    <3>2. row["amount"] \in Int \cup {Null} /\ row = [c \in {"amount"} |-> row[c]]
      BY <2>2
    <3> HIDE DEF row
    <3>3. <<row>> \in Seq({row}) /\ DOMAIN <<row>> = {1} /\ <<row>>[1] = row
      OBVIOUS
    <3>4. \A c \in {"amount"} : Amounts(<<row>>, c)
      BY <3>2, <3>3 DEF Amounts
    <3>5. Good(<<row>>)
      BY <1>2, <3>1, <3>2, <3>3, <3>4
    <3> QED
      BY <1>0, <1>4, <2>1, <3>1, <3>5
  <2>5. CASE q.shape = "grouped"
    <3> DEFINE n == Cardinality(Keys(q, table))
               At(i) == {p \in K : table[p].customer_id = keys[i]}
               Row(i) == [customer_id |-> keys[i], amount |-> Aggregate(q.agg, table, At(i))]
    <3>1. n \in Nat /\ DOMAIN keys = 1 .. n
      BY FiniteKeys, OrdersOfKeys
    <3>2. R = [i \in 1 .. n |-> Row(i)] /\ cols = {"customer_id", "amount"}
      BY <2>5, <3>1 DEF RowsInOrder, ColumnsOf
    <3>3. \A i : Row(i)["amount"] \in Int \cup {Null} /\ Row(i) = [c \in cols |-> Row(i)[c]]
      BY <2>2, <3>2
    <3>6. ASSUME NEW i \in 1 .. n, "customer_id" \in NumericColumns
          PROVE  Row(i)["customer_id"] \in Int \cup {Null}
      <4>1. keys[i] \in Keys(q, table)
        <5> DEFINE T == Keys(q, table)
        <5> HIDE DEF T
        <5>1. keys \in [1 .. Cardinality(T) -> T]
          BY FiniteKeys, OrdersOfKeys DEF T
        <5> QED
          BY <5>1 DEF T, n
      <4>2. Row(i)["customer_id"] = keys[i]
        OBVIOUS
      <4> HIDE DEF Row, n
      <4> QED
        BY <1>0, <3>6, <4>1, <4>2 DEF Keys, Kept, Amounts
    <3> HIDE DEF Row, n
    <3>4. R \in Seq({Row(i) : i \in 1 .. n}) /\ DOMAIN R = 1 .. n
          /\ \A i \in 1 .. n : R[i] = Row(i)
      BY <3>1, <3>2
    <3>5. Good(R)
      <4> HIDE DEF R
      <4>1. Amounts(R, "amount")
        BY <3>3, <3>4 DEF Amounts
      <4>2. "customer_id" \in NumericColumns => Amounts(R, "customer_id")
        BY <3>4, <3>6 DEF Amounts
      <4>3. \A c \in (NumericColumns \cap cols) \cup {"amount"} : Amounts(R, c)
        BY <3>2, <4>1, <4>2
      <4>4. \A i \in DOMAIN R : R[i] = [c \in cols |-> R[i][c]]
        BY <3>3, <3>4
      <4>5. R \in Seq({Row(i) : i \in 1 .. n})
        BY <3>4
      <4> QED
        BY <1>2, <4>3, <4>4, <4>5
    <3> QED
      BY <1>0, <1>4, <2>1, <3>5
  <2> QED
    BY <2>3, <2>4, <2>5 DEF Query
<1> QED
  BY <1>3, <1>4

-----------------------------------------------------------------------------
(* The order in which a query answers, and what does not depend on it.     *)

\* g is f with its rows in the order of e.
Reorders(e, f, g) ==
  /\ g.fault = f.fault /\ g.columns = f.columns /\ g.listed = f.listed
  /\ g.floats = f.floats /\ g.open = f.open
  /\ DOMAIN f.rows = 1 .. Len(f.rows) /\ DOMAIN g.rows = 1 .. Len(f.rows)
  /\ Len(g.rows) = Len(f.rows) /\ Len(f.rows) \in Nat
  /\ Reordering(e, Len(f.rows))
  /\ \A i \in 1 .. Len(f.rows) : g.rows[i] = f.rows[e[i]]

\* Two results of a query have the same rows: groups come in any order, other
\* rows in one.
LEMMA ResultsReorder ==
  ASSUME NEW table, IsTable(table), NEW q \in Query,
         NEW f \in Execute(q, table), NEW g \in Execute(q, table)
  PROVE  \E e : Reorders(e, f, g)
<1>1. PICK a \in SetToSeqs(Keys(q, table)) : f = ResultWith(q, table, a)
  BY DEF Execute
<1>2. PICK b \in SetToSeqs(Keys(q, table)) : g = ResultWith(q, table, b)
  BY DEF Execute
<1>3. CASE q.fault = "none" /\ q.shape = "grouped"
  <2> DEFINE n == Cardinality(Keys(q, table))
             Row(k) == [customer_id |-> k,
                        amount |-> Aggregate(q.agg, table,
                                     {p \in Kept(q, table) : table[p].customer_id = k})]
             e == [i \in 1 .. n |-> CHOOSE j \in 1 .. n : a[j] = b[i]]
  <2>1. /\ n \in Nat /\ a \in [1 .. n -> Keys(q, table)] /\ b \in [1 .. n -> Keys(q, table)]
        /\ \A i, j \in 1 .. n : a[i] = a[j] => i = j
        /\ \A i, j \in 1 .. n : b[i] = b[j] => i = j
        /\ \A k \in Keys(q, table) : \E i \in 1 .. n : a[i] = k
        /\ \A k \in Keys(q, table) : \E i \in 1 .. n : b[i] = k
    BY FiniteKeys, OrdersOfKeys
  <2>2. f.rows = [i \in DOMAIN a |-> Row(a[i])] /\ g.rows = [i \in DOMAIN b |-> Row(b[i])]
        /\ f.fault = g.fault /\ f.columns = g.columns /\ f.listed = g.listed
        /\ f.floats = g.floats /\ f.open = g.open
    BY <1>1, <1>2, <1>3, Zenon DEF ResultWith, RowsInOrder
  <2>3. DOMAIN a = 1 .. n /\ DOMAIN b = 1 .. n
    BY <2>1
  <2> HIDE DEF Row, n
  <2>4. f.rows = [i \in 1 .. n |-> Row(a[i])] /\ g.rows = [i \in 1 .. n |-> Row(b[i])]
    BY <2>2, <2>3
  <2>5. Len(f.rows) = n /\ Len(g.rows) = n /\ DOMAIN f.rows = 1 .. n /\ DOMAIN g.rows = 1 .. n
    BY <2>1, <2>4
  <2>6. \A i \in 1 .. n : e[i] \in 1 .. n /\ a[e[i]] = b[i]
    BY <2>1
  <2> HIDE DEF e
  <2>7. \A j \in 1 .. n : \E i \in 1 .. n : e[i] = j
    <3>1. ASSUME NEW j \in 1 .. n PROVE \E i \in 1 .. n : e[i] = j
      <4>1. PICK i \in 1 .. n : b[i] = a[j]
        BY <2>1
      <4>2. e[i] = j
        BY <2>1, <2>6, <4>1
      <4> QED
        BY <4>2
    <3> QED
      BY <3>1
  <2>8. ASSUME NEW i \in 1 .. n, NEW j \in 1 .. n, e[i] = e[j] PROVE i = j
    <3>1. b[i] = b[j]
      BY <2>6, <2>8
    <3> QED
      BY <2>1, <3>1
  <2>9. Reordering(e, n)
    BY <2>6, <2>7, <2>8 DEF Reordering, e
  <2>10. \A i \in 1 .. n : g.rows[i] = f.rows[e[i]]
    BY <2>4, <2>6
  <2> QED
    BY <2>1, <2>2, <2>5, <2>9, <2>10 DEF Reorders
<1>4. CASE ~(q.fault = "none" /\ q.shape = "grouped")
  <2>1. f = g
    BY <1>1, <1>2, <1>4, Zenon DEF ResultWith, RowsInOrder, Query
  <2> DEFINE id == [i \in 1 .. Len(f.rows) |-> i]
  <2>2. Reordering(id, Len(f.rows)) /\ \A i \in 1 .. Len(f.rows) : f.rows[i] = f.rows[id[i]]
    BY DEF Reordering
  <2>3. Len(f.rows) \in Nat /\ DOMAIN f.rows = 1 .. Len(f.rows)
    BY ResultShape
  <2> HIDE DEF id
  <2>4. Reorders(id, f, g)
    BY <2>1, <2>2, <2>3 DEF Reorders
  <2> QED
    BY <2>4
<1> QED
  BY <1>3, <1>4

\* What is asked of the rows of a result, whatever their order.
LEMMA ReorderedRows ==
  ASSUME NEW e, NEW f, NEW g, Reorders(e, f, g)
  PROVE  /\ \A c : Cells(g.rows, c) = Cells(f.rows, c)
         /\ \A C : NonNull(g.rows, C) <=> NonNull(f.rows, C)
         /\ \A C : Unique(g.rows, C) <=> Unique(f.rows, C)
<1> DEFINE n == Len(f.rows)  F == f.rows  G == g.rows
<1>1. /\ DOMAIN F = 1 .. n /\ DOMAIN G = 1 .. n /\ n \in Nat
      /\ \A i \in 1 .. n : e[i] \in 1 .. n /\ G[i] = F[e[i]]
      /\ \A i, j \in 1 .. n : e[i] = e[j] => i = j
      /\ \A j \in 1 .. n : \E i \in 1 .. n : e[i] = j
  BY DEF Reorders, Reordering
<1> HIDE DEF n, F, G
<1>0. ASSUME NEW j \in 1 .. n PROVE \E i \in 1 .. n : G[i] = F[j]
  <2>1. PICK i \in 1 .. n : e[i] = j
    BY <1>1
  <2> QED
    BY <1>1, <2>1
<1>2. ASSUME NEW c PROVE Cells(G, c) = Cells(F, c)
  <2>1. Cells(G, c) = {G[i][c] : i \in 1 .. n} /\ Cells(F, c) = {F[i][c] : i \in 1 .. n}
    BY <1>1 DEF Cells
  <2>2. \A i \in 1 .. n : \E j \in 1 .. n : G[i][c] = F[j][c]
    BY <1>1
  <2>3. \A j \in 1 .. n : \E i \in 1 .. n : F[j][c] = G[i][c]
    BY <1>0
  <2> QED
    BY <2>1, <2>2, <2>3
<1>3. \A C : NonNull(G, C) <=> NonNull(F, C)
  <2>1. ASSUME NEW C
        PROVE  /\ NonNull(G, C) <=> \A c \in C, i \in 1 .. n : G[i][c] # Null
               /\ NonNull(F, C) <=> \A c \in C, i \in 1 .. n : F[i][c] # Null
    BY <1>1 DEF NonNull
  <2>2. ASSUME NEW c
        PROVE  (\A i \in 1 .. n : G[i][c] # Null) <=> (\A i \in 1 .. n : F[i][c] # Null)
    <3>1. ASSUME \A i \in 1 .. n : G[i][c] # Null, NEW j \in 1 .. n PROVE F[j][c] # Null
      BY <1>0, <3>1
    <3>2. ASSUME \A i \in 1 .. n : F[i][c] # Null, NEW j \in 1 .. n PROVE G[j][c] # Null
      <4>1. e[j] \in 1 .. n /\ G[j] = F[e[j]]
        BY <1>1
      <4>2. F[e[j]][c] # Null
        BY <3>2, <4>1
      <4> QED
        BY <4>1, <4>2
    <3> QED
      BY <3>1, <3>2
  <2> QED
    BY <2>1, <2>2
<1> DEFINE Apart(s, C, i, j) == \E c \in C : s[i][c] # s[j][c]
<1>4. ASSUME NEW s, DOMAIN s = 1 .. n, NEW C
      PROVE  Unique(s, C) <=> \A i, j \in 1 .. n : i # j => Apart(s, C, i, j)
  <2>1. \A i, j \in 1 .. n : i # j => i < j \/ j < i
    BY <1>1
  <2>2. \A i, j \in 1 .. n : i < j => i # j
    BY <1>1
  <2>3. \A i, j \in 1 .. n : Apart(s, C, i, j) => Apart(s, C, j, i)
    OBVIOUS
  <2>4. Unique(s, C) <=> \A i, j \in 1 .. n : i < j => Apart(s, C, i, j)
    BY <1>4 DEF Unique
  <2> HIDE DEF Apart
  <2> QED
    BY <2>1, <2>2, <2>3, <2>4
<1>5. ASSUME NEW C PROVE Unique(G, C) <=> Unique(F, C)
  <2>1. \A i, j \in 1 .. n : Apart(G, C, i, j) <=> Apart(F, C, e[i], e[j])
    BY <1>1
  <2> HIDE DEF Apart
  <2>2. /\ Unique(G, C) <=> \A i, j \in 1 .. n : i # j => Apart(G, C, i, j)
        /\ Unique(F, C) <=> \A i, j \in 1 .. n : i # j => Apart(F, C, i, j)
    <3>1. DOMAIN F = 1 .. n /\ DOMAIN G = 1 .. n
      BY <1>1
    <3> QED
      BY <3>1, <1>4
  <2>3. ASSUME Unique(F, C) PROVE Unique(G, C)
    BY <1>1, <2>1, <2>2, <2>3
  <2>4. ASSUME Unique(G, C) PROVE Unique(F, C)
    <3>1. ASSUME NEW i \in 1 .. n, NEW j \in 1 .. n, i # j PROVE Apart(F, C, i, j)
      <4>1. PICK k \in 1 .. n : e[k] = i
        BY <1>1
      <4>2. PICK l \in 1 .. n : e[l] = j
        BY <1>1
      <4>3. Apart(G, C, k, l)
        BY <2>2, <2>4, <3>1, <4>1, <4>2
      <4> QED
        BY <2>1, <4>1, <4>2, <4>3
    <3> QED
      BY <2>2, <3>1
  <2> QED
    BY <2>3, <2>4
<1> QED
  BY <1>2, <1>3, <1>5 DEF F, G

\* What is added up of them.
LEMMA ReorderedTotals ==
  ASSUME NEW e, NEW f, NEW g, Reorders(e, f, g), IsSequence(f.rows), IsSequence(g.rows),
         Amounts(f.rows, "amount")
  PROVE  /\ \A c : Amounts(f.rows, c) =>
              Total(g.rows, DOMAIN g.rows, c) = Total(f.rows, DOMAIN f.rows, c)
         /\ CustomerTotals(g.rows) = CustomerTotals(f.rows)
<1> DEFINE n == Len(f.rows)  F == f.rows  G == g.rows
           At(s, k) == {i \in DOMAIN s : s[i].customer_id = k}
<1>1. /\ DOMAIN F = 1 .. n /\ DOMAIN G = 1 .. n /\ n \in Nat /\ Len(G) = n /\ n = Len(F)
      /\ \A i \in 1 .. n : e[i] \in 1 .. n /\ G[i] = F[e[i]]
      /\ \A j \in 1 .. n : \E i \in 1 .. n : e[i] = j
      /\ Reordering(e, n)
  BY DEF Reorders, Reordering
<1>2. F \in Seq(ToSet(F)) /\ G \in Seq(ToSet(G)) /\ Amounts(F, "amount")
  BY DEF IsSequence
<1> HIDE DEF n, F, G
<1>3. ASSUME NEW c, Amounts(F, c), NEW P, NEW Q, \A i \in 1 .. n : i \in Q <=> e[i] \in P
      PROVE  Total(G, Q, c) = Total(F, P, c)
  <2>1. \A i \in 1 .. Len(F) : G[i] = F[e[i]] /\ (i \in Q <=> e[i] \in P)
    BY <1>1, <1>3
  <2>2. Len(F) = Len(G) /\ Reordering(e, Len(F))
    BY <1>1
  <2> QED
    BY <1>2, <1>3, <2>1, <2>2, ReorderedTotal
<1>4. ASSUME NEW c, Amounts(F, c) PROVE Total(G, DOMAIN G, c) = Total(F, DOMAIN F, c)
  BY <1>1, <1>3, <1>4
<1>5. ASSUME NEW k PROVE Aggregate("SUM", G, At(G, k)) = Aggregate("SUM", F, At(F, k))
  <2> DEFINE P == At(F, k)  Q == At(G, k)
  <2>1. \A i \in 1 .. n : i \in Q <=> e[i] \in P
    BY <1>1
  <2>2. Total(G, Q, "amount") = Total(F, P, "amount")
    BY <1>2, <1>3, <2>1
  <2>3. P \subseteq 1 .. n /\ Q \subseteq 1 .. n
    BY <1>1
  <2> HIDE DEF P, Q
  <2>4. Known(G, Q, "amount") = {} <=> Known(F, P, "amount") = {}
    <3>1. \A i \in Q : e[i] \in P /\ G[i] = F[e[i]]
      BY <1>1, <2>1, <2>3
    <3>2. \A j \in P : \E i \in Q : e[i] = j
      BY <1>1, <2>1, <2>3
    <3> QED
      BY <3>1, <3>2 DEF Known
  <2>5. Aggregate("SUM", G, Q) = Aggregate("SUM", F, P)
    BY <2>2, <2>4 DEF Aggregate
  <2> QED
    BY <2>5 DEF P, Q
<1>6. Cells(G, "customer_id") = Cells(F, "customer_id")
  BY ReorderedRows DEF F, G
<1>7. CustomerTotals(G) = CustomerTotals(F)
  BY <1>5, <1>6 DEF CustomerTotals
<1> QED
  BY <1>4, <1>7 DEF F, G

\* No assertion sees in which order the rows of a result come.
LEMMA OrderBlind ==
  ASSUME NEW e, NEW f, NEW g, Reorders(e, f, g), IsSequence(f.rows), IsSequence(g.rows),
         Amounts(f.rows, "amount"), NEW a, NEW db
  PROVE  Evaluate(a, g, db) <=> Evaluate(a, f, db)
<1>1. /\ \A c : Cells(g.rows, c) = Cells(f.rows, c)
      /\ \A C : NonNull(g.rows, C) <=> NonNull(f.rows, C)
      /\ \A C : Unique(g.rows, C) <=> Unique(f.rows, C)
  BY ReorderedRows
<1>2. /\ Total(g.rows, DOMAIN g.rows, "amount") = Total(f.rows, DOMAIN f.rows, "amount")
      /\ CustomerTotals(g.rows) = CustomerTotals(f.rows)
  BY ReorderedTotals
<1>3. /\ g.fault = f.fault /\ g.columns = f.columns /\ g.open = f.open
      /\ Len(g.rows) = Len(f.rows)
  BY DEF Reorders
<1>4. \A wanted : Raised(g, wanted) = Raised(f, wanted)
  BY <1>3 DEF Raised
<1>5. \A wanted : Runs(g, wanted) = Runs(f, wanted) /\ Skipped(g, wanted) = Skipped(f, wanted)
  BY <1>4 DEF Runs, Skipped
<1>6. EvaluateNonNullOutput(a, g) <=> EvaluateNonNullOutput(a, f)
  BY <1>1, <1>5 DEF EvaluateNonNullOutput
<1>7. EvaluateUniqueKey(a, g) <=> EvaluateUniqueKey(a, f)
  BY <1>1, <1>5 DEF EvaluateUniqueKey
<1>8. EvaluateRowCountBounds(a, g) <=> EvaluateRowCountBounds(a, f)
  BY <1>3, <1>5 DEF EvaluateRowCountBounds
<1>9. EvaluateAcceptedRange(a, g) <=> EvaluateAcceptedRange(a, f)
  BY <1>1, <1>5 DEF EvaluateAcceptedRange
<1>10. EvaluateAcceptedValues(a, g) <=> EvaluateAcceptedValues(a, f)
  BY <1>1, <1>5 DEF EvaluateAcceptedValues
<1>11. EvaluateRelationships(a, g, db) <=> EvaluateRelationships(a, f, db)
  BY <1>1, <1>5 DEF EvaluateRelationships
<1>12. EvaluateSingularSql(a, g, db) <=> EvaluateSingularSql(a, f, db)
  BY <1>2, <1>4, <1>5 DEF EvaluateSingularSql
<1>13. EvaluateRequiredPopulation(g, db) <=> EvaluateRequiredPopulation(f, db)
  BY <1>1, <1>3, <1>5 DEF EvaluateRequiredPopulation
<1>14. EvaluateMetricValue(a, g) <=> EvaluateMetricValue(a, f)
  BY <1>2, <1>5 DEF EvaluateMetricValue
<1> QED
  BY <1>6, <1>7, <1>8, <1>9, <1>10, <1>11, <1>12, <1>13, <1>14 DEF Evaluate

-----------------------------------------------------------------------------
(* Assertions on a frame, and what the suites are read from.               *)

\* A frame's view has its rows.
LEMMA ViewOfFrame ==
  ASSUME NEW q, NEW table, NEW f \in Execute(q, table)
  PROVE  /\ SelectAll(f).fault = f.fault /\ SelectAll(f).columns = f.columns
         /\ SelectAll(f).rows = f.rows /\ SelectAll(f).open = FALSE
<1>1. DOMAIN f = {"fault", "columns", "listed", "rows", "floats", "open"}
  BY DEF Execute, ResultWith
<1> QED
  BY <1>1 DEF SelectAll

\* The exceptions of PathsAgree.
Named(a, f) == "columns" \in DOMAIN a => a.columns # {} /\ a.columns \subseteq f.columns

AsText(a, f) == a.type = "accepted_values" /\ (a.column \in f.floats \/ NotQuoted(a))

NoSql(a) == a.type = "accepted_values" /\ (~Parses(a) \/ Inconvertible(a))

\* Of a candidate that runs, but in no other query, assertions say no more than
\* of its frame.
LEMMA PathsOfOpen ==
  ASSUME NEW a, Understood(a), NEW f, f.fault = "none", EvaluateTier1(f), f.open, NEW db,
         NEW q, NEW table, f \in Execute(q, table), Evaluate(a, f, db)
  PROVE  EvaluateTier2(f, <<a>>, db)
<1>1. DOMAIN <<a>> = {1} /\ <<a>>[1] = a
  OBVIOUS
<1>2. \A wanted : Raised(f, wanted) = "parse"
  BY DEF Raised
<1>3. \A wanted : ~Runs(f, wanted) /\ ~Skipped(f, wanted)
  BY <1>2 DEF Runs, Skipped
<1>4. \/ a.type = "relationships" /\ db.parents = Null
      \/ a.type = "singular_sql_test" /\ a.of # "model"
  BY <1>2, <1>3 DEF Understood, Types, Evaluate, EvaluateNonNullOutput, EvaluateUniqueKey,
     EvaluateRowCountBounds, EvaluateAcceptedRange, EvaluateAcceptedValues,
     EvaluateRelationships, EvaluateSingularSql, EvaluateRequiredPopulation,
     EvaluateMetricValue
<1>5. HasEvaluateDf(a) /\ EvaluateDf(a, f, db)
  <2>1. CASE a.type = "relationships" /\ db.parents = Null
    BY <2>1 DEF HasEvaluateDf, EvaluateDf, RelationshipsDf, EvaluateRelationships
  <2>2. CASE a.type = "singular_sql_test" /\ a.of # "model"
    BY <2>2 DEF HasEvaluateDf, EvaluateDf, SingularSqlDf, Evaluate, EvaluateSingularSql
  <2> QED
    BY <1>4, <2>1, <2>2
<1> QED
  BY <1>1, <1>5, Zenon DEF EvaluateTier2

\* On a frame that tier 1 lets through, the two implementations of an assertion
\* differ only in what is skipped, in numbers compared as texts, and in what the
\* accepted values are as SQL.
LEMMA PathsOnFrame ==
  ASSUME NEW a, Understood(a), NEW f, f.fault = "none", EvaluateTier1(f), ~f.open, NEW db,
         NEW q, NEW table, f \in Execute(q, table)
  PROVE  /\ Evaluate(a, f, db) /\ ~AsText(a, f) => EvaluateTier2(f, <<a>>, db)
         /\ EvaluateTier2(f, <<a>>, db) /\ Named(a, f) /\ ~NoSql(a) => Evaluate(a, f, db)
<1> DEFINE OnFrame == PassedOver(a, f) \/ EvaluateDf(a, f, db)
           v == SelectAll(f)
<1>1. EvaluateTier2(f, <<a>>, db) <=>
        IF HasEvaluateDf(a) THEN OnFrame ELSE Evaluate(a, f, db)
  <2>1. DOMAIN <<a>> = {1} /\ <<a>>[1] = a
    OBVIOUS
  <2> QED
    BY <2>1, Zenon DEF EvaluateTier2
<1> HIDE DEF OnFrame
<1>2. CASE ~HasEvaluateDf(a)
  BY <1>1, <1>2
<1>3. /\ \A wanted : Runs(f, wanted) <=> wanted \subseteq f.columns
      /\ \A wanted : Skipped(f, wanted) <=> ~(wanted \subseteq f.columns)
      /\ \A wanted : Raised(f, wanted) \notin {"catalog"}
  BY DEF Runs, Skipped, Raised
<1>0. v.fault = f.fault /\ v.columns = f.columns /\ v.rows = f.rows /\ v.open = FALSE
  BY ViewOfFrame
<1> HIDE DEF v
<1>11. \A wanted : Raised(v, wanted) = Raised(f, wanted)
  BY <1>0 DEF Raised
<1>12. \A wanted : Runs(v, wanted) = Runs(f, wanted) /\ Skipped(v, wanted) = Skipped(f, wanted)
  BY <1>11 DEF Runs, Skipped
<1>4. CASE a.type = "not_null"
  <2>1. HasEvaluateDf(a) /\ "columns" \in DOMAIN a
    BY <1>4 DEF HasEvaluateDf, Understood
  <2>2. OnFrame <=> \/ a.columns \cap f.columns = {}
                    \/ NonNull(f.rows, a.columns \cap f.columns)
    BY <1>4 DEF OnFrame, PassedOver, EvaluateDf, NonNullOutputDf
  <2>3. Evaluate(a, f, db) <=> a.columns # {} /\ a.columns \subseteq f.columns
                               /\ NonNull(f.rows, a.columns)
    BY <1>3, <1>4 DEF Evaluate, EvaluateNonNullOutput
  <2>4. a.columns \subseteq f.columns => a.columns \cap f.columns = a.columns
    OBVIOUS
  <2> QED
    BY <1>1, <1>4, <2>1, <2>2, <2>3, <2>4 DEF Named
<1>5. CASE a.type = "unique_key"
  <2>1. HasEvaluateDf(a) /\ "columns" \in DOMAIN a
    BY <1>5 DEF HasEvaluateDf, Understood
  <2>2. OnFrame <=> \/ a.columns \cap f.columns = {}
                    \/ a.columns # {} /\ a.columns \subseteq f.columns
                         => Unique(f.rows, a.columns)
    BY <1>5 DEF OnFrame, PassedOver, EvaluateDf, UniqueKeyDf
  <2>3. Evaluate(a, f, db) <=> a.columns # {} /\ a.columns \subseteq f.columns
                               /\ Unique(f.rows, a.columns)
    BY <1>3, <1>5 DEF Evaluate, EvaluateUniqueKey
  <2>4. a.columns \subseteq f.columns => a.columns \cap f.columns = a.columns
    OBVIOUS
  <2> QED
    BY <1>1, <1>5, <2>1, <2>2, <2>3, <2>4 DEF Named
<1>6. CASE a.type = "row_count_bounds"
  <2>1. HasEvaluateDf(a) /\ (OnFrame <=> EvaluateRowCountBounds(a, v))
    BY <1>6 DEF HasEvaluateDf, OnFrame, PassedOver, EvaluateDf, RowCountBoundsDf, v
  <2>2. EvaluateRowCountBounds(a, v) <=> EvaluateRowCountBounds(a, f)
    BY <1>0, <1>12 DEF EvaluateRowCountBounds
  <2>3. Evaluate(a, f, db) <=> EvaluateRowCountBounds(a, f)
    BY <1>6 DEF Evaluate
  <2> QED
    BY <1>1, <1>6, <2>1, <2>2, <2>3
<1>7. CASE a.type = "accepted_range"
  <2>1. HasEvaluateDf(a) /\ (OnFrame <=> a.column \notin f.columns \/ AcceptedRangeDf(a, f))
    BY <1>7 DEF HasEvaluateDf, OnFrame, PassedOver, EvaluateDf
  <2>2. Evaluate(a, f, db) <=> EvaluateAcceptedRange(a, f)
    BY <1>7 DEF Evaluate
  <2>3. {a.column} \subseteq f.columns <=> a.column \in f.columns
    OBVIOUS
  <2>4. OnFrame <=> Evaluate(a, f, db)
    BY <1>3, <2>1, <2>2, <2>3 DEF AcceptedRangeDf, EvaluateAcceptedRange
  <2> QED
    BY <1>1, <1>7, <2>1, <2>4
<1>8. CASE a.type = "accepted_values"
  <2> DEFINE values == Cells(f.rows, a.column) \ {Null}
  <2>1. HasEvaluateDf(a) /\ (OnFrame <=> a.column \notin f.columns \/ AcceptedValuesDf(a, f))
    BY <1>8 DEF HasEvaluateDf, OnFrame, PassedOver, EvaluateDf
  <2>2. Evaluate(a, f, db) <=> EvaluateAcceptedValues(a, f)
    BY <1>8 DEF Evaluate
  <2>3. {a.column} \subseteq f.columns <=> a.column \in f.columns
    OBVIOUS
  <2>4. Evaluate(a, f, db) <=>
          Parses(a) /\ (a.column \in f.columns =>
                          CASE NotQuoted(a) -> TRUE
                            [] Inconvertible(a) -> values = {}
                            [] OTHER -> values \subseteq a.values)
    BY <1>3, <2>2, <2>3 DEF EvaluateAcceptedValues
  <2>5. OnFrame <=>
          (a.column \in f.columns =>
             \A x \in values : x \in a.values /\ (a.column \in f.floats => x % One # 0))
    BY <2>1 DEF AcceptedValuesDf
  <2>6. ~NotQuoted(a) \/ ~Inconvertible(a)
    BY DEF NotQuoted, Inconvertible
  <2>7. EvaluateTier2(f, <<a>>, db) <=> OnFrame
    BY <1>1, <2>1
  <2>8. /\ ~AsText(a, f) => a.column \notin f.floats /\ ~NotQuoted(a)
        /\ ~NoSql(a) => Parses(a) /\ ~Inconvertible(a)
    BY <1>8 DEF AsText, NoSql
  <2> HIDE DEF values, OnFrame
  <2>9. ASSUME OnFrame, Parses(a), ~Inconvertible(a) PROVE Evaluate(a, f, db)
    BY <2>4, <2>5, <2>9
  <2>10. ASSUME Evaluate(a, f, db), a.column \notin f.floats, ~NotQuoted(a) PROVE OnFrame
    BY <2>4, <2>5, <2>10
  <2> QED
    BY <2>7, <2>8, <2>9, <2>10
<1>9. CASE a.type = "relationships"
  <2>1. HasEvaluateDf(a) /\ (OnFrame <=> \/ a.from_column \notin f.columns
                                         \/ RelationshipsDf(a, f, db))
    BY <1>9 DEF HasEvaluateDf, OnFrame, PassedOver, EvaluateDf
  <2>2. Evaluate(a, f, db) <=> EvaluateRelationships(a, f, db)
    BY <1>9 DEF Evaluate
  <2>3. {a.from_column} \subseteq f.columns <=> a.from_column \in f.columns
    OBVIOUS
  <2>4. EvaluateRelationships(a, v, db) <=> EvaluateRelationships(a, f, db)
    BY <1>0, <1>12 DEF EvaluateRelationships
  <2>5. RelationshipsDf(a, f, db) <=> (a.from_column \in f.columns => EvaluateRelationships(a, v, db))
    BY DEF RelationshipsDf, v
  <2>6. a.from_column \notin f.columns => EvaluateRelationships(a, f, db)
    BY <1>3, <2>3 DEF EvaluateRelationships
  <2>7. OnFrame <=> Evaluate(a, f, db)
    BY <2>1, <2>2, <2>4, <2>5, <2>6
  <2> QED
    BY <1>1, <1>9, <2>1, <2>7
<1>10. CASE a.type = "singular_sql_test"
  <2>1. HasEvaluateDf(a) /\ (OnFrame <=> EvaluateSingularSql(a, v, db))
    BY <1>10 DEF HasEvaluateDf, OnFrame, PassedOver, EvaluateDf, SingularSqlDf, v
  <2>2. EvaluateSingularSql(a, v, db) <=> EvaluateSingularSql(a, f, db)
    BY <1>0, <1>11, <1>12 DEF EvaluateSingularSql
  <2>3. Evaluate(a, f, db) <=> EvaluateSingularSql(a, f, db)
    BY <1>10 DEF Evaluate
  <2> QED
    BY <1>1, <1>10, <2>1, <2>2, <2>3
<1> QED
  BY <1>2, <1>4, <1>5, <1>6, <1>7, <1>8, <1>9, <1>10 DEF Understood, Types, HasEvaluateDf

\* A sequence of sequences is flattened into one with their elements.
LEMMA Flattened ==
  ASSUME NEW S, NEW seqs \in Seq(Seq(S))
  PROVE  FlattenSeq(seqs) \in Seq(S)
<1> DEFINE n == Len(seqs)
           V == Seq(S)
           step == [i \in 1 .. n |-> [t \in V |-> t \o seqs[i]]]
           flatten[i \in 1 .. n] == IF i = 1 THEN seqs[i] ELSE flatten[i - 1] \o seqs[i]
<1> HIDE DEF flatten
<1>1. n \in Nat /\ <<>> \in V
  OBVIOUS
<1>2. \A i \in 1 .. n : seqs[i] \in V /\ <<>> \o seqs[i] = seqs[i]
  BY ElementOfSeq, ConcatEmptySeq
<1>3. \A s, t \in V : s \o t \in V
  BY ConcatProperties
<1> HIDE DEF n, V
<1>4. step \in Steps(n, V)
  BY <1>2, <1>3 DEF Steps
<1>5. \A i \in 1 .. n, t \in V : step[i][t] = t \o seqs[i]
  OBVIOUS
<1> HIDE DEF step
<1>6. PICK f : Recurs(f, n, V, <<>>, step)
  BY <1>1, <1>4, Recursion
<1> DEFINE g == [i \in 1 .. n |-> f[i]]
<1>7. g = [i \in 1 .. n |-> IF i = 1 THEN seqs[i] ELSE g[i - 1] \o seqs[i]]
  <2>1. ASSUME NEW i \in 1 .. n PROVE g[i] = IF i = 1 THEN seqs[i] ELSE g[i - 1] \o seqs[i]
    <3>1. g[i] = f[i - 1] \o seqs[i]
      <4>1. i - 1 \in 0 .. n
        BY <1>1
      <4> QED
        BY <1>5, <1>6, <4>1 DEF Recurs
    <3>2. CASE i = 1
      <4>1. f[0] = <<>>
        BY <1>6 DEF Recurs
      <4>2. f[i - 1] = <<>>
        BY <3>2, <4>1
      <4>3. g[i] = seqs[i]
        BY <1>2, <3>1, <4>2
      <4> QED
        BY <3>2, <4>3
    <3>3. CASE i # 1
      <4>1. i - 1 \in 1 .. n
        BY <1>1, <3>3
      <4>2. g[i - 1] = f[i - 1]
        BY <4>1
      <4> HIDE DEF g
      <4> QED
        BY <3>1, <3>3, <4>2
    <3> QED
      BY <3>2, <3>3
  <2>2. g = [i \in 1 .. n |-> g[i]]
    OBVIOUS
  <2> HIDE DEF g
  <2> QED
    BY <2>1, <2>2
<1> HIDE DEF g
<1>8. flatten = [i \in 1 .. n |-> IF i = 1 THEN seqs[i] ELSE flatten[i - 1] \o seqs[i]]
  BY <1>7, Zenon DEF flatten
<1> DEFINE P == {i \in 0 .. n : i = 0 \/ flatten[i] \in V}
<1>9. 0 \in P
  BY <1>1
<1>10. ASSUME NEW i \in 1 .. n, i - 1 \in P PROVE i \in P
  <2>1. flatten[i] = IF i = 1 THEN seqs[i] ELSE flatten[i - 1] \o seqs[i]
    BY <1>8
  <2>2. i # 1 => flatten[i - 1] \in V
    BY <1>10
  <2>3. flatten[i] \in V
    BY <1>2, <1>3, <2>1, <2>2
  <2> QED
    BY <1>1, <2>3
<1>11. 0 .. n \subseteq P
  <2> HIDE DEF P
  <2>1. \A i \in 1 .. n : i - 1 \in P => i \in P
    BY <1>10
  <2> QED
    BY <1>1, <1>9, <2>1, Upto
<1>12. n # 0 => flatten[n] \in V
  BY <1>1, <1>11
<1>13. FlattenSeq(seqs) = IF n = 0 THEN seqs ELSE flatten[n]
  BY Zenon DEF FlattenSeq, flatten, n
<1>14. n = 0 => seqs = <<>>
  BY DEF n
<1> QED
  BY <1>1, <1>12, <1>13, <1>14 DEF V

\* A test is understood, or skipped.
LEMMA ParsedTest ==
  ASSUME NEW t
  PROVE  Parsed(t) = <<>> \/ \E a : Understood(a) /\ Parsed(t) = <<a>>
<1>1. /\ \A c : Understood(NonNullOutput(c))
      /\ \A c : Understood(UniqueKey(c))
      /\ \A x, y : Understood(RowCountBounds(x, y))
      /\ \A x, y, z : Understood(AcceptedRange(x, y, z))
      /\ \A x, y, z : Understood(AcceptedValues(x, y, z))
      /\ Understood(Relationships)
  BY DEF Understood, Types, NonNullOutput, UniqueKey, RowCountBounds, AcceptedRange,
         AcceptedValues, Relationships
<1>2. ModelTest(t) = <<>> \/ \E a : Understood(a) /\ ModelTest(t) = <<a>>
  BY <1>1 DEF ModelTest
<1>3. ColumnTest(t) = <<>> \/ \E a : Understood(a) /\ ColumnTest(t) = <<a>>
  BY <1>1 DEF ColumnTest
<1> QED
  BY <1>2, <1>3 DEF Parsed

\* What is read of schema.yml are assertions that are known ...
LEMMA SchemaSuite ==
  ASSUME NEW tests, IsSequence(tests)
  PROVE  \A i \in DOMAIN ParseSchemaYml(tests) : Understood(ParseSchemaYml(tests)[i])
<1> DEFINE seqs == [i \in DOMAIN tests |-> Parsed(tests[i])]
           S == {a \in UNION {ToSet(Parsed(tests[i])) : i \in DOMAIN tests} : Understood(a)}
           suite == FlattenSeq(seqs)
<1>1. DOMAIN tests = 1 .. Len(tests) /\ Len(tests) \in Nat
  BY DEF IsSequence
<1>2. ASSUME NEW i \in DOMAIN tests PROVE Parsed(tests[i]) \in Seq(S)
  <2>1. CASE Parsed(tests[i]) = <<>>
    BY <2>1
  <2>2. ASSUME NEW a, Understood(a), Parsed(tests[i]) = <<a>> PROVE Parsed(tests[i]) \in Seq(S)
    <3>1. a \in ToSet(Parsed(tests[i]))
      BY <2>2 DEF ToSet
    <3>2. a \in S
      BY <2>2, <3>1
    <3> HIDE DEF S
    <3> QED
      BY <2>2, <3>2
  <2> QED
    BY <2>1, <2>2, ParsedTest
<1>3. \A a \in S : Understood(a)
  OBVIOUS
<1> HIDE DEF S
<1>4. seqs \in Seq(Seq(S))
  BY <1>1, <1>2
<1> HIDE DEF seqs
<1>5. suite \in Seq(S)
  BY <1>4, Flattened
<1>6. \A i \in DOMAIN suite : Understood(suite[i])
  BY <1>3, <1>5
<1>7. Understood(RowCountBounds(1, Null))
  BY DEF Understood, Types, RowCountBounds
<1>8. DOMAIN <<RowCountBounds(1, Null)>> = {1}
      /\ <<RowCountBounds(1, Null)>>[1] = RowCountBounds(1, Null)
  OBVIOUS
<1>9. ParseSchemaYml(tests) = IF suite = <<>> THEN <<RowCountBounds(1, Null)>> ELSE suite
  BY Zenon DEF ParseSchemaYml, seqs
<1> HIDE DEF suite
<1> QED
  BY <1>6, <1>7, <1>8, <1>9

\* ... and so is what is read of a YAML file.
LEMMA YamlSuite ==
  ASSUME NEW entries, IsSuite(entries)
  PROVE  \A i \in DOMAIN FromYamlFile(entries) : Understood(FromYamlFile(entries)[i])
<1> DEFINE P == {i \in DOMAIN entries : entries[i].type \in Types}
           known == Picked(entries, P)
<1>1. entries \in Seq(ToSet(entries))
  BY DEF IsSuite, IsSequence
<1>2. ASSUME NEW k \in DOMAIN known PROVE Understood(known[k]) /\ "type" \in DOMAIN known[k]
  <2> DEFINE S == ToSet(entries)
  <2>1. \A p \in DOMAIN Picked(entries, P) :
          \E j \in 1 .. Len(entries) : j \in P /\ Picked(entries, P)[p] = entries[j]
    <3> HIDE DEF S, P, known
    <3> QED
      BY <1>1, PickedElements DEF S
  <2>2. PICK j \in 1 .. Len(entries) : j \in P /\ known[k] = entries[j]
    <3> HIDE DEF P
    <3> QED
      BY <2>1
  <2> QED
    BY <2>2 DEF IsSuite, Understood
<1> HIDE DEF known
<1>3. ASSUME NEW k \in DOMAIN known, known[k].type = "metric_value"
      PROVE  Understood([known[k] EXCEPT !.expected_value = Null])
  <2> DEFINE a == known[k]  b == [a EXCEPT !.expected_value = Null]
  <2>1. b.type = "metric_value"
    BY <1>2, <1>3
  <2> HIDE DEF b
  <2>2. Understood(b)
    BY <2>1 DEF Understood, Types
  <2> QED
    BY <2>2 DEF b
<1>4. FromYamlFile(entries) =
        [i \in DOMAIN known |->
           IF known[i].type = "metric_value" /\ known[i].expected_value = 0
           THEN [known[i] EXCEPT !.expected_value = Null] ELSE known[i]]
  BY DEF FromYamlFile, known
<1> QED
  BY <1>2, <1>3, <1>4

-----------------------------------------------------------------------------
(* Types and frames.                                                       *)

\* What is read of a subject's files are assertions that are known.
LEMMA LoadFrames == FramesInv /\ LoadModel => FramesInv'
<1> SUFFICES ASSUME FramesInv, LoadModel PROVE FramesInv'
  OBVIOUS
<1>1. /\ subject' = subject /\ pc = "load" /\ pc' = "next" /\ judged' = judged
      /\ base' \in Execute(subject.golden, subject.table)
  BY DEF LoadModel
<1>2. subject \in Subjects /\ judged = 0
  BY <1>1 DEF FramesInv
<1>3. /\ subject.schema # Null => IsSequence(subject.schema)
      /\ IsSuite(subject.realistic) /\ IsSuite(subject.assertions)
  BY <1>2, JudgesAssumption
<1>4. /\ suites'.dbt = IF subject.schema = Null THEN FromYamlFile(subject.realistic)
                       ELSE ParseSchemaYml(subject.schema)
      /\ suites'.semantic = FromYamlFile(subject.assertions)
  BY DEF LoadModel
<1>5. \A i \in DOMAIN suites'.dbt : Understood(suites'.dbt[i])
  BY <1>3, <1>4, SchemaSuite, YamlSuite
<1>6. \A i \in DOMAIN suites'.semantic : Understood(suites'.semantic[i])
  BY <1>3, <1>4, YamlSuite
<1> QED
  BY <1>1, <1>2, <1>5, <1>6 DEF FramesInv

\* Frames are answers to their queries, and suites have assertions that are known.
LEMMA FramesStep == FramesInv /\ RoundInv /\ [Next]_vars => FramesInv'
<1> SUFFICES ASSUME FramesInv, RoundInv, [Next]_vars PROVE FramesInv'
  OBVIOUS
<1>1. CASE LoadModel
  BY <1>1, LoadFrames
<1>2. CASE NextCandidate
  <2>1. /\ subject' = subject /\ suites' = suites /\ base' = base /\ pc = "next"
        /\ pc' = "compare" /\ candidate' \in Candidates
        /\ frame' \in Execute(candidate', subject.table)
    BY <1>2 DEF NextCandidate
  <2> QED
    BY <2>1 DEF FramesInv
<1>3. CASE \/ Compare \/ EvaluateAgent \/ EvaluateCandidate \/ UNCHANGED vars
           \/ \E tier \in 0..4 : JudgeTier(tier)
  <2>1. /\ UNCHANGED <<subject, suites, base, candidate, frame, judged>>
        /\ pc' = "load" <=> pc = "load"
    BY <1>3 DEF Compare, EvaluateAgent, EvaluateCandidate, vars, JudgeTier
  <2> QED
    BY <2>1 DEF FramesInv
<1> QED
  BY <1>1, <1>2, <1>3 DEF Next

\* A tier's answer is true or false, and the tiers answer in order.
LEMMA TierRound ==
  ASSUME RoundInv, NEW tier \in 0..4, JudgeTier(tier)
  PROVE  RoundInv'
<1>1. /\ pc = "tiers" /\ pc' \in {"agent", "tiers"} /\ DOMAIN caught = 0..(tier - 1)
      /\ caught' = [t \in 0..tier |-> IF t < tier THEN caught[t] ELSE ~TierPasses(tier)]
      /\ UNCHANGED <<candidate, verdict, class, matrix, judged>>
  BY DEF JudgeTier
<1>2. \E n \in 0..5 : DOMAIN caught' = 0..(n - 1)
  <2>1. DOMAIN caught' = 0..((tier + 1) - 1) /\ tier + 1 \in 0..5
    BY <1>1
  <2> QED
    BY <2>1
<1>3. ASSUME NEW t \in DOMAIN caught' PROVE caught'[t] \in BOOLEAN
  <2>1. t \in 0..tier /\ caught'[t] = IF t < tier THEN caught[t] ELSE ~TierPasses(tier)
    BY <1>1
  <2>2. CASE t < tier
    <3>1. t \in DOMAIN caught
      BY <1>1, <2>1, <2>2
    <3> QED
      BY <2>1, <2>2, <3>1 DEF RoundInv
  <2>3. CASE ~(t < tier)
    BY <2>1, <2>3
  <2> QED
    BY <2>2, <2>3
<1>4. SumOf(matrix') = IF pc' \in {"load", "next"} THEN judged' ELSE judged' - 1
  BY <1>1 DEF RoundInv
<1> QED
  BY <1>1, <1>2, <1>3, <1>4 DEF RoundInv

\* A round ends with one candidate more in the matrix.
LEMMA GymRound == RoundInv /\ EvaluateCandidate => RoundInv'
<1> SUFFICES ASSUME RoundInv, EvaluateCandidate PROVE RoundInv'
  OBVIOUS
<1>1. /\ pc = "gym" /\ pc' = "next" /\ matrix' = [matrix EXCEPT ![class'] = @ + 1]
      /\ UNCHANGED <<candidate, caught, verdict, judged>>
  BY DEF EvaluateCandidate
<1>2. class' \in Classes
  BY DEF EvaluateCandidate, Classification, Classes
<1>3. matrix \in [Classes -> Nat] /\ SumOf(matrix) = judged - 1
  BY <1>1 DEF RoundInv
<1>4. matrix' \in [Classes -> Nat]
  BY <1>1, <1>2, <1>3
<1>5. SumOf(matrix') = SumOf(matrix) + 1
  <2>1. \A c \in Classes : matrix[c] \in Nat
                           /\ matrix'[c] = IF c = class' THEN matrix[c] + 1 ELSE matrix[c]
    BY <1>1, <1>2, <1>3
  <2> QED
    BY <1>2, <2>1 DEF SumOf, Classes
<1>6. judged \in Int
  BY DEF RoundInv
<1>7. SumOf(matrix') = judged'
  BY <1>1, <1>3, <1>5, <1>6
<1> QED
  BY <1>1, <1>2, <1>4, <1>7 DEF RoundInv

\* Each candidate is counted once in the matrix, at the end of its round.
LEMMA RoundStep == RoundInv /\ [Next]_vars => RoundInv'
<1> SUFFICES ASSUME RoundInv, [Next]_vars PROVE RoundInv'
  OBVIOUS
<1>1. CASE LoadModel
  BY <1>1 DEF LoadModel, RoundInv
<1>2. CASE NextCandidate
  <2>1. /\ pc = "next" /\ pc' = "compare" /\ judged < MaxCandidates /\ judged' = judged + 1
        /\ candidate' \in Candidates /\ caught' = Untouched /\ verdict' = NoReport
        /\ class' = Null /\ matrix' = matrix
    BY <1>2 DEF NextCandidate
  <2>2. judged' \in 0..MaxCandidates
    BY <2>1, JudgesAssumption DEF RoundInv
  <2>3. DOMAIN caught' = 0..(0 - 1) /\ DOMAIN caught' = {}
    BY <2>1 DEF Untouched
  <2>4. verdict'.verdict = Null
    BY <2>1 DEF NoReport
  <2>5. SumOf(matrix') = judged' - 1
    BY <2>1, <2>2 DEF RoundInv
  <2> QED
    BY <2>1, <2>2, <2>3, <2>4, <2>5 DEF RoundInv
<1>3. CASE Compare
  BY <1>3 DEF Compare, RoundInv
<1>4. ASSUME NEW tier \in 0..4, JudgeTier(tier) PROVE RoundInv'
  BY <1>4, TierRound
<1>5. CASE EvaluateAgent
  <2>1. verdict'.verdict \in Verdicts
    BY <1>5 DEF EvaluateAgent, AgentReport, AgentVerdict, VerdictOf, Verdicts
  <2> QED
    BY <1>5, <2>1 DEF EvaluateAgent, RoundInv
<1>6. CASE EvaluateCandidate
  BY <1>6, GymRound
<1>7. CASE UNCHANGED vars
  BY <1>7 DEF vars, RoundInv
<1> QED
  BY <1>1, <1>2, <1>3, <1>4, <1>5, <1>6, <1>7 DEF Next

\* Nothing is loaded, and nothing counted.
LEMMA InitFrames == Init => FramesInv /\ RoundInv
<1> SUFFICES ASSUME Init PROVE FramesInv /\ RoundInv
  OBVIOUS
<1>1. /\ subject \in Subjects /\ pc = "load" /\ judged = 0 /\ candidate = Null
      /\ caught = Untouched /\ verdict.verdict = Null /\ class = Null
      /\ matrix = [c \in Classes |-> 0]
      /\ suites.dbt = <<>> /\ suites.semantic = <<>>
  BY DEF Init, NoReport
<1>2. FramesInv
  BY <1>1 DEF FramesInv
<1>3. DOMAIN caught = 0..(0 - 1) /\ DOMAIN caught = {} /\ 0 \in 0..5
  BY <1>1 DEF Untouched
<1>4. SumOf(matrix) = 0 /\ matrix \in [Classes -> Nat]
  BY <1>1 DEF SumOf, Classes
<1>5. judged \in 0..MaxCandidates
  BY <1>1, JudgesAssumption
<1> QED
  BY <1>1, <1>2, <1>3, <1>4, <1>5 DEF RoundInv

\* In every state, for every corpus: see FramesInv and RoundInv.
LEMMA FramesInvariant == Spec => [](FramesInv /\ RoundInv)
BY InitFrames, FramesStep, RoundStep, PTL DEF Spec

\* Types: the assertions of a suite are known, the tiers answer in order, each
\* has counted no more than there are valid defects, and the matrix has each
\* candidate once.
THEOREM TypeCorrect == Spec => []TypeOK
<1>1. FramesInv /\ RoundInv /\ RecordInv => TypeOK
  <2> SUFFICES ASSUME FramesInv, RoundInv, RecordInv PROVE TypeOK
    OBVIOUS
  <2>1. \A s \in {suites.dbt, suites.semantic} : \A i \in DOMAIN s : s[i].type \in Types
    BY DEF FramesInv, Understood
  <2>2. ASSUME NEW t \in 0..4 PROVE record.caught[t] \in 0..record.valid
    <3>1. record.caught[t] \in Nat /\ record.valid \in Nat /\ record.caught[t] <= record.valid
      BY DEF RecordInv
    <3> QED
      BY <3>1
  <2>3. record.valid \in 0..judged
    BY DEF RecordInv
  <2> QED
    BY <2>1, <2>2, <2>3 DEF TypeOK, FramesInv, RoundInv
<1>2. Init => RecordInv
  BY InitJudgement
<1> QED
  BY <1>1, <1>2, RecordStep, FramesInvariant, PTL DEF Spec

-----------------------------------------------------------------------------
(* The two implementations of an assertion.                                *)

\* On whatever frame and suite, see PathsAgree.
THEOREM PathsConsistent == Spec => []PathsAgree
<1>1. FramesInv => PathsAgree
  <2> SUFFICES ASSUME FramesInv, Judged, EvaluateTier1(frame),
                      NEW db \in {ScriptDb, FullDb}, NEW i \in DOMAIN suites.dbt
               PROVE  LET a == suites.dbt[i]
                          onFrame == EvaluateTier2(frame, <<a>>, db)
                          asQuery == Evaluate(a, Answer(candidate, subject.table), db)
                          listed == a.type = "accepted_values"
                      IN  /\ asQuery /\ ~NumbersAsText(a) /\ ~(listed /\ NotQuoted(a))
                             => onFrame
                          /\ /\ onFrame /\ HasColumnsOf(a) /\ ~frame.open
                             /\ listed => Parses(a) /\ ~Inconvertible(a)
                             => asQuery
    BY DEF PathsAgree
  <2> DEFINE a == suites.dbt[i]
             answer == Answer(candidate, subject.table)
  <2>1. /\ subject \in Subjects /\ candidate \in Candidates
        /\ frame \in Execute(candidate, subject.table) /\ Understood(a)
    BY DEF FramesInv, Judged
  <2>2. candidate \in Query /\ IsTable(subject.table)
    BY <2>1, JudgesAssumption
  <2>3. answer \in Execute(candidate, subject.table)
    BY <2>2, AnswerIsResult
  <2>4. PICK e : Reorders(e, frame, answer)
    BY <2>1, <2>2, <2>3, ResultsReorder
  <2>5. IsSequence(frame.rows) /\ IsSequence(answer.rows) /\ Amounts(frame.rows, "amount")
    BY <2>1, <2>2, <2>3, ResultShape
  <2> HIDE DEF a, answer
  <2>6. Evaluate(a, answer, db) <=> Evaluate(a, frame, db)
    BY <2>4, <2>5, OrderBlind
  <2>7. frame.fault = "none"
    BY DEF EvaluateTier1
  <2>8. /\ ~(NumbersAsText(a) \/ (a.type = "accepted_values" /\ NotQuoted(a)))
             => ~AsText(a, frame)
        /\ HasColumnsOf(a) => Named(a, frame)
        /\ (a.type = "accepted_values" => Parses(a) /\ ~Inconvertible(a)) => ~NoSql(a)
    BY DEF NumbersAsText, AsText, HasColumnsOf, Named, NoSql
  <2>9. CASE frame.open
    <3>1. Evaluate(a, frame, db) => EvaluateTier2(frame, <<a>>, db)
      BY <2>1, <2>7, <2>9, PathsOfOpen
    <3> QED
      BY <2>6, <2>9, <3>1 DEF a, answer
  <2>10. CASE ~frame.open
    <3>1. /\ Evaluate(a, frame, db) /\ ~AsText(a, frame) => EvaluateTier2(frame, <<a>>, db)
          /\ EvaluateTier2(frame, <<a>>, db) /\ Named(a, frame) /\ ~NoSql(a)
             => Evaluate(a, frame, db)
      BY <2>1, <2>7, <2>10, PathsOnFrame
    <3> QED
      BY <2>6, <2>8, <3>1 DEF a, answer
  <2> QED
    BY <2>9, <2>10
<1> QED
  BY <1>1, FramesInvariant, PTL

-----------------------------------------------------------------------------
(* The comparisons of two frames.                                          *)

\* The order of the rows makes no difference to their bag.
LEMMA ReorderedBag ==
  ASSUME NEW e, NEW f, NEW g, Reorders(e, f, g)
  PROVE  ToBag(g.rows) = ToBag(f.rows)
<1> DEFINE n == Len(f.rows)  F == f.rows  G == g.rows
<1>1. /\ DOMAIN F = 1 .. n /\ DOMAIN G = 1 .. n /\ n \in Nat
      /\ \A i \in 1 .. n : e[i] \in 1 .. n /\ G[i] = F[e[i]]
      /\ \A i, j \in 1 .. n : e[i] = e[j] => i = j
      /\ \A j \in 1 .. n : \E i \in 1 .. n : e[i] = j
  BY DEF Reorders, Reordering
<1> HIDE DEF n, F, G
<1>2. Range(G) = Range(F)
  <2>1. ASSUME NEW i \in 1 .. n PROVE G[i] \in Range(F)
    <3>1. e[i] \in DOMAIN F /\ G[i] = F[e[i]]
      BY <1>1
    <3> QED
      BY <3>1 DEF Range
  <2>2. ASSUME NEW j \in 1 .. n PROVE F[j] \in Range(G)
    <3>1. PICK i \in 1 .. n : e[i] = j
      BY <1>1
    <3>2. G[i] = F[j]
      BY <1>1, <3>1
    <3> QED
      BY <1>1, <3>2 DEF Range
  <2>3. \A x \in Range(G) : x \in Range(F)
    BY <1>1, <2>1 DEF Range
  <2>4. \A x \in Range(F) : x \in Range(G)
    BY <1>1, <2>2 DEF Range
  <2> QED
    BY <2>3, <2>4
<1>3. ASSUME NEW x
      PROVE  Cardinality({i \in DOMAIN G : G[i] = x}) = Cardinality({i \in DOMAIN F : F[i] = x})
  <2> DEFINE A == {i \in 1 .. n : G[i] = x}  B == {i \in 1 .. n : F[i] = x}
             h == [i \in A |-> e[i]]
  <2>1. h \in Bijection(A, B)
    <3>1. h \in [A -> B]
      BY <1>1
    <3>2. \A i, j \in A : h[i] = h[j] => i = j
      BY <1>1
    <3>3. \A j \in B : \E i \in A : h[i] = j
      BY <1>1
    <3>4. DOMAIN h = A
      OBVIOUS
    <3> HIDE DEF h, A, B
    <3>5. IsInjective(h)
      BY <3>2, <3>4 DEF IsInjective
    <3> QED
      BY <3>1, <3>3, <3>5 DEF Bijection, Injection, Surjection
  <2>2. ExistsBijection(A, B)
    BY <2>1 DEF ExistsBijection
  <2>3. IsFiniteSet(A)
    <3>1. IsFiniteSet(1 .. n)
      BY <1>1, FS_Interval
    <3> QED
      BY <3>1, FS_Subset
  <2> HIDE DEF A, B
  <2>4. Cardinality(A) = Cardinality(B)
    BY <2>2, <2>3, FS_Bijection
  <2> QED
    BY <1>1, <2>4 DEF A, B
<1> QED
  BY <1>2, <1>3 DEF ToBag, F, G

\* Equal bags are of the same rows.
LEMMA BagElements ==
  ASSUME NEW s, NEW t, ToBag(s) = ToBag(t), NEW i \in DOMAIN s
  PROVE  \E j \in DOMAIN t : t[j] = s[i]
<1>1. DOMAIN ToBag(s) = Range(s) /\ DOMAIN ToBag(t) = Range(t)
  BY DEF ToBag
<1>2. s[i] \in Range(t)
  BY <1>1 DEF Range
<1> QED
  BY <1>2 DEF Range

\* No rows are no rows.
LEMMA NoRows ==
  ASSUME NEW s, IsSequence(s)
  PROVE  s = <<>> <=> Len(s) = 0
BY DEF IsSequence

\* The list of the columns tells the shape of a query.
LEMMA ShapeOfColumns ==
  ASSUME NEW p \in Query, NEW q \in Query, Listed(p) = Listed(q)
  PROVE  p.shape = q.shape
<1> DEFINE width(r) == CASE r.shape = "rows" -> 3 [] r.shape = "grouped" -> 2
                         [] r.shape = "total" -> 1
<1>1. ASSUME NEW r \in Query PROVE Len(Listed(r)) = width(r)
  <2>1. ASSUME NEW names, Len(names) \in Nat PROVE Len(Reverse(names)) = Len(names)
    BY DEF Reverse
  <2>2. r.shape \in {"rows", "grouped", "total"}
    BY DEF Query
  <2>3. CASE r.shape = "rows"
    <3> DEFINE names == <<"customer_id", "status", "amount">>
    <3>1. Len(names) = 3
      OBVIOUS
    <3>2. Listed(r) = IF r.swapped THEN Reverse(names) ELSE names
      BY <2>3 DEF Listed
    <3> HIDE DEF names
    <3> QED
      BY <2>1, <2>3, <3>1, <3>2
  <2>4. CASE r.shape = "grouped"
    <3> DEFINE names == <<"customer_id", "amount">>
    <3>1. Len(names) = 2
      OBVIOUS
    <3>2. Listed(r) = IF r.swapped THEN Reverse(names) ELSE names
      BY <2>4 DEF Listed
    <3> HIDE DEF names
    <3> QED
      BY <2>1, <2>4, <3>1, <3>2
  <2>5. CASE r.shape = "total"
    <3> DEFINE names == <<"amount">>
    <3>1. Len(names) = 1
      OBVIOUS
    <3>2. Listed(r) = IF r.swapped THEN Reverse(names) ELSE names
      BY <2>5 DEF Listed
    <3> HIDE DEF names
    <3> QED
      BY <2>1, <2>5, <3>1, <3>2
  <2> QED
    BY <2>2, <2>3, <2>4, <2>5
<1>2. width(p) = width(q)
  BY <1>1
<1> QED
  BY <1>2 DEF Query

\* Rows that one query lists and the other leaves out are missed: with as many
\* rows, the rows are the same.
LEMMA ListingsByLength ==
  ASSUME NEW table, IsTable(table), NEW p, NEW q, p.shape = "rows", q.shape = "rows",
         p.fault = "none", q.fault = "none",
         NEW f \in Execute(p, table), NEW g \in Execute(q, table),
         Len(f.rows) = Len(g.rows), p.active = q.active \/ p.active
  PROVE  f.rows = g.rows /\ Kept(p, table) = Kept(q, table)
<1>1. f.rows = Picked(table, Kept(p, table)) /\ g.rows = Picked(table, Kept(q, table))
  BY DEF Execute, ResultWith, RowsInOrder
<1>2. /\ table \in Seq(ToSet(table))
      /\ Kept(p, table) \subseteq Kept(q, table) /\ Kept(q, table) \subseteq 1 .. Len(table)
  BY TableRows DEF Kept
<1> DEFINE S == ToSet(table)  P == Kept(p, table)  Q == Kept(q, table)
<1> HIDE DEF S, P, Q
<1>3. /\ Picked(table, P) = Picked(table, Q)
      /\ \A j \in 1 .. Len(table) : j \in Q => j \in P
  BY <1>1, <1>2, PickedFewer DEF S, P, Q
<1> QED
  BY <1>1, <1>2, <1>3 DEF P, Q

\* Of two groupings with the same rows, one is the other in an order that the
\* query may answer in as well.
LEMMA GroupingsInOrder ==
  ASSUME NEW table, IsTable(table), NEW p, NEW q, p.shape = "grouped", q.shape = "grouped",
         p.fault = "none", q.fault = "none",
         NEW f \in Execute(p, table), NEW g \in Execute(q, table), ToBag(f.rows) = ToBag(g.rows)
  PROVE  \E h \in Execute(p, table) : h.rows = g.rows
<1> DEFINE Ag(r, k) == Aggregate(r.agg, table, {i \in Kept(r, table) : table[i].customer_id = k})
           Of(r, ks) == [i \in DOMAIN ks |-> [customer_id |-> ks[i], amount |-> Ag(r, ks[i])]]
<1>1. PICK a \in SetToSeqs(Keys(p, table)) : f.rows = Of(p, a)
  <2>1. PICK a \in SetToSeqs(Keys(p, table)) : f = ResultWith(p, table, a)
    BY DEF Execute
  <2>2. f.rows = RowsInOrder(p, table, a)
    BY <2>1 DEF ResultWith
  <2>3. RowsInOrder(p, table, a) = Of(p, a)
    BY DEF RowsInOrder
  <2> QED
    BY <2>2, <2>3
<1>2. PICK b \in SetToSeqs(Keys(q, table)) : g.rows = Of(q, b)
  <2>1. PICK b \in SetToSeqs(Keys(q, table)) : g = ResultWith(q, table, b)
    BY DEF Execute
  <2>2. g.rows = RowsInOrder(q, table, b)
    BY <2>1 DEF ResultWith
  <2>3. RowsInOrder(q, table, b) = Of(q, b)
    BY DEF RowsInOrder
  <2> QED
    BY <2>2, <2>3
<1> HIDE DEF Ag
<1>3. /\ DOMAIN f.rows = DOMAIN a /\ DOMAIN g.rows = DOMAIN b
      /\ \A i \in DOMAIN a : /\ f.rows[i].customer_id = a[i]
                             /\ f.rows[i].amount = Ag(p, a[i])
      /\ \A i \in DOMAIN b : /\ g.rows[i].customer_id = b[i]
                             /\ g.rows[i].amount = Ag(q, b[i])
  BY <1>1, <1>2
<1>4. /\ \A i \in DOMAIN f.rows : \E j \in DOMAIN g.rows : g.rows[j] = f.rows[i]
      /\ \A i \in DOMAIN g.rows : \E j \in DOMAIN f.rows : f.rows[j] = g.rows[i]
  BY BagElements
<1>5. IsFiniteSet(Keys(p, table)) /\ IsFiniteSet(Keys(q, table))
  BY FiniteKeys
<1>6. /\ \A i \in DOMAIN a : a[i] \in Keys(p, table)
      /\ \A k \in Keys(p, table) : \E i \in DOMAIN a : a[i] = k
  <2> DEFINE S == Keys(p, table)
  <2> HIDE DEF S
  <2>1. /\ a \in [1 .. Cardinality(S) -> S]
        /\ \A k \in S : \E i \in 1 .. Cardinality(S) : a[i] = k
    BY <1>1, <1>5, OrdersOfKeys DEF S
  <2> QED
    BY <2>1 DEF S
<1>7. /\ \A i \in DOMAIN b : b[i] \in Keys(q, table)
      /\ \A k \in Keys(q, table) : \E i \in DOMAIN b : b[i] = k
  <2> DEFINE S == Keys(q, table)
  <2> HIDE DEF S
  <2>1. /\ b \in [1 .. Cardinality(S) -> S]
        /\ \A k \in S : \E i \in 1 .. Cardinality(S) : b[i] = k
    BY <1>2, <1>5, OrdersOfKeys DEF S
  <2> QED
    BY <2>1 DEF S
<1>8. Keys(p, table) = Keys(q, table)
  <2>1. ASSUME NEW k \in Keys(p, table) PROVE k \in Keys(q, table)
    <3>1. PICK i \in DOMAIN a : a[i] = k
      BY <1>6
    <3>2. PICK j \in DOMAIN b : g.rows[j] = f.rows[i]
      BY <1>3, <1>4
    <3> QED
      BY <1>3, <1>7, <3>1, <3>2
  <2>2. ASSUME NEW k \in Keys(q, table) PROVE k \in Keys(p, table)
    <3>1. PICK i \in DOMAIN b : b[i] = k
      BY <1>7
    <3>2. PICK j \in DOMAIN a : f.rows[j] = g.rows[i]
      BY <1>3, <1>4
    <3> QED
      BY <1>3, <1>6, <3>1, <3>2
  <2> QED
    BY <2>1, <2>2
<1>9. ASSUME NEW i \in DOMAIN b PROVE Ag(p, b[i]) = Ag(q, b[i])
  <2>1. PICK j \in DOMAIN a : f.rows[j] = g.rows[i]
    BY <1>3, <1>4
  <2> QED
    BY <1>3, <2>1
<1>10. Of(p, b) = Of(q, b)
  BY <1>9
<1> DEFINE h == ResultWith(p, table, b)
<1>11. h \in Execute(p, table)
  BY <1>2, <1>8 DEF Execute
<1>12. h.rows = Of(p, b)
  BY DEF ResultWith, RowsInOrder, Ag
<1> QED
  BY <1>2, <1>10, <1>11, <1>12

\* Of plain frames the gym compares the cells as they are.
LEMMA PlainRows ==
  ASSUME NEW table, IsTable(table), NEW q \in Query, q.fault = "none",
         NEW f \in Execute(q, table), Plain(f)
  PROVE  CanonicalRows(f.rows) = f.rows
<1>1. /\ IsSequence(f.rows) /\ DOMAIN f.rows = 1 .. Len(f.rows) /\ Len(f.rows) \in Nat
      /\ f.columns = ColumnsOf(q)
      /\ \A i \in DOMAIN f.rows : f.rows[i] = [c \in ColumnsOf(q) |-> f.rows[i][c]]
      /\ \A c \in (NumericColumns \cap f.columns) \cup {"amount"} : Amounts(f.rows, c)
  BY ResultShape
<1> DEFINE R == f.rows  cols == f.columns
<1>2. /\ DOMAIN R = 1 .. Len(R) /\ R = [i \in DOMAIN R |-> R[i]]
      /\ \A i \in DOMAIN R : R[i] = [c \in cols |-> R[i][c]]
      /\ \A i \in DOMAIN R, c \in cols \cap NumericColumns : R[i][c] \in Int \cup {Null}
      /\ \A i \in DOMAIN R, c \in cols \cap NumericColumns :
           R[i][c] # Null => R[i][c] % 10 = 0
      /\ \A i \in DOMAIN R, c \in cols \ NumericColumns :
           R[i][c] # Null => Strip(R[i][c]) = R[i][c]
  <2>1. R = [i \in DOMAIN R |-> R[i]]
    BY <1>1 DEF IsSequence
  <2>2. \A i \in DOMAIN R, c \in cols \cap NumericColumns : R[i][c] \in Int \cup {Null}
    BY <1>1 DEF Amounts
  <2>3. \A i \in DOMAIN R, c \in cols \cap NumericColumns :
           R[i][c] # Null => R[i][c] % 10 = 0
    BY DEF Plain, Numbers
  <2>4. \A i \in DOMAIN R, c \in cols \ NumericColumns :
           R[i][c] # Null => Strip(R[i][c]) = R[i][c]
    BY DEF Plain
  <2> QED
    BY <1>1, <2>1, <2>2, <2>3, <2>4
<1> HIDE DEF R, cols
<1>3. \A x \in Int : x % 10 = 0 => Rounded(x) = x
  BY DEF Rounded
<1>4. ASSUME NEW i \in DOMAIN R PROVE Canonical(R[i]) = R[i]
  <2>1. R[i] = [c \in cols |-> R[i][c]] /\ DOMAIN R[i] = cols
    BY <1>2
  <2>2. ASSUME NEW c \in cols
        PROVE  (IF R[i][c] = Null THEN Null
                ELSE IF c \in NumericColumns THEN Rounded(R[i][c])
                ELSE Strip(R[i][c])) = R[i][c]
    BY <1>2, <1>3
  <2>3. Canonical(R[i]) = [c \in cols |-> IF R[i][c] = Null THEN Null
                ELSE IF c \in NumericColumns THEN Rounded(R[i][c])
                ELSE Strip(R[i][c])]
    BY <2>1 DEF Canonical
  <2> QED
    BY <2>1, <2>2, <2>3
<1>5. CanonicalRows(R) = [i \in DOMAIN R |-> R[i]]
  BY <1>4 DEF CanonicalRows
<1> QED
  BY <1>2, <1>5 DEF R

\* Plain frames with numbers below ten are equal, if the script takes them for
\* the same.
LEMMA SameIsEqual ==
  ASSUME NEW table, IsTable(table), NEW p \in Query, NEW q \in Query,
         p.fault = "none", q.fault = "none",
         NEW h \in Execute(p, table), NEW g \in Execute(q, table), SameFrame(g, h),
         Plain(h), Plain(g), BelowTen(h), BelowTen(g)
  PROVE  h.rows = g.rows /\ h.columns = g.columns
<1>1. /\ IsSequence(h.rows) /\ DOMAIN h.rows = 1 .. Len(h.rows)
      /\ h.columns = ColumnsOf(p) /\ h.listed = Listed(p)
      /\ \A i \in DOMAIN h.rows : h.rows[i] = [c \in ColumnsOf(p) |-> h.rows[i][c]]
      /\ \A c \in (NumericColumns \cap h.columns) \cup {"amount"} : Amounts(h.rows, c)
  BY ResultShape
<1>2. /\ IsSequence(g.rows) /\ DOMAIN g.rows = 1 .. Len(g.rows)
      /\ g.columns = ColumnsOf(q) /\ g.listed = Listed(q)
      /\ \A i \in DOMAIN g.rows : g.rows[i] = [c \in ColumnsOf(q) |-> g.rows[i][c]]
      /\ \A c \in (NumericColumns \cap g.columns) \cup {"amount"} : Amounts(g.rows, c)
  BY ResultShape
<1>3. ColumnsOf(p) = ColumnsOf(q)
  <2>1. Listed(p) = Listed(q)
    BY <1>1, <1>2 DEF SameFrame
  <2>2. p.shape = q.shape
    BY <2>1, ShapeOfColumns
  <2> QED
    BY <2>2 DEF ColumnsOf
<1>4. Len(h.rows) = Len(g.rows)
  BY DEF SameFrame
<1>5. ASSUME NEW x \in Int, NEW y \in Int, x % 10 = 0, y % 10 = 0,
             Abs(x) < 10 * One, Abs(y) < 10 * One, IsClose(x, y)
      PROVE  x = y
  <2> DEFINE larger == IF Abs(x) > Abs(y) THEN Abs(x) ELSE Abs(y)
             d == larger \div 100000
  <2>1. larger \in Int /\ larger < 1000000
    BY <1>5 DEF Abs, One
  <2>2. d <= 9
    <3> HIDE DEF larger
    <3> QED
      BY <2>1
  <2>3. d \in Int
    <3> HIDE DEF larger
    <3> QED
      BY <2>1
  <2>4. Abs(x - y) <= d
    BY <1>5 DEF IsClose
  <2> HIDE DEF d
  <2>5. x - y <= 9 /\ y - x <= 9
    BY <2>2, <2>3, <2>4 DEF Abs
  <2> QED
    BY <1>5, <2>5
<1>6. ASSUME NEW i \in DOMAIN g.rows, NEW c \in ColumnsOf(q)
      PROVE  h.rows[i][c] = g.rows[i][c]
  <2> DEFINE x == g.rows[i][c]  y == h.rows[i][c]
  <2>1. \/ x = y
        \/ c \in NumericColumns /\ x # Null /\ y # Null /\ IsClose(x, y)
    BY <1>2, <1>6 DEF SameFrame
  <2>2. CASE c \in NumericColumns /\ x # Null /\ y # Null /\ IsClose(x, y)
    <3>1. x \in Int /\ y \in Int
      BY <1>1, <1>2, <1>3, <1>4, <1>6, <2>2 DEF Amounts
    <3>2. x \in Numbers(g) /\ y \in Numbers(h)
      BY <1>1, <1>2, <1>3, <1>4, <1>6, <2>2 DEF Numbers
    <3>3. x % 10 = 0 /\ y % 10 = 0 /\ Abs(x) < 10 * One /\ Abs(y) < 10 * One
      BY <3>2 DEF Plain, BelowTen
    <3> HIDE DEF x, y
    <3>4. x = y
      BY <1>5, <2>2, <3>1, <3>3
    <3> QED
      BY <3>4 DEF x, y
  <2> QED
    BY <2>1, <2>2
<1>7. \A i \in DOMAIN g.rows : h.rows[i] = g.rows[i]
  <2>1. ASSUME NEW i \in DOMAIN g.rows PROVE h.rows[i] = g.rows[i]
    <3>1. /\ h.rows[i] = [c \in ColumnsOf(q) |-> h.rows[i][c]]
          /\ g.rows[i] = [c \in ColumnsOf(q) |-> g.rows[i][c]]
      BY <1>1, <1>2, <1>3, <1>4
    <3> QED
      BY <1>6, <3>1
  <2> QED
    BY <2>1
<1>8. h.rows = [i \in DOMAIN g.rows |-> h.rows[i]] /\ g.rows = [i \in DOMAIN g.rows |-> g.rows[i]]
  BY <1>1, <1>2, <1>4 DEF IsSequence
<1> QED
  BY <1>1, <1>2, <1>3, <1>7, <1>8

\* Frames with equal rows are the same to the script.
LEMMA EqualIsSame ==
  ASSUME NEW f, NEW g, f.listed = g.listed, f.rows = g.rows
  PROVE  SameFrame(g, f)
BY DEF SameFrame

\* The gym's comparison is the script's up to the order of the rows ...
LEMMA MatchIsSame ==
  ASSUME NEW table, IsTable(table), NEW p \in Query, NEW q \in Query,
         p.fault = "none", q.fault = "none",
         NEW f \in Execute(p, table), NEW g \in Execute(q, table), f.listed = g.listed,
         Plain(f), Plain(g), CompareDataframes(f, g)
  PROVE  \E h \in Execute(p, table) : h.rows = g.rows /\ h.listed = g.listed
<1>1. /\ IsSequence(f.rows) /\ IsSequence(g.rows)
      /\ f.listed = Listed(p) /\ g.listed = Listed(q)
      /\ DOMAIN f.rows = 1 .. Len(f.rows) /\ DOMAIN g.rows = 1 .. Len(g.rows)
  BY ResultShape
<1>2. p.shape = q.shape /\ p.shape \in {"rows", "grouped", "total"}
  <2>1. Listed(p) = Listed(q)
    BY <1>1
  <2>2. p.shape = q.shape
    BY <2>1, ShapeOfColumns
  <2> QED
    BY <2>2 DEF Query
<1>3. \A h \in Execute(p, table) : h.listed = Listed(p)
  BY ResultShape
<1>4. SUFFICES \E h \in Execute(p, table) : h.rows = g.rows
  BY <1>1, <1>3
<1>5. CASE f.rows = <<>> /\ g.rows = <<>>
  BY <1>5
<1>0. CanonicalRows(f.rows) = f.rows /\ CanonicalRows(g.rows) = g.rows
  BY PlainRows
<1>6. CASE Len(f.rows) = Len(g.rows) /\ ToBag(f.rows) = ToBag(g.rows)
  <2>1. CASE p.shape = "rows"
    <3>1. p.active \in BOOLEAN /\ q.active \in BOOLEAN
      BY DEF Query
    <3>2. f.rows = g.rows
      <4>1. CASE p.active = q.active \/ p.active
        BY <1>2, <1>6, <2>1, <4>1, ListingsByLength
      <4>2. CASE q.active
        BY <1>2, <1>6, <2>1, <4>2, ListingsByLength
      <4> QED
        BY <3>1, <4>1, <4>2
    <3> QED
      BY <3>2
  <2>2. CASE p.shape = "grouped"
    BY <1>2, <1>6, <2>2, GroupingsInOrder
  <2>3. CASE p.shape = "total"
    <3>1. PICK x : f.rows = <<x>>
      BY <2>3 DEF Execute, ResultWith, RowsInOrder
    <3>2. PICK y : g.rows = <<y>>
      BY <1>2, <2>3 DEF Execute, ResultWith, RowsInOrder
    <3>3. 1 \in DOMAIN f.rows
      BY <3>1
    <3>4. \A i \in DOMAIN f.rows : \E j \in DOMAIN g.rows : g.rows[j] = f.rows[i]
      <4>1. ToBag(f.rows) = ToBag(g.rows)
        BY <1>6
      <4> QED
        BY ONLY <4>1, BagElements
    <3>5. x = y
      BY <3>1, <3>2, <3>3, <3>4
    <3> QED
      BY <3>1, <3>2, <3>5
  <2> QED
    BY <1>2, <2>1, <2>2, <2>3
<1> QED
  BY <1>0, <1>5, <1>6 DEF CompareDataframes

\* ... and the script's is the gym's in one of the orders.
LEMMA SameIsMatch ==
  ASSUME NEW table, IsTable(table), NEW p \in Query, NEW q \in Query,
         p.fault = "none", q.fault = "none", NEW f \in Execute(p, table),
         NEW h \in Execute(p, table), NEW g \in Execute(q, table), SameFrame(g, h),
         Plain(f), Plain(g), BelowTen(f), BelowTen(g)
  PROVE  CompareDataframes(f, g)
<1>1. PICK e : Reorders(e, f, h)
  BY ResultsReorder
<1>2. ToBag(h.rows) = ToBag(f.rows)
  BY <1>1, ReorderedBag
<1>3. IsSequence(f.rows) /\ IsSequence(h.rows)
  BY ResultShape
<1>4. Len(f.rows) = Len(h.rows) /\ h.columns = f.columns
  BY <1>1 DEF Reorders
<1>5. f.rows = <<>> <=> h.rows = <<>>
  BY <1>3, <1>4, NoRows
<1>6. Plain(h) /\ BelowTen(h)
  <2>1. \A i \in DOMAIN h.rows : \E j \in DOMAIN f.rows : h.rows[i] = f.rows[j]
    <3>1. ASSUME NEW i \in DOMAIN h.rows
          PROVE  e[i] \in DOMAIN f.rows /\ h.rows[i] = f.rows[e[i]]
      BY <1>1 DEF Reorders, Reordering
    <3> QED
      BY <3>1
  <2>2. Numbers(h) \subseteq Numbers(f)
    BY <1>4, <2>1 DEF Numbers
  <2>3. BelowTen(h)
    BY <2>2 DEF BelowTen
  <2>4. \A x \in Numbers(h) : x % 10 = 0
    BY <2>2 DEF Plain
  <2>5. ASSUME NEW i \in DOMAIN h.rows, NEW c \in h.columns \ NumericColumns,
               h.rows[i][c] # Null
        PROVE  Strip(h.rows[i][c]) = h.rows[i][c]
    <3>1. PICK j \in DOMAIN f.rows : h.rows[i] = f.rows[j]
      BY <2>1
    <3> QED
      BY <1>4, <2>5, <3>1 DEF Plain
  <2> QED
    BY <2>3, <2>4, <2>5 DEF Plain
<1>7. h.rows = g.rows /\ h.columns = g.columns
  BY <1>6, SameIsEqual
<1>8. CanonicalRows(f.rows) = f.rows /\ CanonicalRows(g.rows) = g.rows
  BY PlainRows
<1> QED
  BY <1>2, <1>4, <1>5, <1>7, <1>8 DEF CompareDataframes

\* What the gym's comparison finds equal the mutation runner does.
LEMMA MatchIsEquivalent ==
  ASSUME NEW table, IsTable(table), NEW p \in Query, NEW q \in Query,
         p.fault = "none", q.fault = "none",
         NEW f \in Execute(p, table), NEW g \in Execute(q, table), f.listed = g.listed,
         Plain(f), Plain(g), CompareDataframes(f, g)
  PROVE  IsEquivalent(Summary(g), Summary(f))
<1>1. /\ IsSequence(f.rows) /\ f.columns = ColumnsOf(p) /\ f.listed = Listed(p)
      /\ \A c \in (NumericColumns \cap f.columns) \cup {"amount"} : Amounts(f.rows, c)
  BY ResultShape
<1>2. /\ IsSequence(g.rows) /\ g.columns = ColumnsOf(q) /\ g.listed = Listed(q)
      /\ \A c \in (NumericColumns \cap g.columns) \cup {"amount"} : Amounts(g.rows, c)
      /\ DOMAIN g.rows = 1 .. Len(g.rows) /\ Len(g.rows) \in Nat
  BY ResultShape
<1>3. f.columns = g.columns
  <2>1. Listed(p) = Listed(q)
    BY <1>1, <1>2
  <2>2. p.shape = q.shape
    BY <2>1, ShapeOfColumns
  <2> QED
    BY <1>1, <1>2, <2>2 DEF ColumnsOf
<1>4. PICK h \in Execute(p, table) : h.rows = g.rows /\ h.listed = g.listed
  BY MatchIsSame
<1>5. PICK e : Reorders(e, f, h)
  BY ResultsReorder
<1>6. /\ Len(f.rows) = Len(g.rows)
      /\ \A c \in NumericColumns \cap f.columns :
           Total(g.rows, DOMAIN g.rows, c) = Total(f.rows, DOMAIN f.rows, c)
  <2>1. \A c : Amounts(f.rows, c) => Total(h.rows, DOMAIN h.rows, c) = Total(f.rows, DOMAIN f.rows, c)
    <3>1. Amounts(f.rows, "amount") /\ IsSequence(h.rows)
      BY <1>1, ResultShape
    <3> QED
      BY <1>1, <1>5, <3>1, ReorderedTotals
  <2> QED
    BY <1>1, <1>4, <1>5, <2>1 DEF Reorders
<1> DEFINE total(r, c) == IF c \in NumericColumns \cap r.columns
                          THEN Total(r.rows, DOMAIN r.rows, c) ELSE 0
<1>7. \A c : total(f, c) = total(g, c)
  BY <1>3, <1>6
<1>8. /\ Summary(f) = [rows |-> Len(f.rows), columns |-> f.listed, numeric |-> TRUE,
                       sum |-> total(f, "amount") + total(f, "customer_id"), data |-> 0]
      /\ Summary(g) = [rows |-> Len(g.rows), columns |-> g.listed, numeric |-> TRUE,
                       sum |-> total(g, "amount") + total(g, "customer_id"), data |-> 0]
  BY DEF Summary
<1>9. \A c : total(g, c) \in Int
  <2>1. ASSUME NEW c \in NumericColumns \cap g.columns
        PROVE  Total(g.rows, DOMAIN g.rows, c) \in Int
    <3>1. g.rows \in Seq(ToSet(g.rows)) /\ Amounts(g.rows, c)
      BY <1>2, <2>1 DEF IsSequence
    <3>2. PICK t : Totals(t, g.rows, DOMAIN g.rows, c)
                   /\ Total(g.rows, DOMAIN g.rows, c) = t[Len(g.rows)]
      BY <3>1, TotalSteps
    <3> QED
      BY <1>2, <3>2 DEF Totals
  <2> QED
    BY <2>1
<1> HIDE DEF total
<1>10. Summary(f) = Summary(g)
  <2>1. total(f, "amount") = total(g, "amount") /\ total(f, "customer_id") = total(g, "customer_id")
    BY <1>7
  <2> QED
    BY <1>6, <1>8, <2>1
<1> DEFINE s == Summary(g)  sum == s.sum
<1>11. s.numeric /\ sum \in Int
  BY <1>8, <1>9
<1> HIDE DEF s
<1>12. sum # 0 => Abs(sum - sum) <= (Abs(sum) - 1) \div 100000
  <2> SUFFICES ASSUME sum # 0 PROVE Abs(sum - sum) <= (Abs(sum) - 1) \div 100000
    OBVIOUS
  <2>1. sum \in Int
    BY <1>11
  <2> HIDE DEF sum
  <2>2. Abs(sum - sum) = 0 /\ Abs(sum) - 1 \in Nat
    BY <2>1 DEF Abs
  <2>3. \A n \in Nat : 0 <= n \div 100000
    OBVIOUS
  <2> QED
    BY <2>2, <2>3
<1>13. IsEquivalent(s, s)
  BY <1>11, <1>12 DEF IsEquivalent
<1> QED
  BY <1>10, <1>13 DEF s

\* On a fixture with a row that is neither active nor NULL, no comparison takes
\* a listing for the one of the active rows.
LEMMA LostFilterIsSeen ==
  ASSUME NEW table, IsTable(table), NEW p \in Query, NEW q \in Query,
         p.fault = "none", q.fault = "none",
         NEW f \in Execute(p, table), NEW g \in Execute(q, table),
         Check("Active/Inactive Status Contrast", "PASS") \in AuditFixture(table),
         q.shape = "rows", q.active, p.shape = "rows", ~p.active
  PROVE  /\ ~SameFrame(g, f) /\ ~CompareDataframes(f, g)
         /\ ~IsEquivalent(Summary(g), Summary(f))
<1>1. Cells(table, "status") \ (ActiveSpellings \cup {Null, ""}) # {}
  <2>1. StatusContrast(table) = Check("Active/Inactive Status Contrast", "PASS")
    BY DEF AuditFixture, Check, Volume, NumericalContrast, GrainMultiplicity, StatusContrast
  <2> QED
    BY <2>1 DEF StatusContrast, Check
<1>2. PICK i \in DOMAIN table : table[i].status # "active"
  BY <1>1, SpellingsAssumption DEF Cells
<1>3. i \in Kept(p, table) /\ i \notin Kept(q, table)
  BY <1>2 DEF Kept
<1>4. Len(f.rows) # Len(g.rows)
  <2> SUFFICES ASSUME Len(g.rows) = Len(f.rows) PROVE FALSE
    OBVIOUS
  <2>1. Kept(q, table) = Kept(p, table)
    BY ListingsByLength
  <2> QED
    BY <1>3, <2>1
<1>5. ~SameFrame(g, f) /\ ~CompareDataframes(f, g)
  BY <1>4 DEF SameFrame, CompareDataframes
<1>6. Summary(g).rows # Summary(f).rows
  BY <1>4 DEF Summary
<1>7. ASSUME NEW s, NEW t, IsEquivalent(s, t) PROVE s.rows = t.rows
  BY ONLY <1>7 DEF IsEquivalent
<1> QED
  BY <1>5, <1>6, <1>7

\* The comparisons of plain frames with the same columns agree, and see a filter
\* that was lost: see ComparatorsAgree.  For every fixture, golden query and
\* candidate.
THEOREM ComparatorsConsistent == Spec => []ComparatorsAgree
<1>1. FramesInv => ComparatorsAgree
  <2> SUFFICES ASSUME FramesInv, Judged, frame.fault = "none", base.fault = "none"
               PROVE  ComparatorsAgree
    BY DEF ComparatorsAgree
  <2> DEFINE table == subject.table  p == candidate  q == subject.golden
  <2>1. /\ subject \in Subjects /\ p \in Candidates
        /\ frame \in Execute(p, table) /\ base \in Execute(q, table)
    BY DEF FramesInv, Judged
  <2>2. p \in Query /\ q \in Query /\ IsTable(table)
    BY <2>1, JudgesAssumption
  <2>3. p.fault = "none" /\ q.fault = "none"
    BY <2>1, FrameFault
  <2> HIDE DEF table, p, q
  <2>4. ASSUME frame.listed = base.listed, Plain(frame), Plain(base),
               CompareDataframes(frame, base)
        PROVE  /\ \E f \in Execute(p, table) : SameFrame(base, f)
               /\ IsEquivalent(Summary(base), Summary(frame))
    <3>1. \E h \in Execute(p, table) : h.rows = base.rows /\ h.listed = base.listed
      BY <2>1, <2>2, <2>3, <2>4, MatchIsSame
    <3>2. \E f \in Execute(p, table) : SameFrame(base, f)
      BY <3>1, EqualIsSame
    <3>3. IsEquivalent(Summary(base), Summary(frame))
      BY <2>1, <2>2, <2>3, <2>4, MatchIsEquivalent
    <3> QED
      BY <3>2, <3>3
  <2>5. ASSUME Plain(frame), Plain(base), BelowTen(frame), BelowTen(base),
               NEW f \in Execute(p, table), SameFrame(base, f)
        PROVE  CompareDataframes(frame, base)
    BY <2>1, <2>2, <2>3, <2>5, SameIsMatch
  <2>6. /\ Check("Active/Inactive Status Contrast", "PASS") \in AuditFixture(table)
        /\ q.shape = "rows" /\ q.active /\ p.shape = "rows" /\ ~p.active
        => /\ ~SameFrame(base, frame) /\ ~CompareDataframes(frame, base)
           /\ ~IsEquivalent(Summary(base), Summary(frame))
    BY <2>1, <2>2, <2>3, LostFilterIsSeen
  <2> QED
    BY <2>4, <2>5, <2>6 DEF ComparatorsAgree, table, p, q
<1> QED
  BY <1>1, FramesInvariant, PTL

-----------------------------------------------------------------------------
(* The judges.                                                             *)

\* What the script drops as equivalent matches in the gym, if the numbers are
\* plain and below ten.
LEMMA DroppedMatches ==
  ASSUME JudgementInv, FramesInv, Judged, caught = Untouched, frame.fault = "none",
         base.fault = "none", \A f \in {frame, base} : Plain(f) /\ BelowTen(f)
  PROVE  class \in {"CONTRACT_COMPLIANT_RESULT_MATCH", "CONTRACT_VIOLATION_RESULT_MATCH",
                    "EXECUTION_ERROR"}
<1> DEFINE table == subject.table  p == candidate  q == subject.golden
<1>1. /\ subject \in Subjects /\ p \in Candidates
      /\ frame \in Execute(p, table) /\ base \in Execute(q, table)
  BY DEF FramesInv, Judged
<1>2. p \in Query /\ q \in Query /\ IsTable(table)
  BY <1>1, JudgesAssumption
<1>3. p.fault = "none" /\ q.fault = "none"
  BY <1>1, FrameFault
<1>4. SameFrame(base, frame)
  BY <1>3 DEF JudgementInv, Judged, LeftOut
<1> HIDE DEF table, p, q
<1>5. CompareDataframes(frame, base)
  BY <1>1, <1>2, <1>3, <1>4, SameIsMatch
<1>6. \E fixture \in BOOLEAN :
        class = Classification(candidate, frame, base, subject.contract, fixture)
  BY DEF JudgementInv
<1> QED
  BY <1>5, <1>6 DEF Classification

\* The judges, three programs with code of their own, do not contradict each
\* other: for every fixture, suite, contract and candidate.
THEOREM JudgesConsistent == Spec => []JudgesAgree
<1>1. JudgementInv /\ FramesInv => JudgesAgree
  BY TiersInOrder, CaughtNotAccepted, MatchNotCaught, DroppedMatches, RejectedIsError
     DEF JudgesAgree
<1> QED
  BY <1>1, JudgementInvariant, FramesInvariant, PTL
=============================================================================
