--------------------------- MODULE Firewall_proofs ---------------------------
(***************************************************************************)
(* Proofs about Firewall, for every set of contracts, queries, directories *)
(* and bounds, and for every policy; and about ReplayPipeline, which       *)
(* composes it with the replay worker, for every outcome of the benchmark  *)
(* and with or without the gateway's SQL.                                  *)
(***************************************************************************)
EXTENDS ReplayPipeline, TLAPS, SequenceTheorems, FiniteSetTheorems

\* Loading a directory gives a registry.
LEMMA LoadType ==
  ASSUME NEW d \in Dirs, NEW reg \in LoadContracts(d)
  PROVE  reg \in [Metrics -> Entry \cup {None}]
BY DEF LoadContracts

\* The labels of a registry are pairs of metrics and entries.
LEMMA LabelsOfType ==
  ASSUME NEW reg \in [Metrics -> Entry \cup {None}]
  PROVE  /\ LabelsOf(reg) \subseteq Metrics \X Entry
         /\ \A m \in Metrics : reg[m] # None => <<m, reg[m]>> \in LabelsOf(reg)
BY DEF LabelsOf

\* What counting a decision does to the counters.
LEMMA CountType ==
  ASSUME counters \in Counters, NEW d \in Decisions, NEW n \in Nat
  PROVE  /\ Count(d, n) \in Counters
         /\ Count(d, n).requests = counters.requests + 1
         /\ Count(d, n).blocked = counters.blocked + IF ExecutionAllowed(d) THEN 0 ELSE 1
         /\ \A e \in Decisions :
              Count(d, n).decisions[e] =
                counters.decisions[e] + IF e = d THEN 1 ELSE 0
BY DEF Count, Counters

\* The policy answers with a decision, and allows just what has no violation.
LEMMA PolicyType ==
  ASSUME NEW n \in Nat
  PROVE  /\ Policy(Severities(n)) \in Decisions
         /\ ExecutionAllowed(Policy(Severities(n))) <=> n = 0
BY DEF Policy, Severities, Decisions, ExecutionAllowed

\* Initially everything has its type.
LEMMA InitType == Init => TypeOK
<1> SUFFICES ASSUME Init PROVE TypeOK
  OBVIOUS
<1>1. contracts \in [Metrics -> Entry \cup {None}]
  BY LoadType DEF Init
<1>2. labels \subseteq Metrics \X Entry
  BY <1>1, LabelsOfType DEF Init
<1>3. counters \in Counters
  BY DEF Init, NoCounts, Counters
<1>4. boot \in 1 .. MaxBoots
  BY FirewallAssumption DEF Init
<1> QED
  BY <1>1, <1>2, <1>3, <1>4 DEF Init, TypeOK

\* The trace of a decided request, and the log it is added to.
LEMMA TraceType ==
  ASSUME TypeOK, NEW m \in Metrics, NEW sql \in Sqls, NEW answered \in BOOLEAN,
         Decide(m, sql, answered)
  PROVE  LET n == Violations[contracts[m].contract][sql]
             d == Policy(Severities(n))
             t == TraceOf(m, sql, n, d)
         IN  /\ n \in Nat /\ d \in Decisions /\ t \in Trace
             /\ contracts[m] \in Entry
             /\ t.trace_id = next_id /\ t.metric_id = m
             /\ t.contract_version = contracts[m].version
             /\ t.decision = d /\ t.violation_count = n
             /\ audit_log' = Append(audit_log, t)
             /\ shipped' = shipped \/ shipped' = shipped \cup {t}
             /\ counters' = IF answered THEN Count(d, n) ELSE CountRequest
<1> DEFINE n == Violations[contracts[m].contract][sql]
           d == Policy(Severities(n))
           t == TraceOf(m, sql, n, d)
<1>1. contracts[m] \in Entry
  BY DEF TypeOK, Decide, Registered
<1>2. n \in Nat
  BY <1>1, FirewallAssumption DEF Entry
<1>3. d \in Decisions
  BY <1>2, PolicyType
<1>4. Hash[boot][sql] \in Int
  BY FirewallAssumption DEF TypeOK
<1>5. /\ audit_log' = Append(audit_log, t)
      /\ shipped' = shipped \/ shipped' = shipped \cup {t}
      /\ counters' = IF answered THEN Count(d, n) ELSE CountRequest
  BY DEF Decide
<1> HIDE DEF n, d
<1>6. t = [trace_id |-> next_id, metric_id |-> m,
           contract_version |-> contracts[m].version,
           sql_hash |-> Hash[boot][sql], decision |-> d, violation_count |-> n]
  BY DEF TraceOf
<1>7. t \in Trace
  BY <1>1, <1>2, <1>3, <1>4, <1>6 DEF TypeOK, Trace, Entry
<1>8. /\ t.trace_id = next_id /\ t.metric_id = m
      /\ t.contract_version = contracts[m].version
      /\ t.decision = d /\ t.violation_count = n
  BY <1>6
<1> HIDE DEF t
<1> QED
  BY <1>1, <1>2, <1>3, <1>5, <1>7, <1>8 DEF n, d, t

\* Either way of ending a decided request is one.
LEMMA Decides ==
  ASSUME NEW m, NEW sql \in Sqls, EvaluateDecides(m, sql) \/ EvaluateUnanswered(m, sql)
  PROVE  /\ m \in Metrics
         /\ \E answered \in BOOLEAN :
              /\ Decide(m, sql, answered)
              /\ answered <=> contracts[m].version \notin NotText
BY DEF EvaluateDecides, EvaluateUnanswered, Registered

\* No step leaves the types.
LEMMA NextType == TypeOK /\ [Next]_fwVars => TypeOK'
<1> SUFFICES ASSUME TypeOK, [Next]_fwVars PROVE TypeOK'
  OBVIOUS
<1> USE DEF TypeOK
<1>1. ASSUME NEW m \in Metrics \cup {Unregistered}, NEW sql \in Sqls,
             EvaluateDeniesEarly(m, sql)
      PROVE  TypeOK'
  <2>1. counters' \in Counters
    BY <1>1, CountType DEF EvaluateDeniesEarly, Decisions
  <2>2. last' \in [metric : Metrics \cup {Unregistered}, sql : Sqls,
                   decision : Decisions, trace_id : Nat,
                   under : Contracts \cup {None}, answered : BOOLEAN]
    BY <1>1 DEF EvaluateDeniesEarly, Decisions
  <2>3. kept' \subseteq Receipt
    BY <1>1 DEF EvaluateDeniesEarly, Receipt
  <2> QED
    BY <1>1, <2>1, <2>2, <2>3 DEF EvaluateDeniesEarly
<1>2. ASSUME NEW m \in Metrics \cup {Unregistered}, NEW sql \in Sqls,
             EvaluateRaises(m, sql)
      PROVE  TypeOK'
  <2>1. counters' \in Counters
    BY <1>2 DEF EvaluateRaises, CountRequest, Counters
  <2> QED
    BY <1>2, <2>1 DEF EvaluateRaises
<1>3. ASSUME NEW m \in Metrics, NEW sql \in Sqls, NEW answered \in BOOLEAN,
             Decide(m, sql, answered)
      PROVE  TypeOK'
  <2> DEFINE n == Violations[contracts[m].contract][sql]
             d == Policy(Severities(n))
             t == TraceOf(m, sql, n, d)
  <2>1. /\ n \in Nat /\ d \in Decisions /\ t \in Trace
        /\ contracts[m] \in Entry
        /\ audit_log' = Append(audit_log, t)
        /\ shipped' = shipped \/ shipped' = shipped \cup {t}
        /\ counters' = IF answered THEN Count(d, n) ELSE CountRequest
    BY <1>3, TraceType
  <2>2. last' = [metric |-> m, sql |-> sql, decision |-> d, trace_id |-> next_id,
                 under |-> contracts[m].contract, answered |-> answered]
    BY <1>3 DEF Decide
  <2> HIDE DEF n, d, t
  <2>3. audit_log' \in Seq(Trace) /\ shipped' \subseteq Trace
    BY <2>1, AppendProperties
  <2>4. counters' \in Counters
    <3>1. Count(d, n) \in Counters
      BY <2>1, CountType
    <3>2. CountRequest \in Counters
      BY DEF CountRequest, Counters
    <3> QED
      BY <2>1, <3>1, <3>2
  <2>5. last' \in [metric : Metrics \cup {Unregistered}, sql : Sqls,
                   decision : Decisions, trace_id : Nat,
                   under : Contracts \cup {None}, answered : BOOLEAN]
    BY <2>1, <2>2 DEF Entry
  <2>6. kept' \subseteq Receipt
    BY <1>3 DEF Decide, Receipt
  <2>7. /\ UNCHANGED <<dir, contracts, boot, early, failed, registers, labels>>
        /\ next_id' = next_id + 1
    BY <1>3 DEF Decide
  <2> QED
    BY <2>3, <2>4, <2>5, <2>6, <2>7
<1>4. ASSUME NEW m \in Metrics, NEW c \in Contracts, NEW v \in Versions,
             Register(m, c, v)
      PROVE  TypeOK'
  <2>1. [contract |-> c, version |-> v] \in Entry
    BY DEF Entry
  <2> QED
    BY <1>4, <2>1 DEF Register, Replaced
<1>5. CASE Restart
  <2>1. contracts' \in [Metrics -> Entry \cup {None}]
    BY <1>5, LoadType DEF Restart
  <2>2. labels' \subseteq Metrics \X Entry
    BY <1>5, <2>1, LabelsOfType DEF Restart
  <2>3. counters' \in Counters
    BY <1>5 DEF Restart, NoCounts, Counters
  <2>4. boot' \in 1 .. MaxBoots
    BY <1>5, FirewallAssumption DEF Restart
  <2> QED
    BY <1>5, <2>1, <2>2, <2>3, <2>4 DEF Restart
<1>6. ASSUME NEW d \in Dirs, Deploy(d) PROVE TypeOK'
  BY <1>6 DEF Deploy
<1>7. CASE UNCHANGED fwVars
  BY <1>7 DEF fwVars
<1> QED
  <2>1. ASSUME NEW m, NEW sql \in Sqls,
               EvaluateDecides(m, sql) \/ EvaluateUnanswered(m, sql)
        PROVE  TypeOK'
    <3>1. m \in Metrics /\ \E answered \in BOOLEAN : Decide(m, sql, answered)
      BY <2>1, Decides
    <3> QED
      BY <1>3, <3>1
  <2> HIDE DEF TypeOK
  <2> QED
    BY <1>1, <1>2, <1>4, <1>5, <1>6, <1>7, <2>1 DEF Next, Evaluate

(* The firewall's state and the ghosts keep their types.                   *)
THEOREM TypeCorrect == Spec => []TypeOK
<1>1. Init => TypeOK
  BY InitType
<1>2. TypeOK /\ [Next]_fwVars => TypeOK'
  BY NextType
<1> QED
  BY <1>1, <1>2, PTL DEF Spec
-----------------------------------------------------------------------------
(* The counters and the log.                                               *)

\* An empty log has no traces.
LEMMA TracesEmpty ==
  ASSUME audit_log = <<>>
  PROVE  /\ \A d \in Decisions : Answered(d) = 0
         /\ Unanswered = 0
<1>1. ASSUME NEW ds, NEW vs PROVE Traces(ds, vs) = 0
  <2>1. {i \in DOMAIN audit_log : /\ audit_log[i].decision \in ds
                                 /\ audit_log[i].contract_version \in vs} = {}
    OBVIOUS
  <2> QED
    BY <2>1, FS_EmptySet DEF Traces
<1> QED
  BY <1>1 DEF Answered, Unanswered

\* Nothing is counted and nothing logged.
LEMMA NothingCounted ==
  audit_log = <<>> /\ counters = NoCounts /\ early = 0 /\ failed = 0
    => CountersBalance
BY TracesEmpty DEF CountersBalance, Decided, NoCounts, Decisions

\* Counting traces is counting: a natural number.
LEMMA TracesType ==
  ASSUME audit_log \in Seq(Trace), NEW ds, NEW vs
  PROVE  Traces(ds, vs) \in Nat
<1> DEFINE A == {i \in DOMAIN audit_log : /\ audit_log[i].decision \in ds
                                         /\ audit_log[i].contract_version \in vs}
<1>1. Len(audit_log) \in Nat /\ DOMAIN audit_log = 1 .. Len(audit_log)
  BY LenProperties
<1>2. IsFiniteSet(1 .. Len(audit_log))
  BY <1>1, FS_Interval
<1>3. A \in SUBSET (1 .. Len(audit_log))
  BY <1>1
<1>4. IsFiniteSet(A)
  BY <1>2, <1>3, FS_Subset
<1>5. Cardinality(A) \in Nat
  BY <1>4, FS_CardinalityType
<1> QED
  BY <1>5 DEF Traces

\* A trace at the end of the log adds one to those like it.
LEMMA TracesAppend ==
  ASSUME audit_log \in Seq(Trace), NEW t \in Trace,
         audit_log' = Append(audit_log, t), NEW ds, NEW vs
  PROVE  Traces(ds, vs)' = Traces(ds, vs)
           + IF t.decision \in ds /\ t.contract_version \in vs THEN 1 ELSE 0
<1> DEFINE n == Len(audit_log)
           A == {i \in DOMAIN audit_log : /\ audit_log[i].decision \in ds
                                         /\ audit_log[i].contract_version \in vs}
           B == {i \in DOMAIN audit_log' : /\ audit_log'[i].decision \in ds
                                          /\ audit_log'[i].contract_version \in vs}
<1>1. n \in Nat /\ DOMAIN audit_log = 1 .. n /\ DOMAIN audit_log' = 1 .. n + 1
  BY LenProperties, AppendProperties
<1>2. audit_log'[n + 1] = t /\ \A i \in 1 .. n : audit_log'[i] = audit_log[i]
  BY AppendProperties
<1>3. IsFiniteSet(A)
  <2>1. IsFiniteSet(1 .. n) /\ A \in SUBSET (1 .. n)
    BY <1>1, FS_Interval
  <2> QED
    BY <2>1, FS_Subset
<1>4. B = IF t.decision \in ds /\ t.contract_version \in vs THEN A \cup {n + 1} ELSE A
  BY <1>1, <1>2
<1>5. n + 1 \notin A
  BY <1>1
<1>6. Traces(ds, vs) = Cardinality(A) /\ Traces(ds, vs)' = Cardinality(B)
  BY DEF Traces
<1> HIDE DEF A, B
<1>7. Cardinality(A \cup {n + 1}) = Cardinality(A) + 1
  BY <1>3, <1>5, FS_AddElement
<1>8. Traces(ds, vs) \in Nat
  BY TracesType
<1>9. CASE t.decision \in ds /\ t.contract_version \in vs
  BY <1>4, <1>6, <1>7, <1>9
<1>10. CASE ~(t.decision \in ds /\ t.contract_version \in vs)
  BY <1>4, <1>6, <1>8, <1>10
<1> QED
  BY <1>9, <1>10

\* What counting one decision does to their sum and to what is blocked.
LEMMA CountDecided ==
  ASSUME counters \in Counters, NEW d \in Decisions, NEW n \in Nat,
         counters' = Count(d, n),
         counters.blocked = counters.decisions["REQUIRE_REVIEW"]
                            + counters.decisions["DENY"]
  PROVE  /\ Decided \in Nat
         /\ Decided' = Decided + 1
         /\ counters'.requests = counters.requests + 1
         /\ counters'.blocked = counters'.decisions["REQUIRE_REVIEW"]
                                + counters'.decisions["DENY"]
         /\ \A e \in Decisions : counters'.decisions[e] =
              counters.decisions[e] + IF e = d THEN 1 ELSE 0
<1>1. /\ counters'.requests = counters.requests + 1
      /\ counters'.blocked = counters.blocked + IF ExecutionAllowed(d) THEN 0 ELSE 1
      /\ \A e \in Decisions : counters'.decisions[e] =
           counters.decisions[e] + IF e = d THEN 1 ELSE 0
  BY CountType
<1>2. \A e \in Decisions : counters.decisions[e] \in Nat
  BY DEF Counters
<1> DEFINE a == counters.decisions["ALLOW"]  a1 == counters'.decisions["ALLOW"]
           u == counters.decisions["AUDIT"]  u1 == counters'.decisions["AUDIT"]
           r == counters.decisions["REQUIRE_REVIEW"]
           r1 == counters'.decisions["REQUIRE_REVIEW"]
           y == counters.decisions["DENY"]   y1 == counters'.decisions["DENY"]
<1>3. a \in Nat /\ u \in Nat /\ r \in Nat /\ y \in Nat
  BY <1>2 DEF Decisions
<1>4. /\ a1 = a + IF d = "ALLOW" THEN 1 ELSE 0
      /\ u1 = u + IF d = "AUDIT" THEN 1 ELSE 0
      /\ r1 = r + IF d = "REQUIRE_REVIEW" THEN 1 ELSE 0
      /\ y1 = y + IF d = "DENY" THEN 1 ELSE 0
  BY <1>1 DEF Decisions
<1>5. Decided = a + u + r + y /\ Decided' = a1 + u1 + r1 + y1
  BY DEF Decided
<1>6. counters'.blocked = r + y + IF ExecutionAllowed(d) THEN 0 ELSE 1
  BY <1>1
<1> HIDE DEF a, u, r, y, a1, u1, r1, y1
<1>7. d = "ALLOW" \/ d = "AUDIT" \/ d = "REQUIRE_REVIEW" \/ d = "DENY"
  BY DEF Decisions
<1>8. Decided \in Nat /\ Decided' = Decided + 1
  BY <1>3, <1>4, <1>5, <1>7
<1>9. counters'.blocked = r1 + y1
  BY <1>3, <1>4, <1>6, <1>7 DEF ExecutionAllowed
<1> QED
  BY <1>1, <1>8, <1>9 DEF r1, y1

\* Every step keeps counters and log in balance.
LEMMA NextBalance == TypeOK /\ CountersBalance /\ [Next]_fwVars => CountersBalance'
<1> SUFFICES ASSUME TypeOK, CountersBalance, [Next]_fwVars PROVE CountersBalance'
  OBVIOUS
<1>0. /\ counters \in Counters /\ audit_log \in Seq(Trace)
      /\ early \in Nat /\ failed \in Nat
      /\ counters.requests \in Nat /\ counters.blocked \in Nat
      /\ Decided \in Nat
  <2>1. \A d \in Decisions : counters.decisions[d] \in Nat
    BY DEF TypeOK, Counters
  <2>2. /\ counters.decisions["ALLOW"] \in Nat /\ counters.decisions["AUDIT"] \in Nat
        /\ counters.decisions["REQUIRE_REVIEW"] \in Nat
        /\ counters.decisions["DENY"] \in Nat
    BY <2>1 DEF Decisions
  <2>3. Decided \in Nat
    BY <2>2 DEF Decided
  <2> QED
    BY <2>3 DEF TypeOK, Counters
<1>1. /\ counters.requests = Decided + Unanswered + failed
      /\ counters.blocked = counters.decisions["REQUIRE_REVIEW"]
                            + counters.decisions["DENY"]
      /\ \A d \in Decisions :
           counters.decisions[d] = Answered(d) + IF d = "DENY" THEN early ELSE 0
  BY DEF CountersBalance
<1>2. Unanswered \in Nat /\ \A d \in Decisions : Answered(d) \in Nat
  BY <1>0, TracesType DEF Unanswered, Answered
<1>3. ASSUME NEW m, NEW sql, EvaluateDeniesEarly(m, sql) PROVE CountersBalance'
  <2>1. /\ counters' = Count("DENY", 0) /\ early' = early + 1 /\ failed' = failed
        /\ audit_log' = audit_log /\ "DENY" \in Decisions
    BY <1>3 DEF EvaluateDeniesEarly, Decisions
  <2>2. /\ Decided' = Decided + 1
        /\ counters'.requests = counters.requests + 1
        /\ counters'.blocked = counters'.decisions["REQUIRE_REVIEW"]
                               + counters'.decisions["DENY"]
        /\ \A e \in Decisions : counters'.decisions[e] =
             counters.decisions[e] + IF e = "DENY" THEN 1 ELSE 0
    BY <1>0, <1>1, <2>1, CountDecided
  <2>3. Unanswered' = Unanswered /\ \A e \in Decisions : Answered(e)' = Answered(e)
    BY <2>1 DEF Unanswered, Answered, Traces
  <2>4. \A e \in Decisions :
          counters'.decisions[e] = Answered(e)' + IF e = "DENY" THEN early' ELSE 0
    BY <1>0, <1>1, <1>2, <2>1, <2>2, <2>3
  <2>5. counters'.requests = Decided' + Unanswered' + failed'
    BY <1>0, <1>1, <1>2, <2>1, <2>2, <2>3
  <2> QED
    BY <2>2, <2>4, <2>5 DEF CountersBalance
<1>4. ASSUME NEW m, NEW sql, EvaluateRaises(m, sql) PROVE CountersBalance'
  <2>1. /\ counters'.requests = counters.requests + 1
        /\ counters'.blocked = counters.blocked
        /\ counters'.decisions = counters.decisions
        /\ early' = early /\ failed' = failed + 1 /\ audit_log' = audit_log
    BY <1>4 DEF EvaluateRaises, CountRequest
  <2>2. /\ Decided' = Decided /\ Unanswered' = Unanswered
        /\ \A d \in Decisions : Answered(d)' = Answered(d)
    BY <2>1 DEF Unanswered, Answered, Traces, Decided
  <2>3. counters'.requests = Decided' + Unanswered' + failed'
    BY <1>0, <1>1, <1>2, <2>1, <2>2
  <2> QED
    BY <1>1, <2>1, <2>2, <2>3 DEF CountersBalance
<1>5. ASSUME NEW m \in Metrics, NEW sql \in Sqls, NEW answered \in BOOLEAN,
             Decide(m, sql, answered),
             answered <=> contracts[m].version \notin NotText
      PROVE  CountersBalance'
  <2> DEFINE n == Violations[contracts[m].contract][sql]
             d == Policy(Severities(n))
             t == TraceOf(m, sql, n, d)
  <2>1. /\ n \in Nat /\ d \in Decisions /\ t \in Trace
        /\ t.contract_version = contracts[m].version /\ t.decision = d
        /\ audit_log' = Append(audit_log, t)
        /\ counters' = IF answered THEN Count(d, n) ELSE CountRequest
    BY <1>5, TraceType
  <2>2. early' = early /\ failed' = failed
    BY <1>5 DEF Decide
  <2> HIDE DEF n, d, t
  <2>3. t.contract_version \in Versions /\ t.decision \in Decisions
    BY <2>1 DEF Trace
  <2>4. Unanswered' = Unanswered + IF answered THEN 0 ELSE 1
    BY <1>0, <1>5, <2>1, <2>3, TracesAppend DEF Unanswered
  <2>5. \A e \in Decisions :
          Answered(e)' = Answered(e) + IF answered /\ e = d THEN 1 ELSE 0
    <3> SUFFICES ASSUME NEW e \in Decisions
                 PROVE  Answered(e)' = Answered(e) + IF answered /\ e = d THEN 1 ELSE 0
      OBVIOUS
    <3>1. Traces({e}, Versions \ NotText)' = Traces({e}, Versions \ NotText)
            + IF t.decision \in {e} /\ t.contract_version \in Versions \ NotText
              THEN 1 ELSE 0
      BY <1>0, <2>1, TracesAppend
    <3>2. (t.decision \in {e} /\ t.contract_version \in Versions \ NotText)
            <=> (answered /\ e = d)
      BY <1>5, <2>1, <2>3
    <3> QED
      BY <3>1, <3>2 DEF Answered
  <2>6. CASE answered
    <3>1. /\ Decided' = Decided + 1
          /\ counters'.requests = counters.requests + 1
          /\ counters'.blocked = counters'.decisions["REQUIRE_REVIEW"]
                                 + counters'.decisions["DENY"]
          /\ \A e \in Decisions : counters'.decisions[e] =
               counters.decisions[e] + IF e = d THEN 1 ELSE 0
      BY <1>0, <1>1, <2>1, <2>6, CountDecided
    <3>2. \A e \in Decisions :
            counters'.decisions[e] = Answered(e)' + IF e = "DENY" THEN early' ELSE 0
      BY <1>0, <1>1, <1>2, <2>2, <2>5, <2>6, <3>1
    <3>3. counters'.requests = Decided' + Unanswered' + failed'
      BY <1>0, <1>1, <1>2, <2>2, <2>4, <2>6, <3>1
    <3> QED
      BY <3>1, <3>2, <3>3 DEF CountersBalance
  <2>7. CASE ~answered
    <3>1. /\ counters'.requests = counters.requests + 1
          /\ counters'.blocked = counters.blocked
          /\ counters'.decisions = counters.decisions
      BY <2>1, <2>7 DEF CountRequest
    <3>2. Decided' = Decided
      BY <3>1 DEF Decided
    <3>3. \A e \in Decisions : Answered(e)' = Answered(e)
      BY <1>2, <2>5, <2>7
    <3>4. counters'.requests = Decided' + Unanswered' + failed'
      BY <1>0, <1>1, <1>2, <2>2, <2>4, <2>7, <3>1, <3>2
    <3> QED
      BY <1>1, <2>2, <3>1, <3>3, <3>4 DEF CountersBalance
  <2> QED
    BY <2>6, <2>7
<1>6. CASE Restart
  <2>1. /\ audit_log' = <<>> /\ counters' = NoCounts /\ early' = 0 /\ failed' = 0
    BY <1>6 DEF Restart
  <2>2. (audit_log = <<>> /\ counters = NoCounts /\ early = 0 /\ failed = 0
           => CountersBalance)'
    BY NothingCounted, PTL
  <2> QED
    BY <2>1, <2>2
<1>7. CASE UNCHANGED <<audit_log, counters, early, failed>>
  <2>1. /\ Decided' = Decided /\ Unanswered' = Unanswered
        /\ \A d \in Decisions : Answered(d)' = Answered(d)
    BY <1>7 DEF Unanswered, Answered, Traces, Decided
  <2> QED
    BY <1>1, <1>7, <2>1 DEF CountersBalance
<1> QED
  BY <1>3, <1>4, <1>5, <1>6, <1>7, Decides DEF Next, Evaluate, Register, Deploy, fwVars

(* Counters and log differ by early denials and unanswered traces only.    *)
THEOREM Balanced == Spec => []CountersBalance
<1>1. Init => CountersBalance
  BY NothingCounted DEF Init
<1> QED
  BY <1>1, TypeCorrect, NextBalance, PTL DEF Spec
-----------------------------------------------------------------------------
(* What traces say.                                                        *)

\* Every step keeps what is in the registry among the labels and every trace
\* whose answer was kept explained by one of them.
LEMMA NextLabels == TypeOK /\ LabelsInv /\ [Next]_fwVars => LabelsInv'
<1> SUFFICES ASSUME TypeOK, LabelsInv, [Next]_fwVars PROVE LabelsInv'
  OBVIOUS
<1>0. /\ next_id \in Nat /\ shipped \subseteq Trace /\ kept \subseteq Receipt
      /\ \A t \in shipped : t.trace_id \in Nat /\ t.trace_id < next_id
      /\ \A k \in kept : k.trace_id \in Nat /\ k.trace_id < next_id
  BY DEF TypeOK, LabelsInv, Trace, Receipt
<1>1. \A m \in Metrics : contracts[m] # None => <<m, contracts[m]>> \in labels
  BY DEF LabelsInv
<1>2. \A t \in shipped, k \in kept : k.trace_id = t.trace_id =>
        \E p \in labels :
          /\ p[1] = t.metric_id /\ p[2].version = t.contract_version
          /\ Reproduces(p[2].contract, k.sql, t)
  BY DEF LabelsInv
<1>3. ASSUME NEW m, NEW sql \in Sqls, EvaluateDeniesEarly(m, sql)
      PROVE  LabelsInv'
  <2> DEFINE k0 == [trace_id |-> next_id, sql |-> sql]
  <2>1. /\ UNCHANGED <<contracts, labels, shipped>>
        /\ kept' = kept \cup {k0} /\ next_id' = next_id + 1
    BY <1>3 DEF EvaluateDeniesEarly
  <2>2. k0.trace_id = next_id
    OBVIOUS
  <2> HIDE DEF k0
  <2>3. /\ \A t \in shipped : t.trace_id < next_id'
        /\ \A k \in kept' : k.trace_id < next_id'
    BY <1>0, <2>1, <2>2
  <2>4. \A t \in shipped, k \in kept' : k.trace_id = t.trace_id => k \in kept
    BY <1>0, <2>1, <2>2
  <2> QED
    BY <1>1, <1>2, <2>1, <2>3, <2>4 DEF LabelsInv, Reproduces
<1>4. ASSUME NEW m, NEW sql, EvaluateRaises(m, sql) PROVE LabelsInv'
  <2>1. /\ UNCHANGED <<contracts, labels, shipped, kept>> /\ next_id' = next_id + 1
    BY <1>4 DEF EvaluateRaises
  <2>2. /\ \A t \in shipped : t.trace_id < next_id'
        /\ \A k \in kept : k.trace_id < next_id'
    BY <1>0, <2>1
  <2> QED
    BY <1>1, <1>2, <2>1, <2>2 DEF LabelsInv, Reproduces
<1>5. ASSUME NEW m \in Metrics, NEW sql \in Sqls, NEW answered \in BOOLEAN,
             Decide(m, sql, answered)
      PROVE  LabelsInv'
  <2> DEFINE n == Violations[contracts[m].contract][sql]
             d == Policy(Severities(n))
             t0 == TraceOf(m, sql, n, d)
             k0 == [trace_id |-> next_id, sql |-> sql]
             p0 == <<m, contracts[m]>>
  <2>1. /\ n \in Nat /\ t0.trace_id = next_id /\ t0.metric_id = m
        /\ t0.contract_version = contracts[m].version
        /\ t0.decision = d /\ t0.violation_count = n
        /\ shipped' = shipped \/ shipped' = shipped \cup {t0}
    BY <1>5, TraceType
  <2>2. /\ UNCHANGED <<contracts, labels>> /\ next_id' = next_id + 1
        /\ kept' = kept \/ kept' = kept \cup {k0}
    BY <1>5 DEF Decide
  <2>3. p0 \in labels /\ p0[1] = m /\ p0[2] = contracts[m]
    BY <1>1, <1>5 DEF Decide, Registered
  <2>4. Reproduces(contracts[m].contract, sql, t0)
    BY <2>1, PolicyType DEF Reproduces
  <2>5. k0.trace_id = next_id /\ k0.sql = sql
    OBVIOUS
  <2> HIDE DEF n, d, t0, k0, p0
  <2>6. /\ \A t \in shipped' : t.trace_id < next_id'
        /\ \A k \in kept' : k.trace_id < next_id'
    BY <1>0, <2>1, <2>2, <2>5
  <2>7. ASSUME NEW t \in shipped', NEW k \in kept', k.trace_id = t.trace_id
        PROVE  \E p \in labels :
                 /\ p[1] = t.metric_id /\ p[2].version = t.contract_version
                 /\ Reproduces(p[2].contract, k.sql, t)
    <3>1. CASE t \in shipped /\ k \in kept
      BY <1>2, <2>7, <3>1
    <3>2. CASE t = t0 /\ k = k0
      BY <2>1, <2>3, <2>4, <2>5, <3>2
    <3>3. ~(t \in shipped /\ k = k0) /\ ~(t = t0 /\ k \in kept)
      BY <1>0, <2>1, <2>5, <2>7
    <3> QED
      BY <2>1, <2>2, <3>1, <3>2, <3>3
  <2> QED
    BY <1>1, <2>2, <2>6, <2>7 DEF LabelsInv, Reproduces
<1>6. ASSUME NEW m \in Metrics, NEW c \in Contracts, NEW v \in Versions,
             Register(m, c, v)
      PROVE  LabelsInv'
  <2>1. /\ contracts' = [contracts EXCEPT ![m] = [contract |-> c, version |-> v]]
        /\ labels' = labels \cup {<<m, [contract |-> c, version |-> v]>>}
        /\ UNCHANGED <<shipped, kept, next_id>>
    BY <1>6 DEF Register, Replaced
  <2>2. \A k \in Metrics : contracts'[k] # None => <<k, contracts'[k]>> \in labels'
    BY <1>1, <2>1 DEF TypeOK
  <2> QED
    BY <1>0, <1>2, <2>1, <2>2 DEF LabelsInv, Reproduces
<1>7. CASE Restart
  <2>1. /\ contracts' \in [Metrics -> Entry \cup {None}]
        /\ labels' = labels \cup LabelsOf(contracts')
        /\ UNCHANGED <<shipped, kept, next_id>>
    BY <1>7, LoadType DEF Restart, TypeOK
  <2>2. \A k \in Metrics : contracts'[k] # None => <<k, contracts'[k]>> \in labels'
    BY <2>1, LabelsOfType
  <2> QED
    BY <1>0, <1>2, <2>1, <2>2 DEF LabelsInv, Reproduces
<1>8. CASE UNCHANGED <<contracts, labels, shipped, kept, next_id>>
  BY <1>8 DEF LabelsInv, Reproduces
<1> QED
  BY <1>3, <1>4, <1>5, <1>6, <1>7, <1>8, Decides DEF Next, Evaluate, Deploy, fwVars

\* If labels are not reused, the entry that explains a trace is the only one
\* the trace can mean.
LEMMA Reproduce == LabelsInv => TracesAreReproducible
<1> SUFFICES ASSUME LabelsInv, LabelsPin, NEW t \in shipped, NEW k \in kept,
                    NEW p \in labels, k.trace_id = t.trace_id,
                    p[1] = t.metric_id, p[2].version = t.contract_version
             PROVE  Reproduces(p[2].contract, k.sql, t)
  BY DEF TracesAreReproducible
<1>1. PICK q \in labels : /\ q[1] = t.metric_id
                          /\ q[2].version = t.contract_version
                          /\ Reproduces(q[2].contract, k.sql, t)
  BY DEF LabelsInv
<1>2. p = q
  BY <1>1 DEF LabelsPin
<1> QED
  BY <1>1, <1>2

(* A shipped trace and the query of the client that got its id can be      *)
(* re-checked for as long as version labels are not reused, however often  *)
(* contracts were replaced and the process restarted since.                *)
THEOREM Reproducible == Spec => []TracesAreReproducible
<1>1. Init => LabelsInv
  <2> SUFFICES ASSUME Init PROVE LabelsInv
    OBVIOUS
  <2>1. contracts \in [Metrics -> Entry \cup {None}]
    BY InitType DEF TypeOK
  <2> QED
    BY <2>1, LabelsOfType DEF Init, LabelsInv
<1> QED
  BY <1>1, TypeCorrect, NextLabels, Reproduce, PTL DEF Spec

-----------------------------------------------------------------------------
(* The replay pipeline.                                                    *)

\* To the firewall every step of the pipeline is a step of its own or none.
LEMMA PipelineStep == [PNext]_vars => [Next]_fwVars
BY DEF PNext, vars, FirewallStep, GatewayLogs, TornLine, Cycle, StartCycle,
       ReadLine, EndCycle, KillCycle, Next

\* A step of the firewall itself leaves the file and the cycle alone; if it
\* changes the directory, that is remembered.
LEMMA FirewallStepFrame ==
  ASSUME FirewallStep
  PROVE  /\ UNCHANGED <<log, pos, results, reported, crashes>>
         /\ \/ UNCHANGED <<dir, moved, deploys>>
            \/ moved' = TRUE /\ deploys' = deploys + 1
<1>1. ASSUME NEW m, NEW sql,
             \/ EvaluateDeniesEarly(m, sql) \/ EvaluateRaises(m, sql)
             \/ EvaluateDecides(m, sql) \/ EvaluateUnanswered(m, sql)
      PROVE  dir' = dir
  <2>1. EvaluateDeniesEarly(m, sql) => dir' = dir
    BY DEF EvaluateDeniesEarly
  <2>2. EvaluateRaises(m, sql) => dir' = dir
    BY DEF EvaluateRaises
  <2>3. EvaluateDecides(m, sql) \/ EvaluateUnanswered(m, sql) => dir' = dir
    BY DEF EvaluateDecides, EvaluateUnanswered, Decide
  <2> QED
    BY <1>1, <2>1, <2>2, <2>3
<1>2. Evaluate => dir' = dir
  BY <1>1 DEF Evaluate
<1>3. Restart => dir' = dir
  BY DEF Restart
<1>4. ASSUME NEW m, NEW c, NEW v, Register(m, c, v)
      PROVE  dir' = dir
  BY <1>4 DEF Register
<1> QED
  BY <1>2, <1>3, <1>4 DEF FirewallStep, rpVars

\* The line the gateway adds to the file.
LEMMA GatewayLine ==
  ASSUME TypeOK, GatewayLogs
  PROVE  LET line == [trace_id |-> last.trace_id, metric_id |-> last.metric,
                      decision |-> last.decision,
                      sql |-> IF SendsSql THEN last.sql ELSE None,
                      query |-> last.sql, under |-> last.under]
         IN  /\ last # None
             /\ line \in Line /\ line.sql \in {None, line.query}
             /\ log' = Append(log, line)
<1> DEFINE sql == IF SendsSql THEN last.sql ELSE None
           line == [trace_id |-> last.trace_id, metric_id |-> last.metric,
                    decision |-> last.decision, sql |-> sql,
                    query |-> last.sql, under |-> last.under]
<1>1. last # None /\ log' = Append(log, line)
  BY DEF GatewayLogs
<1>2. last \in [metric : Metrics \cup {Unregistered}, sql : Sqls,
                decision : Decisions, trace_id : Nat, under : Contracts \cup {None}, answered : BOOLEAN]
  BY <1>1 DEF TypeOK
<1>3. sql \in Sqls \cup {None} /\ sql \in {None, last.sql}
  BY <1>2
<1> HIDE DEF sql
<1>4. line \in Line
  BY <1>2, <1>3 DEF Line
<1>5. line.sql = sql /\ line.query = last.sql
  OBVIOUS
<1> QED
  BY <1>1, <1>3, <1>4, <1>5 DEF sql

\* A line at the end of the file leaves the others and their numbers.
LEMMA FileGrows ==
  ASSUME log \in Seq(Line \cup {None}), NEW line \in Line \cup {None},
         log' = Append(log, line)
  PROVE  /\ log' \in Seq(Line \cup {None})
         /\ Len(log) \in Nat /\ Len(log)' = Len(log) + 1
         /\ DOMAIN log = 1 .. Len(log) /\ DOMAIN log' = 1 .. Len(log) + 1
         /\ \A i \in DOMAIN log : log'[i] = log[i]
         /\ log'[Len(log) + 1] = line
BY AppendProperties, LenProperties

\* The files a worker may take are files of the directory with that stem.
LEMMA FoundFiles ==
  ASSUME TypeOK, NEW m
  PROVE  \A f \in FindContractPath(m) : f \in File /\ f.stem = m
<1>1. dir \subseteq File
  BY FirewallAssumption DEF TypeOK
<1> QED
  BY <1>1 DEF FindContractPath

\* A cycle reports on allowed lines with SQL and a contract only; what it
\* then adds is a result about the line it reads.
LEMMA ReportOnLine ==
  ASSUME TypeOK, PTypeOK, LogInv, pos \in 1 .. Len(log),
         NEW file \in FindContractPath(log[pos].metric_id),
         log[pos] # None, ProcessTrace(log[pos], file) = "report"
  PROVE  /\ WasAllowed(log[pos])
         /\ ResultOf(log[pos], file) \in Result
         /\ ResultOf(log[pos], file).line = pos
         /\ ResultOf(log[pos], file).sql = log[pos].sql
<1> DEFINE line == log[pos]
<1>1. log \in Seq(Line \cup {None}) /\ pos \in DOMAIN log
  BY LenProperties DEF PTypeOK
<1>2. line \in Line
  BY <1>1, ElementOfSeq
<1>3. WasAllowed(line) /\ line.sql # None /\ file # None /\ file.metric # None
  BY DEF ProcessTrace
<1>4. line.sql \in Sqls /\ line.trace_id \in Nat
  BY <1>2, <1>3 DEF Line
<1>5. line.metric_id \in Metrics
  BY <1>1, <1>3 DEF LogInv, AllowedIsClean
<1>6. file.contract \in Contracts
  BY FoundFiles DEF File
<1>7. Replay[file.contract][line.sql].survivors \subseteq MutationTypes
  BY <1>4, <1>6, PipelineAssumption DEF Report
<1> DEFINE survivors == Replay[file.contract][line.sql].survivors
           pr == GeneratePrBody(SuggestInvariants(survivors))
<1>8. pr \subseteq SuggestionKeys
  BY DEF GeneratePrBody, SuggestInvariants
<1> HIDE DEF survivors, pr
<1>9. pos \in Nat
  BY <1>1
<1>10. ResultOf(line, file) =
         [line |-> pos, trace_id |-> line.trace_id, metric_id |-> line.metric_id,
          sql |-> line.sql, against |-> file.contract, survivors |-> survivors,
          pr |-> pr]
  BY DEF ResultOf, survivors, pr
<1>11. ResultOf(line, file) \in Result
  BY <1>4, <1>5, <1>6, <1>7, <1>8, <1>9, <1>10 DEF Result, survivors
<1> QED
  BY <1>3, <1>10, <1>11

\* What reading a line comes to: a result about it, which adds one to the
\* results, or none, and then the line is none that the worker could report
\* on whichever file it takes.
LEMMA ReadLineOutcome ==
  ASSUME TypeOK, PTypeOK, LogInv, ReadLine
  PROVE  /\ pos \in 1 .. Len(log) /\ pos' = pos + 1
         /\ UNCHANGED <<fwVars, log, moved, crashes, deploys>>
         /\ \/ ~Replayable(pos) /\ UNCHANGED <<results, reported>>
            \/ \E x \in Result :
                 /\ x.line = pos /\ x.sql = log[pos].sql /\ WasAllowed(log[pos])
                 /\ results' = Append(results, x)
                 /\ reported' = reported \cup {pos}
<1> DEFINE files == IF log[pos] = None THEN {} ELSE FindContractPath(log[pos].metric_id)
<1>1. /\ pos \in 1 .. Len(log) /\ pos' = pos + 1
      /\ UNCHANGED <<fwVars, log, moved, crashes, deploys>>
  BY DEF ReadLine
<1>2. PICK file \in IF files = {} THEN {None} ELSE files :
        IF ProcessTrace(log[pos], file) = "report"
        THEN /\ results' = Collected(log[pos], file)
             /\ reported' = reported \cup {pos}
        ELSE UNCHANGED <<results, reported>>
  BY DEF ReadLine
<1>3. CASE ProcessTrace(log[pos], file) = "report"
  <2>1. log[pos] # None /\ file # None
    BY <1>3 DEF ProcessTrace
  <2>2. file \in FindContractPath(log[pos].metric_id)
    BY <1>2, <2>1
  <2>3. /\ WasAllowed(log[pos])
        /\ ResultOf(log[pos], file) \in Result
        /\ ResultOf(log[pos], file).line = pos
        /\ ResultOf(log[pos], file).sql = log[pos].sql
    BY <1>1, <1>3, <2>1, <2>2, ReportOnLine
  <2>4. /\ results' = Append(results, ResultOf(log[pos], file))
        /\ reported' = reported \cup {pos}
    BY <1>2, <1>3 DEF Collected
  <2> QED
    BY <1>1, <2>3, <2>4
<1>4. CASE ProcessTrace(log[pos], file) # "report"
  <2>1. ~Replayable(pos)
    <3> SUFFICES ASSUME Replayable(pos) PROVE FALSE
      OBVIOUS
    <3>1. files = FindContractPath(log[pos].metric_id) /\ files # {}
      BY DEF Replayable, WasAllowed
    <3> QED
      BY <1>2, <1>4, <3>1 DEF Replayable
  <2> QED
    BY <1>1, <1>2, <1>4, <2>1
<1> QED
  BY <1>3, <1>4
-----------------------------------------------------------------------------
(* Types.                                                                  *)

\* Initially everything has its type.
LEMMA PInitType == PInit => PTypeOK
<1> SUFFICES ASSUME PInit PROVE PTypeOK
  OBVIOUS
<1>1. <<>> \in Seq(Line \cup {None}) /\ <<>> \in Seq(Result) /\ Len(<<>>) = 0
  OBVIOUS
<1>2. moved \in BOOLEAN /\ log = <<>> /\ pos = 0 /\ results = <<>>
      /\ reported = {} /\ crashes = 0 /\ deploys = 0
  BY DEF PInit
<1>3. pos \in 0 .. Len(log) + 1 /\ reported \subseteq DOMAIN log
  BY <1>1, <1>2
<1> QED
  BY <1>1, <1>2, <1>3 DEF PTypeOK

\* No step leaves the types.
LEMMA PNextType ==
  ASSUME TypeOK, PTypeOK, LogInv, [PNext]_vars
  PROVE  PTypeOK'
<1>1. /\ log \in Seq(Line \cup {None}) /\ Len(log) \in Nat
      /\ DOMAIN log = 1 .. Len(log) /\ pos \in 0 .. Len(log) + 1
      /\ results \in Seq(Result) /\ moved \in BOOLEAN
      /\ reported \subseteq DOMAIN log /\ crashes \in Nat /\ deploys \in Nat
  BY LenProperties DEF PTypeOK
<1>2. ASSUME NEW line \in Line \cup {None}, log' = Append(log, line),
             UNCHANGED <<fwVars, pos, results, moved, reported, crashes, deploys>>
      PROVE  PTypeOK'
  <2>1. /\ log' \in Seq(Line \cup {None}) /\ Len(log)' = Len(log) + 1
        /\ DOMAIN log' = 1 .. Len(log) + 1
    BY <1>1, <1>2, FileGrows
  <2>2. pos' \in 0 .. Len(log)' + 1 /\ reported' \subseteq DOMAIN log'
    BY <1>1, <1>2, <2>1
  <2> QED
    BY <1>1, <1>2, <2>1, <2>2 DEF PTypeOK
<1>3. CASE FirewallStep
  <2>1. UNCHANGED <<log, pos, results, reported, crashes>>
    BY <1>3, FirewallStepFrame
  <2>2. moved' \in BOOLEAN
    BY <1>1, <1>3, FirewallStepFrame
  <2>3. deploys' = deploys \/ deploys' = deploys + 1
    BY <1>3, FirewallStepFrame
  <2>4. deploys' \in Nat
    BY <1>1, <2>3
  <2> QED
    BY <1>1, <2>1, <2>2, <2>4 DEF PTypeOK
<1>4. CASE GatewayLogs
  <2>1. UNCHANGED <<fwVars, pos, results, moved, reported, crashes, deploys>>
    BY <1>4 DEF GatewayLogs
  <2> QED
    BY <1>2, <1>4, <2>1, GatewayLine
<1>5. CASE TornLine
  BY <1>2, <1>5 DEF TornLine
<1>6. CASE StartCycle
  <2>1. results' \in Seq(Result)
    BY <1>6 DEF StartCycle
  <2>2. pos' \in 0 .. Len(log)' + 1
    BY <1>1, <1>6 DEF StartCycle
  <2>3. moved' \in BOOLEAN
    BY <1>6 DEF StartCycle
  <2> QED
    BY <1>1, <1>6, <2>1, <2>2, <2>3 DEF StartCycle, PTypeOK
<1>7. CASE ReadLine
  <2>1. results' \in Seq(Result) /\ reported' \subseteq DOMAIN log
    <3>1. CASE UNCHANGED <<results, reported>>
      BY <1>1, <3>1
    <3>2. CASE \E x \in Result : /\ results' = Append(results, x)
                                /\ reported' = reported \cup {pos}
      <4>1. pos \in DOMAIN log
        BY <1>1, <1>7, ReadLineOutcome
      <4>2. PICK x \in Result : /\ results' = Append(results, x)
                               /\ reported' = reported \cup {pos}
        BY <3>2
      <4> QED
        BY <1>1, <4>1, <4>2, AppendProperties
    <3> QED
      BY <1>7, <3>1, <3>2, ReadLineOutcome
  <2>2. /\ pos \in 1 .. Len(log) /\ pos' = pos + 1
        /\ UNCHANGED <<log, moved, crashes, deploys>>
    BY <1>7, ReadLineOutcome
  <2>3. pos' \in 0 .. Len(log) + 1
    BY <1>1, <2>2
  <2> QED
    BY <1>1, <2>1, <2>2, <2>3 DEF PTypeOK
<1>8. CASE EndCycle
  BY <1>1, <1>8 DEF EndCycle, PTypeOK
<1>9. CASE KillCycle
  <2>1. results' \in Seq(Result)
    BY <1>9 DEF KillCycle
  <2> QED
    BY <1>1, <1>9, <2>1 DEF KillCycle, PTypeOK
<1>10. CASE UNCHANGED vars
  BY <1>1, <1>10 DEF vars, rpVars, PTypeOK
<1> QED
  BY <1>3, <1>4, <1>5, <1>6, <1>7, <1>8, <1>9, <1>10 DEF PNext, Cycle
-----------------------------------------------------------------------------
(* What the lines of the file stand for.                                   *)

\* The firewall allows nothing a contract finds a violation in.
LEMMA AnswersAreClean == TypeOK /\ LastInv /\ [Next]_fwVars => LastInv'
<1> SUFFICES ASSUME TypeOK, LastInv, [Next]_fwVars PROVE LastInv'
  OBVIOUS
<1>1. ASSUME NEW m, NEW sql, EvaluateDeniesEarly(m, sql) PROVE LastInv'
  BY <1>1 DEF EvaluateDeniesEarly, LastInv, ExecutionAllowed
<1>2. ASSUME NEW m, NEW sql, EvaluateRaises(m, sql) PROVE LastInv'
  BY <1>2 DEF EvaluateRaises, LastInv
<1>3. ASSUME NEW m \in Metrics, NEW sql \in Sqls, NEW answered \in BOOLEAN,
             Decide(m, sql, answered)
      PROVE  LastInv'
  <2> DEFINE n == Violations[contracts[m].contract][sql]
             d == Policy(Severities(n))
  <2>1. n \in Nat /\ contracts[m].contract \in Contracts
    BY <1>3, TraceType DEF Entry
  <2>2. last' = [metric |-> m, sql |-> sql, decision |-> d, trace_id |-> next_id,
                 under |-> contracts[m].contract, answered |-> answered]
    BY <1>3 DEF Decide
  <2>3. ExecutionAllowed(d) => n = 0
    BY <2>1, PolicyType
  <2> QED
    BY <2>1, <2>2, <2>3 DEF LastInv, AllowedIsClean
<1>4. CASE Restart
  BY <1>4 DEF Restart, LastInv
<1>5. CASE UNCHANGED last
  BY <1>5 DEF LastInv
<1> QED
  BY <1>1, <1>2, <1>3, <1>4, <1>5, Decides
     DEF Next, Evaluate, Register, Deploy, fwVars

\* So every line the worker takes for allowed reports such an answer.
LEMMA LinesAreClean ==
  ASSUME TypeOK, PTypeOK, LastInv, LogInv, [PNext]_vars
  PROVE  LogInv'
<1>1. log \in Seq(Line \cup {None}) /\ DOMAIN log = 1 .. Len(log) /\ Len(log) \in Nat
  BY LenProperties DEF PTypeOK
<1>2. ASSUME NEW line \in Line \cup {None}, log' = Append(log, line),
             WasAllowed(line) =>
               /\ AllowedIsClean(line.metric_id, line.under, line.query)
               /\ line.sql \in {None, line.query}
      PROVE  LogInv'
  <2>1. /\ DOMAIN log' = 1 .. Len(log) + 1
        /\ \A i \in DOMAIN log : log'[i] = log[i]
        /\ log'[Len(log) + 1] = line
    BY <1>1, <1>2, FileGrows
  <2> SUFFICES ASSUME NEW i \in DOMAIN log', WasAllowed(log'[i])
               PROVE  /\ AllowedIsClean(log'[i].metric_id, log'[i].under, log'[i].query)
                      /\ log'[i].sql \in {None, log'[i].query}
    BY DEF LogInv, AllowedIsClean, WasAllowed
  <2>2. CASE i \in DOMAIN log
    BY <2>1, <2>2 DEF LogInv
  <2>3. CASE i = Len(log) + 1
    BY <1>2, <2>1, <2>3
  <2> QED
    BY <1>1, <2>1, <2>2, <2>3
<1>3. CASE GatewayLogs
  <2> DEFINE line == [trace_id |-> last.trace_id, metric_id |-> last.metric,
                      decision |-> last.decision,
                      sql |-> IF SendsSql THEN last.sql ELSE None,
                      query |-> last.sql, under |-> last.under]
  <2>1. last # None /\ line \in Line /\ line.sql \in {None, line.query}
        /\ log' = Append(log, line)
    BY <1>3, GatewayLine
  <2>2. WasAllowed(line) => AllowedIsClean(line.metric_id, line.under, line.query)
    BY <2>1 DEF WasAllowed, LastInv, ExecutionAllowed
  <2> HIDE DEF line
  <2> QED
    BY <1>2, <2>1, <2>2
<1>4. CASE TornLine
  BY <1>2, <1>4 DEF TornLine, WasAllowed
<1>5. CASE UNCHANGED log
  BY <1>5 DEF LogInv
<1> QED
  BY <1>3, <1>4, <1>5, FirewallStepFrame
     DEF PNext, Cycle, StartCycle, ReadLine, EndCycle, KillCycle, vars, rpVars

\* Types and lines, which every further invariant builds on.
BaseInv == TypeOK /\ PTypeOK /\ LastInv /\ LogInv

\* They hold in every state of the pipeline.
LEMMA BaseInvariant == PSpec => []BaseInv
<1>1. PInit => BaseInv
  BY InitType, PInitType DEF PInit, Init, BaseInv, LastInv, LogInv
<1>2. BaseInv /\ [PNext]_vars => BaseInv'
  BY PipelineStep, NextType, PNextType, AnswersAreClean, LinesAreClean DEF BaseInv
<1> QED
  BY <1>1, <1>2, PTL DEF PSpec

(* The pipeline's state keeps its types: the cycle's position stays in the *)
(* file while the file grows, and what is reported is a line of it.        *)
THEOREM PipelineTypeCorrect == PSpec => []PTypeOK
<1>1. BaseInv => PTypeOK
  BY DEF BaseInv
<1> QED
  BY <1>1, BaseInvariant, PTL
-----------------------------------------------------------------------------
(* What a cycle has reported.                                              *)

\* As long as neither the line nor the directory changes, what the worker can
\* report on stays the same.
LEMMA ReplayableFrame ==
  ASSUME NEW i \in DOMAIN log, log'[i] = log[i], UNCHANGED dir, Replayable(i)'
  PROVE  Replayable(i)
BY DEF Replayable, FindContractPath

CycleInv == ResultsInv /\ CycleCoversLog

\* A file that grows changes nothing for the cycle that reads it.
LEMMA CycleWhileFileGrows ==
  ASSUME BaseInv, CycleInv, NEW line \in Line \cup {None},
         log' = Append(log, line), UNCHANGED <<dir, pos, results, moved>>
  PROVE  CycleInv'
<1>1. /\ log \in Seq(Line \cup {None}) /\ Len(log) \in Nat
      /\ DOMAIN log = 1 .. Len(log) /\ pos \in 0 .. Len(log) + 1
  BY LenProperties DEF BaseInv, PTypeOK
<1>2. /\ DOMAIN log' = 1 .. Len(log) + 1
      /\ \A i \in DOMAIN log : log'[i] = log[i]
  BY <1>1, FileGrows
<1>3. ResultsInv'
  <2> SUFFICES ASSUME NEW r \in DOMAIN results
               PROVE  /\ results[r].line \in DOMAIN log'
                      /\ pos > 0 => results[r].line < pos
                      /\ WasAllowed(log'[results[r].line])
                      /\ results[r].sql = log'[results[r].line].sql
    BY DEF ResultsInv, WasAllowed
  <2>1. /\ results[r].line \in DOMAIN log
        /\ pos > 0 => results[r].line < pos
        /\ WasAllowed(log[results[r].line])
        /\ results[r].sql = log[results[r].line].sql
    BY DEF CycleInv, ResultsInv
  <2> QED
    BY <1>1, <1>2, <2>1
<1>4. \A i, j \in DOMAIN results : i < j => results[i].line < results[j].line
  BY DEF CycleInv, CycleCoversLog
<1>5. ASSUME pos > 0, ~moved, NEW i \in 1 .. pos - 1, Replayable(i)'
      PROVE  \E r \in DOMAIN results : results[r].line = i
  <2>1. i \in DOMAIN log
    BY <1>1
  <2>2. Replayable(i)
    BY <1>2, <1>5, <2>1, ReplayableFrame
  <2> QED
    BY <1>5, <2>2 DEF CycleInv, CycleCoversLog
<1>6. CycleCoversLog'
  BY <1>4, <1>5 DEF CycleCoversLog
<1> QED
  BY <1>3, <1>6 DEF CycleInv

\* Reading a line keeps the results in the order of the file and complete up
\* to the line that is read next.
LEMMA CycleReads ==
  ASSUME BaseInv, CycleInv, ReadLine
  PROVE  CycleInv'
<1>1. /\ log \in Seq(Line \cup {None}) /\ Len(log) \in Nat
      /\ DOMAIN log = 1 .. Len(log) /\ results \in Seq(Result)
  BY LenProperties DEF BaseInv, PTypeOK
<1>2. /\ pos \in 1 .. Len(log) /\ pos' = pos + 1
      /\ UNCHANGED <<dir, log, moved>>
  BY ReadLineOutcome DEF BaseInv, fwVars
<1>3. /\ \A i, j \in DOMAIN results : i < j => results[i].line < results[j].line
      /\ ~moved => \A i \in 1 .. pos - 1 :
           Replayable(i) => \E r \in DOMAIN results : results[r].line = i
  BY <1>2 DEF CycleInv, CycleCoversLog
<1>4. \A r \in DOMAIN results :
        /\ results[r].line \in DOMAIN log /\ results[r].line < pos
        /\ WasAllowed(log[results[r].line])
        /\ results[r].sql = log[results[r].line].sql
  BY <1>2 DEF CycleInv, ResultsInv
<1>5. \A i \in DOMAIN log : Replayable(i)' => Replayable(i)
  BY <1>2, ReplayableFrame
<1>6. CASE ~Replayable(pos) /\ UNCHANGED <<results, reported>>
  <2>1. ResultsInv'
    BY <1>1, <1>2, <1>4, <1>6 DEF ResultsInv, WasAllowed
  <2>2. ASSUME ~moved, NEW i \in 1 .. pos, Replayable(i)'
        PROVE  \E r \in DOMAIN results : results[r].line = i
    <3>1. Replayable(i)
      BY <1>1, <1>2, <1>5, <2>2
    <3>2. i \in 1 .. pos - 1
      BY <1>2, <1>6, <3>1
    <3> QED
      BY <1>3, <2>2, <3>1, <3>2
  <2>3. pos' - 1 = pos
    BY <1>2
  <2>4. CycleCoversLog'
    BY <1>2, <1>3, <1>6, <2>2, <2>3 DEF CycleCoversLog
  <2> QED
    BY <2>1, <2>4 DEF CycleInv
<1>7. ASSUME NEW x \in Result, x.line = pos, x.sql = log[pos].sql,
             WasAllowed(log[pos]), results' = Append(results, x)
      PROVE  CycleInv'
  <2> DEFINE n == Len(results)
  <2>1. /\ n \in Nat /\ DOMAIN results = 1 .. n /\ DOMAIN results' = 1 .. n + 1
        /\ \A r \in 1 .. n : results'[r] = results[r]
        /\ results'[n + 1] = x
    BY <1>1, <1>7, LenProperties, AppendProperties
  <2> HIDE DEF n
  <2>2. ASSUME NEW r \in 1 .. n + 1
        PROVE  /\ results'[r].line \in DOMAIN log /\ results'[r].line < pos + 1
               /\ WasAllowed(log[results'[r].line])
               /\ results'[r].sql = log[results'[r].line].sql
    <3>1. CASE r \in 1 .. n
      <4>1. r \in DOMAIN results /\ results'[r] = results[r]
        BY <2>1, <3>1
      <4>2. /\ results[r].line \in DOMAIN log /\ results[r].line < pos
            /\ WasAllowed(log[results[r].line])
            /\ results[r].sql = log[results[r].line].sql
        BY <1>4, <4>1
      <4>3. results[r].line < pos + 1
        <5> DEFINE l == results[r].line
        <5>1. l \in Int /\ l < pos /\ pos \in Int
          BY <1>1, <1>2, <4>2
        <5> HIDE DEF l
        <5>2. l < pos + 1
          BY <5>1
        <5> QED
          BY <5>2 DEF l
      <4> QED
        BY <4>1, <4>2, <4>3
    <3>2. CASE r = n + 1
      BY <1>1, <1>2, <1>7, <2>1, <3>2
    <3> QED
      BY <2>1, <3>1, <3>2
  <2>3. ResultsInv'
    BY <1>2, <2>1, <2>2 DEF ResultsInv, WasAllowed
  <2>4. ASSUME NEW i \in 1 .. n + 1, NEW j \in 1 .. n + 1, i < j
        PROVE  results'[i].line < results'[j].line
    <3>1. i \in 1 .. n
      BY <2>1, <2>4
    <3>2. CASE j \in 1 .. n
      BY <1>3, <2>1, <2>4, <3>1, <3>2
    <3>3. CASE j = n + 1
      BY <1>4, <1>7, <2>1, <3>1, <3>3
    <3> QED
      BY <2>1, <3>2, <3>3
  <2>5. ASSUME ~moved, NEW i \in 1 .. pos, Replayable(i)'
        PROVE  \E r \in 1 .. n + 1 : results'[r].line = i
    <3>1. CASE i = pos
      BY <1>7, <2>1, <3>1
    <3>2. CASE i \in 1 .. pos - 1
      <4>1. Replayable(i)
        BY <1>1, <1>2, <1>5, <2>5
      <4>2. PICK r \in 1 .. n : results[r].line = i
        BY <1>3, <2>1, <2>5, <3>2, <4>1
      <4> QED
        BY <2>1, <4>2
    <3> QED
      BY <1>2, <3>1, <3>2
  <2>6. pos' - 1 = pos
    BY <1>2
  <2>7. CycleCoversLog'
    BY <1>2, <2>1, <2>4, <2>5, <2>6 DEF CycleCoversLog
  <2> QED
    BY <2>3, <2>7 DEF CycleInv
<1> QED
  BY <1>6, <1>7, ReadLineOutcome DEF BaseInv

\* No step makes a cycle forget a line or report one twice.
LEMMA CycleStep == BaseInv /\ CycleInv /\ [PNext]_vars => CycleInv'
<1> SUFFICES ASSUME BaseInv, CycleInv, [PNext]_vars PROVE CycleInv'
  OBVIOUS
<1>1. CASE FirewallStep
  <2>1. UNCHANGED <<log, pos, results>>
    BY <1>1, FirewallStepFrame
  <2>2. ResultsInv'
    BY <2>1 DEF CycleInv, ResultsInv, WasAllowed
  <2>3. ASSUME pos > 0, ~moved', NEW i \in 1 .. pos - 1, Replayable(i)'
        PROVE  \E r \in DOMAIN results : results[r].line = i
    <3>1. UNCHANGED dir /\ ~moved
      <4>1. UNCHANGED <<dir, moved>>
        BY <1>1, <2>3, FirewallStepFrame, Zenon
      <4> QED
        BY <2>3, <4>1, Zenon
    <3>2. i \in DOMAIN log
      BY <2>1, LenProperties DEF BaseInv, PTypeOK
    <3>3. Replayable(i)
      BY <2>1, <2>3, <3>1, <3>2, ReplayableFrame
    <3> QED
      BY <2>3, <3>1, <3>3 DEF CycleInv, CycleCoversLog
  <2>4. \A i, j \in DOMAIN results : i < j => results[i].line < results[j].line
    BY DEF CycleInv, CycleCoversLog
  <2>5. CycleCoversLog'
    BY <2>1, <2>3, <2>4 DEF CycleCoversLog
  <2> QED
    BY <2>2, <2>5 DEF CycleInv
<1>2. CASE GatewayLogs
  <2>1. UNCHANGED <<dir, pos, results, moved>>
    BY <1>2 DEF GatewayLogs, fwVars
  <2> QED
    BY <1>2, <2>1, GatewayLine, CycleWhileFileGrows DEF BaseInv
<1>3. CASE TornLine
  BY <1>3, CycleWhileFileGrows DEF TornLine, fwVars
<1>4. CASE StartCycle
  BY <1>4 DEF StartCycle, CycleInv, ResultsInv, CycleCoversLog
<1>5. CASE ReadLine
  BY <1>5, CycleReads
<1>6. CASE EndCycle
  BY <1>6 DEF EndCycle, CycleInv, ResultsInv, CycleCoversLog, WasAllowed
<1>7. CASE KillCycle
  BY <1>7 DEF KillCycle, CycleInv, ResultsInv, CycleCoversLog
<1>8. CASE UNCHANGED vars
  BY <1>8 DEF vars, rpVars, fwVars, CycleInv, ResultsInv, CycleCoversLog,
              Replayable, FindContractPath, WasAllowed
<1> QED
  BY <1>1, <1>2, <1>3, <1>4, <1>5, <1>6, <1>7, <1>8 DEF PNext, Cycle

\* So it is in every state of the pipeline.
LEMMA CycleInvariant == PSpec => [](BaseInv /\ CycleInv)
<1>1. PInit => CycleInv
  BY DEF PInit, CycleInv, ResultsInv, CycleCoversLog
<1> QED
  BY <1>1, BaseInvariant, CycleStep, PTL DEF PSpec

(* Every line a running cycle has passed and could report on has its one   *)
(* result, though the file grows, lines raise and cycles are killed, for   *)
(* as long as nobody deploys another contract directory meanwhile.         *)
THEOREM CyclesAreComplete == PSpec => []CycleCoversLog
<1>1. CycleInv => CycleCoversLog
  BY DEF CycleInv
<1> QED
  BY <1>1, CycleInvariant, PTL

(* Whatever is drafted into a pull request as a silent survivor had been   *)
(* allowed by a contract that finds no violation in it, however often the  *)
(* registry and the directory changed between the answer and the cycle.    *)
THEOREM SurvivorsAllowed == PSpec => []SurvivorsWereAllowed
<1>1. BaseInv /\ CycleInv => SurvivorsWereAllowed
  <2> SUFFICES ASSUME BaseInv, CycleInv, NEW r \in DOMAIN results
               PROVE  LET line == log[results[r].line]
                      IN  /\ line.under # None
                          /\ Violations[line.under][results[r].sql] = 0
    BY DEF SurvivorsWereAllowed
  <2> DEFINE i == results[r].line
  <2>1. /\ i \in DOMAIN log /\ WasAllowed(log[i]) /\ results[r].sql = log[i].sql
    BY DEF CycleInv, ResultsInv
  <2>2. /\ AllowedIsClean(log[i].metric_id, log[i].under, log[i].query)
        /\ log[i].sql \in {None, log[i].query}
    BY <2>1 DEF BaseInv, LogInv
  <2>3. results[r].sql \in Sqls
    <3>1. results \in Seq(Result)
      BY DEF BaseInv, PTypeOK
    <3>2. results[r] \in Result
      BY <3>1, ElementOfSeq, LenProperties
    <3> QED
      BY <3>2 DEF Result
  <2>4. log[i].sql = log[i].query
    BY <2>1, <2>2, <2>3, PipelineAssumption
  <2> QED
    BY <2>1, <2>2, <2>4, PipelineAssumption DEF AllowedIsClean
<1> QED
  BY <1>1, CycleInvariant, PTL
=============================================================================
