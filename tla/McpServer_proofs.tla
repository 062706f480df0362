-------------------------- MODULE McpServer_proofs --------------------------
(***************************************************************************)
(* Proofs about McpServer for every registry, scope, set of texts and      *)
(* bound: the types, what the digests of the chain stand for, and from     *)
(* that what the two verification procedures guarantee, whatever other     *)
(* code does to the stored events.                                         *)
(***************************************************************************)
EXTENDS McpServer, TLAPS, SequenceTheorems, WellFoundedInduction
-----------------------------------------------------------------------------
(* Sequences.                                                              *)

\* Appending to a sequence keeps its prefixes.
LEMMA PrefixOfAppend ==
  ASSUME NEW S, NEW s \in Seq(S), NEW e \in S, NEW n \in 0 .. Len(s)
  PROVE  SubSeq(Append(s, e), 1, n) = SubSeq(s, 1, n)
<1> DEFINE t == Append(s, e)
<1>1. t \in Seq(S) /\ Len(t) = Len(s) + 1 /\ \A i \in 1 .. Len(s) : t[i] = s[i]
  BY AppendProperties
<1>2. /\ SubSeq(t, 1, n) \in Seq(S) /\ Len(SubSeq(t, 1, n)) = n
      /\ \A i \in 1 .. n : SubSeq(t, 1, n)[i] = t[i]
  BY <1>1, SubSeqProperties, LenProperties, ElementOfSeq
<1>3. /\ SubSeq(s, 1, n) \in Seq(S) /\ Len(SubSeq(s, 1, n)) = n
      /\ \A i \in 1 .. n : SubSeq(s, 1, n)[i] = s[i]
  BY SubSeqProperties, LenProperties, ElementOfSeq
<1>4. Len(s) \in Nat
  BY LenProperties
<1>5. \A i \in 1 .. n : SubSeq(t, 1, n)[i] = SubSeq(s, 1, n)[i]
  BY <1>1, <1>2, <1>3, <1>4
<1> QED
  BY <1>2, <1>3, <1>5, SeqEqual

\* A prefix is the next shorter one with one more element.
LEMMA PrefixStep ==
  ASSUME NEW S, NEW s \in Seq(S), NEW n \in 1 .. Len(s)
  PROVE  /\ SubSeq(s, 1, n - 1) \in Seq(S)
         /\ SubSeq(s, 1, n) = Append(SubSeq(s, 1, n - 1), s[n])
<1>1. Len(s) \in Nat /\ s[n] \in S
  BY LenProperties, ElementOfSeq
<1>2. SubSeq(s, 1, n - 1) \in Seq(S)
  BY <1>1, SubSeqProperties, ElementOfSeq
<1>3. SubSeq(s, 1, n) = SubSeq(s, 1, n - 1) \o <<s[n]>>
  BY <1>1, SubSeqRecursiveSecond
<1> QED
  BY <1>1, <1>2, <1>3, AppendIsConcat

\* A position from 1 to n where something goes wrong for the first time.
LEMMA First ==
  ASSUME NEW S \in SUBSET Nat, S # {}
  PROVE  \E n \in S : \A m \in S : n <= m
<1> DEFINE R == OpToRel(<, Nat)
<1>1. \A x, y \in Nat : x < y => <<x, y>> \in R
  BY DEF OpToRel
<1>2. IsWellFoundedOn(R, Nat)
  BY NatLessThanWellFounded
<1> HIDE DEF R
<1>3. PICK n \in S : \A m \in S : ~ (<<m, n>> \in R)
  BY <1>2, WFMin
<1>4. ASSUME NEW m \in S PROVE n <= m
  <2>1. ~(m < n)
    BY <1>1, <1>3, Zenon
  <2> QED
    BY <2>1
<1> QED
  BY <1>4

-----------------------------------------------------------------------------
(* Types.                                                                  *)

\* A tool returns a result or raises; only the five tools return, and only a
\* text is decided about.
LEMMA CallToolType ==
  ASSUME NEW name \in Tools \cup {"unknown_tool"}, NEW m \in MetricArgs,
         NEW text \in TextArgs
  PROVE  /\ CallTool(name, m, text) \in Result
         /\ CallTool(name, m, text).raises = "nothing" => name \in Tools
         /\ CallTool(name, m, text).decision # None => text \in Texts
<1>1. \A d \in Domains \cup {None}, sha \in Sha \cup {None},
         dec \in Decisions \cup {None} : Returns(d, sha, dec) \in Result
  BY DEF Returns, Result
<1>2. Raises("ValueError") \in Result /\ Raises("Exception") \in Result
  BY DEF Raises, Result
<1>3. \A k \in Metrics : LabelDomain(k) \in Domains
  BY ConstantsAssumption DEF LabelDomain
<1>4. ValidateSql(m, text) \in Result
  BY <1>1, <1>2, <1>3 DEF ValidateSql, Found, Sha, Decisions, TextArgs
<1>5. LookUp(m, TRUE) \in Result /\ LookUp(m, FALSE) \in Result
  BY <1>1, <1>2, <1>3 DEF LookUp, Found
<1>6. CallTool(name, m, text) \in Result
  BY <1>1, <1>2, <1>4, <1>5 DEF CallTool, ListMetrics, Tools
<1>7. name = "unknown_tool" => CallTool(name, m, text) = Raises("ValueError")
  BY DEF CallTool
<1>8. text \in {None, NotAString} => CallTool(name, m, text).decision = None
  <2>1. /\ ListMetrics(text).decision = None
        /\ LookUp(m, TRUE).decision = None /\ LookUp(m, FALSE).decision = None
    BY DEF ListMetrics, LookUp, Returns, Raises
  <2>2. text \in {None, NotAString} => ValidateSql(m, text).decision = None
    BY DEF ValidateSql, Raises
  <2> QED
    BY <2>1, <2>2 DEF CallTool, Raises, Tools
<1> QED
  BY <1>6, <1>7, <1>8 DEF Raises, TextArgs

\* Initially everything has its type.
LEMMA InitType == Init => TypeOK
BY DEF Init, TypeOK, NoCalls, Reply, Response, RpcCodes, MetricArgs

\* The digest the next event is chained on.
LEMMA LastHashType == TypeOK => LastHash \in Hash
<1> SUFFICES ASSUME TypeOK PROVE LastHash \in Hash
  OBVIOUS
<1>1. CASE audit_log = <<>>
  BY <1>1 DEF LastHash, GENESIS_HASH, Hash
<1>2. CASE audit_log # <<>>
  <2>1. audit_log \in Seq(Event) /\ Len(audit_log) \in 1 .. Len(audit_log)
    BY <1>2, EmptySeq DEF TypeOK
  <2>2. audit_log[Len(audit_log)] \in Event
    BY <2>1, ElementOfSeq
  <2> QED
    BY <1>2, <2>2 DEF LastHash, Event
<1> QED
  BY <1>1, <1>2

\* The bodies on the log.
LEMMA BodiesType ==
  ASSUME audit_log \in Seq(Event)
  PROVE  /\ Len(audit_log) \in Nat /\ DOMAIN audit_log = 1 .. Len(audit_log)
         /\ Bodies \in Seq(Body) /\ Len(Bodies) = Len(audit_log)
         /\ \A i \in 1 .. Len(audit_log) :
              /\ audit_log[i] \in Event /\ Bodies[i] = audit_log[i].body
<1>1. /\ Len(audit_log) \in Nat /\ DOMAIN audit_log = 1 .. Len(audit_log)
      /\ \A i \in 1 .. Len(audit_log) : audit_log[i] \in Event
  BY LenProperties, ElementOfSeq
<1>2. Bodies = [i \in 1 .. Len(audit_log) |-> audit_log[i].body]
  BY <1>1 DEF Bodies
<1>3. \A i \in 1 .. Len(audit_log) : audit_log[i].body \in Body
  BY <1>1 DEF Event
<1> QED
  BY <1>1, <1>2, <1>3

\* What an event chained on the last one looks like.
LEMMA ChainedType ==
  ASSUME TypeOK, NEW body \in Body
  PROVE  /\ Chained(body) \in Event
         /\ Chained(body) = [body |-> body, previous_event_hash |-> LastHash,
                             event_hash |-> Append(LastHash, body)]
<1>1. LastHash \in Hash
  BY LastHashType
<1>2. Append(LastHash, body) \in Hash
  BY <1>1, AppendProperties DEF Hash
<1>3. Chained(body) = [body |-> body, previous_event_hash |-> LastHash,
                       event_hash |-> Append(LastHash, body)]
  BY DEF Chained, ComputeHash
<1> QED
  BY <1>1, <1>2, <1>3 DEF Event

\* A tool that returns makes an event body.
LEMMA BodyOfCall ==
  ASSUME TypeOK, NEW name \in Tools \cup {"unknown_tool"}, NEW m \in MetricArgs,
         NEW text \in TextArgs, NEW caller \in Callers,
         CallTool(name, m, text).raises = "nothing"
  PROVE  NewBody(name, m, caller, CallTool(name, m, text)) \in Body
<1> DEFINE r == CallTool(name, m, text)
<1>1. r \in Result /\ name \in Tools
  BY CallToolType
<1>2. Len(audit_log) \in Nat
  BY LenProperties DEF TypeOK
<1> HIDE DEF r
<1> QED
  BY <1>1, <1>2 DEF NewBody, Body, Result, TypeOK, r

\* Recording an event keeps the types.
LEMMA RecordType ==
  ASSUME TypeOK, NEW body \in Body, Record(body),
         resp' \in Response, calls' \in [returned : Nat, answered : Nat, unwritten : Nat]
  PROVE  TypeOK'
<1> USE DEF TypeOK
<1>1. audit_log' \in Seq(Event) /\ recorded' \in Seq(Body)
  BY ChainedType, AppendProperties DEF Record
<1>2. noted' \subseteq [hash : Hash, over : Seq(Body)]
  <2> DEFINE n == [hash |-> Chained(body).event_hash, over |-> Append(Bodies, body)]
  <2>1. Chained(body).event_hash \in Hash
    BY ChainedType DEF Event
  <2>2. Append(Bodies, body) \in Seq(Body)
    BY BodiesType, AppendProperties
  <2>3. n \in [hash : Hash, over : Seq(Body)]
    BY <2>1, <2>2
  <2>4. noted' = noted \/ noted' = noted \cup {n}
    BY DEF Record
  <2> HIDE DEF n
  <2> QED
    BY <2>3, <2>4
<1> QED
  BY <1>1, <1>2 DEF Record

\* What other code leaves of the log is a log.
LEMMA TamperedLog ==
  ASSUME TypeOK, NEW i \in DOMAIN audit_log
  PROVE  /\ \A dec \in {"ALLOW", None} : [audit_log EXCEPT ![i].body.decision = dec] \in Seq(Event)
         /\ \A previous \in DigestsOnLog :
              /\ previous \in Hash
              /\ ComputeHash([audit_log[i] EXCEPT !.previous_event_hash = previous]) \in Hash
         /\ DigestsOnLog \subseteq Hash
         /\ \A previous, hash \in Hash :
              [audit_log EXCEPT ![i].previous_event_hash = previous,
                                ![i].event_hash = hash] \in Seq(Event)
         /\ RemoveAt(audit_log, i) \in Seq(Event)
<1> DEFINE n == Len(audit_log)
<1>1. /\ audit_log \in Seq(Event) /\ n \in Nat /\ i \in 1 .. n
      /\ \A j \in 1 .. n : audit_log[j] \in Event
  BY LenProperties, ElementOfSeq DEF TypeOK
<1>2. ASSUME NEW dec \in {"ALLOW", None}
      PROVE  [audit_log EXCEPT ![i].body.decision = dec] \in Seq(Event)
  <2>1. [audit_log[i] EXCEPT !.body.decision = dec] \in Event
    BY <1>1 DEF Event, Body, Decisions
  <2> QED
    BY <1>1, <2>1, ExceptSeq
<1>3. DigestsOnLog \subseteq Hash
  <2>1. GENESIS_HASH \in Hash
    BY EmptySeq DEF GENESIS_HASH, Hash
  <2>2. \A j \in DOMAIN audit_log : audit_log[j].event_hash \in Hash
    BY <1>1, LenProperties DEF Event
  <2> QED
    BY <2>1, <2>2 DEF DigestsOnLog
<1>4. ASSUME NEW previous \in Hash
      PROVE  ComputeHash([audit_log[i] EXCEPT !.previous_event_hash = previous]) \in Hash
  <2>1. audit_log[i].body \in Body
    BY <1>1 DEF Event
  <2>2. ComputeHash([audit_log[i] EXCEPT !.previous_event_hash = previous])
          = Append(previous, audit_log[i].body)
    BY <1>1 DEF ComputeHash, Event
  <2> QED
    BY <2>1, <2>2, AppendProperties DEF Hash
<1>5. ASSUME NEW previous \in Hash, NEW hash \in Hash
      PROVE  [audit_log EXCEPT ![i].previous_event_hash = previous,
                               ![i].event_hash = hash] \in Seq(Event)
  <2> DEFINE ev == [audit_log[i] EXCEPT !.previous_event_hash = previous,
                                        !.event_hash = hash]
  <2>1. ev \in Event
    BY <1>1 DEF Event
  <2>2. [audit_log EXCEPT ![i] = ev] \in Seq(Event)
    BY <1>1, <2>1, ExceptSeq
  <2>3. [audit_log EXCEPT ![i].previous_event_hash = previous,
                          ![i].event_hash = hash] = [audit_log EXCEPT ![i] = ev]
    BY <1>1
  <2> QED
    BY <2>2, <2>3
<1>6. RemoveAt(audit_log, i) \in Seq(Event)
  <2>1. SubSeq(audit_log, 1, i - 1) \in Seq(Event)
    BY <1>1, SubSeqProperties
  <2>2. SubSeq(audit_log, i + 1, n) \in Seq(Event)
    BY <1>1, SubSeqProperties
  <2> QED
    BY <2>1, <2>2, ConcatProperties DEF RemoveAt
<1> QED
  BY <1>2, <1>3, <1>4, <1>5, <1>6

\* Whatever other code does is to replace the log by another one.
LEMMA Tampering ==
  ASSUME TypeOK, NextAltering
  PROVE  \/ Next
         \/ \E log \in Seq(Event) : Tamper(log)
<1> SUFFICES ASSUME NEW i \in DOMAIN audit_log,
                    \/ \E dec \in {"ALLOW", None} : AlterEntry(i, dec)
                    \/ \E previous \in DigestsOnLog :
                         \E hash \in DigestsOnLog
                              \cup {ComputeHash([audit_log[i] EXCEPT
                                                  !.previous_event_hash = previous])} :
                           AlterDigests(i, previous, hash)
                    \/ RemoveEntry(i)
             PROVE  \E log \in Seq(Event) : Tamper(log)
  BY DEF NextAltering
<1>1. ASSUME NEW dec \in {"ALLOW", None}, AlterEntry(i, dec)
      PROVE  \E log \in Seq(Event) : Tamper(log)
  BY <1>1, TamperedLog DEF AlterEntry
<1>2. ASSUME NEW previous \in Hash, NEW hash \in Hash, AlterDigests(i, previous, hash)
      PROVE  \E log \in Seq(Event) : Tamper(log)
  BY <1>2, TamperedLog DEF AlterDigests
<1>3. CASE RemoveEntry(i)
  BY <1>3, TamperedLog DEF RemoveEntry
<1>4. /\ DigestsOnLog \subseteq Hash
      /\ \A previous \in DigestsOnLog :
           ComputeHash([audit_log[i] EXCEPT !.previous_event_hash = previous]) \in Hash
  BY TamperedLog
<1> QED
  BY <1>1, <1>2, <1>3, <1>4

\* How a call is counted.
LEMMA CallCounts ==
  ASSUME calls \in [returned : Nat, answered : Nat, unwritten : Nat],
         NEW a \in {0, 1}, NEW u \in {0, 1}
  PROVE  /\ Count(a, u) \in [returned : Nat, answered : Nat, unwritten : Nat]
         /\ Count(a, u).answered = calls.answered + a
         /\ Count(a, u).unwritten = calls.unwritten + u
BY DEF Count

\* No step leaves the types, tampering included.
LEMMA NextType == TypeOK /\ [NextAltering]_vars => TypeOK'
<1> SUFFICES ASSUME TypeOK, [NextAltering]_vars PROVE TypeOK'
  OBVIOUS
<1>1. ASSUME NEW req \in OtherRequests, AnswerOther(req) PROVE TypeOK'
  <2>1. PICK code \in Codes(req) : resp' = Reply(code)
    BY <1>1 DEF AnswerOther
  <2>2. code \in RpcCodes
    BY <2>1 DEF Codes, RpcCodes
  <2>3. resp' \in Response
    BY <2>1, <2>2 DEF Reply, Response, RpcCodes, MetricArgs
  <2> QED
    BY <1>1, <2>3 DEF AnswerOther, TypeOK
<1>2. \A code \in RpcCodes : Reply(code) \in Response
  BY DEF Reply, Response, MetricArgs
<1>3. ASSUME NEW name \in Tools \cup {"unknown_tool"}, NEW m \in MetricArgs,
             NEW text \in TextArgs, ToolRaises(name, m, text)
      PROVE  TypeOK'
  BY <1>2, <1>3 DEF ToolRaises, TypeOK, RpcCodes
<1>4. ASSUME NEW name \in Tools \cup {"unknown_tool"}, NEW m \in MetricArgs,
             NEW text \in TextArgs, AuditRejected(name, m, text)
      PROVE  TypeOK'
  <2>1. calls' \in [returned : Nat, answered : Nat, unwritten : Nat]
    BY <1>4, CallCounts DEF AuditRejected, TypeOK
  <2> QED
    BY <1>2, <1>4, <2>1 DEF AuditRejected, TypeOK, RpcCodes
<1>5. ASSUME NEW name \in Tools \cup {"unknown_tool"}, NEW m \in MetricArgs,
             NEW text \in TextArgs, NEW caller \in Callers,
             ToolAnswers(name, m, text, caller)
      PROVE  TypeOK'
  <2> DEFINE r == CallTool(name, m, text)
  <2>1. /\ r \in Result /\ (r.decision # None => text \in Texts)
        /\ NewBody(name, m, caller, r) \in Body
    BY <1>5, CallToolType, BodyOfCall DEF ToolAnswers
  <2>2. resp' \in Response
    BY <1>2, <1>5, <2>1 DEF ToolAnswers, Response, RpcCodes, Result
  <2>3. calls' \in [returned : Nat, answered : Nat, unwritten : Nat]
    BY <1>5, CallCounts DEF ToolAnswers, TypeOK
  <2> QED
    BY <1>5, <2>1, <2>2, <2>3, RecordType DEF ToolAnswers
<1>6. ASSUME NEW name \in Tools \cup {"unknown_tool"}, NEW m \in MetricArgs,
             NEW text \in TextArgs, NEW caller \in Callers,
             ResultNotWritten(name, m, text, caller)
      PROVE  TypeOK'
  <2>1. NewBody(name, m, caller, CallTool(name, m, text)) \in Body
    BY <1>6, BodyOfCall DEF ResultNotWritten
  <2>2. resp' \in Response
    BY <1>2, <1>6 DEF ResultNotWritten, RpcCodes
  <2>3. calls' \in [returned : Nat, answered : Nat, unwritten : Nat]
    BY <1>6, CallCounts DEF ResultNotWritten, TypeOK
  <2> QED
    BY <1>6, <2>1, <2>2, <2>3, RecordType DEF ResultNotWritten
<1>7. CASE CreateCheckpoint
  <2> DEFINE cp == [checkpoint_id |-> next_id, sequence_end |-> Len(audit_log),
                    last_event_hash |-> LastHash,
                    signature |-> Signature(secret, next_id, Len(audit_log),
                                            LastHash)]
  <2>1. cp \in Checkpoint
    BY LastHashType, LenProperties DEF Checkpoint, Signature, TypeOK
  <2>2. /\ checkpoints' = Append(checkpoints, cp)
        /\ held' \in {held, held \cup {[cp |-> cp, over |-> Bodies]}}
    BY <1>7 DEF CreateCheckpoint
  <2>3. checkpoints' \in Seq(Checkpoint)
    BY <2>1, <2>2, AppendProperties DEF TypeOK
  <2>4. held' \subseteq [cp : Checkpoint, over : Seq(Body)]
    BY <2>1, <2>2, BodiesType DEF TypeOK
  <2> QED
    BY <1>7, <2>3, <2>4 DEF CreateCheckpoint, TypeOK
<1>8. CASE Restart
  BY <1>2, <1>8, EmptySeq DEF Restart, NoCalls, TypeOK, RpcCodes
<1>9. ASSUME NEW log \in Seq(Event), Tamper(log)
      PROVE  TypeOK'
  BY <1>9 DEF Tamper, TypeOK
<1>10. CASE UNCHANGED vars
  BY <1>10 DEF vars, TypeOK
<1> QED
  BY <1>1, <1>3, <1>4, <1>5, <1>6, <1>7, <1>8, <1>9, <1>10, Tampering
     DEF Next, HandleRequest

(* The server's state and the ghosts keep their types, whatever is called  *)
(* and whatever other code does to the log.                                *)
THEOREM TypeCorrect == SpecAltering => []TypeOK
BY InitType, NextType, PTL DEF SpecAltering
-----------------------------------------------------------------------------
(* What the chain means.                                                   *)

Lens == 1 .. Len(audit_log)

\* Digests that verify stand for all that the log says up to them.
LEMMA VerifiedDigests ==
  ASSUME TypeOK, VerifyAuditChain
  PROVE  \A i \in Lens : audit_log[i].event_hash = SubSeq(Bodies, 1, i)
<1> DEFINE Wrong == {i \in Lens : audit_log[i].event_hash # SubSeq(Bodies, 1, i)}
           n == Len(audit_log)
<1>1. /\ n \in Nat /\ DOMAIN audit_log = 1 .. n
      /\ Bodies \in Seq(Body) /\ Len(Bodies) = n
      /\ \A i \in 1 .. n : /\ audit_log[i] \in Event
                           /\ Bodies[i] = audit_log[i].body
  BY BodiesType DEF TypeOK
<1> SUFFICES ASSUME Wrong # {} PROVE FALSE
  OBVIOUS
<1>2. PICK i \in Wrong : \A j \in Wrong : i <= j
  <2>1. Wrong \in SUBSET Nat
    BY <1>1 DEF Lens
  <2> HIDE DEF Wrong
  <2> QED
    BY <2>1, First
<1>3. i \in 1 .. n /\ audit_log[i].event_hash # SubSeq(Bodies, 1, i)
  BY <1>2 DEF Lens
<1>4. /\ audit_log[i].previous_event_hash =
           IF i = 1 THEN GENESIS_HASH ELSE audit_log[i - 1].event_hash
      /\ audit_log[i].event_hash
           = Append(audit_log[i].previous_event_hash, audit_log[i].body)
  BY <1>1, <1>3 DEF VerifyAuditChain, ComputeHash
<1>5. audit_log[i].previous_event_hash = SubSeq(Bodies, 1, i - 1)
  <2>1. CASE i = 1
    BY <1>1, <1>4, <2>1, SubSeqEmpty DEF GENESIS_HASH
  <2>2. CASE i # 1
    <3>1. i - 1 \in 1 .. n /\ i - 1 < i
      BY <1>1, <1>3, <2>2
    <3>2. i - 1 \notin Wrong
      <4> HIDE DEF Wrong
      <4> QED
        BY <1>1, <1>2, <1>3, <3>1
    <3>3. audit_log[i - 1].event_hash = SubSeq(Bodies, 1, i - 1)
      BY <3>1, <3>2 DEF Lens
    <3> QED
      BY <1>4, <2>2, <3>3
  <2> QED
    BY <2>1, <2>2
<1>6. SubSeq(Bodies, 1, i) = Append(SubSeq(Bodies, 1, i - 1), Bodies[i])
  BY <1>1, <1>3, PrefixStep
<1> QED
  BY <1>1, <1>3, <1>4, <1>5, <1>6

\* The last digest of a log that verifies stands for the whole log.
LEMMA LastHashIsBodies ==
  ASSUME TypeOK, VerifyAuditChain
  PROVE  LastHash = Bodies
<1> DEFINE n == Len(audit_log)
<1>1. /\ audit_log \in Seq(Event) /\ n \in Nat
      /\ Bodies \in Seq(Body) /\ Len(Bodies) = n
  BY BodiesType DEF TypeOK
<1>2. CASE audit_log = <<>>
  <2>1. Bodies = <<>>
    BY <1>1, <1>2, EmptySeq
  <2> QED
    BY <1>2, <2>1 DEF LastHash, GENESIS_HASH
<1>3. CASE audit_log # <<>>
  <2>1. n \in 1 .. n
    BY <1>1, <1>3, EmptySeq
  <2>2. audit_log[n].event_hash = SubSeq(Bodies, 1, n)
    BY <2>1, VerifiedDigests DEF Lens
  <2>3. SubSeq(Bodies, 1, n) = Bodies
    BY <1>1, SubSeqFull
  <2> QED
    BY <1>3, <2>2, <2>3 DEF LastHash
<1> QED
  BY <1>2, <1>3

\* A log in which every event digests all that is said up to it verifies.
LEMMA ChainVerifies ==
  ASSUME TypeOK, ChainInv
  PROVE  VerifyAuditChain
<1> DEFINE n == Len(audit_log)
<1>1. /\ n \in Nat /\ DOMAIN audit_log = 1 .. n
      /\ Bodies \in Seq(Body) /\ Len(Bodies) = n
      /\ \A i \in 1 .. n : Bodies[i] = audit_log[i].body
  BY BodiesType DEF TypeOK
<1> SUFFICES ASSUME NEW i \in 1 .. n
             PROVE  /\ audit_log[i].previous_event_hash =
                         IF i = 1 THEN GENESIS_HASH ELSE audit_log[i - 1].event_hash
                    /\ audit_log[i].event_hash
                         = Append(audit_log[i].previous_event_hash, audit_log[i].body)
  BY <1>1 DEF VerifyAuditChain, ComputeHash
<1>2. CASE i = 1
  BY <1>1, <1>2, SubSeqEmpty DEF ChainInv, GENESIS_HASH
<1>3. ASSUME i # 1
      PROVE  audit_log[i].previous_event_hash = audit_log[i - 1].event_hash
  <2>1. i - 1 \in 1 .. n
    BY <1>1, <1>3
  <2> QED
    BY <2>1 DEF ChainInv
<1>4. audit_log[i].event_hash
        = Append(audit_log[i].previous_event_hash, audit_log[i].body)
  BY <1>1, PrefixStep DEF ChainInv
<1>5. i = 1 => audit_log[i].previous_event_hash = GENESIS_HASH
  BY <1>1, SubSeqEmpty DEF ChainInv, GENESIS_HASH
<1> QED
  BY <1>3, <1>4, <1>5

IInv == TypeOK /\ HeldInv /\ (altered = 0 => ChainInv /\ CheckpointInv)

\* Nothing is recorded at the start.
LEMMA EmptyBodies == audit_log = <<>> => Bodies = <<>>
<1> SUFFICES ASSUME audit_log = <<>> PROVE Bodies = <<>>
  OBVIOUS
<1>1. audit_log \in Seq(Event) /\ Len(audit_log) = 0
  BY EmptySeq
<1>2. Bodies \in Seq(Body) /\ Len(Bodies) = 0
  BY <1>1, BodiesType
<1> QED
  BY <1>2, EmptySeq

LEMMA InitChain == Init => HeldInv /\ ChainInv /\ CheckpointInv
<1> SUFFICES ASSUME Init PROVE HeldInv /\ ChainInv /\ CheckpointInv
  OBVIOUS
<1>1. Len(audit_log) = 0 /\ Len(checkpoints) = 0
  BY EmptySeq DEF Init
<1> QED
  BY <1>1, EmptyBodies DEF Init, HeldInv, ChainInv, CheckpointInv

\* What the log says after one more event.
LEMMA BodiesOfRecord ==
  ASSUME TypeOK, TypeOK', NEW body \in Body, Record(body)
  PROVE  /\ Len(audit_log') = Len(audit_log) + 1
         /\ \A i \in 1 .. Len(audit_log) : audit_log'[i] = audit_log[i]
         /\ audit_log'[Len(audit_log) + 1] = Chained(body)
         /\ Bodies' = Append(Bodies, body)
<1> DEFINE n == Len(audit_log)
<1>1. /\ audit_log \in Seq(Event) /\ audit_log' \in Seq(Event) /\ n \in Nat
      /\ Chained(body) \in Event /\ Chained(body).body = body
  BY ChainedType, LenProperties DEF TypeOK
<1>2. audit_log' = Append(audit_log, Chained(body))
  BY DEF Record
<1>3. /\ Len(audit_log') = n + 1
      /\ \A i \in 1 .. n : audit_log'[i] = audit_log[i]
      /\ audit_log'[n + 1] = Chained(body)
  BY <1>1, <1>2, AppendProperties
<1>4. /\ Bodies \in Seq(Body) /\ Len(Bodies) = n
      /\ \A i \in 1 .. n : Bodies[i] = audit_log[i].body
  BY <1>1, BodiesType
<1>5. Bodies' = [i \in 1 .. n + 1 |-> audit_log'[i].body]
  <2>1. DOMAIN audit_log' = 1 .. n + 1
    BY <1>1, <1>3, LenProperties
  <2> QED
    BY <2>1 DEF Bodies
<1>6. /\ Append(Bodies, body) \in Seq(Body)
      /\ Len(Append(Bodies, body)) = n + 1
      /\ \A i \in 1 .. n : Append(Bodies, body)[i] = Bodies[i]
      /\ Append(Bodies, body)[n + 1] = body
  BY <1>4, AppendProperties
<1>7. Append(Bodies, body) = [i \in 1 .. n + 1 |-> Append(Bodies, body)[i]]
  BY <1>1, <1>6, LenProperties
<1>8. \A i \in 1 .. n + 1 : Append(Bodies, body)[i] = audit_log'[i].body
  BY <1>1, <1>3, <1>4, <1>6
<1> QED
  BY <1>3, <1>5, <1>7, <1>8

\* An event recorded on a log that verifies is chained on all it says.
LEMMA RecordChain ==
  ASSUME IInv, TypeOK', NEW body \in Body, Record(body)
  PROVE  HeldInv' /\ (altered' = 0 => ChainInv' /\ CheckpointInv')
<1> DEFINE n == Len(audit_log)
<1>1. /\ n \in Nat /\ Bodies \in Seq(Body) /\ Len(Bodies) = n
  BY BodiesType DEF IInv, TypeOK
<1>2. /\ Len(audit_log') = n + 1
      /\ \A i \in 1 .. n : audit_log'[i] = audit_log[i]
      /\ audit_log'[n + 1] = Chained(body)
      /\ Bodies' = Append(Bodies, body)
  BY BodiesOfRecord DEF IInv
<1>3. Chained(body) = [body |-> body, previous_event_hash |-> LastHash,
                       event_hash |-> Append(LastHash, body)]
  BY ChainedType DEF IInv
<1>4. UNCHANGED <<checkpoints, secret, held, altered>>
  BY DEF Record
<1>5. HeldInv'
  <2>1. CASE VerifyAuditChain
    <3>1. noted' = noted \cup {[hash |-> Chained(body).event_hash,
                                over |-> Append(Bodies, body)]}
      BY <2>1 DEF Record
    <3>2. Chained(body).event_hash = Append(Bodies, body)
      BY <1>3, <2>1, LastHashIsBodies DEF IInv
    <3> QED
      BY <1>4, <3>1, <3>2 DEF IInv, HeldInv
  <2>2. CASE ~VerifyAuditChain
    BY <1>4, <2>2 DEF Record, IInv, HeldInv
  <2> QED
    BY <2>1, <2>2
<1>6. ASSUME altered' = 0
      PROVE  ChainInv' /\ CheckpointInv'
  <2>1. ChainInv /\ CheckpointInv /\ LastHash = Bodies
    BY <1>4, <1>6, ChainVerifies, LastHashIsBodies DEF IInv
  <2>2. \A k \in 0 .. n : SubSeq(Bodies', 1, k) = SubSeq(Bodies, 1, k)
    BY <1>1, <1>2, PrefixOfAppend
  <2>3. SubSeq(Bodies', 1, n) = Bodies /\ SubSeq(Bodies', 1, n + 1) = Bodies'
    <3>1. Bodies' \in Seq(Body) /\ Len(Bodies') = n + 1
      BY <1>1, <1>2, AppendProperties
    <3> QED
      BY <1>1, <2>2, <3>1, SubSeqFull
  <2>4. recorded' = Bodies'
    BY <1>2, <2>1 DEF Record, ChainInv
  <2>5. ASSUME NEW i \in 1 .. n + 1
        PROVE  /\ audit_log'[i].previous_event_hash = SubSeq(Bodies', 1, i - 1)
               /\ audit_log'[i].event_hash = SubSeq(Bodies', 1, i)
    <3>1. CASE i \in 1 .. n
      <4>1. i - 1 \in 0 .. n /\ i \in 0 .. n
        BY <1>1, <3>1
      <4> QED
        BY <1>2, <2>1, <2>2, <3>1, <4>1 DEF ChainInv
    <3>2. CASE i = n + 1
      <4>1. i - 1 = n
        BY <1>1, <3>2
      <4>2. /\ audit_log'[i].previous_event_hash = Bodies
            /\ audit_log'[i].event_hash = Append(Bodies, body)
        BY <1>2, <1>3, <2>1, <3>2
      <4> QED
        BY <1>2, <2>3, <3>2, <4>1, <4>2
    <3> QED
      BY <1>1, <3>1, <3>2
  <2>6. ChainInv'
    BY <1>2, <2>4, <2>5 DEF ChainInv
  <2>7. \A i \in 1 .. Len(checkpoints) : checkpoints[i].sequence_end \in 0 .. n
    <3>1. \A i \in 1 .. Len(checkpoints) : checkpoints[i] \in Checkpoint
      BY ElementOfSeq DEF IInv, TypeOK
    <3> QED
      BY <1>1, <2>1, <3>1 DEF CheckpointInv, Checkpoint
  <2>8. CheckpointInv'
    BY <1>1, <1>2, <1>4, <2>1, <2>2, <2>7 DEF CheckpointInv
  <2> QED
    BY <2>6, <2>8
<1> QED
  BY <1>5, <1>6

\* A checkpoint is taken over everything on the log.
LEMMA CheckpointChain ==
  ASSUME IInv, CreateCheckpoint
  PROVE  HeldInv' /\ (altered' = 0 => ChainInv' /\ CheckpointInv')
<1> DEFINE end == Len(audit_log)
           cp == [checkpoint_id |-> next_id, sequence_end |-> end,
                  last_event_hash |-> LastHash,
                  signature |-> Signature(secret, next_id, end, LastHash)]
           k == Len(checkpoints)
<1>1. /\ checkpoints' = Append(checkpoints, cp)
      /\ held' = IF VerifyAuditChain
                 THEN held \cup {[cp |-> cp, over |-> Bodies]} ELSE held
      /\ UNCHANGED <<audit_log, secret, recorded, noted, altered>>
  BY DEF CreateCheckpoint
<1>2. /\ Bodies \in Seq(Body) /\ Len(Bodies) = end /\ end \in Nat
      /\ checkpoints \in Seq(Checkpoint) /\ k \in Nat
  BY BodiesType, LenProperties DEF IInv, TypeOK
<1>3. Bodies' = Bodies
  BY <1>1 DEF Bodies
<1>4. VerifyAuditChain => LastHash = Bodies
  BY LastHashIsBodies DEF IInv
<1>5. HeldInv'
  BY <1>1, <1>2, <1>4 DEF IInv, HeldInv
<1>6. ASSUME altered' = 0
      PROVE  ChainInv' /\ CheckpointInv'
  <2>1. ChainInv /\ CheckpointInv /\ LastHash = Bodies
    BY <1>1, <1>4, <1>6, ChainVerifies DEF IInv
  <2>2. SubSeq(Bodies, 1, end) = Bodies
    BY <1>2, SubSeqFull
  <2>3. /\ Len(checkpoints') = k + 1
        /\ \A i \in 1 .. k : checkpoints'[i] = checkpoints[i]
        /\ checkpoints'[k + 1] = cp
    BY <1>1, <1>2
  <2>4. ASSUME NEW i \in 1 .. k + 1
        PROVE  /\ checkpoints'[i].sequence_end <= end
               /\ checkpoints'[i].last_event_hash
                    = SubSeq(Bodies, 1, checkpoints'[i].sequence_end)
               /\ checkpoints'[i].signature
                    = Signature(secret, checkpoints'[i].checkpoint_id,
                                checkpoints'[i].sequence_end,
                                checkpoints'[i].last_event_hash)
    <3>1. CASE i \in 1 .. k
      BY <2>1, <2>3, <3>1 DEF CheckpointInv
    <3>2. CASE i = k + 1
      BY <1>2, <2>1, <2>2, <2>3, <3>2
    <3> QED
      BY <1>2, <3>1, <3>2
  <2>5. ChainInv'
    BY <1>1, <1>3, <2>1 DEF ChainInv
  <2>6. CheckpointInv'
    BY <1>1, <1>3, <2>3, <2>4 DEF CheckpointInv
  <2> QED
    BY <2>5, <2>6
<1> QED
  BY <1>5, <1>6

\* No step breaks the chain's meaning, tampering included.
LEMMA NextChain == IInv /\ TypeOK' /\ [NextAltering]_vars
                     => HeldInv' /\ (altered' = 0 => ChainInv' /\ CheckpointInv')
<1> DEFINE Goal == HeldInv' /\ (altered' = 0 => ChainInv' /\ CheckpointInv')
<1> SUFFICES ASSUME IInv, TypeOK', [NextAltering]_vars PROVE Goal
  OBVIOUS
<1>1. ASSUME UNCHANGED <<audit_log, checkpoints, secret, recorded, held, noted, altered>>
      PROVE  Goal
  BY <1>1 DEF IInv, HeldInv, ChainInv, CheckpointInv, Bodies
<1>2. ASSUME NEW name \in Tools \cup {"unknown_tool"}, NEW m \in MetricArgs,
             NEW text \in TextArgs, NEW caller \in Callers,
             \/ ToolAnswers(name, m, text, caller)
             \/ ResultNotWritten(name, m, text, caller)
      PROVE  Goal
  <2> DEFINE body == NewBody(name, m, caller, CallTool(name, m, text))
  <2>1. body \in Body /\ Record(body)
    BY <1>2, BodyOfCall DEF ToolAnswers, ResultNotWritten, IInv
  <2> QED
    BY <2>1, RecordChain
<1>3. CASE CreateCheckpoint
  BY <1>3, CheckpointChain
<1>4. CASE Restart
  <2>1. audit_log' = <<>> /\ checkpoints' = <<>> /\ recorded' = <<>>
        /\ UNCHANGED <<held, noted>>
    BY <1>4 DEF Restart
  <2>2. Bodies' = <<>>
    BY <2>1, EmptyBodies DEF Bodies
  <2>3. Len(audit_log') = 0 /\ Len(checkpoints') = 0
    BY <2>1, EmptySeq
  <2> QED
    BY <2>1, <2>2, <2>3 DEF IInv, HeldInv, ChainInv, CheckpointInv
<1>5. ASSUME NEW log \in Seq(Event), Tamper(log) PROVE Goal
  <2>1. altered' # 0 /\ UNCHANGED <<held, noted>>
    BY <1>5 DEF Tamper, IInv, TypeOK
  <2> QED
    BY <2>1 DEF IInv, HeldInv
<1> QED
  BY <1>1, <1>2, <1>3, <1>4, <1>5, Tampering
     DEF Next, HandleRequest, AnswerOther, ToolRaises, AuditRejected, IInv, vars

(* The inductive invariant: in a log nobody tampered with, digests stand   *)
(* for what was recorded and checkpoints for what they cover; what was     *)
(* noted or held of a log that verified stands for it for good.            *)
THEOREM ChainInvariant == SpecAltering => []IInv
<1>1. Init => IInv
  BY InitType, InitChain DEF IInv
<1>2. IInv /\ [NextAltering]_vars => IInv'
  BY NextType, NextChain DEF IInv
<1> QED
  BY <1>1, <1>2, PTL DEF SpecAltering
-----------------------------------------------------------------------------
(* What the verification procedures guarantee.                             *)

\* In a log that verifies, a digest of n bodies is that of the first n.
LEMMA DigestPins ==
  ASSUME TypeOK, VerifyAuditChain, NEW over \in Seq(Body), NEW i \in Lens,
         audit_log[i].event_hash = over
  PROVE  IsPrefix(over, Bodies) /\ Len(over) = i
<1>1. /\ Bodies \in Seq(Body) /\ Len(Bodies) = Len(audit_log)
      /\ Len(audit_log) \in Nat /\ Len(over) \in Nat
  BY BodiesType, LenProperties DEF TypeOK
<1>2. over = SubSeq(Bodies, 1, i) /\ i \in 1 .. Len(Bodies)
  BY <1>1, VerifiedDigests DEF Lens
<1>3. Len(over) = i
  BY <1>1, <1>2, SubSeqProperties
<1>4. SubSeq(over, 1, Len(over)) = over
  BY SubSeqFull
<1> QED
  BY <1>1, <1>2, <1>3, <1>4 DEF IsPrefix

\* A noted digest on a log that verifies pins what was noted.
LEMMA DigestsPin == IInv => DigestsPinHistory
<1> SUFFICES ASSUME IInv PROVE DigestsPinHistory
  OBVIOUS
<1>1. altered = 0 => VerifyAuditChain
  BY ChainVerifies DEF IInv
<1>2. ASSUME VerifyAuditChain, NEW n \in noted, NEW i \in DOMAIN audit_log,
             audit_log[i].event_hash = n.hash
      PROVE  IsPrefix(n.over, Bodies)
  <2>1. n.over \in Seq(Body) /\ n.hash = n.over
    BY DEF IInv, TypeOK, HeldInv
  <2>2. i \in Lens
    BY BodiesType DEF IInv, TypeOK, Lens
  <2> QED
    BY <1>2, <2>1, <2>2, DigestPins DEF IInv
<1> QED
  BY <1>1, <1>2 DEF DigestsPinHistory

(* verify_audit_chain accepts every log nobody tampered with, and no log   *)
(* it accepts can carry a digest that was noted and tell another history,  *)
(* whatever was edited, chained anew or removed.                           *)
THEOREM DigestsTellHistory == SpecAltering => []DigestsPinHistory
BY ChainInvariant, DigestsPin, PTL

\* A checkpoint that verifies carries the digest of the current prefix.
LEMMA CheckpointVerifies == IInv => CheckpointPinsHistory
<1> SUFFICES ASSUME IInv, NEW h \in held, VerifyCheckpoint(h.cp)
             PROVE  IsPrefix(h.over, Bodies)
  BY DEF CheckpointPinsHistory
<1>1. /\ h.over \in Seq(Body) /\ Len(h.over) \in Nat
      /\ h.cp.sequence_end = Len(h.over) /\ h.cp.last_event_hash = h.over
      /\ Bodies \in Seq(Body) /\ Len(Bodies) \in Nat
  BY BodiesType, LenProperties DEF IInv, TypeOK, HeldInv
<1>2. CASE Len(h.over) = 0
  <2>1. h.over = <<>> /\ SubSeq(Bodies, 1, Len(h.over)) = <<>>
    BY <1>1, <1>2, EmptySeq, SubSeqEmpty
  <2>2. SubSeq(h.over, 1, Len(h.over)) = h.over
    BY <1>1, SubSeqFull
  <2> QED
    BY <1>1, <1>2, <2>1, <2>2 DEF IsPrefix
<1>3. CASE Len(h.over) > 0
  <2>1. /\ audit_log[Len(h.over)].event_hash = h.over
        /\ Len(h.over) \in Lens /\ VerifyAuditChain
    BY <1>1, <1>3 DEF VerifyCheckpoint, Lens
  <2> QED
    BY <1>1, <2>1, DigestPins DEF IInv
<1> QED
  BY <1>1, <1>2, <1>3

(* A checkpoint that verifies pins the events it was taken over, whatever  *)
(* process took it, whatever other code did to the log and however often   *)
(* the server restarted since.                                             *)
THEOREM CheckpointsPinHistory == SpecAltering => []CheckpointPinsHistory
BY ChainInvariant, CheckpointVerifies, PTL

\* With the log left alone, the checks of verify_checkpoint are the
\* invariant's facts.
LEMMA CheckpointsVerify == IInv => CheckpointsStayValid
<1> SUFFICES ASSUME IInv, altered = 0, NEW i \in DOMAIN checkpoints
             PROVE  VerifyCheckpoint(checkpoints[i])
  BY DEF CheckpointsStayValid
<1> DEFINE cp == checkpoints[i]
<1>1. i \in 1 .. Len(checkpoints) /\ cp.sequence_end \in Nat
  <2>1. checkpoints \in Seq(Checkpoint)
    BY DEF IInv, TypeOK
  <2>2. i \in 1 .. Len(checkpoints) /\ cp \in Checkpoint
    BY <2>1, LenProperties, ElementOfSeq
  <2> QED
    BY <2>2 DEF Checkpoint
<1>2. /\ cp.sequence_end <= Len(audit_log)
      /\ cp.last_event_hash = SubSeq(Bodies, 1, cp.sequence_end)
      /\ cp.signature = Signature(secret, cp.checkpoint_id, cp.sequence_end,
                                  cp.last_event_hash)
  BY <1>1 DEF IInv, CheckpointInv
<1>3. VerifyAuditChain
  BY ChainVerifies DEF IInv
<1>4. Len(audit_log) \in Nat
  BY LenProperties DEF IInv, TypeOK
<1>5. cp.sequence_end > 0 =>
        audit_log[cp.sequence_end].event_hash = cp.last_event_hash
  BY <1>1, <1>2, <1>4 DEF IInv, ChainInv
<1> QED
  BY <1>2, <1>3, <1>5 DEF VerifyCheckpoint

(* A checkpoint of this process keeps verifying while the log grows.       *)
THEOREM CheckpointsKeepVerifying == SpecAltering => []CheckpointsStayValid
BY ChainInvariant, CheckpointsVerify, PTL
-----------------------------------------------------------------------------
(* The server implements the append-only ledger, as long as nobody tampers *)
(* with stored events.                                                     *)

Honest == IInv /\ altered = 0

\* Without tampering the log keeps saying what was written.
LEMMA HonestNext == Honest /\ [Next]_vars => Honest'
<1> SUFFICES ASSUME Honest, [Next]_vars PROVE Honest'
  OBVIOUS
<1>1. IInv'
  BY NextType, NextChain DEF Honest, IInv, NextAltering
<1>2. altered' = 0
  BY DEF Honest, Next, HandleRequest, AnswerOther, ToolRaises, AuditRejected,
         ToolAnswers, ResultNotWritten, Record, CreateCheckpoint, Restart, vars
<1> QED
  BY <1>1, <1>2 DEF Honest

\* Every step records one body, anchors what is recorded, discards all, or
\* is invisible.
LEMMA LedgerStep == Honest /\ Honest' /\ [Next]_vars
                      => [Ledger!Next]_(Ledger!ledgerVars)
<1> SUFFICES ASSUME Honest, Honest', [Next]_vars
             PROVE  [Ledger!Next]_(Ledger!ledgerVars)
  OBVIOUS
<1> DEFINE anchors == {checkpoints[i].last_event_hash : i \in DOMAIN checkpoints}
<1>1. /\ Bodies \in Seq(Body)
      /\ checkpoints \in Seq(Checkpoint) /\ checkpoints' \in Seq(Checkpoint)
  BY BodiesType DEF Honest, IInv, TypeOK
<1>2. ASSUME NEW name \in Tools \cup {"unknown_tool"}, NEW m \in MetricArgs,
             NEW text \in TextArgs, NEW caller \in Callers,
             \/ ToolAnswers(name, m, text, caller)
             \/ ResultNotWritten(name, m, text, caller)
      PROVE  Ledger!Record
  <2> DEFINE body == NewBody(name, m, caller, CallTool(name, m, text))
             n == Len(Bodies)
  <2>1. body \in Body /\ Record(body)
    BY <1>2, BodyOfCall DEF ToolAnswers, ResultNotWritten, Honest, IInv
  <2>2. Bodies' = Append(Bodies, body) /\ UNCHANGED checkpoints
    BY <2>1, BodiesOfRecord DEF Honest, IInv, Record
  <2>3. n \in Nat /\ Len(Bodies') = n + 1 /\ Bodies'[n + 1] = body
    BY <1>1, <2>1, <2>2, LenProperties, AppendProperties
  <2>4. IsPrefix(Bodies, Bodies')
    BY <1>1, <2>1, <2>2, <2>3, PrefixOfAppend DEF IsPrefix
  <2>5. anchors' = anchors
    BY <2>2
  <2> QED
    BY <2>1, <2>3, <2>4, <2>5 DEF Ledger!Record, Ledger!IsPrefix, IsPrefix
<1>3. CASE CreateCheckpoint
  <2> DEFINE k == Len(checkpoints)
             cp == [checkpoint_id |-> next_id, sequence_end |-> Len(audit_log),
                    last_event_hash |-> LastHash,
                    signature |-> Signature(secret, next_id, Len(audit_log),
                                            LastHash)]
  <2>1. /\ checkpoints' = Append(checkpoints, cp)
        /\ UNCHANGED audit_log
    BY <1>3 DEF CreateCheckpoint
  <2>2. /\ k \in Nat /\ DOMAIN checkpoints = 1 .. k
        /\ DOMAIN checkpoints' = 1 .. k + 1
        /\ \A i \in 1 .. k : checkpoints'[i] = checkpoints[i]
        /\ checkpoints'[k + 1] = cp
    BY <1>1, <2>1, LenProperties
  <2>3. cp.last_event_hash = Bodies
    BY ChainVerifies, LastHashIsBodies DEF Honest, IInv
  <2>4. anchors' = anchors \cup {Bodies}
    BY <2>2, <2>3
  <2>5. Bodies' = Bodies
    BY <2>1 DEF Bodies
  <2> QED
    BY <2>4, <2>5 DEF Ledger!Next, Ledger!Anchor
<1>4. CASE Restart
  <2>1. audit_log' = <<>> /\ checkpoints' = <<>>
    BY <1>4 DEF Restart
  <2>2. anchors' = {}
    BY <2>1, EmptySeq, LenProperties
  <2>3. Bodies' = <<>>
    BY <2>1, EmptyBodies DEF Bodies
  <2> QED
    BY <2>2, <2>3 DEF Ledger!Next, Ledger!Lose
<1>5. ASSUME UNCHANGED <<audit_log, checkpoints>>
      PROVE  UNCHANGED Ledger!ledgerVars
  BY <1>5 DEF Ledger!ledgerVars, Bodies
<1> QED
  BY <1>2, <1>3, <1>4, <1>5
     DEF Next, HandleRequest, AnswerOther, ToolRaises, AuditRejected, vars,
         Ledger!Next

(* Seen from outside, the audit log is a ledger that only grows and whose  *)
(* anchors are prefixes of it; only the end of the process discards it.    *)
THEOREM ImplementsLedger == Spec => LedgerSpec
<1>1. Init => Honest
  BY InitType, InitChain DEF Init, Honest, IInv
<1>2. Init => Ledger!Init
  BY EmptyBodies, EmptySeq, LenProperties DEF Init, Ledger!Init
<1>3. Spec => []Honest
  BY <1>1, HonestNext, PTL DEF Spec
<1> QED
  BY <1>2, <1>3, LedgerStep, PTL DEF Spec, LedgerSpec, Ledger!Spec
-----------------------------------------------------------------------------
(* One event per answer, and every verdict on the record.                  *)

\* Uuids on the log are older than the next one.
IdInv ==
  /\ OneEventPerAnswer
  /\ \A i \in DOMAIN audit_log : audit_log[i].body.event_id < next_id

\* A result that cannot be written quotes a contract in scope with such a value.
LEMMA Unwritten ==
  ASSUME NEW name, NEW m, NEW text, ~Writable(name, m, text)
  PROVE  \E k \in OpaqueVersion \cup OpaqueProbes : CheckDomainAuthorized(k)
<1>1. \A k \in VersionsIn(name, m, text) : CheckDomainAuthorized(k)
  <2>1. CASE name = "scos_list_metrics"
    BY <2>1 DEF VersionsIn, Listed
  <2>2. CASE name # "scos_list_metrics"
    BY <2>2 DEF VersionsIn, Found
  <2> QED
    BY <2>1, <2>2
<1>2. \A k \in ProbesIn(name, m) : CheckDomainAuthorized(k)
  BY DEF ProbesIn, Found
<1> QED
  BY <1>1, <1>2 DEF Writable

\* uuids are fresh, and an event is numbered by its place, in every step.
LEMMA NextIds == Honest /\ Honest' /\ IdInv /\ [Next]_vars => IdInv'
<1> SUFFICES ASSUME Honest, Honest', IdInv, [Next]_vars PROVE IdInv'
  OBVIOUS
<1> DEFINE n == Len(audit_log)
<1>1. /\ audit_log \in Seq(Event) /\ n \in Nat /\ DOMAIN audit_log = 1 .. n
      /\ next_id \in Nat
      /\ \A i \in 1 .. n : audit_log[i] \in Event
      /\ calls \in [returned : Nat, answered : Nat, unwritten : Nat]
  BY BodiesType DEF Honest, IInv, TypeOK
<1>2. \A i \in 1 .. n : audit_log[i].body.event_id \in Nat
  BY <1>1 DEF Event, Body
<1>3. ASSUME NEW name \in Tools \cup {"unknown_tool"}, NEW m \in MetricArgs,
             NEW text \in TextArgs, NEW caller \in Callers,
             \/ ToolAnswers(name, m, text, caller)
             \/ ResultNotWritten(name, m, text, caller)
      PROVE  IdInv'
  <2> DEFINE body == NewBody(name, m, caller, CallTool(name, m, text))
  <2>1. body \in Body /\ Record(body)
    BY <1>3, BodyOfCall DEF ToolAnswers, ResultNotWritten, Honest, IInv
  <2>2. next_id' = next_id + 1
    BY <2>1 DEF Record
  <2>3. calls'.answered + calls'.unwritten = calls.answered + calls.unwritten + 1
    <3>1. calls' = Count(1, 0) \/ calls' = Count(0, 1)
      BY <1>3 DEF ToolAnswers, ResultNotWritten
    <3>2. /\ Count(1, 0).answered = calls.answered + 1
          /\ Count(1, 0).unwritten = calls.unwritten + 0
          /\ Count(0, 1).answered = calls.answered + 0
          /\ Count(0, 1).unwritten = calls.unwritten + 1
      BY <1>1, CallCounts
    <3> QED
      BY <1>1, <3>1, <3>2
  <2>4. calls'.unwritten > 0 =>
          \E k \in OpaqueVersion \cup OpaqueProbes : CheckDomainAuthorized(k)
    <3>1. CASE ToolAnswers(name, m, text, caller)
      <4>1. calls'.unwritten = calls.unwritten
        BY <1>1, <3>1, CallCounts DEF ToolAnswers
      <4> QED
        BY <4>1 DEF IdInv, OneEventPerAnswer
    <3>2. CASE ResultNotWritten(name, m, text, caller)
      BY <3>2, Unwritten DEF ResultNotWritten
    <3> QED
      BY <1>3, <3>1, <3>2
  <2>5. /\ Len(audit_log') = n + 1
        /\ \A i \in 1 .. n : audit_log'[i] = audit_log[i]
        /\ audit_log'[n + 1].body = body
    BY <2>1, BodiesOfRecord, ChainedType DEF Honest, IInv
  <2>6. DOMAIN audit_log' = 1 .. n + 1
    BY <2>5, LenProperties DEF Honest, IInv, TypeOK
  <2>7. body.event_id = next_id /\ body.sequence_num = n + 1
    BY DEF NewBody
  <2> HIDE DEF body
  <2>8. OneEventPerAnswer'
    <3>1. Len(audit_log') = calls'.answered + calls'.unwritten
      BY <1>1, <2>3, <2>5 DEF IdInv, OneEventPerAnswer
    <3>2. \A i \in 1 .. n + 1 : audit_log'[i].body.sequence_num = i
      BY <1>1, <2>5, <2>7 DEF IdInv, OneEventPerAnswer
    <3>3. \A i, j \in 1 .. n + 1 :
            audit_log'[i].body.event_id = audit_log'[j].body.event_id => i = j
      BY <1>1, <1>2, <2>5, <2>7 DEF IdInv, OneEventPerAnswer
    <3> QED
      BY <2>4, <2>6, <3>1, <3>2, <3>3 DEF OneEventPerAnswer
  <2> QED
    BY <1>1, <1>2, <2>2, <2>5, <2>6, <2>7, <2>8 DEF IdInv
<1>4. CASE Restart
  BY <1>4, EmptySeq, LenProperties DEF Restart, NoCalls, IdInv, OneEventPerAnswer
<1>5. ASSUME UNCHANGED audit_log, calls'.answered = calls.answered,
             calls'.unwritten = calls.unwritten,
             next_id' \in {next_id, next_id + 1}
      PROVE  IdInv'
  BY <1>1, <1>2, <1>5 DEF IdInv, OneEventPerAnswer
<1>6. ASSUME NEW name \in Tools \cup {"unknown_tool"}, NEW m \in MetricArgs,
             NEW text \in TextArgs, AuditRejected(name, m, text)
      PROVE  IdInv'
  <2>1. /\ Count(0, 0).answered = calls.answered + 0
        /\ Count(0, 0).unwritten = calls.unwritten + 0
    BY <1>1, CallCounts
  <2> QED
    BY <1>1, <1>5, <1>6, <2>1 DEF AuditRejected
<1> QED
  BY <1>1, <1>3, <1>4, <1>5, <1>6
     DEF Next, HandleRequest, AnswerOther, ToolRaises, CreateCheckpoint, vars

(* No result without an event, no event without a result but for contracts *)
(* that JSON cannot write; events are numbered without a gap, and no two   *)
(* share a uuid.                                                           *)
THEOREM AnswersAreAudited == Spec => []OneEventPerAnswer
<1>1. Init => Honest
  BY InitType, InitChain DEF Init, Honest, IInv
<1>2. Init => IdInv
  BY EmptySeq, LenProperties DEF Init, NoCalls, IdInv, OneEventPerAnswer
<1>3. IdInv => OneEventPerAnswer
  BY DEF IdInv
<1> QED
  BY <1>1, <1>2, <1>3, HonestNext, NextIds, PTL DEF Spec

\* A tool decides ALLOW or REQUIRE_REVIEW only for whole SQL it validated.
LEMMA VerdictOfTool ==
  ASSUME NEW name \in Tools \cup {"unknown_tool"}, NEW m \in MetricArgs,
         NEW text \in TextArgs,
         CallTool(name, m, text).decision \in {"ALLOW", "REQUIRE_REVIEW"}
  PROVE  /\ CallTool(name, m, text).sql_sha256 = [of |-> text, prefix |-> FALSE]
         /\ CallTool(name, m, text).decision = "ALLOW"
              => Verdict[m][text] = "compliant"
<1> DEFINE sha == [of |-> text, prefix |-> FALSE]
<1> USE ConstantsAssumption
<1>1. CallTool(name, m, text) = ValidateSql(m, text)
  BY DEF CallTool, ListMetrics, LookUp, Returns, Raises, Tools
<1>2. m # None /\ text \notin {None, NotAString} /\ text \notin TooLong /\ m # Unhashable /\ Found(m)
  BY <1>1 DEF ValidateSql, Returns, Raises
<1>3. CASE Verdict[m][text] = "compliant"
  <2>1. ValidateSql(m, text) = Returns(LabelDomain(m), sha, "ALLOW")
    BY <1>2, <1>3 DEF ValidateSql
  <2> QED
    BY <1>1, <1>3, <2>1 DEF Returns
<1>4. CASE Verdict[m][text] = "violating"
  <2>1. ValidateSql(m, text) = Returns(LabelDomain(m), sha, "REQUIRE_REVIEW")
    BY <1>2, <1>4 DEF ValidateSql
  <2> QED
    BY <1>1, <2>1 DEF Returns
<1>5. CASE Verdict[m][text] = "contract_error"
  <2>1. ValidateSql(m, text) = Raises("Exception")
    BY <1>2, <1>5 DEF ValidateSql
  <2> QED
    BY <1>1, <2>1 DEF Raises
<1>6. CASE Verdict[m][text] \notin {"compliant", "violating", "contract_error"}
  <2>1. ValidateSql(m, text) = Returns(None, sha, "DENY")
    BY <1>2, <1>6 DEF ValidateSql
  <2> QED
    BY <1>1, <2>1 DEF Returns
<1> QED
  BY <1>3, <1>4, <1>5, <1>6

\* Each answer's verdict is recorded in the step that gives it.
LEMMA NextVerdicts == TypeOK /\ VerdictsAreOnRecord /\ [NextAltering]_vars
                        => VerdictsAreOnRecord'
<1> SUFFICES ASSUME TypeOK, VerdictsAreOnRecord, [NextAltering]_vars
             PROVE  VerdictsAreOnRecord'
  OBVIOUS
<1>1. ASSUME NEW name \in Tools \cup {"unknown_tool"}, NEW m \in MetricArgs,
             NEW text \in TextArgs, NEW caller \in Callers,
             ToolAnswers(name, m, text, caller)
      PROVE  VerdictsAreOnRecord'
  <2> DEFINE r == CallTool(name, m, text)
             body == NewBody(name, m, caller, r)
             k == Len(recorded) + 1
  <2>1. /\ recorded' = Append(recorded, body)
        /\ resp' = IF r.decision = None THEN Reply("ok")
                   ELSE [code |-> "ok", metric |-> m, text |-> text,
                         decision |-> r.decision]
    BY <1>1 DEF ToolAnswers, Record
  <2>2. k \in DOMAIN recorded' /\ recorded'[k] = body
    BY <2>1, LenProperties DEF TypeOK
  <2>3. CASE r.decision = None
    BY <2>1, <2>3, ConstantsAssumption DEF VerdictsAreOnRecord, Reply
  <2>4. CASE r.decision # None
    BY <2>1, <2>2, <2>4, VerdictOfTool DEF VerdictsAreOnRecord, NewBody
  <2> QED
    BY <2>3, <2>4
<1>2. ASSUME NEW code, resp' = Reply(code)
      PROVE  VerdictsAreOnRecord'
  BY <1>2, ConstantsAssumption DEF VerdictsAreOnRecord, Reply
<1>3. ASSUME UNCHANGED <<resp, recorded>>
      PROVE  VerdictsAreOnRecord'
  BY <1>3 DEF VerdictsAreOnRecord
<1>4. ASSUME NEW log \in Seq(Event), Tamper(log)
      PROVE  VerdictsAreOnRecord'
  BY <1>3, <1>4 DEF Tamper
<1> QED
  BY <1>1, <1>2, <1>3, <1>4, Tampering
     DEF Next, HandleRequest, AnswerOther, ToolRaises,
         AuditRejected, ResultNotWritten, CreateCheckpoint, Restart, vars

(* Whoever was told ALLOW or REQUIRE_REVIEW finds it on the record.        *)
THEOREM VerdictsRecorded == SpecAltering => []VerdictsAreOnRecord
<1>1. Init => VerdictsAreOnRecord
  BY ConstantsAssumption DEF Init, VerdictsAreOnRecord, Reply
<1> QED
  BY <1>1, TypeCorrect, NextVerdicts, PTL DEF SpecAltering
=============================================================================
