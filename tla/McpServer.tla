----------------------------- MODULE McpServer -----------------------------
(***************************************************************************)
(* The SCOS MCP server (mcp/server.py, handlers.py, models.py): JSON-RPC   *)
(* dispatch, the five tools, the hash-chained audit log and the signed     *)
(* checkpoints over it.  One process serves requests one at a time         *)
(* (run_stdio); its log and checkpoints live in memory and die with it.    *)
(*                                                                         *)
(* Digests are symbolic.  SHA-256 over an event body chained on digest h   *)
(* is the term Append(h, body): equal only for equal body and equal h.     *)
(* HMAC is a record of the key and what it signs.                          *)
(***************************************************************************)
EXTENDS Integers, Sequences, FiniteSets, SequencesExt

CONSTANTS
  Metrics,         \* metric ids the registry holds a contract for
  MetaDomain,      \* [Metrics -> Domains \cup {None}]: metadata["domain"]
  TagDomain,       \* [Metrics -> Domains \cup {None}]: tags[0], if any
  Domains,         \* domain labels
  General,         \* the label "general"
  AllowedDomains,  \* the server's scope; an empty list means no scope
  Unregistered,    \* a metric id with no contract
  NotAString,      \* a JSON value that is not a string (a number, say)
  Unhashable,      \* a JSON array or object
  Texts,           \* SQL texts and rule texts a client sends
  TooLong,         \* those of more than MAX_SQL_CHARS characters
  Verdict,         \* [Metrics -> [Texts -> Verdicts]], see ValidateSql
  OpaqueVersion,   \* metrics whose version, and those one of whose probes,
  OpaqueProbes,    \* YAML reads as a value json.dumps rejects (a date, say)
  Callers,         \* caller identities
  None,            \* Python's None, or an argument left out
  MaxEvents, MaxCheckpoints, MaxBoots, MaxCalls,  \* bounds, on actions only
  MaxIds, MaxAlterations

\* "contract_error": a required filter of the contract does not parse.
Verdicts == {"syntax_error", "complexity_limit", "contract_error",
             "compliant", "violating"}

MetricArgs == Metrics \cup {Unregistered, NotAString, Unhashable, None}

\* The argument sql, rule or domain of a tool.
TextArgs == Texts \cup {NotAString, None}

ASSUME ConstantsAssumption ==
  /\ None \notin Metrics \cup Domains \cup Texts \cup Callers
  /\ None \notin {"ALLOW", "REQUIRE_REVIEW", "DENY"}
  /\ Metrics \cap {Unregistered, NotAString, Unhashable} = {}
  /\ None # NotAString /\ NotAString \notin Texts
  /\ General \in Domains
  /\ AllowedDomains \subseteq Domains
  /\ MetaDomain \in [Metrics -> Domains \cup {None}]
  /\ TagDomain \in [Metrics -> Domains \cup {None}]
  /\ TooLong \subseteq Texts
  /\ Verdict \in [Metrics -> [Texts -> Verdicts]]
  /\ OpaqueVersion \subseteq Metrics /\ OpaqueProbes \subseteq Metrics

VARIABLES
  audit_log,       \* the chained events of this process
  checkpoints,     \* the checkpoints this process created
  secret,          \* 0: the configured key; n > 0: the random key of boot n
  resp,            \* the last answer: its JSON-RPC code and, for an
                   \* answered tool call, what it decided about what
  boots,           \* processes started so far
  next_id,         \* the next uuid4: never used before, in any process
  recorded,        \* ghost: event bodies as they were first written
  held,            \* ghost: every checkpoint taken over a log that verified,
                   \* with the event bodies it was taken over
  noted,           \* ghost: the digest of every event chained on a log that
                   \* verified, with the event bodies up to it
  altered,         \* ghost: how often other code changed this process's log
  calls            \* ghost: tool calls whose tool returned; those answered
                   \* with the result; those whose result was not written

vars == <<audit_log, checkpoints, secret, resp, boots, next_id,
          recorded, held, noted, altered, calls>>
-----------------------------------------------------------------------------
Decisions == {"ALLOW", "REQUIRE_REVIEW", "DENY"}

Tools == {"scos_list_metrics", "scos_get_contract", "scos_validate_sql",
          "scos_explain_violation", "scos_get_probe_status"}

\* hashlib.sha256 of the text, or of its first 1000 characters.
Sha == [of : Texts, prefix : BOOLEAN]

Body == [event_id : Nat, sequence_num : Nat, tool_name : Tools,
         metric_id : MetricArgs, tenant_id : Callers,
         domain : Domains \cup {None}, sql_sha256 : Sha \cup {None},
         decision : Decisions \cup {None}]

Hash == Seq(Body)

GENESIS_HASH == <<>>

Event == [body : Body, previous_event_hash : Hash, event_hash : Hash]

\* Mutant: the canonical JSON leaves the decision out.
HashWithoutDecision(ev) ==
  Append(ev.previous_event_hash, [ev.body EXCEPT !.decision = None])

ComputeHash(ev) == Append(ev.previous_event_hash, ev.body)

Signature(key, id, end, hash) ==
  [key |-> key, id |-> id, sequence_end |-> end, last_event_hash |-> hash]

Checkpoint == [checkpoint_id : Nat, sequence_end : Nat, last_event_hash : Hash,
               signature : [key : Nat, id : Nat, sequence_end : Nat,
                            last_event_hash : Hash]]

\* Success, or the JSON-RPC errors -32700 and -32600 to -32603.
RpcCodes == {"ok", "parse_error", "invalid_request", "method_not_found", "invalid_params",
             "internal_error"}

Response == [code : RpcCodes, metric : MetricArgs,
             text : Texts \cup {None}, decision : Decisions \cup {None}]

\* A response that tells of no decision.
Reply(code) == [code |-> code, metric |-> None, text |-> None, decision |-> None]

\* Mutant: audit_log[0] for audit_log[-1].
FirstHash == IF audit_log = <<>> THEN GENESIS_HASH ELSE audit_log[1].event_hash

LastHash == IF audit_log = <<>> THEN GENESIS_HASH
            ELSE audit_log[Len(audit_log)].event_hash

Bodies == [i \in DOMAIN audit_log |-> audit_log[i].body]

VerifyAuditChain ==
  \A i \in DOMAIN audit_log :
    /\ audit_log[i].previous_event_hash =
         IF i = 1 THEN GENESIS_HASH ELSE audit_log[i - 1].event_hash
    /\ audit_log[i].event_hash = ComputeHash(audit_log[i])
-----------------------------------------------------------------------------
(* The tools.  A call returns a result, of which the audit event keeps     *)
(* domain, sql_sha256 and decision, or raises.                             *)

Result == [raises : {"nothing", "ValueError", "Exception"},
           domain : Domains \cup {None}, sql_sha256 : Sha \cup {None},
           decision : Decisions \cup {None}]

Returns(d, sha, dec) == [raises |-> "nothing", domain |-> d,
                         sql_sha256 |-> sha, decision |-> dec]
Raises(e) == [raises |-> e, domain |-> None, sql_sha256 |-> None,
              decision |-> None]

\* The domain a metric is authorised under ...
AuthDomain(m) == IF MetaDomain[m] # None THEN MetaDomain[m]
                 ELSE IF TagDomain[m] # None THEN TagDomain[m] ELSE General

\* ... and the one results are labelled with.
LabelDomain(m) == IF MetaDomain[m] # None THEN MetaDomain[m] ELSE General

CheckDomainAuthorized(m) ==
  AllowedDomains = {} \/ AuthDomain(m) \in AllowedDomains

\* The registry finds m and the caller's scope covers it.
Found(m) == m \in Metrics /\ CheckDomainAuthorized(m)

ListMetrics(filter) ==
  IF filter = NotAString /\ \E m \in Metrics : CheckDomainAuthorized(m)
  THEN Raises("Exception") ELSE Returns(None, None, None)

ValidateSql(m, sql) ==
  IF m = None \/ sql = None THEN Raises("ValueError")
  ELSE IF sql = NotAString THEN Raises("Exception")
  ELSE IF sql \in TooLong
       THEN Returns(None, [of |-> sql, prefix |-> TRUE], "DENY")
  ELSE IF m = Unhashable THEN Raises("Exception")
  ELSE IF ~Found(m) THEN Returns(None, None, "DENY")
  ELSE LET sha == [of |-> sql, prefix |-> FALSE]
       IN  CASE Verdict[m][sql] = "compliant" ->
                  Returns(LabelDomain(m), sha, "ALLOW")
             [] Verdict[m][sql] = "violating" ->
                  Returns(LabelDomain(m), sha, "REQUIRE_REVIEW")
             [] Verdict[m][sql] = "contract_error" -> Raises("Exception")
             [] OTHER -> Returns(None, sha, "DENY")

\* scos_get_contract and scos_get_probe_status label their result with the
\* domain; scos_explain_violation does not, and needs a rule as well.
LookUp(m, labelled) ==
  IF m = None THEN Raises("ValueError")
  ELSE IF m = Unhashable THEN Raises("Exception")
  ELSE Returns(IF labelled /\ Found(m) THEN LabelDomain(m) ELSE None,
               None, None)

CallTool(name, m, text) ==
  CASE name = "scos_list_metrics" -> ListMetrics(text)
    [] name = "scos_validate_sql" -> ValidateSql(m, text)
    [] name = "scos_explain_violation" ->
         IF text = None THEN Raises("ValueError") ELSE LookUp(m, FALSE)
    [] name \in {"scos_get_contract", "scos_get_probe_status"} ->
         LookUp(m, TRUE)
    [] OTHER -> Raises("ValueError")

\* The metrics scos_list_metrics lists; its domain filter is optional.
Listed(filter) ==
  {m \in Metrics : CheckDomainAuthorized(m) /\ filter \in {None, AuthDomain(m)}}

\* The metrics whose version a result quotes, and those whose probes.
VersionsIn(name, m, text) ==
  CASE name = "scos_list_metrics" -> Listed(text)
    [] name = "scos_validate_sql" /\ text \in TooLong -> {}
    [] OTHER -> {k \in {m} : Found(k)}

ProbesIn(name, m) ==
  IF name \in {"scos_get_contract", "scos_get_probe_status"}
  THEN {k \in {m} : Found(k)} ELSE {}

\* json.dumps can write the result.
Writable(name, m, text) ==
  /\ VersionsIn(name, m, text) \cap OpaqueVersion = {}
  /\ ProbesIn(name, m) \cap OpaqueProbes = {}
-----------------------------------------------------------------------------
NoCalls == [returned |-> 0, answered |-> 0, unwritten |-> 0]

\* One more tool call returned; how many results were sent, or not written.
Count(answered, unwritten) ==
  [returned |-> calls.returned + 1, answered |-> calls.answered + answered,
   unwritten |-> calls.unwritten + unwritten]

Init ==
  /\ audit_log = <<>> /\ checkpoints = <<>> /\ recorded = <<>>
  /\ secret \in {0, 1}
  /\ resp = Reply("ok") /\ boots = 1 /\ next_id = 0
  /\ held = {} /\ noted = {} /\ altered = 0
  /\ calls = NoCalls

(* Requests that touch no state: envelopes rejected before dispatch, and   *)
(* every method but tools/call.  resources/read and prompts/get answer or  *)
(* reject according to arguments that nothing else depends on.             *)
OtherRequests ==
  {"not JSON", "not an object", "too large", "no method", "bad params",
   "tools/call without a name", "initialize", "tools/list",
   "resources/list", "resources/read", "prompts/list", "prompts/get",
   "notifications/initialized", "unknown method"}

\* Mutant: an HTTP status for a method that does not exist.
CodesWithStatus(req) ==
  IF req = "unknown method" THEN {"404"} ELSE {"ok"}

Codes(req) ==
  CASE req = "not JSON" -> {"parse_error"}
    [] req \in {"not an object", "too large", "no method"} -> {"invalid_request"}
    [] req \in {"bad params", "tools/call without a name"} -> {"invalid_params"}
    [] req \in {"resources/read", "prompts/get"} ->
         {"ok", "invalid_params", "internal_error"}
    [] req = "unknown method" -> {"method_not_found"}
    [] OTHER -> {"ok"}

AnswerOther(req) ==
  /\ \E code \in Codes(req) : resp' = Reply(code)
  /\ UNCHANGED <<audit_log, checkpoints, secret, boots, next_id, recorded,
                 held, noted, altered, calls>>

(* tools/call whose tool raised: invalid_params for a ValueError (a        *)
(* missing argument, an unknown tool), internal_error for anything else.   *)
ToolRaises(name, m, text) ==
  LET r == CallTool(name, m, text)
  IN  /\ r.raises # "nothing"
      /\ resp' = Reply(IF r.raises = "ValueError" THEN "invalid_params"
                       ELSE "internal_error")
      /\ UNCHANGED <<audit_log, checkpoints, secret, boots, next_id, recorded,
                     held, noted, altered, calls>>

\* Mutant: a rejected audit event is logged and the result returned anyhow.
AuditRejectedAnswered(name, m, text) ==
  /\ CallTool(name, m, text).raises = "nothing"
  /\ m \in {NotAString, Unhashable}
  /\ calls.returned < MaxCalls
  /\ resp' = Reply("ok")
  /\ calls' = Count(1, 0)
  /\ UNCHANGED <<audit_log, checkpoints, secret, boots, next_id, recorded,
                 held, noted, altered>>

(* tools/call whose tool returned but whose metric_id the audit event      *)
(* model rejects: the tool has run, no event is written, internal_error.   *)
AuditRejected(name, m, text) ==
  /\ CallTool(name, m, text).raises = "nothing"
  /\ m \in {NotAString, Unhashable}
  /\ calls.returned < MaxCalls
  /\ resp' = Reply("internal_error")
  /\ calls' = Count(0, 0)
  /\ UNCHANGED <<audit_log, checkpoints, secret, boots, next_id, recorded,
                 held, noted, altered>>

\* Mutants: the number of the event before, and a misspelt key of the result.
NewBodyNumberedFromZero(name, m, caller, r) ==
  [event_id |-> next_id, sequence_num |-> Len(audit_log),
   tool_name |-> name, metric_id |-> m, tenant_id |-> caller,
   domain |-> r.domain, sql_sha256 |-> r.sql_sha256, decision |-> r.decision]

NewBodyWithoutDigest(name, m, caller, r) ==
  [event_id |-> next_id, sequence_num |-> Len(audit_log) + 1,
   tool_name |-> name, metric_id |-> m, tenant_id |-> caller,
   domain |-> r.domain, sql_sha256 |-> None, decision |-> r.decision]

NewBody(name, m, caller, r) ==
  [event_id |-> next_id, sequence_num |-> Len(audit_log) + 1,
   tool_name |-> name, metric_id |-> m, tenant_id |-> caller,
   domain |-> r.domain, sql_sha256 |-> r.sql_sha256, decision |-> r.decision]

Chained(body) ==
  LET ev == [body |-> body, previous_event_hash |-> LastHash]
  IN  [body |-> body, previous_event_hash |-> LastHash,
       event_hash |-> ComputeHash(ev)]

\* Chain an event on the last one.
Record(body) ==
  /\ Len(audit_log) < MaxEvents /\ calls.returned < MaxCalls /\ next_id < MaxIds
  /\ audit_log' = Append(audit_log, Chained(body))
  /\ recorded' = Append(recorded, body)
  /\ noted' = IF VerifyAuditChain
              THEN noted \cup {[hash |-> Chained(body).event_hash,
                                over |-> Append(Bodies, body)]}
              ELSE noted
  /\ next_id' = next_id + 1
  /\ UNCHANGED <<checkpoints, secret, boots, held, altered>>

(* tools/call that returns: chain an event, then answer with the result.   *)
ToolAnswers(name, m, text, caller) ==
  LET r == CallTool(name, m, text)
  IN  /\ r.raises = "nothing"
      /\ m \notin {NotAString, Unhashable}
      /\ Writable(name, m, text)
      /\ Record(NewBody(name, m, caller, r))
      /\ resp' = IF r.decision = None THEN Reply("ok")
                 ELSE [code |-> "ok", metric |-> m, text |-> text,
                       decision |-> r.decision]
      /\ calls' = Count(1, 0)

(* tools/call whose result json.dumps rejects: the event is on the log, its *)
(* decision included, and the client gets an internal_error.                *)
ResultNotWritten(name, m, text, caller) ==
  LET r == CallTool(name, m, text)
  IN  /\ r.raises = "nothing"
      /\ m \notin {NotAString, Unhashable}
      /\ ~Writable(name, m, text)
      /\ Record(NewBody(name, m, caller, r))
      /\ resp' = Reply("internal_error")
      /\ calls' = Count(0, 1)

CreateCheckpoint ==
  LET end == Len(audit_log)
      cp == [checkpoint_id |-> next_id, sequence_end |-> end,
             last_event_hash |-> LastHash,
             signature |-> Signature(secret, next_id, end, LastHash)]
  IN  /\ Len(checkpoints) < MaxCheckpoints /\ next_id < MaxIds
      /\ checkpoints' = Append(checkpoints, cp)
      /\ held' = IF VerifyAuditChain
                 THEN held \cup {[cp |-> cp, over |-> Bodies]} ELSE held
      /\ next_id' = next_id + 1
      /\ UNCHANGED <<audit_log, secret, resp, boots, recorded, noted, altered,
                     calls>>

\* Mutant: a new process keeps the checkpoints of the one before it.
RestartKeepingCheckpoints ==
  /\ boots < MaxBoots
  /\ boots' = boots + 1
  /\ audit_log' = <<>> /\ recorded' = <<>>
  /\ secret' = IF secret = 0 THEN 0 ELSE boots + 1
  /\ resp' = Reply("ok")
  /\ altered' = 0 /\ calls' = NoCalls
  /\ UNCHANGED <<next_id, held, noted, checkpoints>>

(* The process ends and another starts: an empty log, the configured key   *)
(* again or, if none is configured, a new random one.                      *)
Restart ==
  /\ boots < MaxBoots
  /\ boots' = boots + 1
  /\ audit_log' = <<>> /\ checkpoints' = <<>> /\ recorded' = <<>>
  /\ secret' = IF secret = 0 THEN 0 ELSE boots + 1
  /\ resp' = Reply("ok")
  /\ altered' = 0 /\ calls' = NoCalls
  /\ UNCHANGED <<next_id, held, noted>>

(* External: code that shares the process changes the log, a public list   *)
(* of mutable models: what an event says, the digests stored with it (by   *)
(* others on the log or by recomputed ones, so that a tail can be chained  *)
(* anew), or the list, from which any event, the last included, can go.    *)
Tamper(log) ==
  /\ log # audit_log
  /\ audit_log' = log
  /\ altered < MaxAlterations /\ altered' = altered + 1
  /\ UNCHANGED <<checkpoints, secret, resp, boots, next_id, recorded, held,
                 noted, calls>>

AlterEntry(i, dec) == Tamper([audit_log EXCEPT ![i].body.decision = dec])

DigestsOnLog ==
  {GENESIS_HASH} \cup {audit_log[i].event_hash : i \in DOMAIN audit_log}

AlterDigests(i, previous, hash) ==
  Tamper([audit_log EXCEPT ![i].previous_event_hash = previous,
                           ![i].event_hash = hash])

RemoveEntry(i) == Tamper(RemoveAt(audit_log, i))
-----------------------------------------------------------------------------
HandleRequest ==
  \/ \E req \in OtherRequests : AnswerOther(req)
  \/ \E name \in Tools \cup {"unknown_tool"}, m \in MetricArgs,
        text \in TextArgs :
       \/ ToolRaises(name, m, text)
       \/ AuditRejected(name, m, text)
       \/ \E caller \in Callers :
            \/ ToolAnswers(name, m, text, caller)
            \/ ResultNotWritten(name, m, text, caller)

Next == HandleRequest \/ CreateCheckpoint \/ Restart

Spec == Init /\ [][Next]_vars

NextAltering ==
  \/ Next
  \/ \E i \in DOMAIN audit_log :
       \/ \E dec \in {"ALLOW", None} : AlterEntry(i, dec)
       \/ \E previous \in DigestsOnLog :
            \E hash \in DigestsOnLog
                 \cup {ComputeHash([audit_log[i] EXCEPT
                                     !.previous_event_hash = previous])} :
              AlterDigests(i, previous, hash)
       \/ RemoveEntry(i)

SpecAltering == Init /\ [][NextAltering]_vars
-----------------------------------------------------------------------------
\* Mutant: the signature and the length are all that is compared.
VerifyCheckpointLength(cp) ==
  /\ cp.signature = Signature(secret, cp.checkpoint_id, cp.sequence_end,
                              cp.last_event_hash)
  /\ cp.sequence_end <= Len(audit_log)
  /\ VerifyAuditChain

VerifyCheckpoint(cp) ==
  /\ cp.signature = Signature(secret, cp.checkpoint_id, cp.sequence_end,
                              cp.last_event_hash)
  /\ cp.sequence_end <= Len(audit_log)
  /\ cp.sequence_end > 0 =>
       audit_log[cp.sequence_end].event_hash = cp.last_event_hash
  /\ VerifyAuditChain
-----------------------------------------------------------------------------
(* Types of the server's state and of the ghosts.                          *)
TypeOK ==
  /\ audit_log \in Seq(Event)
  /\ checkpoints \in Seq(Checkpoint)
  /\ secret \in Nat /\ boots \in Nat /\ next_id \in Nat
  /\ resp \in Response
  /\ recorded \in Seq(Body)
  /\ held \subseteq [cp : Checkpoint, over : Seq(Body)]
  /\ noted \subseteq [hash : Hash, over : Seq(Body)]
  /\ altered \in Nat
  /\ calls \in [returned : Nat, answered : Nat, unwritten : Nat]

(* verify_audit_chain accepts every log the server builds.  The chain has  *)
(* no key, so it also accepts one that was cut or chained anew from an     *)
(* edited event on; but no log that it accepts and that still carries a    *)
(* digest somebody noted while the log verified says anything else of the  *)
(* events up to that digest than it said then.                             *)
DigestsPinHistory ==
  /\ altered = 0 => VerifyAuditChain
  /\ VerifyAuditChain =>
       \A n \in noted :
         (\E i \in DOMAIN audit_log : audit_log[i].event_hash = n.hash)
           => IsPrefix(n.over, Bodies)

(* A checkpoint taken over a log that verified pins the first sequence_end *)
(* events if verify_checkpoint accepts it: they are those it was taken     *)
(* over, whatever was edited, chained anew, cut or restarted since.        *)
CheckpointPinsHistory ==
  \A h \in held : VerifyCheckpoint(h.cp) => IsPrefix(h.over, Bodies)

(* Until the log is tampered with, every checkpoint of this process keeps  *)
(* verifying while the log grows.                                          *)
CheckpointsStayValid ==
  altered = 0 => \A i \in DOMAIN checkpoints : VerifyCheckpoint(checkpoints[i])

(* No tool call is answered with a result that has no event on the log.    *)
(* What the log holds beyond those answers are calls whose result could    *)
(* not be written, which takes a contract in scope with a value JSON does  *)
(* not know.  Events are numbered from 1 without a gap, no uuid is reused. *)
OneEventPerAnswer ==
  /\ Len(audit_log) = calls.answered + calls.unwritten
  /\ calls.unwritten > 0 =>
       \E m \in OpaqueVersion \cup OpaqueProbes : CheckDomainAuthorized(m)
  /\ \A i \in DOMAIN audit_log : audit_log[i].body.sequence_num = i
  /\ \A i, j \in DOMAIN audit_log :
       audit_log[i].body.event_id = audit_log[j].body.event_id => i = j

(* A client that was told ALLOW or REQUIRE_REVIEW finds that decision on   *)
(* the record, under the metric and the digest of the whole SQL it sent,   *)
(* and an ALLOW was earned: the SQL complies with that metric's contract.  *)
VerdictsAreOnRecord ==
  resp.decision \in {"ALLOW", "REQUIRE_REVIEW"} =>
    /\ \E i \in DOMAIN recorded :
         /\ recorded[i].metric_id = resp.metric
         /\ recorded[i].decision = resp.decision
         /\ recorded[i].sql_sha256 = [of |-> resp.text, prefix |-> FALSE]
    /\ resp.decision = "ALLOW" => Verdict[resp.metric][resp.text] = "compliant"

(* What the digests stand for, the invariant the guarantees above rest on. *)
(* In a log nobody tampered with, event i is chained on the first i - 1    *)
(* bodies and digests the first i, and a checkpoint carries the digest of  *)
(* the bodies it covers, signed with the key of its process.  What was     *)
(* held or noted carries the digest of the bodies it was taken over.       *)
ChainInv ==
  /\ recorded = Bodies
  /\ \A i \in 1 .. Len(audit_log) :
       /\ audit_log[i].previous_event_hash = SubSeq(Bodies, 1, i - 1)
       /\ audit_log[i].event_hash = SubSeq(Bodies, 1, i)

CheckpointInv ==
  \A i \in 1 .. Len(checkpoints) :
    LET cp == checkpoints[i]
    IN  /\ cp.sequence_end <= Len(audit_log)
        /\ cp.last_event_hash = SubSeq(Bodies, 1, cp.sequence_end)
        /\ cp.signature = Signature(secret, cp.checkpoint_id,
                                    cp.sequence_end, cp.last_event_hash)

HeldInv ==
  /\ \A h \in held : /\ h.cp.last_event_hash = h.over
                     /\ h.cp.sequence_end = Len(h.over)
  /\ \A n \in noted : n.hash = n.over

(* The audit trail implements the append-only ledger with anchors.         *)
Ledger == INSTANCE AuditLedger WITH
  Entry <- Body, ledger <- Bodies,
  anchors <- {checkpoints[i].last_event_hash : i \in DOMAIN checkpoints}

LedgerSpec == Ledger!Spec
=============================================================================
