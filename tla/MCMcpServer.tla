---------------------------- MODULE MCMcpServer ----------------------------
(* A small registry for TLC: two metrics inside the server's scope, one    *)
(* with probes that JSON cannot write and one with such a version and a    *)
(* malformed contract, and one outside the scope that only a tag places.   *)
EXTENDS McpServer

CONSTANTS revenue, dated, vitals, ghost, num, list, ok_sql, bad_sql, huge_sql,
          finance, health, general, client, none

MCMetaDomain == [m \in Metrics |-> IF m = revenue THEN finance ELSE none]
MCTagDomain == [m \in Metrics |-> IF m = vitals THEN health ELSE none]
MCDomains == {finance, health, general}
MCAllowedDomains == {finance, general}
MCOpaqueVersion == {dated, vitals} \cap Metrics
MCOpaqueProbes == {revenue} \cap Metrics
MCTooLong == {huge_sql} \cap Texts
MCVerdict ==
  [m \in Metrics |->
     [t \in Texts |-> CASE t = ok_sql -> IF m = dated THEN "contract_error"
                                         ELSE "compliant"
                          [] t = bad_sql -> "violating"
                          [] OTHER -> "syntax_error"]]

\* For the runs whose properties do not speak of the last answer: no action's
\* guard does either.
MCWithoutAnswer ==
  <<audit_log, checkpoints, secret, boots, next_id, recorded, held, noted,
    altered, calls>>

\* There a step that only answers leads to no other state; every other step
\* moves one of these.
MCCounts ==
  <<next_id, altered, boots, calls>>' # <<next_id, altered, boots, calls>>

\* For the run without restarts.  One process only reads its key to sign, so
\* the configured key stands for both; and a request rejected when no call is
\* left (internal_error may be the last call itself) leads nowhere new.
MCBrief == /\ secret = 0
           /\ calls.returned = MaxCalls => resp.code \in {"ok", "internal_error"}

\* One kind of call is enough where the properties do not speak of what an
\* event says (events differ by their uuids), and a call that leaves no event
\* only uses up the bound.
MCOneCall ==
  /\ calls.returned = calls.answered
  /\ \A i \in DOMAIN recorded : /\ recorded[i].tool_name = "scos_list_metrics"
                                /\ recorded[i].metric_id = none
=============================================================================
