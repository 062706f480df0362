---------------------------- MODULE AuditLedger ----------------------------
(***************************************************************************)
(* What the MCP server's audit trail promises, without hashes or requests: *)
(* entries are only ever added at the end, and an anchor pins the whole    *)
(* ledger of its time.  Only the end of the process discards them.         *)
(***************************************************************************)
EXTENDS Naturals, Sequences, SequencesExt

CONSTANT Entry          \* what an audit event may say

VARIABLES ledger,       \* the entries recorded by this process
          anchors       \* the prefixes of the ledger that were anchored

ledgerVars == <<ledger, anchors>>

Init == ledger = <<>> /\ anchors = {}

(* One more entry; which one is not determined here. *)
Record ==
  /\ Len(ledger') = Len(ledger) + 1
  /\ ledger'[Len(ledger')] \in Entry
  /\ IsPrefix(ledger, ledger')
  /\ UNCHANGED anchors

Anchor == anchors' = anchors \cup {ledger} /\ UNCHANGED ledger

Lose == ledger' = <<>> /\ anchors' = {}

Next == Record \/ Anchor \/ Lose

Spec == Init /\ [][Next]_ledgerVars

(* Every anchor is a prefix of the ledger: what has been anchored is never *)
(* rewritten, reordered or dropped while the process lives.                *)
AnchorsHold == \A a \in anchors : IsPrefix(a, ledger)
=============================================================================
