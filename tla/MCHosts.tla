------------------------------ MODULE MCHosts ------------------------------
(* Two scripts on a host with one thread, and two requests about the host. *)
EXTENDS Hosts, TLC

CONSTANTS r1, r2, q1, q2

TwoRuns == {r1, r2}
TwoRequests == {q1, q2}

(* Scripts and requests share nothing but the code of their calls, so that *)
(* their interleavings are left out: one kind at a time.                   *)
OneKind == (\A r \in Runs : call[r].pc = "idle") \/ (\A q \in Requests : request[q].pc = "idle")

Alike == Permutations(TwoRuns) \cup Permutations(TwoRequests)
=============================================================================
