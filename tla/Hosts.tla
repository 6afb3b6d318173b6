------------------------------- MODULE Hosts -------------------------------
(***************************************************************************)
(* The rows of the hosts (services/host.py, api/hosts.py) on top of the    *)
(* channel: a request that creates or pings a host calls it first, for as  *)
(* long as three attempts take, with the row it has read in its session.   *)
(* A commit writes the columns that the handler set.  Hosts do not touch   *)
(* each other: the module has one name.                                    *)
(***************************************************************************)
EXTENDS HostChannel

CONSTANT Endpoints

VARIABLES
    host,       \* the committed row with this name
    request     \* what each request does; it owns the ping of its name

vars == <<cvars, host, request>>

Requests == Pings
Row == [there : BOOLEAN, endpoint : Endpoints, pinged : BOOLEAN, deleted : BOOLEAN]

TypeOK ==
    /\ ChannelTypeOK
    /\ host \in Row
    /\ request \in [Requests -> [kind : {"none", "create", "ping", "update", "delete"},
                                 pc : {"idle", "calling", "set", "over"},
                                 seen : Row, new : Row]]

Init ==
    /\ ChannelInit
    /\ host \in {h \in Row : ~h.deleted /\ (h.pinged => h.there)}
    /\ request = [q \in Requests |-> [kind |-> "none", pc |-> "idle", seen |-> host, new |-> host]]

ScriptCalled(r) ==
    /\ Begins(r)
    /\ UNCHANGED <<host, request>>

(* POST /hosts and POST /hosts/{id}/ping: the call comes first.            *)
Calling(q, kind) ==
    /\ request[q].pc = "idle"
    /\ CASE kind = "create" -> TRUE
         [] kind = "ping" -> host.there /\ ~host.deleted
    /\ request' = [request EXCEPT ![q] = [kind |-> kind, pc |-> "calling", seen |-> host, new |-> host]]
    /\ Begins(q)
    /\ UNCHANGED host

(* ping_host sets last_ping_at after an answer, and never clears it.       *)
Pinged(h, answer) == [h EXCEPT !.pinged = @ \/ answer = "pong"]

(* create_host inserts, whether the host answered or not.                  *)
Called(q) ==
    /\ request[q].pc = "calling"
    /\ call[q].pc = "over"
    /\ \E e \in Endpoints :
         request' = [request EXCEPT ![q].pc = "set", ![q].new =
             IF request[q].kind = "create"
             THEN [there |-> TRUE, endpoint |-> e, pinged |-> call[q].answer = "pong", deleted |-> FALSE]
             ELSE Pinged(@, call[q].answer)]
    /\ UNCHANGED <<cvars, host>>

Updates(q) ==
    /\ request[q].pc = "idle"
    /\ host.there /\ ~host.deleted
    /\ \E e \in Endpoints :
         request' = [request EXCEPT ![q] = [kind |-> "update", pc |-> "set", seen |-> host,
                                            new |-> [host EXCEPT !.endpoint = e]]]
    /\ UNCHANGED <<cvars, host>>

Deletes(q) ==
    /\ request[q].pc = "idle"
    /\ host.there
    /\ request' = [request EXCEPT ![q] = [kind |-> "delete", pc |-> "set", seen |-> host,
                                          new |-> [host EXCEPT !.deleted = TRUE]]]
    /\ UNCHANGED <<cvars, host>>

(* An UPDATE writes the columns that the handler changed.                  *)
Flushed(row, seen, new) ==
    [f \in DOMAIN row |-> IF new[f] = seen[f] THEN row[f] ELSE new[f]]

(* Faulty variant of Commits: a host takes the row that has its name.      *)
CommitsOver(q) ==
    /\ request[q].pc = "set"
    /\ host' = IF request[q].kind = "create" THEN request[q].new
               ELSE Flushed(host, request[q].seen, request[q].new)
    /\ request' = [request EXCEPT ![q].pc = "over", ![q].seen = host', ![q].new = host']
    /\ UNCHANGED cvars

(* The name is unique, also among the deleted ones.                        *)
Commits(q) ==
    /\ request[q].pc = "set"
    /\ request[q].kind = "create" => ~host.there
    /\ host' = IF request[q].kind = "create" THEN request[q].new
               ELSE Flushed(host, request[q].seen, request[q].new)
    /\ request' = [request EXCEPT ![q].pc = "over", ![q].seen = host', ![q].new = host']
    /\ UNCHANGED cvars

Fails(q) ==
    /\ request[q].pc = "set"
    /\ request' = [request EXCEPT ![q].pc = "over", ![q].seen = host, ![q].new = host]
    /\ UNCHANGED <<cvars, host>>

Next ==
    \/ ChannelNext /\ UNCHANGED <<host, request>>
    \/ \E r \in Runs : ScriptCalled(r)
    \/ \E q \in Requests :
         \/ \E kind \in {"create", "ping"} : Calling(q, kind)
         \/ Called(q)
         \/ Updates(q)
         \/ Deletes(q)
         \/ Commits(q)
         \/ Fails(q)

Spec == Init /\ [][Next]_vars

-----------------------------------------------------------------------------
(* Properties *)

(* A deleted host stays deleted, whatever a ping or an update that read it *)
(* before commits afterwards.                                              *)
DeletedHostStays == [][host.deleted => host'.deleted]_vars
=============================================================================
