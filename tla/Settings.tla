------------------------------ MODULE Settings ------------------------------
(***************************************************************************)
(* The settings live twice (services/settings.py): as rows of the table    *)
(* "settings", and as fields of the Settings object that the whole process *)
(* reads.  PUT /settings works key by key on its own session: it reads the *)
(* row, and the next statement of the session flushes what it made of it,  *)
(* which locks the row until the request ends.  It overrides the object    *)
(* before it commits.  An update writes the columns that differ from what  *)
(* the session has read, so a value that looks unchanged is not written.   *)
(***************************************************************************)
EXTENDS FiniteSets, Integers

CONSTANTS
    Fields,         \* keys with a field of the object (FIELD_MAP)
    Numbers,        \* those of them that hold a number
    Secrets,        \* those of them that are masked
    RowsOnly,       \* keys without a field (DB_ONLY_KEYS)
    Requests,       \* the PUT requests of the model; each is made once
    MaxKeys,        \* bound of the model: keys of one request
    MaxRestarts     \* bound of the model: restarts of the process

ASSUME KeysAssumption ==
    /\ Numbers \cup Secrets \subseteq Fields
    /\ Numbers \cap Secrets = {}
    /\ RowsOnly \cap Fields = {}
ASSUME BoundsAssumption == MaxKeys \in Nat /\ MaxRestarts \in Nat

VARIABLES
    row,        \* the committed rows
    runtime,    \* the fields of the Settings object
    request,    \* what each request does
    astray,     \* history: fields last set by something that explains a difference
    restarts

vars == <<row, runtime, request, astray, restarts>>

Keys == Fields \cup RowsOnly

(* What a client sends for a key: a good value, text that is no number,    *)
(* null, or the mask that GET showed instead of a secret.                  *)
Sent == {"a", "b", "text", "null"}
Stored == {"a", "b", "text", "blank"}
Absent == "absent"
Runtime == {"default", "a", "b", "text", "null"}

Encode(v) == IF v = "null" THEN "blank" ELSE v

(* _coerce: what is a number stays one; a field that is null takes all.    *)
IsNumber(k, v) == k \in Numbers /\ v \in {"default", "a", "b"}
Coerced(k, v, current) == IF v = "text" /\ IsNumber(k, current) THEN current ELSE v

Requested == [pc : {"idle", "working", "applied", "over"},
              payload : [Keys -> Sent \cup {"masked", "none"}],
              todo : SUBSET Keys,
              at : Keys \cup {"none"},
              seen : Stored \cup {Absent},
              writes : [Keys -> Stored \cup {"same", "none"}]]
NoRequest == [pc |-> "idle", payload |-> [k \in Keys |-> "none"], todo |-> {}, at |-> "none",
              seen |-> Absent, writes |-> [k \in Keys |-> "none"]]

TypeOK ==
    /\ row \in [Keys -> Stored \cup {Absent}]
    /\ runtime \in [Fields -> Runtime]
    /\ request \in [Requests -> Requested]
    /\ astray \subseteq Fields
    /\ restarts \in 0..MaxRestarts

Init ==
    /\ row = [k \in Keys |-> Absent]
    /\ runtime = [k \in Fields |-> "default"]
    /\ request = [r \in Requests |-> NoRequest]
    /\ astray = {}
    /\ restarts = 0

-----------------------------------------------------------------------------
(* Faulty variant of LooksMasked: the mask is taken for a value.           *)
LooksMaskedNever(v) == FALSE

LooksMasked(v) == v = "masked"

(* A request with some keys; a masked one is left as it is.                *)
Begins(r) ==
    /\ request[r].pc = "idle"
    /\ \E ks \in SUBSET Keys : \E p \in [Keys -> Sent \cup {"masked", "none"}] :
         /\ Cardinality(ks) \in 1..MaxKeys
         /\ \A k \in Keys : /\ p[k] = "none" <=> k \notin ks
                            /\ p[k] = "masked" => k \in Secrets
         /\ request' = [request EXCEPT ![r] =
              [NoRequest EXCEPT !.pc = "working", !.payload = p,
                                !.todo = {k \in ks : ~LooksMasked(p[k])}]]
    /\ UNCHANGED <<row, runtime, astray, restarts>>

(* session.get of the next key, in the order of the payload.               *)
Reads(r, k) ==
    /\ request[r].pc = "working"
    /\ request[r].at = "none"
    /\ k \in request[r].todo
    /\ request' = [request EXCEPT ![r].at = k, ![r].seen = row[k]]
    /\ UNCHANGED <<row, runtime, astray, restarts>>

Locked(k) == \E r \in Requests : request[r].writes[k] # "none"

(* The flush of that key waits for the lock on its row.  A key that had no *)
(* row is inserted, and another row with that key fails the request.       *)
Writes(r) ==
    LET q == request[r]  k == q.at  v == Encode(q.payload[k]) IN
    /\ q.pc = "working"
    /\ k # "none"
    /\ ~Locked(k)
    /\ q.seen = Absent => row[k] = Absent
    /\ request' = [request EXCEPT ![r].at = "none", ![r].todo = @ \ {k},
                                  ![r].writes[k] = IF v = q.seen THEN "same" ELSE v]
    /\ UNCHANGED <<row, runtime, astray, restarts>>

Touched(r) == {k \in Keys : request[r].writes[k] # "none"}

(* apply_overrides: what cannot be coerced is skipped with a warning.      *)
Overridden(r) ==
    [k \in Fields |-> IF k \in Touched(r) THEN Coerced(k, request[r].payload[k], runtime[k])
                      ELSE runtime[k]]

(* Faulty variant of Applies: without the flush before apply_overrides,    *)
(* the last row is written, and locked, with the commit only.              *)
AppliesUnflushed(r) ==
    LET q == request[r]  touched == Touched(r) \cup {q.at} IN
    /\ q.pc = "working"
    /\ q.todo = {q.at}
    /\ runtime' = [k \in Fields |-> IF k \in touched THEN Coerced(k, q.payload[k], runtime[k])
                                    ELSE runtime[k]]
    /\ request' = [request EXCEPT ![r].pc = "applied", ![r].writes[q.at] = Encode(q.payload[q.at])]
    /\ UNCHANGED <<row, astray, restarts>>

Applies(r) ==
    /\ request[r].pc = "working"
    /\ request[r].at = "none"
    /\ request[r].todo = {}
    /\ runtime' = Overridden(r)
    /\ request' = [request EXCEPT ![r].pc = "applied"]
    /\ UNCHANGED <<row, astray, restarts>>

Over(r) == [request EXCEPT ![r] = [NoRequest EXCEPT !.pc = "over"]]

Commits(r) ==
    LET w == request[r].writes
        stale == {k \in Touched(r) : w[k] = "same" /\ row[k] # Encode(request[r].payload[k])}
    IN
    /\ request[r].pc = "applied"
    /\ row' = [k \in Keys |-> IF w[k] \in {"none", "same"} THEN row[k] ELSE w[k]]
    /\ astray' = (astray \ Touched(r)) \cup (stale \cap Fields)
    /\ request' = Over(r)
    /\ UNCHANGED <<runtime, restarts>>

(* Anything the database refuses: a second row with a key, a deadlock of   *)
(* two requests, a lost connection.  The rows roll back, the object stays. *)
Fails(r) ==
    /\ request[r].pc \in {"working", "applied"}
    /\ astray' = astray \cup {k \in Fields \cap Touched(r) : request[r].pc = "applied"}
    /\ request' = Over(r)
    /\ UNCHANGED <<row, runtime, restarts>>

(* The process comes back with its defaults: load_from_db has no caller.   *)
Restart ==
    /\ restarts < MaxRestarts
    /\ restarts' = restarts + 1
    /\ runtime' = [k \in Fields |-> "default"]
    /\ request' = [r \in Requests |-> IF request[r].pc = "idle" THEN NoRequest
                                      ELSE [NoRequest EXCEPT !.pc = "over"]]
    /\ astray' = Fields
    /\ UNCHANGED row

Next ==
    \/ \E r \in Requests :
         \/ Begins(r)
         \/ \E k \in Keys : Reads(r, k)
         \/ Writes(r)
         \/ Applies(r)
         \/ Commits(r)
         \/ Fails(r)
    \/ Restart

Spec == Init /\ [][Next]_vars

-----------------------------------------------------------------------------
(* Properties *)

(* The two copies of a setting agree whenever no request holds its row,    *)
(* however requests overlap.  They part only for a reason: the commit      *)
(* failed after the override, an update looked unchanged against a stale   *)
(* read, the process restarted, or the text stored is no number.           *)
RuntimeFollowsRows ==
    \A k \in Fields \ astray :
        \/ Locked(k)
        \/ row[k] = Absent /\ runtime[k] = "default"
        \/ row[k] = Encode(runtime[k])
        \/ row[k] = "text" /\ IsNumber(k, runtime[k])
=============================================================================
