--------------------------- MODULE SettingsProofs ---------------------------
(***************************************************************************)
(* Theorems about the settings, for any keys, any number of overlapping    *)
(* requests and any number of restarts: type correctness, and that the two *)
(* copies of a setting part only for the reasons the history records.      *)
(***************************************************************************)
EXTENDS Settings, TLAPS

(* A request works on keys with a value; what it has flushed is that value *)
(* or, if it looked unchanged, nothing.  A request that is idle or over    *)
(* holds no lock.                                                          *)
RequestInv(r) ==
    LET q == request[r] IN
    /\ \A k \in q.todo : q.payload[k] \in Sent
    /\ q.at # "none" => q.at \in q.todo /\ q.pc = "working"
    /\ \A k \in Keys : q.writes[k] # "none" =>
         /\ q.pc \in {"working", "applied"}
         /\ q.payload[k] \in Sent
         /\ q.writes[k] \in {"same", Encode(q.payload[k])}

(* The lock on a row has one holder. *)
OneHolder ==
    \A r, s \in Requests : \A k \in Keys :
        request[r].writes[k] # "none" /\ request[s].writes[k] # "none" => r = s

(* What "the two copies agree" means for a row with value v.               *)
Agrees(k, v) ==
    \/ v = Absent /\ runtime[k] = "default"
    \/ v = Encode(runtime[k])
    \/ v = "text" /\ IsNumber(k, runtime[k])

(* Request r has overridden field k and has not committed it.              *)
Overrides(r, k) == request[r].pc = "applied" /\ request[r].writes[k] # "none"

(* Between the override and the commit the object already agrees with the  *)
(* row that the request is about to commit; at any other time it agrees    *)
(* with the committed row.                                                 *)
FieldInv(k) ==
    /\ \A r \in Requests : Overrides(r, k) => Agrees(k, Encode(request[r].payload[k]))
    /\ k \notin astray /\ (\A r \in Requests : ~Overrides(r, k)) => Agrees(k, row[k])

IInv == OneHolder /\ \A k \in Fields : FieldInv(k)

-----------------------------------------------------------------------------
(* Type correctness. *)

(* A request that is not being made, or has begun, has the type of one.    *)
LEMMA RequestTypes ==
    ASSUME NEW pc \in {"idle", "working", "over"},
           NEW p \in [Keys -> Sent \cup {"masked", "none"}], NEW todo \in SUBSET Keys
    PROVE  /\ NoRequest \in Requested
           /\ [NoRequest EXCEPT !.pc = pc] \in Requested
           /\ [NoRequest EXCEPT !.pc = pc, !.payload = p, !.todo = todo] \in Requested
<1>1. NoRequest \in Requested
  BY DEF NoRequest, Requested, Stored, Absent, Sent
<1> QED
  BY <1>1 DEF Requested

(* What a value becomes in the table, and in the object.                   *)
LEMMA ValueTypes ==
    ASSUME NEW k, NEW v \in Sent, NEW current \in Runtime
    PROVE  Encode(v) \in Stored /\ Coerced(k, v, current) \in Runtime
  BY DEF Sent, Stored, Runtime, Encode, Coerced

(* The types, and the part of the invariant they need. *)
TypeInv == TypeOK /\ \A r \in Requests : RequestInv(r)

(* Rows, fields and requests keep their types, and a request that has      *)
(* flushed a key knows what it is going to commit.                         *)
THEOREM TypesInductive == Spec => []TypeInv
<1>1. Init => TypeInv
  <2> SUFFICES ASSUME Init
               PROVE  TypeInv
    OBVIOUS
  <2>1. NoRequest \in Requested
    BY DEF NoRequest, Requested, Stored, Absent, Sent
  <2>2. TypeOK
    BY <2>1, BoundsAssumption DEF Init, TypeOK, Runtime
  <2>3. ASSUME NEW r \in Requests
        PROVE  RequestInv(r)
    BY DEF Init, RequestInv, NoRequest
  <2> QED
    BY <2>2, <2>3 DEF TypeInv
<1>2. TypeInv /\ [Next]_vars => TypeInv'
  <2> SUFFICES ASSUME TypeInv, [Next]_vars
               PROVE  TypeInv'
    OBVIOUS
  <2>0. TypeOK /\ \A r \in Requests : RequestInv(r) /\ request[r] \in Requested
    BY DEF TypeInv, TypeOK
  <2>1. ASSUME NEW r \in Requests, NEW q \in Requested,
               request' = [request EXCEPT ![r] = q], RequestInv(r)'
        PROVE  /\ request' \in [Requests -> Requested]
               /\ \A s \in Requests : RequestInv(s)'
    <3>1. request' \in [Requests -> Requested] /\ \A s \in Requests \ {r} : request'[s] = request[s]
      BY <2>0, <2>1 DEF TypeOK
    <3>2. ASSUME NEW s \in Requests \ {r}
          PROVE  RequestInv(s)'
      BY <2>0, <3>1 DEF RequestInv
    <3> QED
      BY <2>1, <3>1, <3>2
  <2>2. ASSUME NEW r \in Requests, Begins(r)
        PROVE  TypeInv'
    <3>1. PICK ks \in SUBSET Keys, p \in [Keys -> Sent \cup {"masked", "none"}] :
            /\ \A k \in Keys : p[k] = "none" <=> k \notin ks
            /\ request' = [request EXCEPT ![r] =
                 [NoRequest EXCEPT !.pc = "working", !.payload = p,
                                   !.todo = {k \in ks : ~LooksMasked(p[k])}]]
      BY <2>2 DEF Begins
    <3> DEFINE todo == {k \in ks : ~LooksMasked(p[k])}
               q == [NoRequest EXCEPT !.pc = "working", !.payload = p, !.todo = todo]
    <3>2. q \in Requested
      BY RequestTypes
    <3>3. /\ q.payload = p /\ q.todo = todo /\ q.at = "none"
          /\ \A k \in Keys : q.writes[k] = "none"
      BY DEF NoRequest
    <3>4. \A k \in todo : p[k] \in Sent
      BY <3>1 DEF LooksMasked
    <3>5. request'[r] = q
      BY <2>0, <3>1 DEF TypeOK
    <3> HIDE DEF q, todo
    <3>6. RequestInv(r)'
      BY <3>3, <3>4, <3>5 DEF RequestInv
    <3> QED
      BY <2>0, <2>1, <2>2, <3>1, <3>2, <3>6 DEF Begins, TypeInv, TypeOK, q, todo
  <2>3. ASSUME NEW r \in Requests, NEW k \in Keys, Reads(r, k)
        PROVE  TypeInv'
    <3> DEFINE q == [request[r] EXCEPT !.at = k, !.seen = row[k]]
    <3>0. request[r] \in Requested /\ row[k] \in Stored \cup {Absent} /\ k \in request[r].todo
      BY <2>0, <2>3 DEF Reads, TypeOK
    <3>q. q \in Requested
      BY <3>0 DEF Requested
    <3>1. q \in Requested /\ request' = [request EXCEPT ![r] = q]
      BY <2>3, <3>q DEF Reads
    <3>2. request'[r] = q
      BY <2>0, <3>1 DEF TypeOK
    <3>a. /\ q.at = k /\ q.pc = "working" /\ k \in q.todo /\ q.todo = request[r].todo
          /\ q.payload = request[r].payload /\ q.writes = request[r].writes
      BY <2>0, <2>3 DEF Reads, Requested
    <3>b. RequestInv(r)
      BY <2>0
    <3> HIDE DEF q
    <3>3. RequestInv(r)'
      BY <2>3, <3>a, <3>b, <3>2 DEF Reads, RequestInv
    <3> QED
      BY <2>0, <2>1, <2>3, <3>1, <3>3 DEF Reads, TypeInv, TypeOK
  <2>4. ASSUME NEW r \in Requests, Writes(r)
        PROVE  TypeInv'
    <3> DEFINE k == request[r].at
               v == Encode(request[r].payload[k])
               w == IF v = request[r].seen THEN "same" ELSE v
               q == [request[r] EXCEPT !.at = "none", !.todo = @ \ {k}, !.writes[k] = w]
    <3>0. k \in Keys /\ k \in request[r].todo /\ request[r].payload[k] \in Sent
      BY <2>0, <2>4 DEF Writes, RequestInv, Requested
    <3>1. v \in Stored
      BY <3>0, ValueTypes DEF Runtime
    <3>2. request' = [request EXCEPT ![r] = q]
      BY <2>4 DEF Writes
    <3> HIDE DEF v
    <3>3. w \in Stored \cup {"same", "none"} /\ w \in {"same", v}
      BY <3>1
    <3> HIDE DEF w
    <3>4. q \in Requested
      <4>1. [request[r].writes EXCEPT ![k] = w] \in [Keys -> Stored \cup {"same", "none"}]
        <5> DEFINE ws == request[r].writes
                   S == Stored \cup {"same", "none"}
        <5>1. ws \in [Keys -> S] /\ k \in Keys /\ w \in S
          BY <2>0, <3>0, <3>3 DEF Requested
        <5> HIDE DEF ws, S, k
        <5>2. [ws EXCEPT ![k] = w] \in [Keys -> S]
          BY <5>1
        <5> QED
          BY <5>2 DEF ws, S, k
      <4>2. request[r] \in Requested /\ (request[r].todo \ {k}) \in SUBSET Keys
        BY <2>0 DEF Requested
      <4>3. q = [request[r] EXCEPT !.at = "none", !.todo = request[r].todo \ {k},
                                   !.writes = [request[r].writes EXCEPT ![k] = w]]
        BY <4>2 DEF Requested
      <4> HIDE DEF q, k
      <4> QED
        BY <4>1, <4>2, <4>3 DEF Requested
    <3>5. /\ q.pc = "working" /\ q.at = "none" /\ q.todo = request[r].todo \ {k}
          /\ q.payload = request[r].payload
          /\ \A l \in Keys : q.writes[l] = IF l = k THEN w ELSE request[r].writes[l]
      BY <2>0, <2>4, <3>0 DEF Writes, Requested
    <3>6. request'[r] = q
      BY <2>0, <3>2 DEF TypeOK
    <3> HIDE DEF q
    <3>7. RequestInv(r)'
      <4>1. \A l \in q.todo : q.payload[l] \in Sent
        BY <2>0, <3>5 DEF RequestInv
      <4>2. ASSUME NEW l \in Keys, q.writes[l] # "none"
            PROVE  q.payload[l] \in Sent /\ q.writes[l] \in {"same", Encode(q.payload[l])}
        <5>1. CASE l = k
          BY <3>0, <3>3, <3>5, <5>1 DEF v
        <5>2. CASE l # k
          BY <2>0, <3>5, <4>2, <5>2 DEF RequestInv
        <5> QED
          BY <5>1, <5>2
      <4> QED
        BY <3>5, <3>6, <4>1, <4>2 DEF RequestInv
    <3> QED
      BY <2>0, <2>1, <2>4, <3>2, <3>4, <3>7 DEF Writes, TypeInv, TypeOK
  <2>5. ASSUME NEW r \in Requests, Applies(r)
        PROVE  TypeInv'
    <3> DEFINE q == [request[r] EXCEPT !.pc = "applied"]
    <3>q. q \in Requested
      BY <2>0 DEF Requested
    <3>1. q \in Requested /\ request' = [request EXCEPT ![r] = q] /\ request'[r] = q
      BY <2>0, <2>5, <3>q DEF Applies, TypeOK
    <3>2. RequestInv(r)'
      BY <2>0, <2>5, <3>1 DEF Applies, RequestInv, Requested
    <3>3. runtime' \in [Fields -> Runtime]
      <4>1. ASSUME NEW k \in Fields
            PROVE  runtime'[k] \in Runtime
        <5>1. CASE k \in Touched(r)
          <6>1. request[r].payload[k] \in Sent /\ runtime[k] \in Runtime
            BY <2>0, <5>1 DEF Touched, RequestInv, TypeOK
          <6> QED
            BY <2>5, <5>1, <6>1, ValueTypes DEF Applies, Overridden
        <5>2. CASE k \notin Touched(r)
          BY <2>0, <2>5, <5>2 DEF Applies, Overridden, TypeOK
        <5> QED
          BY <5>1, <5>2
      <4> QED
        BY <2>5, <4>1 DEF Applies, Overridden
    <3> HIDE DEF q
    <3> QED
      BY <2>0, <2>1, <2>5, <3>1, <3>2, <3>3 DEF Applies, TypeInv, TypeOK
  <2>6. ASSUME NEW r \in Requests, Commits(r) \/ Fails(r)
        PROVE  TypeInv'
    <3> DEFINE q == [NoRequest EXCEPT !.pc = "over"]
    <3>1. request' = [request EXCEPT ![r] = q]
      BY <2>6 DEF Commits, Fails, Over
    <3>2. q \in Requested
      <4>1. NoRequest \in Requested
        BY DEF NoRequest, Requested, Stored, Absent, Sent
      <4> QED
        BY <4>1 DEF Requested
    <3>3. q.todo = {} /\ q.at = "none" /\ \A k \in Keys : q.writes[k] = "none"
      BY DEF NoRequest
    <3>4. request'[r] = q
      BY <2>0, <3>1 DEF TypeOK
    <3> HIDE DEF q
    <3>5. RequestInv(r)'
      BY <3>3, <3>4 DEF RequestInv
    <3>6. row' \in [Keys -> Stored \cup {Absent}]
      <4>1. CASE Commits(r)
        <5>1. \A k \in Keys : /\ row[k] \in Stored \cup {Absent}
                              /\ request[r].writes[k] \in Stored \cup {"same", "none"}
          BY <2>0 DEF TypeOK, Requested
        <5> QED
          BY <4>1, <5>1 DEF Commits
      <4>2. CASE Fails(r)
        BY <2>0, <4>2 DEF Fails, TypeOK
      <4> QED
        BY <2>6, <4>1, <4>2
    <3>7. astray' \subseteq Fields
      BY <2>0, <2>6 DEF Commits, Fails, TypeOK
    <3> QED
      BY <2>0, <2>1, <2>6, <3>1, <3>2, <3>5, <3>6, <3>7 DEF Commits, Fails, TypeInv, TypeOK
  <2>7. CASE Restart
    <3> DEFINE q == [NoRequest EXCEPT !.pc = "over"]
    <3>1. NoRequest \in Requested /\ q \in Requested
      <4>1. NoRequest \in Requested
        BY DEF NoRequest, Requested, Stored, Absent, Sent
      <4> QED
        BY <4>1 DEF Requested
    <3>2. /\ q.todo = {} /\ q.at = "none" /\ \A k \in Keys : q.writes[k] = "none"
          /\ NoRequest.todo = {} /\ NoRequest.at = "none"
          /\ \A k \in Keys : NoRequest.writes[k] = "none"
      BY DEF NoRequest
    <3>3. /\ request' \in [Requests -> {NoRequest, q}]
      BY <2>7 DEF Restart
    <3> HIDE DEF q
    <3>4. \A r \in Requests : RequestInv(r)'
      BY <3>2, <3>3 DEF RequestInv
    <3>5. request' \in [Requests -> Requested]
      BY <3>1, <3>3
    <3>6. runtime' \in [Fields -> Runtime]
      BY <2>7 DEF Restart, Runtime
    <3>7. restarts' \in 0..MaxRestarts
      BY <2>0, <2>7, BoundsAssumption DEF Restart, TypeOK
    <3> QED
      BY <2>0, <2>7, <3>4, <3>5, <3>6, <3>7 DEF Restart, TypeInv, TypeOK
  <2>8. CASE UNCHANGED vars
    BY <2>0, <2>8 DEF vars, TypeInv, TypeOK, RequestInv
  <2> QED
    BY <2>2, <2>3, <2>4, <2>5, <2>6, <2>7, <2>8 DEF Next
<1> QED
  BY <1>1, <1>2, PTL DEF Spec

(* No mask is ever stored, used or taken for a value: every key and every  *)
(* field keeps to what was sent for it.                                    *)
THEOREM TypeCorrect == Spec => []TypeOK
<1>1. TypeInv => TypeOK
  BY DEF TypeInv
<1> QED
  BY <1>1, TypesInductive, PTL

-----------------------------------------------------------------------------
(* The agreement of the two copies. *)

(* apply_overrides leaves the object in agreement with what was flushed:   *)
(* with the value, or as it was when the text stored is no number.         *)
LEMMA OverrideAgrees ==
    ASSUME NEW k \in Fields, NEW v \in Sent, runtime'[k] = Coerced(k, v, runtime[k])
    PROVE  Agrees(k, Encode(v))'
  BY DEF Agrees, Coerced, Encode, Sent, IsNumber

(* A step of one request keeps the invariant of the locks and the fields   *)
(* if rows and object stay and the request overrides nothing.              *)
LEMMA QuietRequest ==
    ASSUME IInv, NEW r \in Requests, UNCHANGED <<row, runtime>>, astray' = astray,
           \A s \in Requests \ {r} : request'[s] = request[s],
           \A k \in Keys : ~Overrides(r, k) /\ ~Overrides(r, k)',
           \A k \in Keys : request'[r].writes[k] # "none" =>
               request[r].writes[k] # "none" \/ ~Locked(k)
    PROVE  IInv'
<1>1. OneHolder'
  <2> SUFFICES ASSUME NEW s \in Requests, NEW u \in Requests, NEW k \in Keys,
                      request'[s].writes[k] # "none", request'[u].writes[k] # "none"
               PROVE  s = u
    BY DEF OneHolder
  <2>1. CASE s # r /\ u # r
    BY <2>1 DEF IInv, OneHolder
  <2>2. CASE s = r /\ u # r
    BY <2>2 DEF IInv, OneHolder, Locked
  <2>3. CASE s # r /\ u = r
    BY <2>3 DEF IInv, OneHolder, Locked
  <2> QED
    BY <2>1, <2>2, <2>3
<1>2. ASSUME NEW k \in Fields
      PROVE  FieldInv(k)'
  <2>1. FieldInv(k) /\ k \in Keys
    BY DEF IInv, Keys
  <2>2. \A s \in Requests : /\ Overrides(s, k)' <=> Overrides(s, k)
                            /\ Overrides(s, k) => request'[s] = request[s]
    BY <2>1 DEF Overrides
  <2> QED
    BY <2>1, <2>2 DEF FieldInv, Agrees
<1> QED
  BY <1>1, <1>2 DEF IInv

(* The locks have one holder each, and between the override and the        *)
(* commit the object runs ahead of the rows by what is about to commit.    *)
THEOREM Inductive == Spec => []IInv
<1>1. Init => IInv
  BY DEF Init, IInv, OneHolder, FieldInv, Overrides, Agrees, NoRequest, Keys
<1>2. TypeInv /\ IInv /\ [Next]_vars => IInv'
  <2> SUFFICES ASSUME TypeInv, IInv, [Next]_vars
               PROVE  IInv'
    OBVIOUS
  <2>0. /\ request \in [Requests -> Requested]
        /\ \A r \in Requests : RequestInv(r) /\ request[r] \in Requested
    BY DEF TypeInv, TypeOK
  <2>1. ASSUME NEW r \in Requests, Begins(r)
        PROVE  IInv'
    <3>1. PICK p, todo : request' = [request EXCEPT ![r] =
            [NoRequest EXCEPT !.pc = "working", !.payload = p, !.todo = todo]]
      BY <2>1 DEF Begins
    <3>2. /\ request'[r].pc = "working" /\ \A k \in Keys : request'[r].writes[k] = "none"
          /\ \A s \in Requests \ {r} : request'[s] = request[s]
      BY <2>0, <3>1 DEF NoRequest
    <3> QED
      BY <2>1, <3>2, QuietRequest DEF Begins, Overrides
  <2>2. ASSUME NEW r \in Requests, NEW k \in Keys, Reads(r, k)
        PROVE  IInv'
    <3>1. /\ request[r].pc = "working" /\ request'[r].pc = "working"
          /\ request'[r].writes = request[r].writes
          /\ \A s \in Requests \ {r} : request'[s] = request[s]
      BY <2>0, <2>2 DEF Reads, Requested
    <3> QED
      BY <2>2, <3>1, QuietRequest DEF Reads, Overrides
  <2>3. ASSUME NEW r \in Requests, Writes(r)
        PROVE  IInv'
    <3> DEFINE k == request[r].at
    <3>1. /\ request[r].pc = "working" /\ request'[r].pc = "working" /\ ~Locked(k)
          /\ \A s \in Requests \ {r} : request'[s] = request[s]
          /\ \A l \in Keys \ {k} : request'[r].writes[l] = request[r].writes[l]
      BY <2>0, <2>3 DEF Writes, Requested
    <3> HIDE DEF k
    <3> QED
      BY <2>3, <3>1, QuietRequest DEF Writes, Overrides
  <2>4. ASSUME NEW r \in Requests, Applies(r)
        PROVE  IInv'
    <3>1. /\ request[r].pc = "working" /\ request'[r].pc = "applied"
          /\ request'[r].writes = request[r].writes /\ request'[r].payload = request[r].payload
          /\ \A s \in Requests \ {r} : request'[s] = request[s]
          /\ row' = row /\ astray' = astray
      BY <2>0, <2>4 DEF Applies, Requested
    <3>2. OneHolder'
      BY <3>1 DEF IInv, OneHolder
    <3>3. ASSUME NEW k \in Fields, k \in Touched(r)
          PROVE  FieldInv(k)'
      <4>1. Overrides(r, k)' /\ \A s \in Requests \ {r} : ~Overrides(s, k)'
        BY <3>1, <3>3 DEF Overrides, Touched, IInv, OneHolder
      <4>2. request[r].payload[k] \in Sent
        BY <2>0, <3>3 DEF RequestInv, Touched
      <4>3. runtime'[k] = Coerced(k, request[r].payload[k], runtime[k])
        BY <2>4, <3>3 DEF Applies, Overridden
      <4>4. Agrees(k, Encode(request[r].payload[k]))'
        BY <3>1, <4>2, <4>3, OverrideAgrees DEF Agrees
      <4> QED
        BY <3>1, <4>1, <4>4 DEF FieldInv
    <3>4. ASSUME NEW k \in Fields, k \notin Touched(r)
          PROVE  FieldInv(k)'
      <4>1. runtime'[k] = runtime[k] /\ k \in Keys
        BY <2>4, <3>4 DEF Applies, Overridden, Keys
      <4>2. /\ ~Overrides(r, k) /\ ~Overrides(r, k)'
            /\ \A s \in Requests \ {r} : Overrides(s, k)' <=> Overrides(s, k)
        BY <3>1, <3>4, <4>1 DEF Overrides, Touched
      <4>3. FieldInv(k)
        BY DEF IInv
      <4> QED
        BY <3>1, <4>1, <4>2, <4>3 DEF FieldInv, Agrees
    <3> QED
      BY <3>2, <3>3, <3>4 DEF IInv
  <2>5. ASSUME NEW r \in Requests, request' = Over(r), runtime' = runtime,
               \A k \in Fields \ Touched(r) : row'[k] = row[k] /\ (k \in astray' <=> k \in astray),
               \A k \in Fields \cap Touched(r) : k \notin astray' => Agrees(k, row'[k])
        PROVE  IInv'
    <3>1. /\ \A k \in Keys : request'[r].writes[k] = "none"
          /\ \A s \in Requests \ {r} : request'[s] = request[s]
      BY <2>0, <2>5 DEF Over, NoRequest
    <3>2. OneHolder'
      BY <3>1 DEF IInv, OneHolder
    <3>3. ASSUME NEW k \in Fields
          PROVE  FieldInv(k)'
      <4>0. FieldInv(k) /\ k \in Keys
        BY DEF IInv, Keys
      <4>1. ~Overrides(r, k)' /\ \A s \in Requests \ {r} : Overrides(s, k)' <=> Overrides(s, k)
        BY <3>1, <4>0 DEF Overrides
      <4>2. CASE k \in Touched(r)
        <5>1. \A s \in Requests \ {r} : ~Overrides(s, k)
          BY <4>0, <4>2 DEF Overrides, Touched, IInv, OneHolder
        <5> QED
          BY <2>5, <4>1, <4>2, <5>1 DEF FieldInv, Agrees
      <4>3. CASE k \notin Touched(r)
        <5>1. ~Overrides(r, k)
          BY <4>0, <4>3 DEF Overrides, Touched
        <5> QED
          BY <2>5, <3>1, <4>0, <4>1, <4>3, <5>1 DEF FieldInv, Agrees
      <4> QED
        BY <4>2, <4>3
    <3> QED
      BY <3>2, <3>3 DEF IInv
  <2>6. ASSUME NEW r \in Requests, Commits(r)
        PROVE  IInv'
    <3>1. ASSUME NEW k \in Fields \ Touched(r)
          PROVE  row'[k] = row[k] /\ (k \in astray' <=> k \in astray)
      BY <2>6, <3>1 DEF Commits, Touched, Keys
    <3>2. ASSUME NEW k \in Fields \cap Touched(r), k \notin astray'
          PROVE  Agrees(k, row'[k])
      <4>1. /\ request[r].writes[k] # "none" /\ k \in Keys
            /\ request[r].writes[k] \in {"same", Encode(request[r].payload[k])}
        BY <2>0, <3>2 DEF Touched, RequestInv
      <4>2. row'[k] = Encode(request[r].payload[k])
        BY <2>6, <3>2, <4>1 DEF Commits, Touched
      <4>3. Overrides(r, k)
        BY <2>6, <4>1 DEF Commits, Overrides
      <4> QED
        BY <4>2, <4>3 DEF IInv, FieldInv
    <3> QED
      BY <2>5, <2>6, <3>1, <3>2 DEF Commits
  <2>7. ASSUME NEW r \in Requests, Fails(r)
        PROVE  IInv'
    <3>1. CASE request[r].pc = "applied"
      BY <2>5, <2>7, <3>1 DEF Fails
    <3>2. CASE request[r].pc = "working"
      <4>1. astray' = astray /\ row' = row /\ runtime' = runtime /\ request' = Over(r)
        BY <2>7, <3>2 DEF Fails
      <4>2. /\ \A s \in Requests \ {r} : request'[s] = request[s]
            /\ request'[r].pc = "over" /\ \A k \in Keys : request'[r].writes[k] = "none"
        BY <2>0, <4>1 DEF Over, NoRequest
      <4> QED
        BY <3>2, <4>1, <4>2, QuietRequest DEF Overrides
    <3> QED
      BY <2>7, <3>1, <3>2 DEF Fails
  <2>8. CASE Restart
    <3>1. \A r \in Requests : \A k \in Keys : request'[r].writes[k] = "none"
      BY <2>8 DEF Restart, NoRequest
    <3> QED
      BY <2>8, <3>1 DEF Restart, IInv, OneHolder, FieldInv, Overrides, Keys
  <2>9. CASE UNCHANGED vars
    BY <2>9 DEF vars, IInv, OneHolder, FieldInv, Overrides, Agrees
  <2> QED
    BY <2>1, <2>2, <2>3, <2>4, <2>6, <2>7, <2>8, <2>9 DEF Next
<1> QED
  BY <1>1, <1>2, TypesInductive, PTL DEF Spec

(* Whatever requests overlap, a field whose row nobody holds agrees with   *)
(* it, but for the reasons that the history records.                       *)
THEOREM CopiesAgree == Spec => []RuntimeFollowsRows
<1>1. IInv => RuntimeFollowsRows
  <2> SUFFICES ASSUME IInv, NEW k \in Fields \ astray, ~Locked(k)
               PROVE  Agrees(k, row[k])
    BY DEF RuntimeFollowsRows, Agrees
  <2> QED
    BY DEF IInv, FieldInv, Overrides, Locked
<1> QED
  BY <1>1, Inductive, PTL
=============================================================================
