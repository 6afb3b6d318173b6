------------------------ MODULE TaskSchedulerProofs ------------------------
(***************************************************************************)
(* What holds of TaskScheduler for any number of tasks, requests, runs and *)
(* restarts, and any schedules.                                            *)
(***************************************************************************)
EXTENDS TaskScheduler, TLAPS

-----------------------------------------------------------------------------
(* Facts about the definitions. *)

(* A row that is there has the job that sync_task_job leaves for it.       *)
LEMMA RegisteredIsDue ==
    ASSUME NEW r \in Rows, r.status = "live"
    PROVE  Registered(r) = Due(r)
  BY DEF Registered, Due

(* Both are a schedule that APScheduler takes, or none.                    *)
LEMMA DueType ==
    ASSUME NEW r \in Rows
    PROVE  /\ Registered(r) \in Valid \cup {"none"}
           /\ Due(r) \in Valid \cup {"none"}
  BY DEF Registered, Due

(* What load_all_jobs leaves behind: jobs of the right type, and where it  *)
(* got to the end, the job that each row calls for.                        *)
LEMMA LoadedJobs ==
    ASSUME row \in [Tasks -> Rows], NEW l \in Loaded
    PROVE  /\ l.job \in [Tasks -> Valid \cup {"none"}]
           /\ l.inStep \in [Tasks -> BOOLEAN]
           /\ \A t \in Tasks : l.inStep[t] => l.job[t] = Due(row[t])
  <1> DEFINE due == {t \in Tasks : row[t].status = "live" /\ row[t].enabled /\ row[t].schedule # "manual"}
             breaking == {t \in due : row[t].schedule \in Malformed}
             Having(got, whole) ==
                [job |-> [t \in Tasks |-> IF t \in got THEN Registered(row[t]) ELSE "none"],
                 inStep |-> [t \in Tasks |-> whole]]
  <1>1. PICK got \in SUBSET Tasks, whole \in BOOLEAN :
            l = Having(got, whole) /\ (whole => got = due)
    <2>1. CASE breaking = {}
      <3>1. \/ l = Having(due, TRUE)
            \/ l = Having({}, FALSE)
        BY <2>1 DEF Loaded
      <3>2. due \in SUBSET Tasks /\ {} \in SUBSET Tasks
        OBVIOUS
      <3> HIDE DEF due, Having
      <3> QED
        BY <3>1, <3>2
    <2>2. CASE breaking # {}
      <3>1. \/ \E got \in SUBSET (due \ breaking) : l = Having(got, FALSE)
            \/ l = Having({}, FALSE)
        BY <2>2 DEF Loaded
      <3>2. \A got \in SUBSET (due \ breaking) : got \in SUBSET Tasks
        OBVIOUS
      <3> HIDE DEF due, breaking, Having
      <3> QED
        BY <3>1, <3>2
    <2> QED
      BY <2>1, <2>2
  <1>2. /\ l.job = [t \in Tasks |-> IF t \in got THEN Registered(row[t]) ELSE "none"]
        /\ l.inStep = [t \in Tasks |-> whole]
    BY <1>1
  <1>3. \A t \in Tasks : Registered(row[t]) \in Valid \cup {"none"}
    BY DueType
  <1>4. ASSUME NEW t \in Tasks, whole
        PROVE  (IF t \in due THEN Registered(row[t]) ELSE "none") = Due(row[t])
    <2>1. CASE t \in due
      BY <2>1, RegisteredIsDue
    <2>2. CASE t \notin due
      BY <2>2, SchedulesAssumption DEF Due
    <2> QED
      BY <2>1, <2>2
  <1> QED
    BY <1>1, <1>2, <1>3, <1>4

(* What a handler wants of a row that it has read.                         *)
LEMMA WantedType ==
    ASSUME NEW seen \in Rows, NEW op \in {"update", "switch", "delete"},
           NEW want \in Wanted(op, seen)
    PROVE  /\ want \in Rows
           /\ want.status = IF op = "delete" THEN "deleted" ELSE seen.status
  <1>1. CASE op = "update"
    <2>1. want \in [status : {seen.status}, enabled : BOOLEAN,
                    schedule : Checked \cup {seen.schedule}]
      BY <1>1 DEF Wanted
    <2> QED
      BY <1>1, <2>1 DEF Rows, Schedules
  <1>2. CASE op = "switch"
    <2>1. want \in [status : {seen.status}, enabled : BOOLEAN, schedule : {seen.schedule}]
      BY <1>2 DEF Wanted
    <2> QED
      BY <1>2, <2>1 DEF Rows
  <1>3. CASE op = "delete"
    <2>1. want = [seen EXCEPT !.status = "deleted"]
      BY <1>3 DEF Wanted
    <2> QED
      BY <1>3, <2>1 DEF Rows
  <1> QED
    BY <1>1, <1>2, <1>3

(* The columns that an UPDATE leaves.                                      *)
LEMMA MergedType ==
    ASSUME NEW now \in Rows, NEW seen \in Rows, NEW want \in Rows
    PROVE  /\ Merged(now, seen, want) \in Rows
           /\ now = seen => Merged(now, seen, want) = want
           /\ Merged(now, seen, want).status =
                IF want.status # seen.status THEN want.status ELSE now.status
  BY DEF Merged, Rows

-----------------------------------------------------------------------------
(* The invariant behind the properties: a request that is alone still sees *)
(* the row as it is, nobody else touches its task, and once it has synced, *)
(* the job is the one of the row it is about to commit.                    *)

AloneInv ==
    \A r \in Requests : request[r].pc \in InFlight =>
        /\ inStep[request[r].of] = FALSE
        /\ request[r].alone =>
             /\ request[r].seen = row[request[r].of]
             /\ \A q \in Requests :
                  request[q].pc \in InFlight /\ request[q].of = request[r].of => q = r
             /\ request[r].pc = "synced" => job[request[r].of] = Due(request[r].want)

(* A row that is created has nobody but its creator; any other request     *)
(* keeps the status that it has seen, or deletes.                          *)
WantInv ==
    \A r \in Requests : request[r].pc \in InFlight =>
        IF request[r].op = "create"
        THEN request[r].alone /\ request[r].seen = NoRow /\ request[r].want.status = "live"
        ELSE /\ row[request[r].of].status # "absent"
             /\ request[r].seen.status = "live"
             /\ request[r].want.status = IF request[r].op = "delete" THEN "deleted" ELSE "live"

AbsentIsBare == \A t \in Tasks : row[t].status = "absent" => row[t] = NoRow

(* A job that is about to start a run has room for it: the model's bound.  *)
RoomInv == \A t \in Tasks : trigger[t] => started[t] < MaxStarts

IInv == TypeOK /\ JobsFollowRows /\ AloneInv /\ WantInv /\ AbsentIsBare /\ RoomInv

(* A request that has begun has a form.                                    *)
LEMMA FormOf ==
    ASSUME TypeOK, NEW r \in Requests, request[r].pc # "none"
    PROVE  request[r] \in Forms
  BY DEF TypeOK, NoRequest

-----------------------------------------------------------------------------
(* Begins, for the two actions that begin a request.                       *)

LEMMA BeginsKeeps ==
    ASSUME IInv, NEW r \in Requests, request[r] = NoRequest,
           NEW f \in Forms, f.pc \in {"read", "flushed"},
           f.seen = row[f.of],
           f.alone = (Touching(f.of) = {}),
           \A q \in Touching(f.of) : request[q].op # "create",
           IF f.op = "create"
             THEN f.alone /\ f.seen = NoRow /\ f.want.status = "live"
             ELSE /\ f.seen.status = "live"
                  /\ f.want.status = IF f.op = "delete" THEN "deleted" ELSE "live",
           Begins(r, f), UNCHANGED <<row, job, trigger, started, restarts>>
    PROVE  IInv'
  <1> USE DEF InFlight
  <1>1. /\ request' = [q \in Requests |->
              IF q = r THEN f
              ELSE IF q \in Touching(f.of) THEN [request[q] EXCEPT !.alone = FALSE]
              ELSE request[q]]
        /\ inStep' = [inStep EXCEPT ![f.of] = FALSE]
    BY DEF Begins
  <1>2. f.of \in Tasks /\ f.alone \in BOOLEAN
    BY DEF Forms
  <1>3. \A q \in Touching(f.of) : request[q] \in Forms /\ [request[q] EXCEPT !.alone = FALSE] \in Forms
    <2>1. ASSUME NEW q \in Touching(f.of)
          PROVE  request[q] \in Forms
      BY FormOf DEF IInv, Touching
    <2>2. ASSUME NEW g \in Forms
          PROVE  [g EXCEPT !.alone = FALSE] \in Forms
      BY DEF Forms
    <2> QED
      BY <2>1, <2>2
  <1>4. TypeOK'
    <2>1. request' \in [Requests -> Forms \cup {NoRequest}]
      BY <1>1, <1>3 DEF IInv, TypeOK
    <2>2. inStep' \in [Tasks -> BOOLEAN]
      BY <1>1 DEF IInv, TypeOK
    <2> QED
      BY <2>1, <2>2 DEF IInv, TypeOK
  <1>5. JobsFollowRows'
    BY <1>1, <1>2 DEF IInv, JobsFollowRows, TypeOK, Due
  <1>6. request[r].pc = "none"
    BY DEF NoRequest
  <1>7. ASSUME NEW q \in Requests, request'[q].pc \in InFlight, q # r
        PROVE  /\ request[q].pc = request'[q].pc
               /\ request[q] \in Forms
               /\ request'[q].of = request[q].of
               /\ request'[q].op = request[q].op
               /\ request'[q].seen = request[q].seen
               /\ request'[q].want = request[q].want
               /\ request'[q].alone => request[q].alone /\ request[q].of # f.of
    <2>1. CASE q \in Touching(f.of)
      <3>1. request'[q] = [request[q] EXCEPT !.alone = FALSE] /\ request[q] \in Forms
        BY <1>1, <1>3, <1>7, <2>1
      <3> QED
        BY <3>1 DEF Forms
    <2>2. CASE q \notin Touching(f.of)
      <3>1. request'[q] = request[q]
        BY <1>1, <1>7, <2>2
      <3>2. request[q].pc \in InFlight /\ request[q].of # f.of
        BY <1>7, <2>2, <3>1 DEF Touching
      <3>3. request[q] \in Forms
        BY <3>2, FormOf DEF IInv
      <3> QED
        BY <3>1, <3>2, <3>3
    <2> QED
      BY <2>1, <2>2
  <1>8. AloneInv'
    <2> SUFFICES ASSUME NEW q \in Requests, request'[q].pc \in InFlight
                 PROVE  /\ inStep'[request'[q].of] = FALSE
                        /\ request'[q].alone =>
                             /\ request'[q].seen = row'[request'[q].of]
                             /\ \A p \in Requests :
                                  request'[p].pc \in InFlight /\ request'[p].of = request'[q].of => p = q
                             /\ request'[q].pc = "synced" => job'[request'[q].of] = Due(request'[q].want)
      BY DEF AloneInv, Due
    <2>1. CASE q = r
      <3>1. request'[q] = f
        BY <1>1, <2>1
      <3>2. inStep'[f.of] = FALSE
        BY <1>1, <1>2 DEF IInv, TypeOK
      <3>3. ASSUME f.alone, NEW p \in Requests, request'[p].pc \in InFlight, request'[p].of = f.of
            PROVE  p = r
        BY <3>3, <1>7 DEF Touching
      <3> QED
        BY <2>1, <3>1, <3>2, <3>3
    <2>2. CASE q # r
      <3>1. inStep[request[q].of] = FALSE
        BY <1>7, <2>2 DEF IInv, AloneInv
      <3>2. inStep'[request'[q].of] = FALSE
        BY <1>1, <1>2, <1>7, <2>2, <3>1 DEF IInv, TypeOK, Forms
      <3>3. ASSUME request'[q].alone, NEW p \in Requests, request'[p].pc \in InFlight,
                   request'[p].of = request'[q].of
            PROVE  p = q
        <4>1. p # r
          BY <1>1, <1>7, <2>2, <3>3
        <4> QED
          BY <1>7, <2>2, <3>3, <4>1 DEF IInv, AloneInv
      <3> QED
        BY <1>7, <2>2, <3>2, <3>3 DEF IInv, AloneInv
    <2> QED
      BY <2>1, <2>2
  <1>9. WantInv'
    <2> SUFFICES ASSUME NEW q \in Requests, request'[q].pc \in InFlight
                 PROVE  IF request'[q].op = "create"
                        THEN request'[q].alone /\ request'[q].seen = NoRow
                             /\ request'[q].want.status = "live"
                        ELSE /\ row'[request'[q].of].status # "absent"
                             /\ request'[q].seen.status = "live"
                             /\ request'[q].want.status =
                                  IF request'[q].op = "delete" THEN "deleted" ELSE "live"
      BY DEF WantInv
    <2>1. CASE q = r
      BY <1>1, <2>1
    <2>2. CASE q # r /\ request[q].op = "create"
      <3>1. q \notin Touching(f.of)
        BY <2>2
      <3>2. request'[q] = request[q]
        BY <1>1, <2>2, <3>1
      <3> QED
        BY <1>7, <2>2, <3>2 DEF IInv, WantInv
    <2>3. CASE q # r /\ request[q].op # "create"
      BY <1>7, <2>3 DEF IInv, WantInv
    <2> QED
      BY <2>1, <2>2, <2>3
  <1>10. AbsentIsBare' /\ RoomInv'
    BY DEF IInv, AbsentIsBare, RoomInv
  <1> QED
    BY <1>4, <1>5, <1>8, <1>9, <1>10 DEF IInv

-----------------------------------------------------------------------------
(* Requests that go on. *)

LEMMA InsertsKeeps ==
    ASSUME IInv, NEW r \in Requests, Inserts(r)
    PROVE  IInv'
  <1>1. PICK t \in Tasks, enabled \in BOOLEAN, s \in Schedules :
          /\ row[t].status = "absent"
          /\ Touching(t) = {}
          /\ Begins(r, [op |-> "create", of |-> t, seen |-> NoRow,
                        want |-> [status |-> "live", enabled |-> enabled, schedule |-> s],
                        locks |-> TRUE, alone |-> TRUE, pc |-> "flushed"])
    BY DEF Inserts
  <1> DEFINE f == [op |-> "create", of |-> t, seen |-> NoRow,
                   want |-> [status |-> "live", enabled |-> enabled, schedule |-> s],
                   locks |-> TRUE, alone |-> TRUE, pc |-> "flushed"]
  <1>2. row[t] = NoRow
    BY <1>1 DEF IInv, AbsentIsBare
  <1>3. NoRow \in Rows /\ [status |-> "live", enabled |-> enabled, schedule |-> s] \in Rows
    BY DEF NoRow, Rows, Schedules, Checked
  <1>4. f \in Forms
    BY <1>3 DEF Forms, InFlight
  <1>5. request[r] = NoRequest /\ UNCHANGED <<row, job, trigger, started, restarts>>
    BY DEF Inserts
  <1>6. /\ f.pc = "flushed" /\ f.op = "create" /\ f.of = t /\ f.seen = NoRow /\ f.alone = TRUE
        /\ f.want.status = "live"
    OBVIOUS
  <1> HIDE DEF f
  <1>7. Begins(r, f)
    BY <1>1 DEF f
  <1> QED
    BY <1>1, <1>2, <1>4, <1>5, <1>6, <1>7, BeginsKeeps

(* A request that reads its task sees the row as it is, and no creator is  *)
(* there.                                                                  *)
LEMMA ReadsKeeps ==
    ASSUME IInv, NEW r \in Requests, Reads(r)
    PROVE  IInv'
  <1>1. PICK t \in Tasks, op \in {"update", "switch", "delete"}, locks \in BOOLEAN :
          /\ row[t].status = "live"
          /\ \E want \in Wanted(op, row[t]) :
               /\ want # row[t] => locks
               /\ locks /\ want = row[t] => op = "update"
               /\ Begins(r, [op |-> op, of |-> t, seen |-> row[t], want |-> want,
                             locks |-> locks, alone |-> Touching(t) = {}, pc |-> "read"])
    BY Zenon DEF Reads
  <1>2. PICK want \in Wanted(op, row[t]) :
          Begins(r, [op |-> op, of |-> t, seen |-> row[t], want |-> want,
                     locks |-> locks, alone |-> Touching(t) = {}, pc |-> "read"])
    BY <1>1
  <1> DEFINE f == [op |-> op, of |-> t, seen |-> row[t], want |-> want,
                   locks |-> locks, alone |-> Touching(t) = {}, pc |-> "read"]
  <1>3. row[t] \in Rows
    BY DEF IInv, TypeOK
  <1>4. want \in Rows /\ want.status = IF op = "delete" THEN "deleted" ELSE "live"
    BY <1>1, <1>3, WantedType
  <1>5. f \in Forms
    BY <1>3, <1>4 DEF Forms, InFlight
  <1>6. request[r] = NoRequest /\ UNCHANGED <<row, job, trigger, started, restarts>>
    BY DEF Reads
  <1>7. /\ f.pc = "read" /\ f.op = op /\ f.of = t /\ f.seen = row[t] /\ f.want = want
        /\ f.alone = (Touching(t) = {})
    OBVIOUS
  <1>8. ASSUME NEW q \in Touching(t) PROVE request[q].op # "create"
    <2>1. request[q].pc \in InFlight /\ request[q].of = t /\ q \in Requests
      BY DEF Touching
    <2>2. SUFFICES ASSUME request[q].op = "create" PROVE FALSE
      OBVIOUS
    <2>3. request[q].alone /\ request[q].seen = NoRow
      BY <2>1, <2>2 DEF IInv, WantInv
    <2>4. row[t] = NoRow
      BY <2>1, <2>3 DEF IInv, AloneInv
    <2> QED
      BY <1>1, <2>4 DEF NoRow
  <1> HIDE DEF f
  <1>9. Begins(r, f)
    BY <1>2 DEF f
  <1> QED
    BY <1>1, <1>4, <1>5, <1>6, <1>7, <1>8, <1>9, BeginsKeeps

(* A step of one request that is under way: the others keep their forms.   *)
LEMMA FlushesKeeps ==
    ASSUME IInv, NEW r \in Requests, Flushes(r)
    PROVE  IInv'
  <1> USE DEF InFlight
  <1>1. request[r].pc = "read" /\ request[r] \in Forms
    BY FormOf DEF IInv, Flushes
  <1>2. request' = [request EXCEPT ![r].pc = "flushed"]
    BY DEF Flushes
  <1>3. UNCHANGED <<row, job, trigger, started, inStep, restarts>>
    BY DEF Flushes
  <1>4. request'[r] \in Forms /\ request'[r] = [request[r] EXCEPT !.pc = "flushed"]
    BY <1>1, <1>2 DEF Forms, IInv, TypeOK
  <1>5. \A q \in Requests \ {r} : request'[q] = request[q]
    BY <1>2 DEF IInv, TypeOK
  <1>6. TypeOK'
    BY <1>2, <1>3, <1>4, <1>1 DEF IInv, TypeOK
  <1>7. JobsFollowRows' /\ AbsentIsBare' /\ RoomInv'
    BY <1>3 DEF IInv, JobsFollowRows, AbsentIsBare, RoomInv, Due
  <1>8. \A q \in Requests :
          /\ request'[q].pc \in InFlight <=> request[q].pc \in InFlight
          /\ request'[q].pc \in InFlight =>
               /\ request'[q].of = request[q].of /\ request'[q].op = request[q].op
               /\ request'[q].alone = request[q].alone
               /\ request'[q].seen = request[q].seen /\ request'[q].want = request[q].want
               /\ request'[q].pc = "synced" => request[q].pc = "synced"
    BY <1>1, <1>4, <1>5 DEF Forms
  <1>9. AloneInv'
    BY <1>3, <1>8 DEF IInv, AloneInv, Due
  <1>10. WantInv'
    BY <1>3, <1>8 DEF IInv, WantInv
  <1> QED
    BY <1>6, <1>7, <1>9, <1>10 DEF IInv

(* _sync_job with an alone request's own view registers what its commit    *)
(* will call for.                                                          *)
LEMMA SyncsKeeps ==
    ASSUME IInv, NEW r \in Requests, Syncs(r)
    PROVE  IInv'
  <1> USE DEF InFlight
  <1> DEFINE t == request[r].of
             new == IF request[r].op = "delete" THEN "none" ELSE Registered(request[r].want)
  <1>1. request[r].pc \in {"read", "flushed"} /\ request[r] \in Forms
    BY FormOf DEF IInv, Syncs
  <1>2. request' = [request EXCEPT ![r].pc = "synced"] /\ job' = [job EXCEPT ![t] = new]
    BY DEF Syncs
  <1>3. UNCHANGED <<row, trigger, started, inStep, restarts>>
    BY DEF Syncs
  <1>4. request'[r] \in Forms /\ request'[r] = [request[r] EXCEPT !.pc = "synced"]
    BY <1>1, <1>2 DEF Forms, IInv, TypeOK
  <1>5. \A q \in Requests \ {r} : request'[q] = request[q]
    BY <1>2 DEF IInv, TypeOK
  <1>6. t \in Tasks /\ request[r].want \in Rows
    BY <1>1 DEF Forms
  <1>7. new \in Valid \cup {"none"}
    BY <1>6, DueType
  <1>8. new = Due(request[r].want)
    <2>1. CASE request[r].op = "delete"
      BY <1>1, <2>1 DEF IInv, WantInv, Due
    <2>2. CASE request[r].op # "delete"
      <3>1. request[r].want.status = "live"
        BY <1>1, <2>2 DEF IInv, WantInv
      <3> QED
        BY <1>6, <2>2, <3>1, RegisteredIsDue
    <2> QED
      BY <2>1, <2>2
  <1> HIDE DEF new
  <1>9. TypeOK'
    <2>1. request' \in [Requests -> Forms \cup {NoRequest}]
      BY <1>2, <1>4 DEF IInv, TypeOK
    <2>2. job' \in [Tasks -> Valid \cup {"none"}]
      BY <1>2, <1>6, <1>7 DEF IInv, TypeOK
    <2> QED
      BY <1>3, <2>1, <2>2 DEF IInv, TypeOK
  <1>10. inStep[t] = FALSE
    BY <1>1 DEF IInv, AloneInv
  <1>11. \A k \in Tasks \ {t} : job'[k] = job[k]
    BY <1>2 DEF IInv, TypeOK
  <1>12. JobsFollowRows' /\ AbsentIsBare' /\ RoomInv'
    BY <1>3, <1>10, <1>11 DEF IInv, JobsFollowRows, AbsentIsBare, RoomInv, Due
  <1>13. job'[t] = Due(request[r].want)
    BY <1>2, <1>6, <1>8 DEF IInv, TypeOK
  <1>14. /\ request'[r].pc = "synced" /\ request'[r].of = t /\ request'[r].op = request[r].op
         /\ request'[r].alone = request[r].alone
         /\ request'[r].seen = request[r].seen /\ request'[r].want = request[r].want
    BY <1>1, <1>4 DEF Forms
  <1>15. \A q \in Requests :
          /\ request'[q].pc \in InFlight <=> request[q].pc \in InFlight
          /\ request'[q].of = request[q].of
    BY <1>1, <1>5, <1>14
  <1>16. AloneInv'
    <2> SUFFICES ASSUME NEW q \in Requests, request'[q].pc \in InFlight
                 PROVE  /\ inStep[request'[q].of] = FALSE
                        /\ request'[q].alone =>
                             /\ request'[q].seen = row[request'[q].of]
                             /\ \A p \in Requests :
                                  request'[p].pc \in InFlight /\ request'[p].of = request'[q].of => p = q
                             /\ request'[q].pc = "synced" => job'[request'[q].of] = Due(request'[q].want)
      BY <1>3 DEF AloneInv, Due
    <2>1. CASE q = r
      BY <1>1, <1>13, <1>14, <1>15, <2>1 DEF IInv, AloneInv
    <2>2. CASE q # r
      <3>1. request'[q] = request[q] /\ request[q] \in Forms
        BY <1>5, <2>2, FormOf DEF IInv
      <3>2. request[q].alone => request[q].of # t
        BY <1>1, <2>2, <3>1 DEF IInv, AloneInv
      <3>3. request[q].of \in Tasks
        BY <3>1 DEF Forms
      <3> QED
        BY <1>11, <1>15, <3>1, <3>2, <3>3 DEF IInv, AloneInv
    <2> QED
      BY <2>1, <2>2
  <1>17. WantInv'
    BY <1>1, <1>3, <1>5, <1>14 DEF IInv, WantInv
  <1> QED
    BY <1>9, <1>12, <1>16, <1>17 DEF IInv

(* What a commit makes of the row: the row that an alone request wants,    *)
(* and never a row that is alive again.                                    *)
LEMMA CommitWrites ==
    ASSUME IInv, NEW r \in Requests, request[r].pc = "synced"
    PROVE  LET t == request[r].of
               new == Merged(row[t], request[r].seen, request[r].want)
           IN  /\ new \in Rows
               /\ request[r].alone => new = request[r].want
               /\ new.status # "absent"
               /\ row[t].status = "deleted" => new.status = "deleted"
  <1> DEFINE t == request[r].of
             new == Merged(row[t], request[r].seen, request[r].want)
  <1>1. /\ request[r] \in Forms
        /\ request[r].pc \in InFlight
    BY FormOf DEF IInv, InFlight
  <1>2. /\ t \in Tasks /\ row[t] \in Rows
        /\ request[r].seen \in Rows /\ request[r].want \in Rows
    BY <1>1 DEF Forms, IInv, TypeOK
  <1>3. /\ new \in Rows
        /\ row[t] = request[r].seen => new = request[r].want
        /\ new.status = IF request[r].want.status # request[r].seen.status
                        THEN request[r].want.status ELSE row[t].status
    BY <1>2, MergedType
  <1>4. request[r].alone => row[t] = request[r].seen
    BY <1>1 DEF IInv, AloneInv
  <1>5. CASE request[r].op = "create"
    BY <1>1, <1>3, <1>4, <1>5 DEF IInv, WantInv, NoRow
  <1>6. CASE request[r].op # "create"
    <2>1. /\ request[r].seen.status = "live"
          /\ request[r].want.status \in {"live", "deleted"}
          /\ row[t].status # "absent"
      BY <1>1, <1>6 DEF IInv, WantInv
    <2> QED
      BY <1>3, <1>4, <2>1
  <1> QED
    BY <1>5, <1>6

(* The commit of an alone request makes the row the one that its job was   *)
(* registered for.                                                         *)
LEMMA CommitsKeeps ==
    ASSUME IInv, NEW r \in Requests, Commits(r)
    PROVE  IInv'
  <1> USE DEF InFlight
  <1> DEFINE t == request[r].of
             new == Merged(row[t], request[r].seen, request[r].want)
  <1>1. request[r].pc = "synced" /\ request[r] \in Forms
    BY FormOf DEF IInv, Commits
  <1>2. /\ row' = [row EXCEPT ![t] = new]
        /\ inStep' = [inStep EXCEPT ![t] = request[r].alone]
        /\ request' = [request EXCEPT ![r].pc = "committed"]
    BY DEF Commits
  <1>3. UNCHANGED <<job, trigger, started, restarts>>
    BY DEF Commits
  <1>4. t \in Tasks /\ request[r].alone \in BOOLEAN
    BY <1>1 DEF Forms
  <1>5. /\ new \in Rows
        /\ request[r].alone => new = request[r].want
        /\ new.status # "absent"
    BY <1>1, CommitWrites
  <1> HIDE DEF new
  <1>6. /\ row'[t] = new /\ inStep'[t] = request[r].alone
        /\ \A k \in Tasks \ {t} : row'[k] = row[k] /\ inStep'[k] = inStep[k]
    BY <1>2, <1>4 DEF IInv, TypeOK
  <1>7. /\ request'[r] = [request[r] EXCEPT !.pc = "committed"]
        /\ \A q \in Requests \ {r} : request'[q] = request[q]
    BY <1>2 DEF IInv, TypeOK
  <1>8. request'[r] \in Forms /\ request'[r].pc = "committed"
    BY <1>1, <1>7 DEF Forms
  <1>9. TypeOK'
    <2>1. request' \in [Requests -> Forms \cup {NoRequest}]
      BY <1>2, <1>7, <1>8 DEF IInv, TypeOK
    <2>2. row' \in [Tasks -> Rows] /\ inStep' \in [Tasks -> BOOLEAN]
      BY <1>2, <1>4, <1>5 DEF IInv, TypeOK
    <2> QED
      BY <1>3, <2>1, <2>2 DEF IInv, TypeOK
  <1>10. request[r].alone => job[t] = Due(request[r].want)
    BY <1>1 DEF IInv, AloneInv
  <1>11. JobsFollowRows'
    BY <1>3, <1>5, <1>6, <1>10 DEF IInv, JobsFollowRows, Due
  <1>12. AbsentIsBare' /\ RoomInv'
    BY <1>3, <1>5, <1>6 DEF IInv, AbsentIsBare, RoomInv
  <1>13. AloneInv'
    <2> SUFFICES ASSUME NEW q \in Requests, request'[q].pc \in InFlight
                 PROVE  /\ inStep'[request'[q].of] = FALSE
                        /\ request'[q].alone =>
                             /\ request'[q].seen = row'[request'[q].of]
                             /\ \A p \in Requests :
                                  request'[p].pc \in InFlight /\ request'[p].of = request'[q].of => p = q
                             /\ request'[q].pc = "synced" => job[request'[q].of] = Due(request'[q].want)
      BY <1>3 DEF AloneInv, Due
    <2>1. q # r /\ request'[q] = request[q] /\ request[q] \in Forms
      BY <1>7, <1>8, FormOf DEF IInv
    <2>2. request[q].of \in Tasks
      BY <2>1 DEF Forms
    <2>3. request[q].of = t => ~request[q].alone /\ ~request[r].alone
      BY <1>1, <2>1 DEF IInv, AloneInv
    <2>4. \A p \in Requests : request'[p].pc \in InFlight =>
              request[p].pc \in InFlight /\ request'[p].of = request[p].of
      BY <1>7, <1>8
    <2> QED
      BY <1>6, <2>1, <2>2, <2>3, <2>4 DEF IInv, AloneInv
  <1>14. WantInv'
    <2> SUFFICES ASSUME NEW q \in Requests, request'[q].pc \in InFlight
                 PROVE  IF request'[q].op = "create"
                        THEN request'[q].alone /\ request'[q].seen = NoRow
                             /\ request'[q].want.status = "live"
                        ELSE /\ row'[request'[q].of].status # "absent"
                             /\ request'[q].seen.status = "live"
                             /\ request'[q].want.status =
                                  IF request'[q].op = "delete" THEN "deleted" ELSE "live"
      BY DEF WantInv
    <2>1. request'[q] = request[q] /\ request[q] \in Forms
      BY <1>7, <1>8, FormOf DEF IInv
    <2>2. request[q].of \in Tasks
      BY <2>1 DEF Forms
    <2> QED
      BY <1>5, <1>6, <2>1, <2>2 DEF IInv, WantInv
  <1> QED
    BY <1>9, <1>11, <1>12, <1>13, <1>14 DEF IInv

(* A request that fails leaves, and nobody else notices.                   *)
LEMMA FailsKeeps ==
    ASSUME IInv, NEW r \in Requests, Fails(r)
    PROVE  IInv'
  <1> USE DEF InFlight
  <1>1. request[r] \in Forms
    BY FormOf DEF IInv, Fails
  <1>2. /\ request' = [request EXCEPT ![r].pc = "failed"]
        /\ UNCHANGED <<row, job, trigger, started, inStep, restarts>>
    BY DEF Fails
  <1>3. /\ request'[r] = [request[r] EXCEPT !.pc = "failed"]
        /\ \A q \in Requests \ {r} : request'[q] = request[q]
    BY <1>2 DEF IInv, TypeOK
  <1>4. request'[r] \in Forms /\ request'[r].pc = "failed"
    BY <1>1, <1>3 DEF Forms
  <1>5. TypeOK'
    BY <1>2, <1>3, <1>4 DEF IInv, TypeOK
  <1>6. JobsFollowRows' /\ AbsentIsBare' /\ RoomInv'
    BY <1>2 DEF IInv, JobsFollowRows, AbsentIsBare, RoomInv, Due
  <1>7. \A q \in Requests : request'[q].pc \in InFlight =>
            request'[q] = request[q] /\ request[q].pc \in InFlight
    BY <1>3, <1>4
  <1>8. AloneInv'
    BY <1>2, <1>7 DEF IInv, AloneInv, Due
  <1>9. WantInv'
    BY <1>2, <1>7 DEF IInv, WantInv
  <1> QED
    BY <1>5, <1>6, <1>8, <1>9 DEF IInv

-----------------------------------------------------------------------------
(* Jobs that fire, and the restart. *)

LEMMA JobsKeep ==
    ASSUME IInv, NEW t \in Tasks, Fires(t) \/ StartsRun(t)
    PROVE  IInv'
  <1>1. UNCHANGED <<row, job, request, inStep, restarts>>
    BY DEF Fires, StartsRun
  <1>2. TypeOK'
    <2>1. CASE Fires(t)
      BY <2>1, <1>1 DEF Fires, IInv, TypeOK
    <2>2. CASE StartsRun(t)
      <3>1. trigger[t] => started[t] < MaxStarts
        BY DEF IInv, RoomInv
      <3>2. trigger' \in [Tasks -> BOOLEAN]
        BY <2>2 DEF StartsRun, IInv, TypeOK
      <3>3. started' \in [Tasks -> 0..MaxStarts]
        BY <2>2, <3>1, BoundsAssumption DEF StartsRun, IInv, TypeOK
      <3> QED
        BY <1>1, <3>2, <3>3 DEF IInv, TypeOK
    <2> QED
      BY <2>1, <2>2
  <1>3. JobsFollowRows' /\ AloneInv' /\ WantInv' /\ AbsentIsBare'
    BY <1>1 DEF IInv, JobsFollowRows, AloneInv, WantInv, AbsentIsBare, Due
  <1>4. RoomInv'
    BY DEF Fires, StartsRun, IInv, RoomInv, TypeOK
  <1> QED
    BY <1>2, <1>3, <1>4 DEF IInv

(* A restart ends every request, and a complete load gives every row its   *)
(* job.                                                                    *)
LEMMA RestartKeeps ==
    ASSUME IInv, Restart
    PROVE  IInv'
  <1> USE DEF InFlight
  <1>1. PICK l \in Loaded : job' = l.job /\ inStep' = l.inStep
    BY DEF Restart
  <1>2. /\ job' \in [Tasks -> Valid \cup {"none"}]
        /\ inStep' \in [Tasks -> BOOLEAN]
        /\ \A t \in Tasks : inStep'[t] => job'[t] = Due(row[t])
    BY <1>1, LoadedJobs DEF IInv, TypeOK
  <1>3. /\ request' = [r \in Requests |->
              IF request[r].pc \in InFlight THEN [request[r] EXCEPT !.pc = "failed"] ELSE request[r]]
        /\ trigger' = [t \in Tasks |-> FALSE]
        /\ restarts' = restarts + 1 /\ restarts < MaxRestarts
        /\ UNCHANGED <<row, started>>
    BY DEF Restart
  <1>4. \A r \in Requests : request'[r] \in Forms \cup {NoRequest} /\ request'[r].pc \notin InFlight
    <2> SUFFICES ASSUME NEW r \in Requests
                 PROVE  request'[r] \in Forms \cup {NoRequest} /\ request'[r].pc \notin InFlight
      OBVIOUS
    <2>1. CASE request[r].pc \in InFlight
      <3>1. request[r] \in Forms
        BY <2>1, FormOf DEF IInv
      <3>2. request'[r] = [request[r] EXCEPT !.pc = "failed"]
        BY <1>3, <2>1
      <3> QED
        BY <3>1, <3>2 DEF Forms
    <2>2. CASE request[r].pc \notin InFlight
      BY <1>3, <2>2 DEF IInv, TypeOK
    <2> QED
      BY <2>1, <2>2
  <1>5. TypeOK'
    <2>1. request' \in [Requests -> Forms \cup {NoRequest}]
      BY <1>3, <1>4
    <2>2. restarts' \in 0..MaxRestarts
      BY <1>3, BoundsAssumption DEF IInv, TypeOK
    <2> QED
      BY <1>2, <1>3, <2>1, <2>2 DEF IInv, TypeOK
  <1>6. JobsFollowRows'
    BY <1>2, <1>3 DEF JobsFollowRows, Due
  <1>7. AloneInv' /\ WantInv'
    BY <1>4 DEF AloneInv, WantInv
  <1>8. AbsentIsBare'
    BY <1>3 DEF IInv, AbsentIsBare
  <1>9. RoomInv'
    BY <1>3 DEF RoomInv
  <1> QED
    BY <1>5, <1>6, <1>7, <1>8, <1>9 DEF IInv

-----------------------------------------------------------------------------
(* The invariant holds in every reachable state: what an alone request may *)
(* rely on between its read and its commit (api/tasks.py).                 *)
THEOREM Inductive == Spec => []IInv
  <1>1. Init => IInv
    <2> SUFFICES ASSUME Init PROVE IInv
      OBVIOUS
    <2>1. PICK l \in Loaded : job = l.job /\ inStep = l.inStep
      BY DEF Init
    <2>2. row \in [Tasks -> Rows] /\ AbsentIsBare
      BY DEF Init, AbsentIsBare
    <2>3. /\ job \in [Tasks -> Valid \cup {"none"}]
          /\ inStep \in [Tasks -> BOOLEAN]
          /\ JobsFollowRows
      BY <2>1, <2>2, LoadedJobs DEF JobsFollowRows
    <2>4. TypeOK /\ RoomInv
      BY <2>2, <2>3, BoundsAssumption DEF Init, TypeOK, RoomInv
    <2>5. AloneInv /\ WantInv
      BY DEF Init, AloneInv, WantInv, InFlight, NoRequest
    <2> QED
      BY <2>2, <2>3, <2>4, <2>5 DEF IInv
  <1>2. IInv /\ [Next]_vars => IInv'
    <2> SUFFICES ASSUME IInv, [Next]_vars PROVE IInv'
      OBVIOUS
    <2>1. CASE UNCHANGED vars
      BY <2>1 DEF vars, IInv, TypeOK, JobsFollowRows, AloneInv, WantInv, AbsentIsBare, RoomInv, Due
    <2>2. ASSUME NEW r \in Requests,
                 Inserts(r) \/ Reads(r) \/ Flushes(r) \/ Syncs(r) \/ Commits(r) \/ Fails(r)
          PROVE  IInv'
      BY <2>2, InsertsKeeps, ReadsKeeps, FlushesKeeps, SyncsKeeps, CommitsKeeps, FailsKeeps
    <2>3. ASSUME NEW t \in Tasks, Fires(t) \/ StartsRun(t) PROVE IInv'
      BY <2>3, JobsKeep
    <2>4. CASE Restart
      BY <2>4, RestartKeeps
    <2> QED
      BY <2>1, <2>2, <2>3, <2>4 DEF Next
  <1> QED
    BY <1>1, <1>2, PTL DEF Spec

(* Every variable of the scheduling keeps its type: in particular no job   *)
(* is ever registered for a schedule that APScheduler does not take.       *)
THEOREM TypeCorrect == Spec => []TypeOK
  <1>1. IInv => TypeOK
    BY DEF IInv
  <1> QED
    BY <1>1, Inductive, PTL

(* The job of a task is the one its row calls for, after any history that  *)
(* ends with a request that met no other and committed, or with a complete *)
(* load: the order of sync_task_job and the commit does no harm then.      *)
THEOREM JobsAreRows == Spec => []JobsFollowRows
  <1>1. IInv => JobsFollowRows
    BY DEF IInv
  <1> QED
    BY <1>1, Inductive, PTL

(* No overlapping request and no job left behind revives a deleted task.   *)
THEOREM DeletedStays == Spec => DeletedForGood
  <1> DEFINE Dead(t) == row[t].status = "deleted" =>
                /\ row'[t].status = "deleted"
                /\ ~trigger[t] => ~trigger'[t] /\ started'[t] = started[t]
  <1>1. IInv /\ [Next]_vars => \A t \in Tasks : Dead(t)
    <2> SUFFICES ASSUME IInv, [Next]_vars, NEW t \in Tasks, row[t].status = "deleted"
                 PROVE  /\ row'[t].status = "deleted"
                        /\ ~trigger[t] => ~trigger'[t] /\ started'[t] = started[t]
      OBVIOUS
    <2>1. CASE UNCHANGED vars
      BY <2>1 DEF vars
    <2>2. ASSUME NEW r \in Requests, Inserts(r) \/ Reads(r) \/ Flushes(r) \/ Syncs(r) \/ Fails(r)
          PROVE  row' = row /\ trigger' = trigger /\ started' = started
      BY <2>2 DEF Inserts, Reads, Flushes, Syncs, Fails
    <2>3. ASSUME NEW r \in Requests, Commits(r)
          PROVE  row'[t].status = "deleted" /\ trigger' = trigger /\ started' = started
      <3>1. /\ request[r].pc = "synced"
            /\ row' = [row EXCEPT ![request[r].of] =
                          Merged(row[request[r].of], request[r].seen, request[r].want)]
            /\ trigger' = trigger /\ started' = started
        BY <2>3 DEF Commits
      <3>2. CASE request[r].of = t
        <4>1. Merged(row[t], request[r].seen, request[r].want).status = "deleted"
          BY <3>1, <3>2, CommitWrites
        <4> QED
          BY <3>1, <3>2, <4>1 DEF IInv, TypeOK
      <3>3. CASE request[r].of # t
        BY <3>1, <3>3 DEF IInv, TypeOK
      <3> QED
        BY <3>1, <3>2, <3>3
    <2>4. ASSUME NEW k \in Tasks, Fires(k)
          PROVE  row' = row /\ started' = started /\ trigger'[t] = trigger[t]
      <3>1. k # t /\ row' = row /\ started' = started /\ trigger' = [trigger EXCEPT ![k] = TRUE]
        BY <2>4 DEF Fires
      <3> QED
        BY <3>1 DEF IInv, TypeOK
    <2>5. ASSUME NEW k \in Tasks, StartsRun(k), ~trigger[t]
          PROVE  row' = row /\ started'[t] = started[t] /\ trigger'[t] = trigger[t]
      BY <2>5 DEF StartsRun, IInv, TypeOK
    <2>6. ASSUME NEW k \in Tasks, StartsRun(k) PROVE row' = row
      BY <2>6 DEF StartsRun
    <2>7. CASE Restart
      BY <2>7 DEF Restart
    <2> QED
      BY <2>1, <2>2, <2>3, <2>4, <2>5, <2>6, <2>7 DEF Next
  <1> QED
    BY <1>1, Inductive, PTL DEF Spec, DeletedForGood
=============================================================================
