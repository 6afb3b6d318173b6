--------------------------- MODULE TaskScheduler ---------------------------
(***************************************************************************)
(* The schedule of tasks lives twice: in the Task rows, and as APScheduler *)
(* jobs in the memory of the process (services/scheduler.py,               *)
(* services/task_scheduler.py).  The handlers of api/tasks.py, hosts.py    *)
(* and templates.py change both: the job when they have flushed, the row   *)
(* when their session commits, after them.  A handler works on the row as  *)
(* it was when it read it, and writes the columns that it changed.  An     *)
(* action is the code between two awaits.                                  *)
(***************************************************************************)
EXTENDS Integers, FiniteSets

CONSTANTS
    Tasks,          \* task ids
    Requests,       \* the requests of the model; each is made at most once
    Valid,          \* schedules that APScheduler takes
    Refused,        \* schedules it does not, such as a cron text that is none
    Malformed,      \* schedules that are no object: a template is not checked
    MaxStarts,      \* bound of the model: runs started of each task
    MaxRestarts,    \* bound of the model: restarts of the process
    Faults          \* TRUE: a session may fail, a start may not read the rows

ASSUME SchedulesAssumption ==
    /\ {"manual", "none"} \cap (Valid \cup Refused \cup Malformed) = {}
    /\ Valid \cap Refused = {} /\ Valid \cap Malformed = {} /\ Refused \cap Malformed = {}
ASSUME BoundsAssumption ==
    /\ MaxStarts \in Nat
    /\ MaxRestarts \in Nat
    /\ Faults \in BOOLEAN

VARIABLES
    row,        \* the committed row of each task
    job,        \* APScheduler: the schedule of the job of each task
    request,    \* what each request does, has seen and wants
    trigger,    \* a firing job that is about to start a run
    started,    \* task runs that jobs have started
    inStep,     \* what touched a task last did so alone, and ended well
    restarts

vars == <<row, job, request, trigger, started, inStep, restarts>>

Checked == {"manual"} \cup Valid \cup Refused
Schedules == Checked \cup Malformed
Rows == [status : {"absent", "live", "deleted"}, enabled : BOOLEAN, schedule : Schedules]
NoRow == [status |-> "absent", enabled |-> FALSE, schedule |-> "manual"]
InFlight == {"read", "flushed", "synced"}
Forms == [op : {"create", "update", "switch", "delete"}, of : Tasks, seen : Rows, want : Rows,
          locks : BOOLEAN, alone : BOOLEAN, pc : InFlight \cup {"committed", "failed"}]
NoRequest == [pc |-> "none"]

TypeOK ==
    /\ row \in [Tasks -> Rows]
    /\ job \in [Tasks -> Valid \cup {"none"}]
    /\ request \in [Requests -> Forms \cup {NoRequest}]
    /\ trigger \in [Tasks -> BOOLEAN]
    /\ started \in [Tasks -> 0..MaxStarts]
    /\ inStep \in [Tasks -> BOOLEAN]
    /\ restarts \in 0..MaxRestarts

-----------------------------------------------------------------------------
(* sync_task_job: what it leaves registered for a task it is shown.        *)

(* Faulty variants of Registered: a disabled task keeps its job, or any    *)
(* schedule gets one.                                                      *)
RegisteredAlways(r) == IF r.schedule \in Valid THEN r.schedule ELSE "none"

RegisteredUnread(r) == IF r.enabled /\ r.schedule # "manual" THEN r.schedule ELSE "none"

Registered(r) == IF r.enabled /\ r.schedule \in Valid THEN r.schedule ELSE "none"

(* load_all_jobs: a schedule that is no object raises out of the loop, so  *)
(* that the tasks which come after it, in no given order, have no job.     *)
Loaded ==
    LET due == {t \in Tasks : row[t].status = "live" /\ row[t].enabled /\ row[t].schedule # "manual"}
        breaking == {t \in due : row[t].schedule \in Malformed}
        Having(got, whole) ==
            [job |-> [t \in Tasks |-> IF t \in got THEN Registered(row[t]) ELSE "none"],
             inStep |-> [t \in Tasks |-> whole]]
    IN  {Having(got, breaking = {}) :
            got \in IF breaking = {} THEN {due} ELSE SUBSET (due \ breaking)}
          \cup (IF Faults THEN {Having({}, FALSE)} ELSE {})

(* A process that finds the rows of an earlier one.                        *)
Init ==
    /\ row \in [Tasks -> {r \in Rows : r.status = "absent" => r = NoRow}]
    /\ \E l \in Loaded : job = l.job /\ inStep = l.inStep
    /\ request = [r \in Requests |-> NoRequest]
    /\ trigger = [t \in Tasks |-> FALSE]
    /\ started = [t \in Tasks |-> 0]
    /\ restarts = 0

-----------------------------------------------------------------------------
(* The handlers. *)

Touching(t) == {r \in Requests : request[r].pc \in InFlight /\ request[r].of = t}

(* r goes on with form f, and nobody who touches its task is alone.        *)
Begins(r, f) ==
    /\ request' = [q \in Requests |->
          IF q = r THEN f
          ELSE IF q \in Touching(f.of) THEN [request[q] EXCEPT !.alone = FALSE]
          ELSE request[q]]
    /\ inStep' = [inStep EXCEPT ![f.of] = FALSE]

(* create_task, host_create_task and apply_template: the row is inserted,  *)
(* and nobody else sees it.  Only apply_template does not check.           *)
Inserts(r) ==
    /\ request[r] = NoRequest
    /\ \E t \in Tasks, enabled \in BOOLEAN, s \in Schedules :
         /\ row[t].status = "absent"
         /\ Touching(t) = {}
         /\ s \in Malformed => enabled
         /\ Begins(r, [op |-> "create", of |-> t, seen |-> NoRow,
                       want |-> [status |-> "live", enabled |-> enabled, schedule |-> s],
                       locks |-> TRUE, alone |-> TRUE, pc |-> "flushed"])
    /\ UNCHANGED <<row, job, trigger, started, restarts>>

(* What a handler makes of the row it has read; a field that the body does *)
(* not name stays.                                                         *)
Wanted(op, seen) ==
    CASE op = "update" -> [status : {seen.status}, enabled : BOOLEAN,
                           schedule : Checked \cup {seen.schedule}]
      [] op = "switch" -> [status : {seen.status}, enabled : BOOLEAN,
                           schedule : {seen.schedule}]
      [] op = "delete" -> {[seen EXCEPT !.status = "deleted"]}

(* update_task, toggle_task, delete_task: session.get.  An update of the   *)
(* name only also locks its row.                                           *)
Reads(r) ==
    /\ request[r] = NoRequest
    /\ \E t \in Tasks, op \in {"update", "switch", "delete"}, locks \in BOOLEAN :
         /\ row[t].status = "live"
         /\ \E want \in Wanted(op, row[t]) :
              /\ want # row[t] => locks
              /\ locks /\ want = row[t] => op = "update"
              /\ Begins(r, [op |-> op, of |-> t, seen |-> row[t], want |-> want,
                            locks |-> locks, alone |-> Touching(t) = {}, pc |-> "read"])
    /\ UNCHANGED <<row, job, trigger, started, restarts>>

(* The lock of the row, from the UPDATE to the end of the transaction.     *)
Locked(r) ==
    \E q \in Touching(request[r].of) \ {r} :
        request[q].locks /\ request[q].op = "update" /\ request[q].pc # "read"

(* update_task: session.flush sends the UPDATE.                            *)
Flushes(r) ==
    /\ request[r].pc = "read"
    /\ request[r].op = "update"
    /\ request[r].locks => ~Locked(r)
    /\ request' = [request EXCEPT ![r].pc = "flushed"]
    /\ UNCHANGED <<row, job, trigger, started, inStep, restarts>>

(* _sync_job or _remove_job, with the handler's own view of the task.      *)
Syncs(r) ==
    /\ \/ request[r].pc = "flushed"
       \/ request[r].pc = "read" /\ request[r].op \in {"switch", "delete"}
    /\ job' = [job EXCEPT ![request[r].of] =
                  IF request[r].op = "delete" THEN "none" ELSE Registered(request[r].want)]
    /\ request' = [request EXCEPT ![r].pc = "synced"]
    /\ UNCHANGED <<row, trigger, started, inStep, restarts>>

(* Faulty variant of Merged: the whole row is written.                     *)
MergedWhole(now, seen, want) == want

(* An UPDATE names the columns that differ from what was read.             *)
Merged(now, seen, want) ==
    [c \in DOMAIN now |-> IF want[c] # seen[c] THEN want[c] ELSE now[c]]

(* get_session commits when the handler has returned.                      *)
Commits(r) ==
    /\ request[r].pc = "synced"
    /\ request[r].locks => ~Locked(r)
    /\ row' = [row EXCEPT ![request[r].of] = Merged(@, request[r].seen, request[r].want)]
    /\ inStep' = [inStep EXCEPT ![request[r].of] = request[r].alone]
    /\ request' = [request EXCEPT ![r].pc = "committed"]
    /\ UNCHANGED <<job, trigger, started, restarts>>

(* The session is rolled back; the job is not.                             *)
Fails(r) ==
    /\ Faults
    /\ request[r].pc \in InFlight
    /\ request' = [request EXCEPT ![r].pc = "failed"]
    /\ UNCHANGED <<row, job, trigger, started, inStep, restarts>>

-----------------------------------------------------------------------------
(* A job fires: _run_task_job reads the task in trigger_run, which refuses *)
(* one that is gone or disabled; it does not look at the schedule.         *)

Fires(t) ==
    /\ job[t] # "none"
    /\ ~trigger[t]
    /\ started[t] < MaxStarts
    /\ row[t].status = "live" /\ row[t].enabled
    /\ trigger' = [trigger EXCEPT ![t] = TRUE]
    /\ UNCHANGED <<row, job, request, started, inStep, restarts>>

(* The TaskRun is committed, or not.                                       *)
StartsRun(t) ==
    /\ trigger[t]
    /\ trigger' = [trigger EXCEPT ![t] = FALSE]
    /\ \/ started' = [started EXCEPT ![t] = @ + 1]
       \/ Faults /\ UNCHANGED started
    /\ UNCHANGED <<row, job, request, inStep, restarts>>

(* The process ends, and another one loads the jobs before it serves.      *)
Restart ==
    /\ restarts < MaxRestarts
    /\ restarts' = restarts + 1
    /\ request' = [r \in Requests |->
          IF request[r].pc \in InFlight THEN [request[r] EXCEPT !.pc = "failed"] ELSE request[r]]
    /\ trigger' = [t \in Tasks |-> FALSE]
    /\ \E l \in Loaded : job' = l.job /\ inStep' = l.inStep
    /\ UNCHANGED <<row, started>>

-----------------------------------------------------------------------------
Next ==
    \/ \E r \in Requests :
         Inserts(r) \/ Reads(r) \/ Flushes(r) \/ Syncs(r) \/ Commits(r) \/ Fails(r)
    \/ \E t \in Tasks : Fires(t) \/ StartsRun(t)
    \/ Restart

Spec == Init /\ [][Next]_vars

-----------------------------------------------------------------------------
(* Properties *)

Due(r) == IF r.status = "live" /\ r.enabled /\ r.schedule \in Valid THEN r.schedule ELSE "none"

(* A task has the job that its row calls for, if the request that touched  *)
(* it last met no other one and committed, or the process has loaded every *)
(* job since: sync_task_job, remove_task_job, load_all_jobs.               *)
JobsFollowRows == \A t \in Tasks : inStep[t] => job[t] = Due(row[t])

(* A deleted task stays deleted, whatever was under way when it was        *)
(* deleted, and a job that an overlapping request has left behind starts   *)
(* no run of it.                                                           *)
DeletedForGood ==
    [][\A t \in Tasks : row[t].status = "deleted" =>
          /\ row'[t].status = "deleted"
          /\ ~trigger[t] => ~trigger'[t] /\ started'[t] = started[t]]_vars
=============================================================================
