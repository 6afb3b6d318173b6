------------------------------ MODULE TaskRuns ------------------------------
(***************************************************************************)
(* The life of task runs: services/task.py creates a TaskRun and a         *)
(* background execution of it, services/execution.py executes its scripts  *)
(* one after the other, api/task_runs.py cancels.  Requests, executions    *)
(* and the registries share one event loop: an action is the code between  *)
(* two awaits that leave the loop.  Every session has its own connection,  *)
(* so it sees only what others have committed.                             *)
(*                                                                         *)
(* The verdict on a script (module Judgment) is abstracted to whether it   *)
(* calls for a diagnosis; the diagnosis (module Diagnosis) to the events   *)
(* it publishes and whether it stores a result.                            *)
(***************************************************************************)
EXTENDS Integers, Sequences, FiniteSets

CONSTANTS
    Triggered,          \* task runs of trigger_run: "run now" or the scheduler
    Tests,              \* task runs of execute_script_test
    Cancels,            \* cancel requests
    MaxScripts,         \* bound of the model: enabled scripts of a task
    DiagConcurrency,    \* settings.diagnostic_concurrency
    MaxRestarts,        \* bound of the model: restarts of the process
    Faults              \* TRUE: a script may raise what _run_one does not catch, a
                        \* commit may fail, the row of a task or host may be gone

Runs == Triggered \cup Tests

ASSUME RunsAssumption == Triggered \cap Tests = {}
ASSUME BoundsAssumption ==
    /\ MaxScripts \in Nat \ {0}
    /\ DiagConcurrency \in Nat \ {0}
    /\ MaxRestarts \in Nat
    /\ Faults \in BOOLEAN

VARIABLES
    row,        \* committed row of each task run, with the number of its Run rows
    request,    \* the request (or job) that created it
    exec,       \* the coroutine execute_task_run: program counter and locals
    registered, \* _running_tasks
    flag,       \* _cancel_flags
    cancel,     \* what each cancel request has seen and answered
    events,     \* what was published on the channel of each run
    restarts

vars == <<row, request, exec, registered, flag, cancel, events, restarts>>

Terminal == {"DONE", "CANCELLED", "FAILED"}
Statuses == {"absent", "RUNNING"} \cup Terminal
RequestStates == {"none", "flushed", "committed", "rolledback"}
(* "error" raised, "lost" with the process, "ended" returned. *)
Pcs == {"none", "scheduled", "script", "emptying", "failing", "summing", "stored",
        "queued", "diagnosing", "diagnosed", "closing", "ended", "error", "lost"}
EventNames == {"run_result", "batch_ready", "diag_started", "diag_failed",
               "diagnostic_done", "done"}
(* An accepted cancel is early when the execution has yet to look at the   *)
(* flag for the last time, and late afterwards.                            *)
CancelStates == {"none", "read", "refused", "early", "late"}

Rows == [status : Statuses, runs : Nat, diagnosed : BOOLEAN]

Execs == [pc : Pcs, plan : 0..MaxScripts, ran : Nat,
          anomalous : BOOLEAN, cancelled : BOOLEAN]

TypeOK ==
    /\ row \in [Runs -> Rows]
    /\ request \in [Runs -> RequestStates]
    /\ exec \in [Runs -> Execs]
    /\ registered \in [Runs -> BOOLEAN]
    /\ flag \in [Runs -> BOOLEAN]
    /\ cancel \in [Cancels -> [of : Runs, state : CancelStates]]
    /\ events \in [Runs -> Seq(EventNames)]
    /\ restarts \in 0..MaxRestarts

NewExec == [pc |-> "none", plan |-> 0, ran |-> 0, anomalous |-> FALSE, cancelled |-> FALSE]

Init ==
    /\ row = [t \in Runs |-> [status |-> "absent", runs |-> 0, diagnosed |-> FALSE]]
    /\ request = [t \in Runs |-> "none"]
    /\ exec = [t \in Runs |-> NewExec]
    /\ registered = [t \in Runs |-> FALSE]
    /\ flag = [t \in Runs |-> FALSE]
    /\ cancel \in [Cancels -> {[of |-> t, state |-> "none"] : t \in Runs}]
    /\ events = [t \in Runs |-> <<>>]
    /\ restarts = 0

At(t, pc) == exec[t].pc = pc
Goto(t, pc) == exec' = [exec EXCEPT ![t].pc = pc]
Publish(t, es) == events' = [events EXCEPT ![t] = @ \o es]

-----------------------------------------------------------------------------
(* trigger_run: the row is flushed, the execution is scheduled and         *)
(* registered without an await in between, and the session commits only    *)
(* after the request (or the job) has returned.                            *)

Trigger(t) ==
    /\ t \in Triggered
    /\ request[t] = "none"
    /\ request' = [request EXCEPT ![t] = "flushed"]
    /\ Goto(t, "scheduled")
    /\ registered' = [registered EXCEPT ![t] = TRUE]
    /\ UNCHANGED <<row, flag, cancel, events, restarts>>

(* Faulty variant of RequestCommits: the row waits in a state of its own.  *)
RequestCommitsPending(t) ==
    /\ t \in Triggered
    /\ request[t] = "flushed"
    /\ request' = [request EXCEPT ![t] = "committed"]
    /\ row' = [row EXCEPT ![t].status = "PENDING"]
    /\ UNCHANGED <<exec, registered, flag, cancel, events, restarts>>

RequestCommits(t) ==
    /\ t \in Triggered
    /\ request[t] = "flushed"
    /\ request' = [request EXCEPT ![t] = "committed"]
    /\ row' = [row EXCEPT ![t].status = "RUNNING"]
    /\ UNCHANGED <<exec, registered, flag, cancel, events, restarts>>

RequestFails(t) ==
    /\ Faults
    /\ t \in Triggered
    /\ request[t] = "flushed"
    /\ request' = [request EXCEPT ![t] = "rolledback"]
    /\ UNCHANGED <<row, exec, registered, flag, cancel, events, restarts>>

-----------------------------------------------------------------------------
(* execute_task_run.  What precedes and what follows the test of the flag  *)
(* runs without an await: AtBreakpoint is the part of a step that looks at *)
(* the flag, with locals e, and goes on to a script or to the summary.     *)

(* Faulty variants of AtBreakpoint: the flag stops nothing, or the status  *)
(* forgets why the loop stopped.                                           *)
AtBreakpointTooLate(t, e) ==
    exec' = [exec EXCEPT ![t] =
        IF e.ran = e.plan
        THEN [e EXCEPT !.pc = "summing", !.cancelled = flag[t]]
        ELSE [e EXCEPT !.pc = "script"]]

AtBreakpointForgets(t, e) ==
    exec' = [exec EXCEPT ![t] =
        IF flag[t] \/ e.ran = e.plan
        THEN [e EXCEPT !.pc = "summing"]
        ELSE [e EXCEPT !.pc = "script"]]

AtBreakpoint(t, e) ==
    exec' = [exec EXCEPT ![t] =
        IF flag[t] \/ e.ran = e.plan
        THEN [e EXCEPT !.pc = "summing", !.cancelled = flag[t]]
        ELSE [e EXCEPT !.pc = "script"]]

(* session.get reads what is committed: no row, nothing to execute.        *)
MissesRow(t) ==
    /\ At(t, "scheduled")
    /\ row[t].status = "absent"
    /\ Goto(t, "ended")
    /\ UNCHANGED <<row, request, registered, flag, cancel, events, restarts>>

FindsNoTask(t) ==
    /\ Faults
    /\ At(t, "scheduled")
    /\ row[t].status # "absent"
    /\ Goto(t, "failing")
    /\ UNCHANGED <<row, request, registered, flag, cancel, events, restarts>>

FindsNoScript(t) ==
    /\ At(t, "scheduled")
    /\ row[t].status # "absent"
    /\ Goto(t, "emptying")
    /\ UNCHANGED <<row, request, registered, flag, cancel, events, restarts>>

(* Faulty variant of LoadsScripts: it starts from a clean flag.            *)
LoadsScriptsClearing(t) ==
    /\ At(t, "scheduled")
    /\ row[t].status # "absent"
    /\ flag' = [flag EXCEPT ![t] = FALSE]
    /\ \E n \in 1..MaxScripts :
         exec' = [exec EXCEPT ![t].plan = n, ![t].pc = "script"]
    /\ UNCHANGED <<row, request, registered, cancel, events, restarts>>

LoadsScripts(t) ==
    /\ At(t, "scheduled")
    /\ row[t].status # "absent"
    /\ \E n \in 1..MaxScripts : AtBreakpoint(t, [exec[t] EXCEPT !.plan = n])
    /\ UNCHANGED <<row, request, registered, flag, cancel, events, restarts>>

(* _run_one ends: the Run and its Report are flushed, not committed, and   *)
(* run_result is published.                                                *)
ScriptEnds(t) ==
    /\ At(t, "script")
    /\ \E anomalous \in BOOLEAN :
         AtBreakpoint(t, [exec[t] EXCEPT !.ran = @ + 1, !.anomalous = @ \/ anomalous])
    /\ Publish(t, <<"run_result">>)
    /\ UNCHANGED <<row, request, registered, flag, cancel, restarts>>

(* Anything but an OpsMindError (a disk full, a lost connection) leaves    *)
(* through session_scope, which rolls back every Run of this execution.    *)
Raises(t) ==
    /\ Faults
    /\ exec[t].pc \in {"script", "summing", "emptying", "failing"}
    /\ Goto(t, "error")
    /\ UNCHANGED <<row, request, registered, flag, cancel, events, restarts>>

(* The early returns: the status is committed on leaving session_scope.    *)
ReturnsEarly(t) ==
    /\ \/ At(t, "failing") /\ row' = [row EXCEPT ![t].status = "FAILED"]
       \/ At(t, "emptying") /\ row' = [row EXCEPT ![t].status = "DONE"]
    /\ Goto(t, "ended")
    /\ UNCHANGED <<request, registered, flag, cancel, events, restarts>>

(* Faulty variant of Stores: no explicit commit.                           *)
StoresNothing(t) ==
    /\ At(t, "summing")
    /\ Goto(t, "stored")
    /\ UNCHANGED <<row, request, registered, flag, cancel, events, restarts>>

(* The explicit commit of the summary, the status and the Run rows.        *)
Stores(t) ==
    /\ At(t, "summing")
    /\ row' = [row EXCEPT ![t].status = IF exec[t].cancelled THEN "CANCELLED" ELSE "DONE",
                          ![t].runs = exec[t].ran]
    /\ Goto(t, "stored")
    /\ UNCHANGED <<request, registered, flag, cancel, events, restarts>>

(* Faulty variant of Announces: done does not wait for the diagnosis.      *)
AnnouncesDoneFirst(t) ==
    /\ At(t, "stored")
    /\ flag' = [flag EXCEPT ![t] = FALSE]
    /\ Publish(t, <<"batch_ready", "done">>)
    /\ IF ~exec[t].cancelled /\ exec[t].anomalous THEN Goto(t, "queued") ELSE Goto(t, "closing")
    /\ UNCHANGED <<row, request, registered, cancel, restarts>>

(* Back from the commit: clear_cancel, batch_ready, then the diagnosis or  *)
(* done.                                                                   *)
Announces(t) ==
    /\ At(t, "stored")
    /\ t \in Triggered
    /\ flag' = [flag EXCEPT ![t] = FALSE]
    /\ IF ~exec[t].cancelled /\ exec[t].anomalous
       THEN Goto(t, "queued") /\ Publish(t, <<"batch_ready">>)
       ELSE Goto(t, "closing") /\ Publish(t, <<"batch_ready", "done">>)
    /\ UNCHANGED <<row, request, registered, cancel, restarts>>

(* diagnose_task_run, awaited inline under _diag_sem: whatever becomes of  *)
(* it, done follows without another await.                                 *)
Diagnosing == {t \in Runs : exec[t].pc \in {"diagnosing", "diagnosed"}}

DiagnosisStarts(t) ==
    /\ At(t, "queued")
    /\ Cardinality(Diagnosing) < DiagConcurrency
    /\ Goto(t, "diagnosing")
    /\ Publish(t, <<"diag_started">>)
    /\ UNCHANGED <<row, request, registered, flag, cancel, restarts>>

DiagnosisStores(t) ==
    /\ At(t, "diagnosing")
    /\ row' = [row EXCEPT ![t].diagnosed = TRUE]
    /\ Goto(t, "diagnosed")
    /\ UNCHANGED <<request, registered, flag, cancel, events, restarts>>

DiagnosisConcludes(t) ==
    /\ At(t, "diagnosed")
    /\ Goto(t, "closing")
    /\ Publish(t, <<"diagnostic_done", "done">>)
    /\ UNCHANGED <<row, request, registered, flag, cancel, restarts>>

(* Faulty variant of DiagnosisFails: it returns from the whole execution.  *)
DiagnosisFailsSilently(t) ==
    /\ At(t, "diagnosing")
    /\ Goto(t, "closing")
    /\ Publish(t, <<"diag_failed">>)
    /\ UNCHANGED <<row, request, registered, flag, cancel, restarts>>

DiagnosisFails(t) ==
    /\ At(t, "diagnosing")
    /\ Goto(t, "closing")
    /\ Publish(t, <<"diag_failed", "done">>)
    /\ UNCHANGED <<row, request, registered, flag, cancel, restarts>>

(* The database fails outside the part that reports diag_failed: the       *)
(* exception is swallowed by execute_task_run.                             *)
DiagnosisRaises(t) ==
    /\ Faults
    /\ \/ At(t, "queued") /\ Cardinality(Diagnosing) < DiagConcurrency
       \/ At(t, "diagnosing")
    /\ Goto(t, "closing")
    /\ Publish(t, <<"done">>)
    /\ UNCHANGED <<row, request, registered, flag, cancel, restarts>>

(* session_scope has nothing left to commit. *)
Ends(t) ==
    /\ At(t, "closing")
    /\ Goto(t, "ended")
    /\ UNCHANGED <<row, request, registered, flag, cancel, events, restarts>>

(* Faulty variant of DoneCallback: it forgets the executions that raised.  *)
DoneCallbackOnSuccess(t) ==
    /\ registered[t]
    /\ At(t, "ended")
    /\ registered' = [registered EXCEPT ![t] = FALSE]
    /\ UNCHANGED <<row, request, exec, flag, cancel, events, restarts>>

(* register_running's add_done_callback; it leaves the flag alone.         *)
DoneCallback(t) ==
    /\ registered[t]
    /\ exec[t].pc \in {"ended", "error"}
    /\ registered' = [registered EXCEPT ![t] = FALSE]
    /\ UNCHANGED <<row, request, exec, flag, cancel, events, restarts>>

-----------------------------------------------------------------------------
(* execute_script_test: one script, in the request, with no handle; its    *)
(* row appears with its final commit.                                      *)

TestStarts(t) ==
    /\ t \in Tests
    /\ request[t] = "none"
    /\ request' = [request EXCEPT ![t] = "flushed"]
    /\ exec' = [exec EXCEPT ![t].pc = "script", ![t].plan = 1]
    /\ UNCHANGED <<row, registered, flag, cancel, events, restarts>>

TestAnnounces(t) ==
    /\ At(t, "stored")
    /\ t \in Tests
    /\ Goto(t, "closing")
    /\ Publish(t, <<"done">>)
    /\ UNCHANGED <<row, request, registered, flag, cancel, restarts>>

-----------------------------------------------------------------------------
(* cancel_task_run: the status is read from the database, an await, then   *)
(* request_cancel looks at the registry.                                   *)

CancelReads(c) ==
    /\ cancel[c].state = "none"
    /\ cancel' = [cancel EXCEPT ![c].state =
                      IF row[cancel[c].of].status = "RUNNING" THEN "read" ELSE "refused"]
    /\ UNCHANGED <<row, request, exec, registered, flag, events, restarts>>

CancelAccepted(c) ==
    /\ cancel[c].state = "read"
    /\ registered[cancel[c].of]
    /\ flag' = [flag EXCEPT ![cancel[c].of] = TRUE]
    /\ cancel' = [cancel EXCEPT ![c].state =
                      IF exec[cancel[c].of].pc \in {"scheduled", "script"} THEN "early" ELSE "late"]
    /\ UNCHANGED <<row, request, exec, registered, events, restarts>>

CancelRefused(c) ==
    /\ cancel[c].state = "read"
    /\ ~registered[cancel[c].of]
    /\ cancel' = [cancel EXCEPT ![c].state = "refused"]
    /\ UNCHANGED <<row, request, exec, registered, flag, events, restarts>>

-----------------------------------------------------------------------------
(* The process dies and starts again: memory and open transactions are     *)
(* gone, what is committed stays, and nothing looks for unfinished runs.   *)

Restart ==
    /\ restarts < MaxRestarts
    /\ restarts' = restarts + 1
    /\ exec' = [t \in Runs |->
                  IF exec[t].pc \in {"none", "ended", "error"} THEN exec[t]
                  ELSE [exec[t] EXCEPT !.pc = "lost"]]
    /\ request' = [t \in Runs |-> IF request[t] = "flushed" THEN "rolledback" ELSE request[t]]
    /\ registered' = [t \in Runs |-> FALSE]
    /\ flag' = [t \in Runs |-> FALSE]
    /\ cancel' = [c \in Cancels |->
                    IF cancel[c].state = "read" THEN [cancel[c] EXCEPT !.state = "refused"]
                    ELSE cancel[c]]
    /\ UNCHANGED <<row, events>>

-----------------------------------------------------------------------------
Executes(t) ==
    \/ MissesRow(t)
    \/ FindsNoTask(t)
    \/ FindsNoScript(t)
    \/ LoadsScripts(t)
    \/ ScriptEnds(t)
    \/ Raises(t)
    \/ ReturnsEarly(t)
    \/ Stores(t)
    \/ Announces(t)
    \/ TestAnnounces(t)
    \/ DiagnosisStarts(t)
    \/ DiagnosisStores(t)
    \/ DiagnosisConcludes(t)
    \/ DiagnosisFails(t)
    \/ DiagnosisRaises(t)
    \/ Ends(t)

Next ==
    \/ \E t \in Runs :
         \/ Trigger(t) \/ RequestCommits(t) \/ RequestFails(t)
         \/ Executes(t) \/ DoneCallback(t)
         \/ TestStarts(t)
    \/ \E c \in Cancels : CancelReads(c) \/ CancelAccepted(c) \/ CancelRefused(c)
    \/ Restart

(* A scheduled coroutine and a done callback run, a script ends or times   *)
(* out, a diagnosis has its own limit, and the semaphore of the diagnoses  *)
(* is served in the order of arrival.  The request commits or fails.       *)
Fairness ==
    \A t \in Runs :
      /\ WF_vars(Executes(t))
      /\ SF_vars(DiagnosisStarts(t))
      /\ WF_vars(DoneCallback(t))
      /\ WF_vars(RequestCommits(t) \/ RequestFails(t))

Spec == Init /\ [][Next]_vars /\ Fairness

-----------------------------------------------------------------------------
(* Properties *)

Rank(e) ==
    CASE e = "run_result" -> 1
      [] e = "batch_ready" -> 2
      [] e = "diag_started" -> 3
      [] e \in {"diag_failed", "diagnostic_done"} -> 4
      [] e = "done" -> 5

(* The channel of a run tells its story in the documented order: results,  *)
(* then the batch, then at most one diagnosis, then done and nothing more. *)
(* execute_task_run with the diagnosis it awaits inline.                   *)
EventsInOrder ==
    \A t \in Runs : \A i, j \in DOMAIN events[t] :
        i < j => \/ Rank(events[t][i]) < Rank(events[t][j])
                 \/ events[t][i] = "run_result" /\ events[t][j] = "run_result"

Published(t, e) == \E i \in DOMAIN events[t] : events[t][i] = e
Results(t) == {i \in DOMAIN events[t] : events[t][i] = "run_result"}

(* A client that reloads on batch_ready or done finds the final status,    *)
(* every announced result and the diagnosis: publish follows the commit.   *)
AnnouncedIsStored ==
    \A t \in Runs :
        /\ Published(t, "batch_ready") \/ Published(t, "done") =>
             /\ row[t].status \in {"DONE", "CANCELLED"}
             /\ row[t].runs = Cardinality(Results(t))
        /\ Published(t, "diagnostic_done") => row[t].diagnosed

Accepted(t) == {c \in Cancels : cancel[c].of = t /\ cancel[c].state \in {"early", "late"}}

(* A stored status is the truth: DONE means that every enabled script ran, *)
(* CANCELLED that somebody asked for it in time, and nobody diagnoses a    *)
(* run that is not DONE.                                                   *)
StatusFaithful ==
    \A t \in Runs :
        /\ row[t].status = "DONE" => row[t].runs = exec[t].plan
        /\ row[t].status = "CANCELLED" => \E c \in Accepted(t) : cancel[c].state = "early"
        /\ row[t].diagnosed => row[t].status = "DONE"

(* A cancel accepted before the last look at the flag decides the status,  *)
(* unless the task had no script to run.                                   *)
EarlyCancelHonoured ==
    \A c \in Cancels :
        cancel[c].state = "early" =>
            LET t == cancel[c].of IN
            \/ row[t].status \in {"absent", "RUNNING", "CANCELLED"}
            \/ exec[t].plan = 0

(* As long as an execution of a triggered run lives, the registry knows    *)
(* it, so that cancel finds it: trigger_run registers before it yields.    *)
LiveIsRegistered ==
    \A t \in Triggered :
        exec[t].pc \notin {"none", "ended", "error", "lost"} => registered[t]

Dispatched(t) == exec[t].ran + (IF exec[t].pc = "script" THEN 1 ELSE 0)

(* Once the flag is up, no further script goes to a host.                  *)
NoScriptAfterCancel ==
    [][\A t \in Runs : flag[t] => Dispatched(t)' <= Dispatched(t)]_vars

(* Every background execution leaves the registry, however it ends.        *)
ExecutionsLeave == \A t \in Triggered : registered[t] ~> ~registered[t]

(* An execution that got to a script announces done, unless an exception   *)
(* or the end of the process stopped it.                                   *)
ScriptsLeadToDone ==
    \A t \in Runs :
        exec[t].pc = "script" ~> Published(t, "done") \/ exec[t].pc \in {"error", "lost"}

-----------------------------------------------------------------------------
(* What the documents say and the code does not keep. *)

(* docs/04, section 0.1: a task run is RUNNING until its scripts have run, *)
(* and then DONE.                                                          *)
RunningEnds ==
    \A t \in Triggered : row[t].status = "RUNNING" ~> row[t].status \in Terminal
=============================================================================
