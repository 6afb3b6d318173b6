-------------------------- MODULE DiagnosisPromise --------------------------
(***************************************************************************)
(* What diagnose_task_run promises its caller, and what module TaskRuns    *)
(* takes for granted of it: nothing is announced before the start, a       *)
(* result is announced only when it is stored, a failure stores nothing,   *)
(* and what is stored stays.                                               *)
(***************************************************************************)
VARIABLES
    event,      \* the last event it published
    isStored,   \* diagnosis_json is there
    over        \* it has returned, or raised

vars == <<event, isStored, over>>

Init == event = "none" /\ isStored = FALSE /\ over = FALSE

Start ==
    /\ ~over
    /\ event = "none"
    /\ event' = "diag_started"
    /\ UNCHANGED <<isStored, over>>

Store ==
    /\ ~over
    /\ event = "diag_started"
    /\ isStored' = TRUE
    /\ UNCHANGED <<event, over>>

Announce ==
    /\ ~over
    /\ isStored
    /\ event' = "diagnostic_done"
    /\ over' = TRUE
    /\ UNCHANGED isStored

Fail ==
    /\ ~over
    /\ event = "diag_started"
    /\ ~isStored
    /\ event' = "diag_failed"
    /\ over' = TRUE
    /\ UNCHANGED isStored

(* It returns without a word, or raises, before the start or instead of    *)
(* storing.                                                                *)
Leave ==
    /\ ~over
    /\ ~isStored
    /\ over' = TRUE
    /\ UNCHANGED <<event, isStored>>

Next == Start \/ Store \/ Announce \/ Fail \/ Leave

Spec == Init /\ [][Next]_vars
=============================================================================
