---------------------------- MODULE HostPromise ----------------------------
(***************************************************************************)
(* What the execution engine relies on when it sends a script to a host    *)
(* (EXEC_RUNNER in services/execution.py): the script starts at most once, *)
(* and what is told of it is true.  An error says nothing: the script may  *)
(* never start, may run on, or may have ended.                             *)
(***************************************************************************)
CONSTANT Runs

VARIABLES fate, told

TypeOK ==
    /\ fate \in [Runs -> {"none", "running", "ended", "killed"}]
    /\ told \in [Runs -> {"none", "exit", "timed_out", "error"}]

Init ==
    /\ fate = [r \in Runs |-> "none"]
    /\ told = [r \in Runs |-> "none"]

Start(r) ==
    /\ fate[r] = "none"
    /\ fate' = [fate EXCEPT ![r] = "running"]
    /\ UNCHANGED told

Stop(r) ==
    /\ fate[r] = "running"
    /\ \E f \in {"ended", "killed"} : fate' = [fate EXCEPT ![r] = f]
    /\ UNCHANGED told

Tell(r, what) ==
    /\ told[r] = "none"
    /\ what = "exit" => fate[r] = "ended"
    /\ what = "timed_out" => fate[r] = "killed"
    /\ told' = [told EXCEPT ![r] = what]
    /\ UNCHANGED fate

Next == \E r \in Runs :
    Start(r) \/ Stop(r) \/ \E what \in {"exit", "timed_out", "error"} : Tell(r, what)

Spec == Init /\ [][Next]_<<fate, told>>
=============================================================================
