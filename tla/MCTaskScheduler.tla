-------------------------- MODULE MCTaskScheduler --------------------------
(* An instance of the scheduling: two tasks, two requests, one schedule of *)
(* each kind.  Tasks and requests are interchangeable.                     *)
EXTENDS TaskScheduler, TLC

CONSTANTS k1, k2, q1, q2

TwoTasks == {k1, k2}
TwoRequests == {q1, q2}
OneValid == {"hourly"}
OneRefused == {"bad cron"}
OneMalformed == {"text"}
Alike == Permutations(TwoTasks) \cup Permutations(TwoRequests)
============================================================================
