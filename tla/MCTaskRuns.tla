---------------------------- MODULE MCTaskRuns ----------------------------
(* Instances of the task runs: overlapping triggered runs, a script test,  *)
(* and cancel requests for any of them.                                    *)
EXTENDS TaskRuns

CONSTANTS t1, t2, x1, c1, c2

TwoTriggered == {t1, t2}
OneTriggered == {t1}
OneTest == {x1}
TwoCancels == {c1, c2}
OneCancel == {c1}
Nothing == {}
============================================================================
