---------------------------- MODULE MCRunStream ----------------------------
(* Instances of the live channel: one triggered run, watched by one page.  *)
EXTENDS RunStream

CONSTANTS t1, c1, b1

OneRun == {t1}
OneCancel == {c1}
OneBoard == {b1}
Nothing == {}
============================================================================
