----------------------------- MODULE MCReports -----------------------------
(* Three overlapping analyses, and four kinds of answer: a sound one, one  *)
(* that concludes without a reference, one whose reference is masked, none *)
EXTENDS Reports

Sound == [Unavailable EXCEPT !.words = Required, !.ref = TRUE]
Unfounded == [Unavailable EXCEPT !.cause = TRUE]
Secretive == [Sound EXCEPT !.secret = "ref"]

FourTexts == {Sound, Unfounded, Secretive, Nothing}
============================================================================
