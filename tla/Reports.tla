------------------------------ MODULE Reports ------------------------------
(***************************************************************************)
(* The analysis of a report by the LLM (services/report.py) and the checks *)
(* that annotate it (services/validation.py).  POST /runs/{id}/reanalyze   *)
(* runs analyze_run on a session of its own; the page gives up after two   *)
(* minutes and offers the button again, so that analyses of one report     *)
(* overlap.  Reports do not touch each other: the module has one report.   *)
(*                                                                         *)
(* A session writes the columns that differ from what it has read or       *)
(* written itself, and leaves the others as they are by then.              *)
(***************************************************************************)
EXTENDS FiniteSets, Integers

CONSTANTS
    Analyses,       \* the requests of the model; each is made once
    Texts,          \* what the LLM may answer
    MaxRestarts     \* bound of the model: restarts of the process

Required == {"phenomenon", "evidence", "conclusion", "advice"}

(* What the checks tell apart in a text: the words of its structure, a     *)
(* word such as "cause", a reference, and a secret, which the reference    *)
(* may be part of.                                                         *)
AnyText == {t \in [blank : BOOLEAN, words : SUBSET Required, cause : BOOLEAN,
                   ref : BOOLEAN, secret : {"none", "apart", "ref"}] :
              /\ t.secret = "ref" => t.ref
              /\ t.blank => t.words = {} /\ ~t.cause /\ ~t.ref /\ t.secret = "none"}
Unavailable == [blank |-> FALSE, words |-> {}, cause |-> FALSE, ref |-> FALSE, secret |-> "none"]
Nothing == [Unavailable EXCEPT !.blank = TRUE]

ASSUME TextsAssumption == Texts \subseteq AnyText
ASSUME RestartsAssumption == MaxRestarts \in Nat

VARIABLES
    run,        \* the level of the run, and whether its output says ERROR
    report,     \* the committed row
    analysis,   \* each execution of analyze_run: where it is, what it has read
    whole,      \* history: the last analysis to end met no other one
    restarts

rvars == <<run, report, analysis, whole, restarts>>

-----------------------------------------------------------------------------
(* services/validation.py *)

Note(rule, level) == [rule |-> rule, level |-> level]

(* check_structure: a note for each word that is missing; they read alike, *)
(* and name all of them.                                                   *)
Structure(t) == {Note("p1_structure", "note") : w \in Required \ t.words}

Evidence(t) ==
    IF ("conclusion" \in t.words \/ t.cause) /\ ~t.ref
    THEN {Note("p2_evidence", "suspicious")} ELSE {}

Conflict(tags) ==
    IF {"error", "ok"} \subseteq tags THEN {Note("p3_conflict", "conflict")} ELSE {}

OutOfBound(cited, available) ==
    {Note("p4_out_of_bound", "suspicious") :
        i \in IF available = {} THEN {} ELSE cited \ available}

LevelConsistency(level, errors) ==
    CASE level \in {"warn", "crit"} /\ ~errors -> {Note("p5_level_consistency", "note")}
      [] level = "ok" /\ errors -> {Note("p5_level_consistency", "suspicious")}
      [] OTHER -> {}

(* run_pipeline, as analyze_run calls it: without tags and without ids.    *)
Annotations(t, r) ==
    IF t.blank THEN {}
    ELSE Structure(t) \cup Evidence(t) \cup Conflict({}) \cup OutOfBound({1}, {})
            \cup LevelConsistency(r.level, r.errors)

(* The number in the banner; 0 where there is none.                        *)
Banner(notes) == Cardinality({n \in notes : n.level \in {"suspicious", "conflict"}})

(* mask_sensitive: the mask takes what follows the key with it.            *)
Masked(t) == [t EXCEPT !.secret = "none", !.ref = @ /\ t.secret # "ref"]

-----------------------------------------------------------------------------
(* services/report.py *)

Rules == {"p1_structure", "p2_evidence", "p3_conflict", "p4_out_of_bound", "p5_level_consistency"}
Notes == [rule : Rules, level : {"note", "suspicious", "conflict"}]
Null == {Note("null", "note")}

(* The columns that analyze_run writes; content is Nothing and notes are   *)
(* Null where they are still NULL.                                         *)
Rows == [status : {"none", "analyzing", "failed", "done"}, content : AnyText,
         notes : (SUBSET Notes) \cup {Null}, banner : 0..2]
EmptyRow == [status |-> "none", content |-> Nothing, notes |-> Null, banner |-> 0]

ReportTypeOK ==
    /\ run \in [level : {"ok", "warn", "crit", "unknown"}, errors : BOOLEAN]
    /\ report \in Rows
    /\ analysis \in [Analyses -> [pc : {"idle", "read", "calling", "over", "lost"},
                                  seen : Rows, met : BOOLEAN]]
    /\ whole \in BOOLEAN
    /\ restarts \in 0..MaxRestarts

Idle == [pc |-> "idle", seen |-> EmptyRow, met |-> FALSE]

(* The row comes with its run, in the transaction of the execution.        *)
ReportInit ==
    /\ run \in [level : {"ok", "warn", "crit", "unknown"}, errors : BOOLEAN]
    /\ report = EmptyRow
    /\ analysis = [a \in Analyses |-> Idle]
    /\ whole = TRUE
    /\ restarts = 0

(* What a session makes of the row: the columns that changed.              *)
Flushed(row, seen, new) ==
    [c \in DOMAIN row |-> IF new[c] = seen[c] THEN row[c] ELSE new[c]]

(* The select of the report; one that is done is left alone.               *)
Reads(a) ==
    /\ analysis[a].pc = "idle"
    /\ analysis' = [analysis EXCEPT ![a] =
         [pc |-> IF report.status \in {"done", "failed"} THEN "over" ELSE "read",
          seen |-> report, met |-> FALSE]]
    /\ UNCHANGED <<run, report, whole, restarts>>

(* The first commit.                                                       *)
Marks(a) ==
    LET new == [analysis[a].seen EXCEPT !.status = "analyzing"] IN
    /\ analysis[a].pc = "read"
    /\ report' = Flushed(report, analysis[a].seen, new)
    /\ analysis' = [analysis EXCEPT ![a].pc = "calling", ![a].seen = new]
    /\ UNCHANGED <<run, whole, restarts>>

(* Faulty variant of Stored: the text is checked before it is masked.      *)
StoredUnmasked(a, t) ==
    LET notes == Annotations(t, run) IN
    /\ analysis[a].pc = "calling"
    /\ report' = Flushed(report, analysis[a].seen,
                         [status |-> "done", content |-> Masked(t), notes |-> notes,
                          banner |-> Banner(notes)])
    /\ analysis' = [analysis EXCEPT ![a] = [Idle EXCEPT !.pc = "over"]]
    /\ whole' = ~analysis[a].met
    /\ UNCHANGED <<run, restarts>>

(* The second commit, with an answer of the LLM or with the fixed text: a  *)
(* failure is not left in the status, which is "done" in the end.          *)
Stored(a, t) ==
    LET text == Masked(t)  notes == Annotations(text, run) IN
    /\ analysis[a].pc = "calling"
    /\ report' = Flushed(report, analysis[a].seen,
                         [status |-> "done", content |-> text, notes |-> notes,
                          banner |-> Banner(notes)])
    /\ analysis' = [b \in Analyses |->
         IF b = a THEN [Idle EXCEPT !.pc = "over"]
         ELSE [analysis[b] EXCEPT !.met = analysis[b].pc \in {"read", "calling"}]]
    /\ whole' = ~analysis[a].met
    /\ UNCHANGED <<run, restarts>>

Answers(a) == \E t \in Texts : Stored(a, t)

(* Faulty variant of Unanswered: it returns where the call failed.         *)
UnansweredReturns(a) ==
    /\ analysis[a].pc = "calling"
    /\ analysis' = [analysis EXCEPT ![a] = [Idle EXCEPT !.pc = "over"]]
    /\ UNCHANGED <<run, report, whole, restarts>>

(* The limiter refuses, or the call raises.                                *)
Unanswered(a) == Stored(a, Unavailable)

LostAnalysis == [Idle EXCEPT !.pc = "lost"]

(* One of the two commits raises, which nobody handles: it is rolled back, *)
(* and the row stays as it is.                                             *)
CommitFails(a) ==
    /\ analysis[a].pc \in {"read", "calling"}
    /\ analysis' = [analysis EXCEPT ![a] = LostAnalysis]
    /\ UNCHANGED <<run, report, whole, restarts>>

(* The process dies, or its loop stops for good because the limiter blocks *)
(* the thread (LlmLimiter has that): either way with all that is under     *)
(* way.                                                                    *)
Restart ==
    /\ restarts < MaxRestarts
    /\ restarts' = restarts + 1
    /\ analysis' = [a \in Analyses |-> IF analysis[a].pc \in {"read", "calling"} THEN LostAnalysis
                                       ELSE analysis[a]]
    /\ UNCHANGED <<run, report, whole>>

ReportNext ==
    \/ \E a \in Analyses :
         \/ Reads(a)
         \/ Marks(a)
         \/ Answers(a)
         \/ Unanswered(a)
         \/ CommitFails(a)
    \/ Restart

(* Where the loop goes on running, so does an analysis: the client of the  *)
(* LLM has a time limit, and a commit succeeds or raises.  Nothing         *)
(* promises that it succeeds.                                              *)
ReportFairness ==
    \A a \in Analyses :
        WF_rvars(Marks(a) \/ Answers(a) \/ Unanswered(a) \/ CommitFails(a))

ReportSpec == ReportInit /\ [][ReportNext]_rvars /\ ReportFairness

-----------------------------------------------------------------------------
(* Properties *)

(* What is stored is one analysis: the notes are those of the text that is *)
(* shown, and the banner counts the doubtful ones, unless the last one to  *)
(* end met another, which may leave it a banner, or notes, of the other.   *)
ReportIsWhole ==
    report.status = "done" /\ whole =>
        /\ report.notes = Annotations(report.content, run)
        /\ report.banner = Banner(report.notes)

(* A report is left "analyzing" only by an analysis that is still at work, *)
(* or that was lost at a commit, with the process or with its loop,        *)
(* however analyses overlap and take a finished report back.               *)
StuckHasReason ==
    report.status = "analyzing" => \E a \in Analyses : analysis[a].pc \in {"calling", "lost"}

(* Each analysis that begins, also of a report that another one left       *)
(* "analyzing", gets it done, whether the LLM answers or not, unless it is *)
(* itself lost.                                                            *)
AnalysisEnds ==
    \A a \in Analyses :
        analysis[a].pc = "read" ~> \/ analysis[a].pc = "over" /\ report.status = "done"
                                   \/ analysis[a].pc = "lost"
=============================================================================
