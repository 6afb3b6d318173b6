------------------------------ MODULE Judgment ------------------------------
(***************************************************************************)
(* What becomes of one script: the first gate, the second gate and the     *)
(* parsing of what the LLM answers (services/judgment.py,                  *)
(* utils/safe_json.py), as _run_one of services/execution.py puts them     *)
(* together, and the test of a batch for anomalies (diagnosis/service.py). *)
(* Only definitions: module Diagnosis runs them.                           *)
(***************************************************************************)

ReportTypes == {"success", "error", "timeout", "empty", "host_unreachable"}
Graded == {"ok", "warn", "crit"}
Levels == Graded \cup {"unknown"}

(* The forms of an LLM answer that extract_json_from_text tells apart: an  *)
(* object, a list (bare or of several objects), a list of one object with  *)
(* text or a fence around it, and text without JSON.  It tries the whole   *)
(* text, then a fenced object, then the first to the last brace; so of a   *)
(* list at most its only object is left, and never the list.               *)
Forms == {"object", "list", "wrapped_single", "prose"}

Extract(form) == IF form \in {"object", "wrapped_single"} THEN "object" ELSE "nothing"

(* How a call of the LLM ends for its caller: refused by the limiter or    *)
(* raised, or an answer; "says" is the level it names.                     *)
Failed == [form |-> "failed", says |-> "other"]
Answers == [form : Forms, says : Graded \cup {"other"}]

(* Faulty variant of SecondGate: it takes any level that it is told.       *)
SecondGateUnchecked(a) == IF a # Failed /\ Extract(a.form) = "object" THEN a.says ELSE "unknown"

(* second_gate_llm; JudgmentFailure is answered by level unknown as well.  *)
SecondGate(a) ==
    IF a # Failed /\ Extract(a.form) = "object" /\ a.says \in Graded THEN a.says ELSE "unknown"

(* What a host answers to run_script, exit "none" when it does not: the    *)
(* call raised, or the payload has no exit code.                           *)
Outcomes == [exit : {"none", "zero", "nonzero"}, timedOut : BOOLEAN, output : BOOLEAN]

FirstGate(o) ==
    IF o.timedOut THEN "timeout"
    ELSE IF o.exit = "none" THEN "host_unreachable"
    ELSE IF o.exit = "nonzero" THEN "error"
    ELSE IF ~o.output THEN "empty"
    ELSE "success"

(* _run_one: the Run that a script leaves.                                 *)
RunOf(o, a) ==
    [report_type |-> FirstGate(o),
     level |-> IF FirstGate(o) = "success" THEN SecondGate(a) ELSE "unknown"]

(* Faulty variant of IsAnomalous: a script that failed is no reason.       *)
IsAnomalousByLevel(runs) == \E r \in runs : r.level = "crit"

IsAnomalous(runs) ==
    \E r \in runs :
        r.level = "crit" \/ r.report_type \in {"error", "timeout", "host_unreachable"}
=============================================================================
