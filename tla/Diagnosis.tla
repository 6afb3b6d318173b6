------------------------------ MODULE Diagnosis ------------------------------
(***************************************************************************)
(* One batch and the diagnosis it calls for: the verdicts on its scripts,  *)
(* diagnose_task_run (diagnosis/service.py) and the graph of agents it     *)
(* runs (diagnosis/graph.py): a planner, three executors in parallel, a    *)
(* reviewer, on the blackboard of diagnosis/blackboard.py.  The semaphore  *)
(* of the diagnoses and the events around this one are those of TaskRuns.  *)
(***************************************************************************)
EXTENDS Judgment, Integers, FiniteSets

CONSTANTS
    MaxScripts      \* bound of the model: scripts of the batch

ASSUME MaxScriptsAssumption == MaxScripts \in Nat \ {0}

VARIABLES
    batch,      \* the scripts that have run: how many, whether a host failed one,
                \* and whether a cancel was accepted while they ran
    runs,       \* what their Run rows say
    phase,      \* where diagnose_task_run is
    hypothesis, \* blackboard: the kinds of the planner's hypotheses
    probe,      \* blackboard: what each executor found
    review,     \* blackboard: the conclusions
    stored,     \* diagnosis_json, as committed
    event       \* the last event published

vars == <<batch, runs, phase, hypothesis, probe, review, stored, event>>
board == <<hypothesis, probe, review>>

Kinds == {"log", "metric", "change"}
Phases == {"scripts", "quiet", "queued", "planning", "probing", "reviewing",
           "finished", "committed", "over", "dead"}

(* A conclusion is the LLM's, or follows the rule, and cites evidence.     *)
Conclusions == [by : {"llm", "rule"}, cites : SUBSET Kinds]
Payloads == [hypothesis : SUBSET Kinds, evidence : SUBSET Kinds, notes : SUBSET Kinds,
             conclusions : SUBSET Conclusions, insufficient : BOOLEAN, contract_ok : BOOLEAN]
NoPayload == [none |-> TRUE]

TypeOK ==
    /\ batch \in [ran : 0..MaxScripts, broken : BOOLEAN, cancelled : BOOLEAN]
    /\ runs \subseteq [report_type : ReportTypes, level : Levels]
    /\ phase \in Phases
    /\ hypothesis \subseteq Kinds
    /\ probe \in [Kinds -> {"pending", "evidence", "error"}]
    /\ review \subseteq Conclusions
    /\ stored \in Payloads \cup {NoPayload}
    /\ event \in {"none", "diag_started", "diagnostic_done", "diag_failed"}

Init ==
    /\ batch = [ran |-> 0, broken |-> FALSE, cancelled |-> FALSE]
    /\ runs = {}
    /\ phase = "scripts"
    /\ hypothesis = {}
    /\ probe = [k \in Kinds |-> "pending"]
    /\ review = {}
    /\ stored = NoPayload
    /\ event = "none"

-----------------------------------------------------------------------------
(* The batch: _run_one per script, until a cancel is seen; then            *)
(* is_anomalous decides.                                                   *)

ScriptRuns ==
    /\ phase = "scripts"
    /\ ~batch.cancelled
    /\ batch.ran < MaxScripts
    /\ \E o \in Outcomes, a \in Answers \cup {Failed} :
         /\ runs' = runs \cup {RunOf(o, a)}
         /\ batch' = [batch EXCEPT !.ran = @ + 1,
                                  !.broken = @ \/ o.timedOut \/ o.exit # "zero"]
    /\ UNCHANGED <<phase, board, stored, event>>

(* A cancel before the last look at the flag; one that comes later is      *)
(* lost, and no longer of interest here (TaskRuns has both).               *)
CancelAccepted ==
    /\ phase = "scripts"
    /\ batch' = [batch EXCEPT !.cancelled = TRUE]
    /\ UNCHANGED <<runs, phase, board, stored, event>>

(* A batch that was cancelled is not diagnosed, whatever its scripts say.  *)
BatchReady ==
    /\ phase = "scripts"
    /\ batch.ran > 0 \/ batch.cancelled
    /\ phase' = IF ~batch.cancelled /\ IsAnomalous(runs) THEN "queued" ELSE "quiet"
    /\ UNCHANGED <<batch, runs, board, stored, event>>

(* Something raises among the scripts or at the commit after them, which   *)
(* ends the execution before it looks for anomalies; or the process dies,  *)
(* at any point.                                                           *)
Dies ==
    /\ phase \notin {"quiet", "over", "dead"}
    /\ phase' = "dead"
    /\ UNCHANGED <<batch, runs, board, stored, event>>

-----------------------------------------------------------------------------
(* diagnose_task_run before the graph.  It leaves when the run or its host *)
(* is gone or the database fails; it is called once for a run, so it finds *)
(* no diagnosis there.                                                     *)

Leaves ==
    /\ phase \in {"queued", "finished"}
    /\ phase' = "over"
    /\ UNCHANGED <<batch, runs, board, stored, event>>

Starts ==
    /\ phase = "queued"
    /\ stored = NoPayload
    /\ phase' = "planning"
    /\ event' = "diag_started"
    /\ UNCHANGED <<batch, runs, board, stored>>

-----------------------------------------------------------------------------
(* The graph.  An agent is asked for a list of entries.  What it reads of  *)
(* an answer is the field with the entries, if the answer is an object     *)
(* with that field; "junk" is a field whose entries are no objects.  An    *)
(* answer that is the list itself is lost in Extract.                      *)

AgentAnswers == [form : Forms \cup {"failed"}, field : {"entries", "junk", "absent"}]

Reads(a) ==
    IF a.form = "failed" THEN "raises"
    ELSE IF a.form # "object" \/ a.field = "absent" THEN "nothing"
    ELSE IF a.field = "junk" THEN "raises"
    ELSE "entries"

(* planner_node: the kinds of the valid entries, or the fallback with all  *)
(* three when there is none, or when anything raised.                      *)
Plans ==
    /\ phase = "planning"
    /\ \E a \in AgentAnswers, kinds \in SUBSET Kinds :
         hypothesis' = IF Reads(a) = "entries" /\ kinds # {} THEN kinds ELSE Kinds
    /\ phase' = "probing"
    /\ UNCHANGED <<batch, runs, probe, review, stored, event>>

(* default_collect: a host that answers gives evidence, whatever the exit  *)
(* code; a call that raised is told as an error.                           *)
Found == {"evidence", "error"}

(* Faulty variant of Probes: the first one that ends opens the review.     *)
ProbesAlone(k) ==
    /\ phase = "probing"
    /\ probe[k] = "pending"
    /\ \E found \in Found : probe' = [probe EXCEPT ![k] = found]
    /\ phase' = "reviewing"
    /\ UNCHANGED <<batch, runs, hypothesis, review, stored, event>>

(* One executor: a probe that came back, whatever its exit code, is        *)
(* evidence in its own slot; one that raised leaves a note.  The reviewer  *)
(* waits for the three of them.                                            *)
Probes(k) ==
    /\ phase = "probing"
    /\ probe[k] = "pending"
    /\ \E found \in Found : probe' = [probe EXCEPT ![k] = found]
    /\ phase' = IF \A j \in Kinds \ {k} : probe[j] # "pending" THEN "reviewing" ELSE "probing"
    /\ UNCHANGED <<batch, runs, hypothesis, review, stored, event>>

Having(found) == {k \in Kinds : probe[k] = found}

(* _default_review: the LLM may cite any kind of evidence, and the rule    *)
(* cites all there is.                                                     *)
Concludes(reading, cites) ==
    CASE reading = "entries" -> {[by |-> "llm", cites |-> cites]}
      [] reading = "raises"  -> {[by |-> "rule", cites |-> Having("evidence")]}
      [] reading = "nothing" -> {}

(* reviewer_node: no evidence, no question to the LLM and no conclusion.   *)
Reviewed ==
    /\ phase = "reviewing"
    /\ \/ /\ Having("evidence") = {}
          /\ UNCHANGED review
       \/ /\ Having("evidence") # {}
          /\ \E a \in AgentAnswers, cites \in SUBSET Kinds, gives \in BOOLEAN :
               review' = IF Reads(a) = "entries" /\ ~gives THEN {} ELSE Concludes(Reads(a), cites)
    /\ phase' = "finished"
    /\ UNCHANGED <<batch, runs, hypothesis, probe, stored, event>>

(* The limit on the whole graph runs out (or the graph raises).            *)
Fails ==
    /\ phase \in {"planning", "probing", "reviewing"}
    /\ phase' = "over"
    /\ event' = "diag_failed"
    /\ UNCHANGED <<batch, runs, board, stored>>

-----------------------------------------------------------------------------
(* After the graph: the contract is checked, the payload committed, and    *)
(* only then announced.                                                    *)

ContractKept ==
    /\ review # {} => Having("evidence") # {}
    /\ hypothesis \subseteq Kinds

(* Faulty variant of Stores: the commit is forgotten.                      *)
StoresNothing ==
    /\ phase = "finished"
    /\ phase' = "committed"
    /\ UNCHANGED <<batch, runs, board, stored, event>>

Stores ==
    /\ phase = "finished"
    /\ stored' = [hypothesis |-> hypothesis,
                  evidence |-> Having("evidence"),
                  notes |-> Having("error"),
                  conclusions |-> review,
                  insufficient |-> Having("evidence") = {},
                  contract_ok |-> ContractKept]
    /\ phase' = "committed"
    /\ UNCHANGED <<batch, runs, board, event>>

Announces ==
    /\ phase = "committed"
    /\ phase' = "over"
    /\ event' = "diagnostic_done"
    /\ UNCHANGED <<batch, runs, board, stored>>

-----------------------------------------------------------------------------
Diagnoses ==
    \/ Leaves
    \/ Starts
    \/ Plans
    \/ \E k \in Kinds : Probes(k)
    \/ Reviewed
    \/ Fails
    \/ Stores
    \/ Announces

Next ==
    \/ ScriptRuns
    \/ CancelAccepted
    \/ BatchReady
    \/ Dies
    \/ Diagnoses

(* As long as the execution lives, its batch ends (each call has a time    *)
(* limit) and diagnose_task_run, awaited inline, goes on.  Nothing keeps   *)
(* it from dying.                                                          *)
Fairness == WF_vars(BatchReady) /\ WF_vars(Diagnoses)

Spec == Init /\ [][Next]_vars /\ Fairness

-----------------------------------------------------------------------------
(* Properties *)

(* What is stored holds together: every executor left evidence or a note,  *)
(* never neither, "insufficient" is said when there is no evidence, there  *)
(* is then no conclusion, the rule cites what there is, and the contract   *)
(* of the blackboard was kept.                                             *)
PayloadConsistent ==
    stored # NoPayload =>
        /\ stored.evidence \cup stored.notes = Kinds
        /\ stored.insufficient <=> stored.evidence = {}
        /\ stored.conclusions # {} => stored.evidence # {}
        /\ \A c \in stored.conclusions : c.by = "rule" => c.cites = stored.evidence
        /\ stored.contract_ok

(* A script is graded only after it succeeded: level and report type are   *)
(* independent only as far as the two gates allow.                         *)
GradedSucceeded == \A r \in runs : r.level # "unknown" => r.report_type = "success"

(* A batch with a script that its host failed (unreachable, timed out, a   *)
(* nonzero exit) is passed over only when it was cancelled, whatever the   *)
(* LLM says of its scripts.  Otherwise diagnose_task_run is called for it  *)
(* and comes to an end, unless the execution dies: by the process, or by   *)
(* an exception among the scripts.                                         *)
BrokenIsDiagnosed ==
    batch.broken ~> \/ phase \in {"over", "dead"}
                    \/ phase = "quiet" /\ batch.cancelled

(* diagnose_task_run keeps the promise that TaskRuns relies on.            *)
Promise == INSTANCE DiagnosisPromise WITH
    isStored <- stored # NoPayload,
    over <- phase = "over"
PromiseKept == Promise!Spec
=============================================================================
