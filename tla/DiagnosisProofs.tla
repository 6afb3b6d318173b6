--------------------------- MODULE DiagnosisProofs ---------------------------
(***************************************************************************)
(* Theorems about the diagnosis of a batch of any size, whatever the hosts *)
(* and the LLM answer.                                                     *)
(***************************************************************************)
EXTENDS Diagnosis, TLAPS

(* A payload is never the absence of one (service.py, diagnosis_json).     *)
LEMMA PayloadIsSome ==
    ASSUME NEW p \in Payloads
    PROVE  p # NoPayload
<1>1. DOMAIN p = {"hypothesis", "evidence", "notes", "conclusions", "insufficient", "contract_ok"}
  BY DEF Payloads
<1>2. DOMAIN NoPayload = {"none"}
  BY DEF NoPayload
<1> QED
  BY <1>1, <1>2

(* first_gate answers one of the five report types.                        *)
LEMMA FirstGateTypes ==
    ASSUME NEW o
    PROVE  FirstGate(o) \in ReportTypes
  BY DEF FirstGate, ReportTypes

(* second_gate_llm answers a grade, or unknown.                            *)
LEMMA SecondGateTypes ==
    ASSUME NEW a
    PROVE  SecondGate(a) \in Levels
  BY DEF SecondGate, Levels

(* A Run row has a report type and a level, whatever the host and the LLM  *)
(* answer.                                                                 *)
LEMMA RunTypes ==
    ASSUME NEW o, NEW a
    PROVE  /\ RunOf(o, a) \in [report_type : ReportTypes, level : Levels]
           /\ RunOf(o, a).level # "unknown" => RunOf(o, a).report_type = "success"
  BY FirstGateTypes, SecondGateTypes DEF RunOf, Levels

(* The kinds that have evidence, or a note, are kinds of executors.        *)
LEMMA HavingTypes ==
    ASSUME NEW found
    PROVE  Having(found) \subseteq Kinds
  BY DEF Having

(* The conclusions of the LLM and of the rule are conclusions.             *)
LEMMA ConcludesTypes ==
    ASSUME NEW reading, reading \in {"entries", "raises", "nothing"}, NEW cites \in SUBSET Kinds
    PROVE  Concludes(reading, cites) \in SUBSET Conclusions
  BY HavingTypes DEF Concludes, Conclusions

(* An answer of an agent is read in one of three ways.                     *)
LEMMA ReadsTypes ==
    ASSUME NEW a
    PROVE  Reads(a) \in {"entries", "raises", "nothing"}
  BY DEF Reads

(* The payload that service.py puts together is a payload.                 *)
LEMMA StoredTypes ==
    ASSUME TypeOK, Stores
    PROVE  stored' \in Payloads
<1> DEFINE ok == ContractKept
           none == Having("evidence") = {}
<1>1. ok \in BOOLEAN /\ none \in BOOLEAN
  BY DEF ContractKept
<1>2. stored' = [hypothesis |-> hypothesis, evidence |-> Having("evidence"),
                 notes |-> Having("error"), conclusions |-> review,
                 insufficient |-> none, contract_ok |-> ok]
  BY DEF Stores
<1>3. hypothesis \in SUBSET Kinds /\ review \in SUBSET Conclusions
  BY DEF TypeOK
<1>4. Having("evidence") \in SUBSET Kinds /\ Having("error") \in SUBSET Kinds
  BY HavingTypes
<1> HIDE DEF ok, none
<1> QED
  BY <1>1, <1>2, <1>3, <1>4 DEF Payloads

(* Every variable of the diagnosis keeps its type.                         *)
THEOREM TypeCorrect == Spec => []TypeOK
<1>1. Init => TypeOK
  BY MaxScriptsAssumption DEF Init, TypeOK, Phases
<1>2. TypeOK /\ [Next]_vars => TypeOK'
  <2> SUFFICES ASSUME TypeOK, [Next]_vars
               PROVE  TypeOK'
    OBVIOUS
  <2>1. CASE ScriptRuns
    <3>1. PICK o \in Outcomes, a \in Answers \cup {Failed} :
            /\ runs' = runs \cup {RunOf(o, a)}
            /\ batch' = [batch EXCEPT !.ran = @ + 1,
                                     !.broken = @ \/ o.timedOut \/ o.exit # "zero"]
      BY <2>1 DEF ScriptRuns
    <3>2. runs' \subseteq [report_type : ReportTypes, level : Levels]
      BY <3>1, RunTypes DEF TypeOK
    <3>3. batch' \in [ran : 0..MaxScripts, broken : BOOLEAN, cancelled : BOOLEAN]
      <4>1. batch.ran + 1 \in 0..MaxScripts
        BY <2>1, MaxScriptsAssumption DEF ScriptRuns, TypeOK
      <4> DEFINE br == batch.broken \/ o.timedOut \/ o.exit # "zero"
      <4>2. br \in BOOLEAN
        OBVIOUS
      <4> HIDE DEF br
      <4>3. batch' = [batch EXCEPT !.ran = @ + 1, !.broken = br]
        BY <3>1 DEF br, TypeOK
      <4> QED
        BY <4>1, <4>2, <4>3 DEF TypeOK
    <3> QED
      BY <2>1, <3>2, <3>3 DEF ScriptRuns, TypeOK, board
  <2>2. CASE BatchReady
    BY <2>2 DEF BatchReady, TypeOK, board, Phases
  <2>3. CASE Leaves
    BY <2>3 DEF Leaves, TypeOK, board, Phases
  <2>4. CASE Starts
    BY <2>4 DEF Starts, TypeOK, board, Phases
  <2>5. CASE Plans
    BY <2>5 DEF Plans, TypeOK, Phases
  <2>6. ASSUME NEW k \in Kinds, Probes(k)
        PROVE  TypeOK'
    BY <2>6 DEF Probes, Found, TypeOK, Phases
  <2>7. CASE Reviewed
    <3>1. review' \in SUBSET Conclusions
      <4>1. CASE Having("evidence") = {}
        BY <2>7, <4>1 DEF Reviewed, TypeOK
      <4>2. CASE Having("evidence") # {}
        <5>1. PICK a \in AgentAnswers, cites \in SUBSET Kinds, gives \in BOOLEAN :
                review' = IF Reads(a) = "entries" /\ ~gives THEN {} ELSE Concludes(Reads(a), cites)
          BY <2>7, <4>2 DEF Reviewed
        <5> QED
          BY <5>1, ConcludesTypes, ReadsTypes
      <4> QED
        BY <4>1, <4>2
    <3> QED
      BY <2>7, <3>1 DEF Reviewed, TypeOK, Phases
  <2>8. CASE Fails
    BY <2>8 DEF Fails, TypeOK, board, Phases
  <2>9. CASE Stores
    <3>1. stored' \in Payloads
      BY <2>9, StoredTypes
    <3> QED
      BY <2>9, <3>1 DEF Stores, TypeOK, board, Phases
  <2>10. CASE Announces
    BY <2>10 DEF Announces, TypeOK, board, Phases
  <2>11. CASE CancelAccepted
    BY <2>11 DEF CancelAccepted, TypeOK, board
  <2>12. CASE Dies
    BY <2>12 DEF Dies, TypeOK, board, Phases
  <2>13. CASE UNCHANGED vars
    BY <2>13 DEF vars, TypeOK, board
  <2> QED
    BY <2>1, <2>2, <2>3, <2>4, <2>5, <2>6, <2>7, <2>8, <2>9, <2>10, <2>11, <2>12, <2>13
       DEF Next, Diagnoses
<1> QED
  BY <1>1, <1>2, PTL DEF Spec

(* Only a script that succeeded is graded, however the LLM answers.        *)
THEOREM GradingIsEarned == Spec => []GradedSucceeded
<1>1. Init => GradedSucceeded
  BY DEF Init, GradedSucceeded
<1>2. GradedSucceeded /\ [Next]_vars => GradedSucceeded'
  <2> SUFFICES ASSUME GradedSucceeded, [Next]_vars
               PROVE  GradedSucceeded'
    OBVIOUS
  <2>1. CASE ScriptRuns
    BY <2>1, RunTypes DEF ScriptRuns, GradedSucceeded
  <2>2. CASE runs' = runs
    BY <2>2 DEF GradedSucceeded
  <2> QED
    BY <2>1, <2>2 DEF Next, CancelAccepted, BatchReady, Dies, Diagnoses, Leaves, Starts, Plans,
                      Probes, Reviewed, Fails, Stores, Announces, vars
<1> QED
  BY <1>1, <1>2, PTL DEF Spec

(* A batch that a host broke counts as anomalous, and is left alone only   *)
(* when it was cancelled.                                                  *)
NotPassedOver ==
    /\ batch.broken => IsAnomalous(runs)
    /\ batch.broken /\ phase = "quiet" => batch.cancelled

(* A batch with a script that its host failed is passed over as quiet only *)
(* when it was cancelled, whatever the LLM says of the others: the safety  *)
(* half of BrokenIsDiagnosed.                                              *)
THEOREM BrokenIsNotQuiet == Spec => []NotPassedOver
<1>1. Init => NotPassedOver
  BY DEF Init, NotPassedOver
<1>2. TypeOK /\ NotPassedOver /\ [Next]_vars => NotPassedOver'
  <2> SUFFICES ASSUME TypeOK, NotPassedOver, [Next]_vars
               PROVE  NotPassedOver'
    OBVIOUS
  <2>1. CASE ScriptRuns
    <3>1. PICK o \in Outcomes, a \in Answers \cup {Failed} :
            /\ runs' = runs \cup {RunOf(o, a)}
            /\ batch' = [batch EXCEPT !.ran = @ + 1,
                                     !.broken = @ \/ o.timedOut \/ o.exit # "zero"]
      BY <2>1 DEF ScriptRuns
    <3>2. o.timedOut \/ o.exit # "zero" => FirstGate(o) \in {"error", "timeout", "host_unreachable"}
      BY DEF FirstGate, Outcomes
    <3>3. batch'.broken => IsAnomalous(runs')
      <4>1. RunOf(o, a).report_type = FirstGate(o)
        BY DEF RunOf
      <4>2. runs \subseteq runs' /\ RunOf(o, a) \in runs'
        BY <3>1
      <4>3. IsAnomalous(runs) => IsAnomalous(runs')
        BY <4>2 DEF IsAnomalous
      <4>4. o.timedOut \/ o.exit # "zero" => IsAnomalous(runs')
        BY <3>2, <4>1, <4>2 DEF IsAnomalous
      <4>5. batch'.broken <=> batch.broken \/ o.timedOut \/ o.exit # "zero"
        BY <3>1 DEF TypeOK
      <4> QED
        BY <4>3, <4>4, <4>5 DEF NotPassedOver
    <3>4. phase' = "scripts"
      BY <2>1 DEF ScriptRuns
    <3> QED
      BY <3>3, <3>4 DEF NotPassedOver, IsAnomalous
  <2>2. CASE BatchReady
    BY <2>2 DEF BatchReady, NotPassedOver
  <2>3. CASE CancelAccepted
    <3>1. batch'.broken = batch.broken /\ runs' = runs /\ phase' = "scripts"
      BY <2>3 DEF CancelAccepted, TypeOK
    <3> QED
      BY <3>1 DEF NotPassedOver, IsAnomalous
  <2>4. CASE Dies \/ Diagnoses \/ UNCHANGED vars
    <3>1. batch' = batch /\ runs' = runs /\ (phase' = phase \/ phase' # "quiet")
      BY <2>4 DEF Dies, Diagnoses, Leaves, Starts, Plans, Probes, Reviewed, Fails, Stores, Announces, vars
    <3> QED
      BY <3>1 DEF NotPassedOver
  <2> QED
    BY <2>1, <2>2, <2>3, <2>4 DEF Next
<1> QED
  BY <1>1, <1>2, TypeCorrect, PTL DEF Spec

-----------------------------------------------------------------------------
(* The inductive invariant: what the blackboard and the outside show at    *)
(* each point of the diagnosis.                                            *)

BoardInv ==
    /\ phase \in {"reviewing", "finished", "committed"} => \A k \in Kinds : probe[k] # "pending"
    /\ phase \in {"scripts", "quiet", "queued", "planning", "probing", "reviewing"} =>
         review = {}
    /\ review # {} => Having("evidence") # {}
    /\ \A c \in review : c.by = "rule" => c.cites = Having("evidence")

OutsideInv ==
    /\ phase \in {"scripts", "quiet", "queued"} => event = "none" /\ stored = NoPayload
    /\ phase \in {"planning", "probing", "reviewing", "finished"} =>
         event = "diag_started" /\ stored = NoPayload
    /\ phase = "committed" => event = "diag_started" /\ stored # NoPayload

IInv == BoardInv /\ OutsideInv /\ PayloadConsistent

(* While no probe answers, the kinds that have evidence, or a note, stay   *)
(* the same.                                                               *)
LEMMA SameBoard ==
    ASSUME probe' = probe
    PROVE  Having("evidence")' = Having("evidence") /\ Having("error")' = Having("error")
  BY DEF Having

(* What is known at each point of the diagnosis stays known.               *)
LEMMA Inductive ==
    ASSUME TypeOK, IInv, [Next]_vars
    PROVE  IInv'
<1> USE DEF IInv
<1>1. CASE \/ ScriptRuns \/ CancelAccepted \/ BatchReady \/ Dies
           \/ Leaves \/ Starts \/ Fails \/ Announces \/ UNCHANGED vars
  <2>1. probe' = probe /\ review' = review /\ stored' = stored
    BY <1>1 DEF ScriptRuns, CancelAccepted, BatchReady, Dies, Leaves, Starts, Fails, Announces,
                board, vars
  <2>2. Having("evidence")' = Having("evidence")
    BY <2>1, SameBoard
  <2>3. BoardInv'
    BY <1>1, <2>1, <2>2
       DEF BoardInv, ScriptRuns, CancelAccepted, BatchReady, Dies, Leaves, Starts, Fails, Announces,
           vars
  <2>4. OutsideInv'
    BY <1>1, <2>1
       DEF OutsideInv, ScriptRuns, CancelAccepted, BatchReady, Dies, Leaves, Starts, Fails,
           Announces, vars
  <2>5. PayloadConsistent'
    BY <2>1 DEF PayloadConsistent
  <2> QED
    BY <2>3, <2>4, <2>5
<1>2. CASE Plans
  <2>1. probe' = probe /\ review' = review /\ stored' = stored /\ event' = event
    BY <1>2 DEF Plans
  <2>2. Having("evidence")' = Having("evidence")
    BY <2>1, SameBoard
  <2>3. BoardInv' /\ OutsideInv'
    BY <1>2, <2>1, <2>2 DEF BoardInv, OutsideInv, Plans
  <2>4. PayloadConsistent'
    BY <2>1 DEF PayloadConsistent
  <2> QED
    BY <2>3, <2>4
<1>3. ASSUME NEW k \in Kinds, Probes(k)
      PROVE  IInv'
  <2>1. review' = review /\ stored' = stored /\ event' = event
    BY <1>3 DEF Probes, Found
  <2>2. review = {}
    BY <1>3 DEF BoardInv, Probes
  <2>3. phase' \in {"probing", "reviewing"} /\ (phase' = "reviewing" => \A j \in Kinds : probe'[j] # "pending")
    BY <1>3 DEF Probes, Found, TypeOK
  <2>4. BoardInv' /\ OutsideInv'
    BY <1>3, <2>1, <2>2, <2>3 DEF BoardInv, OutsideInv, Probes, Found
  <2>5. PayloadConsistent'
    BY <2>1 DEF PayloadConsistent
  <2> QED
    BY <2>4, <2>5
<1>4. CASE Reviewed
  <2>1. probe' = probe /\ stored' = stored /\ event' = event
    BY <1>4 DEF Reviewed
  <2>2. Having("evidence")' = Having("evidence")
    BY <2>1, SameBoard
  <2>3. /\ review' # {} => Having("evidence") # {}
        /\ \A c \in review' : c.by = "rule" => c.cites = Having("evidence")
    <3>1. CASE Having("evidence") = {}
      BY <1>4, <3>1 DEF Reviewed, BoardInv
    <3>2. CASE Having("evidence") # {}
      <4>1. PICK a \in AgentAnswers, cites \in SUBSET Kinds :
              review' = {} \/ review' = Concludes(Reads(a), cites)
        BY <1>4, <3>2 DEF Reviewed
      <4>2. \A c \in Concludes(Reads(a), cites) : c.by = "rule" => c.cites = Having("evidence")
        BY ReadsTypes DEF Concludes
      <4> QED
        BY <3>2, <4>1, <4>2
    <3> QED
      BY <3>1, <3>2
  <2>4. BoardInv' /\ OutsideInv'
    BY <1>4, <2>1, <2>2, <2>3 DEF BoardInv, OutsideInv, Reviewed
  <2>5. PayloadConsistent'
    BY <2>1 DEF PayloadConsistent
  <2> QED
    BY <2>4, <2>5
<1>5. CASE Stores
  <2>1. probe' = probe /\ review' = review /\ event' = event /\ phase = "finished" /\ phase' = "committed"
    BY <1>5 DEF Stores, board
  <2>2. Having("evidence")' = Having("evidence")
    BY <2>1, SameBoard
  <2>3. stored' \in Payloads
    BY StoredTypes, <1>5
  <2>4. PayloadConsistent'
    <3>1. Having("evidence") \cup Having("error") = Kinds
      BY <2>1 DEF BoardInv, TypeOK, Having
    <3>2. ContractKept
      BY <2>1 DEF BoardInv, TypeOK, ContractKept
    <3>3. /\ stored'.evidence = Having("evidence") /\ stored'.notes = Having("error")
          /\ stored'.insufficient = (Having("evidence") = {})
          /\ stored'.conclusions = review /\ stored'.contract_ok
      BY <1>5, <3>2 DEF Stores
    <3> QED
      BY <3>1, <3>3 DEF PayloadConsistent, BoardInv
  <2>5. BoardInv' /\ OutsideInv'
    BY <2>1, <2>2, <2>3, PayloadIsSome DEF BoardInv, OutsideInv
  <2> QED
    BY <2>4, <2>5
<1> QED
  BY <1>1, <1>2, <1>3, <1>4, <1>5 DEF Next, Diagnoses

(* The invariant of the diagnosis holds in every reachable state: what     *)
(* each phase of the graph has on the blackboard.                          *)
THEOREM InvariantHolds == Spec => []IInv
<1>1. Init => IInv
  BY DEF Init, IInv, BoardInv, OutsideInv, PayloadConsistent
<1> QED
  BY <1>1, Inductive, TypeCorrect, PTL DEF Spec

(* What is stored holds together: evidence or a note of every executor, no *)
(* conclusion without evidence, a contract that was kept.                  *)
THEOREM StoredIsConsistent == Spec => []PayloadConsistent
<1>1. IInv => PayloadConsistent
  BY DEF IInv
<1> QED
  BY <1>1, InvariantHolds, PTL

(* diagnose_task_run keeps the promise that the task runs rely on: every   *)
(* step of it is a step of the promise, or none.                           *)
THEOREM Refines == Spec => PromiseKept
<1>1. Init => Promise!Init
  BY DEF Init, Promise!Init
<1>2. IInv /\ TypeOK /\ TypeOK' /\ [Next]_vars => [Promise!Next]_Promise!vars
  <2> SUFFICES ASSUME IInv, TypeOK, TypeOK', [Next]_vars
               PROVE  [Promise!Next]_Promise!vars
    OBVIOUS
  <2> USE DEF Promise!vars
  <2>1. CASE \/ ScriptRuns \/ CancelAccepted \/ BatchReady \/ Dies
             \/ Plans \/ Reviewed \/ UNCHANGED vars
    BY <2>1 DEF ScriptRuns, CancelAccepted, BatchReady, Dies, Plans, Reviewed, board, vars
  <2>2. ASSUME NEW k \in Kinds, Probes(k)
        PROVE  [Promise!Next]_Promise!vars
    BY <2>2 DEF Probes
  <2>3. CASE Leaves
    BY <2>3 DEF Leaves, Promise!Next, Promise!Leave, IInv, OutsideInv
  <2>4. CASE Starts
    BY <2>4 DEF Starts, Promise!Next, Promise!Start, IInv, OutsideInv
  <2>5. CASE Fails
    BY <2>5 DEF Fails, Promise!Next, Promise!Fail, IInv, OutsideInv
  <2>6. CASE Stores
    <3>1. stored' # NoPayload
      BY <2>6, StoredTypes, PayloadIsSome
    <3> QED
      BY <2>6, <3>1 DEF Stores, Promise!Next, Promise!Store, IInv, OutsideInv
  <2>7. CASE Announces
    BY <2>7 DEF Announces, Promise!Next, Promise!Announce, IInv, OutsideInv
  <2> QED
    BY <2>1, <2>2, <2>3, <2>4, <2>5, <2>6, <2>7 DEF Next, Diagnoses
<1> QED
  BY <1>1, <1>2, InvariantHolds, TypeCorrect, PTL DEF Spec, PromiseKept, Promise!Spec
=============================================================================
