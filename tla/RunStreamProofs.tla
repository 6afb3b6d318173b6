-------------------------- MODULE RunStreamProofs --------------------------
(***************************************************************************)
(* Theorems about task runs and their live channel, for any sets of runs,  *)
(* cancel requests and pages, any number of scripts and restarts, any size *)
(* of the queues, with or without faults.  The first part is about         *)
(* TaskRuns alone, the second about its composition with RunStream.        *)
(***************************************************************************)
EXTENDS RunStream, FiniteSetTheorems, SequenceTheorems, TLAPS

(* What an execution has not yet stored: while it can still store, its row *)
(* is absent or running, and no row that is absent or running has results. *)
Unstored == {"none", "scheduled", "script", "emptying", "failing", "summing"}
Pending == {"absent", "RUNNING"}

RowInv(t) ==
    /\ exec[t].pc \in Unstored => row[t].status \in Pending
    /\ row[t].status \in Pending => row[t].runs = 0 /\ ~row[t].diagnosed

(* The request precedes its execution, and the row of a triggered run      *)
(* appears with the commit of its request only.                            *)
RequestInv(t) ==
    /\ request[t] = "none" => exec[t].pc = "none" /\ row[t].status = "absent"
    /\ exec[t].pc = "none" => ~registered[t] /\ ~flag[t]
    /\ t \in Tests => ~registered[t] /\ ~flag[t]
    /\ t \in Triggered /\ request[t] # "committed" => row[t].status = "absent"
    /\ t \in Triggered /\ row[t].status = "absent" =>
         exec[t].pc \in {"none", "scheduled", "ended", "lost"}

(* What the locals of an execution say at each point. *)
ExecInv(t) ==
    /\ exec[t].pc \in {"none", "scheduled", "emptying", "failing"} => exec[t].plan = 0
    /\ exec[t].pc = "summing" /\ ~exec[t].cancelled => exec[t].ran = exec[t].plan
    /\ exec[t].pc = "stored" =>
         row[t].status = IF exec[t].cancelled THEN "CANCELLED" ELSE "DONE"
    /\ exec[t].pc \in {"queued", "diagnosing", "diagnosed"} => row[t].status = "DONE"

(* A flag that can still be read was set by an early cancel, and what it   *)
(* made the execution do was too.                                          *)
FlagInv(t) ==
    (\/ flag[t] /\ exec[t].pc \in {"scheduled", "script"}
     \/ exec[t].pc = "summing" /\ exec[t].cancelled)
      => \E c \in Accepted(t) : cancel[c].state = "early"

(* An early cancel is remembered by the flag, then by the execution.       *)
CancelInv(c) ==
    LET t == cancel[c].of IN
    cancel[c].state = "early" =>
        /\ exec[t].pc # "none"
        /\ exec[t].pc \in {"scheduled", "script"} => flag[t]
        /\ exec[t].pc = "summing" => exec[t].cancelled

(* The parts of LiveIsRegistered, StatusFaithful and EarlyCancelHonoured   *)
(* that speak of one run, and of one cancel request.                       *)
LiveInv(t) ==
    t \in Triggered /\ exec[t].pc \notin {"none", "ended", "error", "lost"} => registered[t]

FaithfulInv(t) ==
    /\ row[t].status = "DONE" => row[t].runs = exec[t].plan
    /\ row[t].status = "CANCELLED" => \E c \in Accepted(t) : cancel[c].state = "early"
    /\ row[t].diagnosed => row[t].status = "DONE"

HonouredInv(c) ==
    LET t == cancel[c].of IN
    cancel[c].state = "early" =>
        row[t].status \in {"absent", "RUNNING", "CANCELLED"} \/ exec[t].plan = 0

RunInv(t) ==
    RowInv(t) /\ RequestInv(t) /\ ExecInv(t) /\ FlagInv(t) /\ LiveInv(t) /\ FaithfulInv(t)

RequestsInv(c) == CancelInv(c) /\ HonouredInv(c)

IInv == (\A t \in Runs : RunInv(t)) /\ (\A c \in Cancels : RequestsInv(c))

-----------------------------------------------------------------------------
(* Type correctness. *)

LEMMA UpdateTypes ==
    ASSUME NEW D, NEW S, NEW f \in [D -> S], NEW d \in D, NEW v \in S
    PROVE  [f EXCEPT ![d] = v] \in [D -> S]
  OBVIOUS

(* Changes of the fields of a row keep its type.                           *)
LEMMA StatusTypes ==
    ASSUME TypeOK, NEW t \in Runs, NEW st \in Statuses
    PROVE  [row EXCEPT ![t].status = st] \in [Runs -> Rows]
<1>1. [row[t] EXCEPT !.status = st] \in Rows
  BY DEF TypeOK, Rows
<1> QED
  BY <1>1, UpdateTypes, Zenon DEF TypeOK

(* publish keeps the channels sequences of events.                         *)
LEMMA PublishTypes ==
    ASSUME TypeOK, NEW t \in Runs, NEW es \in Seq(EventNames), Publish(t, es)
    PROVE  events' \in [Runs -> Seq(EventNames)]
<1>1. events[t] \o es \in Seq(EventNames)
  BY DEF TypeOK
<1> QED
  BY <1>1 DEF Publish, TypeOK

(* A step of the program counter keeps the type of an execution.           *)
LEMMA GotoTypes ==
    ASSUME TypeOK, NEW t \in Runs, NEW pc \in Pcs, Goto(t, pc)
    PROVE  exec' \in [Runs -> Execs]
<1>0. exec[t] \in Execs
  BY DEF TypeOK
<1>1. [exec[t] EXCEPT !.pc = pc] \in Execs
  BY <1>0 DEF Execs
<1>2. exec' = [exec EXCEPT ![t] = [exec[t] EXCEPT !.pc = pc]]
  BY DEF Goto
<1> QED
  BY <1>1, <1>2, UpdateTypes, Zenon DEF TypeOK

(* The look at the flag between two scripts keeps the type of an           *)
(* execution.                                                              *)
LEMMA BreakpointTypes ==
    ASSUME TypeOK, NEW t \in Runs, NEW e \in Execs, AtBreakpoint(t, e)
    PROVE  exec' \in [Runs -> Execs]
<1>1. [e EXCEPT !.pc = "summing", !.cancelled = flag[t]] \in Execs
  BY DEF TypeOK, Execs, Pcs
<1>2. [e EXCEPT !.pc = "script"] \in Execs
  BY DEF Execs, Pcs
<1> QED
  BY <1>1, <1>2 DEF TypeOK, AtBreakpoint

(* Every variable of the task runs keeps its type.                         *)
THEOREM TypeCorrect == Spec => []TypeOK
<1>1. Init => TypeOK
  <2> SUFFICES ASSUME Init
               PROVE  TypeOK
    OBVIOUS
  <2>1. NewExec \in Execs
    BY BoundsAssumption DEF NewExec, Execs, Pcs
  <2>2. <<>> \in Seq(EventNames)
    OBVIOUS
  <2> QED
    BY <2>1, <2>2, BoundsAssumption DEF Init, TypeOK, Rows, Statuses, Terminal, RequestStates, CancelStates
<1>2. TypeOK /\ [Next]_vars => TypeOK'
  <2> SUFFICES ASSUME TypeOK, [Next]_vars
               PROVE  TypeOK'
    OBVIOUS
  <2> USE DEF Pcs, EventNames
  <2>1. ASSUME NEW t \in Runs, Trigger(t) \/ RequestCommits(t) \/ RequestFails(t)
        PROVE  TypeOK'
    <3>2. row' \in [Runs -> Rows]
      <4>1. CASE RequestCommits(t)
        BY <4>1, StatusTypes DEF RequestCommits, Statuses
      <4> QED
        BY <2>1, <4>1 DEF Trigger, RequestFails, TypeOK
    <3>3. exec' \in [Runs -> Execs]
      BY <2>1, GotoTypes DEF Trigger, RequestCommits, RequestFails, TypeOK
    <3> QED
      BY <2>1, <3>2, <3>3 DEF Trigger, RequestCommits, RequestFails, TypeOK, RequestStates
  <2>2. ASSUME NEW t \in Runs, MissesRow(t) \/ FindsNoTask(t) \/ FindsNoScript(t) \/ Raises(t) \/ Ends(t)
        PROVE  TypeOK'
    BY <2>2, GotoTypes DEF MissesRow, FindsNoTask, FindsNoScript, Raises, Ends, TypeOK
  <2>3. ASSUME NEW t \in Runs, LoadsScripts(t)
        PROVE  TypeOK'
    <3>1. PICK n \in 1..MaxScripts : AtBreakpoint(t, [exec[t] EXCEPT !.plan = n])
      BY <2>3 DEF LoadsScripts
    <3>2. [exec[t] EXCEPT !.plan = n] \in Execs
      <4>1. exec[t] \in Execs /\ n \in 0..MaxScripts
        BY BoundsAssumption DEF TypeOK
      <4> QED
        BY <4>1 DEF Execs
    <3> QED
      BY <2>3, <3>1, <3>2, BreakpointTypes DEF LoadsScripts, TypeOK
  <2>4. ASSUME NEW t \in Runs, ScriptEnds(t)
        PROVE  TypeOK'
    <3>1. PICK a \in BOOLEAN :
            AtBreakpoint(t, [exec[t] EXCEPT !.ran = @ + 1, !.anomalous = @ \/ a])
      BY <2>4 DEF ScriptEnds
    <3>2. [exec[t] EXCEPT !.ran = @ + 1, !.anomalous = @ \/ a] \in Execs
      <4>1. exec[t] \in Execs
        BY DEF TypeOK
      <4>2. (exec[t].anomalous \/ a) \in BOOLEAN
        OBVIOUS
      <4>3. exec[t].ran + 1 \in Nat
        BY <4>1 DEF Execs
      <4> HIDE DEF Pcs
      <4> DEFINE b == exec[t].anomalous \/ a
      <4>4. b \in BOOLEAN
        BY <4>2
      <4> HIDE DEF b
      <4>5. [exec[t] EXCEPT !.ran = @ + 1, !.anomalous = b] \in Execs
        BY <4>1, <4>3, <4>4 DEF Execs
      <4> QED
        BY <4>5 DEF b
    <3>3. Publish(t, <<"run_result">>) /\ <<"run_result">> \in Seq(EventNames)
      BY <2>4 DEF ScriptEnds
    <3> QED
      BY <2>4, <3>1, <3>2, <3>3, BreakpointTypes, PublishTypes DEF ScriptEnds, TypeOK
  <2>5. ASSUME NEW t \in Runs, ReturnsEarly(t) \/ Stores(t) \/ DiagnosisStores(t)
        PROVE  TypeOK'
    <3>0. row[t] \in Rows /\ exec[t].ran \in Nat
      BY DEF TypeOK, Execs
    <3>1. row' \in [Runs -> Rows]
      <4>1. CASE ReturnsEarly(t)
        <5>1. \E st \in Statuses : row' = [row EXCEPT ![t].status = st]
          BY <4>1 DEF ReturnsEarly, Statuses, Terminal
        <5> QED
          BY <5>1, StatusTypes
      <4>2. CASE Stores(t)
        <5> DEFINE st == IF exec[t].cancelled THEN "CANCELLED" ELSE "DONE"
                   v == [row[t] EXCEPT !.status = st, !.runs = exec[t].ran]
        <5>1. st \in Statuses
          BY DEF Statuses, Terminal
        <5>2. row' = [row EXCEPT ![t] = v]
          BY <4>2 DEF Stores, TypeOK
        <5>3. v \in Rows
          BY <3>0, <5>1 DEF Rows
        <5> HIDE DEF v
        <5> QED
          BY <5>2, <5>3, UpdateTypes, Zenon DEF TypeOK
      <4>3. CASE DiagnosisStores(t)
        <5>1. row' = [row EXCEPT ![t] = [row[t] EXCEPT !.diagnosed = TRUE]]
          BY <4>3 DEF DiagnosisStores
        <5>2. [row[t] EXCEPT !.diagnosed = TRUE] \in Rows
          BY <3>0 DEF Rows
        <5> QED
          BY <5>1, <5>2, UpdateTypes, Zenon DEF TypeOK
      <4> QED
        BY <2>5, <4>1, <4>2, <4>3
    <3>2. exec' \in [Runs -> Execs]
      BY <2>5, GotoTypes DEF ReturnsEarly, Stores, DiagnosisStores
    <3> QED
      BY <2>5, <3>1, <3>2 DEF ReturnsEarly, Stores, DiagnosisStores, TypeOK
  <2>6. ASSUME NEW t \in Runs,
               Announces(t) \/ TestAnnounces(t) \/ DiagnosisStarts(t)
                 \/ DiagnosisConcludes(t) \/ DiagnosisFails(t) \/ DiagnosisRaises(t)
        PROVE  TypeOK'
    <3> DEFINE Logs == {<<"batch_ready">>, <<"batch_ready", "done">>, <<"done">>, <<"diag_started">>,
                        <<"diagnostic_done", "done">>, <<"diag_failed", "done">>}
    <3>1. Logs \subseteq Seq(EventNames)
      OBVIOUS
    <3>2. \E es \in Logs : Publish(t, es)
      BY <2>6 DEF Announces, TestAnnounces, DiagnosisStarts, DiagnosisConcludes,
                  DiagnosisFails, DiagnosisRaises
    <3>3. events' \in [Runs -> Seq(EventNames)]
      BY <3>1, <3>2, PublishTypes
    <3>4. exec' \in [Runs -> Execs]
      BY <2>6, GotoTypes DEF Announces, TestAnnounces, DiagnosisStarts, DiagnosisConcludes,
                             DiagnosisFails, DiagnosisRaises
    <3>5. flag' \in [Runs -> BOOLEAN]
      BY <2>6 DEF Announces, TestAnnounces, DiagnosisStarts, DiagnosisConcludes,
                  DiagnosisFails, DiagnosisRaises, TypeOK
    <3> QED
      BY <2>6, <3>3, <3>4, <3>5
         DEF Announces, TestAnnounces, DiagnosisStarts, DiagnosisConcludes,
             DiagnosisFails, DiagnosisRaises, TypeOK
  <2>7. ASSUME NEW t \in Runs, DoneCallback(t)
        PROVE  TypeOK'
    BY <2>7 DEF DoneCallback, TypeOK
  <2>8. ASSUME NEW t \in Runs, TestStarts(t)
        PROVE  TypeOK'
    <3>1. exec[t] \in Execs /\ 1 \in 0..MaxScripts
      BY BoundsAssumption DEF TypeOK
    <3>2. exec' \in [Runs -> Execs]
      BY <2>8, <3>1 DEF TestStarts, TypeOK, Execs
    <3> QED
      BY <2>8, <3>2 DEF TestStarts, TypeOK, RequestStates
  <2>9. ASSUME NEW c \in Cancels, CancelReads(c) \/ CancelAccepted(c) \/ CancelRefused(c)
        PROVE  TypeOK'
    <3>1. cancel[c] \in [of : Runs, state : CancelStates]
      BY DEF TypeOK
    <3>2. \E st \in CancelStates : cancel' = [cancel EXCEPT ![c].state = st]
      BY <2>9 DEF CancelReads, CancelAccepted, CancelRefused, CancelStates
    <3>3. cancel' \in [Cancels -> [of : Runs, state : CancelStates]]
      <4>1. PICK st \in CancelStates : cancel' = [cancel EXCEPT ![c].state = st]
        BY <3>2
      <4>2. [cancel[c] EXCEPT !.state = st] \in [of : Runs, state : CancelStates]
        BY <3>1
      <4> QED
        BY <4>1, <4>2 DEF TypeOK
    <3>4. flag' \in [Runs -> BOOLEAN]
      BY <2>9, <3>1 DEF CancelReads, CancelAccepted, CancelRefused, TypeOK
    <3> QED
      BY <2>9, <3>3, <3>4 DEF CancelReads, CancelAccepted, CancelRefused, TypeOK
  <2>10. CASE Restart
    <3>1. exec' \in [Runs -> Execs]
      <4>1. ASSUME NEW t \in Runs
            PROVE  [exec[t] EXCEPT !.pc = "lost"] \in Execs /\ exec[t] \in Execs
        <5>1. exec[t] \in Execs /\ "lost" \in Pcs
          BY DEF TypeOK
        <5> HIDE DEF Pcs
        <5> QED
          BY <5>1 DEF Execs
      <4> HIDE DEF Pcs
      <4> QED
        BY <2>10, <4>1 DEF Restart
    <3>2. request' \in [Runs -> RequestStates]
      BY <2>10 DEF Restart, TypeOK, RequestStates
    <3>3. cancel' \in [Cancels -> [of : Runs, state : CancelStates]]
      BY <2>10 DEF Restart, TypeOK, CancelStates
    <3>4. restarts' \in 0..MaxRestarts
      BY <2>10, BoundsAssumption DEF Restart, TypeOK
    <3> QED
      BY <2>10, <3>1, <3>2, <3>3, <3>4 DEF Restart, TypeOK
  <2>11. CASE UNCHANGED vars
    BY <2>11 DEF vars, TypeOK
  <2> QED
    BY <2>1, <2>2, <2>3, <2>4, <2>5, <2>6, <2>7, <2>8, <2>9, <2>10, <2>11 DEF Next, Executes
<1> QED
  BY <1>1, <1>2, PTL DEF Spec

-----------------------------------------------------------------------------
(* The inductive invariant. *)

(* A step leaves a run alone when it changes none of its state. *)
LeavesAlone(t) ==
    /\ row'[t] = row[t] /\ request'[t] = request[t] /\ exec'[t] = exec[t]
    /\ registered'[t] = registered[t] /\ flag'[t] = flag[t]

(* A run that a step does not touch keeps its part of the invariant.       *)
LEMMA RunLeftAlone ==
    ASSUME NEW t \in Runs, RunInv(t), LeavesAlone(t), cancel' = cancel
    PROVE  RunInv(t)'
<1>1. Accepted(t)' = Accepted(t)
  BY DEF Accepted
<1> QED
  BY <1>1 DEF RunInv, RowInv, RequestInv, ExecInv, FlagInv, LiveInv, FaithfulInv, LeavesAlone,
              Accepted

(* A step of one run keeps the invariant, if it keeps the parts of that    *)
(* run and of the cancels of it.                                           *)
LEMMA StepOfOneRun ==
    ASSUME TypeOK, IInv, NEW t \in Runs, cancel' = cancel,
           \A u \in Runs \ {t} : LeavesAlone(u),
           RunInv(t)',
           \A c \in Cancels : cancel[c].of = t => RequestsInv(c)'
    PROVE  IInv'
<1>1. ASSUME NEW u \in Runs
      PROVE  RunInv(u)'
  <2>1. CASE u = t
    BY <2>1
  <2>2. CASE u # t
    BY <2>2, RunLeftAlone DEF IInv
  <2> QED
    BY <2>1, <2>2
<1>2. ASSUME NEW c \in Cancels, cancel[c].of # t
      PROVE  RequestsInv(c)'
  <2>1. cancel[c].of \in Runs
    BY DEF TypeOK
  <2>2. LeavesAlone(cancel[c].of)
    BY <1>2, <2>1
  <2> QED
    BY <2>2 DEF IInv, RequestsInv, CancelInv, HonouredInv, LeavesAlone
<1> QED
  BY <1>1, <1>2 DEF IInv

(* Most steps of an execution only move its program counter: out of the    *)
(* scheduled state, into an exception, or on after the commit.             *)
Moves(t, p, q) ==
    /\ cancel' = cancel
    /\ \A u \in Runs \ {t} : LeavesAlone(u)
    /\ row'[t] = row[t] /\ request'[t] = request[t] /\ registered'[t] = registered[t]
    /\ flag'[t] = flag[t] \/ (p = "stored" /\ flag'[t] = FALSE)
    /\ exec[t].pc = p /\ exec'[t].pc = q
    /\ exec'[t].plan = exec[t].plan /\ exec'[t].ran = exec[t].ran
    /\ exec'[t].cancelled = exec[t].cancelled

Late == {"stored", "queued", "diagnosing", "diagnosed", "closing"}

LeadsOn(t, p, q) ==
    \/ p = "scheduled" /\ q = "ended" /\ row[t].status = "absent"
    \/ p = "scheduled" /\ q \in {"emptying", "failing"} /\ row[t].status # "absent"
    \/ p \in {"script", "summing", "emptying", "failing"} /\ q = "error"
    \/ p = "stored" /\ q = "queued" /\ ~exec[t].cancelled
    \/ p = "queued" /\ q = "diagnosing"
    \/ p \in Late /\ q \in {"closing", "ended"}

(* An execution that moves on as LeadsOn says keeps the invariant.         *)
LEMMA MovesInv ==
    ASSUME TypeOK, IInv, NEW t \in Runs, NEW p, NEW q, Moves(t, p, q), LeadsOn(t, p, q)
    PROVE  IInv'
<1>0. RunInv(t) /\ \A c \in Cancels : RequestsInv(c)
  BY DEF IInv
<1>1. RunInv(t)'
  <2>1. Accepted(t)' = Accepted(t)
    BY DEF Accepted, Moves
  <2>2. RowInv(t)'
    BY <1>0 DEF RunInv, RowInv, Moves, LeadsOn, Late, Unstored, Pending, ExecInv
  <2>3. RequestInv(t)'
    BY <1>0 DEF RunInv, RequestInv, RowInv, ExecInv, Moves, LeadsOn, Late
  <2>4. ExecInv(t)'
    BY <1>0 DEF RunInv, ExecInv, Moves, LeadsOn, Late
  <2>5. FlagInv(t)'
    BY <1>0 DEF RunInv, FlagInv, Moves, LeadsOn, Late
  <2>6. LiveInv(t)'
    BY <1>0 DEF RunInv, LiveInv, Moves, LeadsOn, Late
  <2>7. FaithfulInv(t)'
    BY <1>0, <2>1 DEF RunInv, FaithfulInv, Moves
  <2> QED
    BY <2>2, <2>3, <2>4, <2>5, <2>6, <2>7 DEF RunInv
<1>2. \A c \in Cancels : cancel[c].of = t => RequestsInv(c)'
  BY <1>0 DEF RequestsInv, CancelInv, HonouredInv, Moves, LeadsOn, Late
<1> QED
  BY <1>1, <1>2, StepOfOneRun DEF Moves

(* An action that changes the program counter only is such a move.         *)
LEMMA GotoMoves ==
    ASSUME TypeOK, NEW t \in Runs, NEW pc, Goto(t, pc),
           cancel' = cancel /\ row' = row /\ request' = request /\ registered' = registered,
           flag' = flag \/ (exec[t].pc = "stored" /\ flag' = [flag EXCEPT ![t] = FALSE])
    PROVE  Moves(t, exec[t].pc, pc)
<1>1. exec[t] \in Execs /\ exec'[t] = [exec[t] EXCEPT !.pc = pc]
  BY DEF Goto, TypeOK
<1>2. \A u \in Runs \ {t} : LeavesAlone(u)
  BY DEF LeavesAlone, Goto, TypeOK
<1>3. flag'[t] = flag[t] \/ (exec[t].pc = "stored" /\ flag'[t] = FALSE)
  <2>1. CASE flag' = flag
    BY <2>1
  <2>2. CASE exec[t].pc = "stored" /\ flag' = [flag EXCEPT ![t] = FALSE]
    BY <2>2 DEF TypeOK
  <2> QED
    BY <2>1, <2>2
<1>4. /\ exec'[t].pc = pc /\ exec'[t].plan = exec[t].plan /\ exec'[t].ran = exec[t].ran
      /\ exec'[t].cancelled = exec[t].cancelled
  BY <1>1 DEF Execs
<1>5. row'[t] = row[t] /\ request'[t] = request[t] /\ registered'[t] = registered[t]
  OBVIOUS
<1> QED
  BY <1>2, <1>3, <1>4, <1>5, Zenon DEF Moves

(* Every step of a run keeps what is known of it. *)
LEMMA RunStepInv ==
    ASSUME TypeOK, IInv, NEW t \in Runs,
           \/ Trigger(t) \/ RequestCommits(t) \/ RequestFails(t)
           \/ Executes(t) \/ DoneCallback(t) \/ TestStarts(t)
    PROVE  IInv'
<1>0. RunInv(t) /\ exec[t] \in Execs /\ row[t] \in Rows
  BY DEF IInv, TypeOK
<1>a. \A c \in Cancels : RequestsInv(c)
  BY DEF IInv
<1>b. \A pc : Goto(t, pc) =>
        exec'[t] = [exec[t] EXCEPT !.pc = pc] /\ \A u \in Runs \ {t} : exec'[u] = exec[u]
  BY DEF Goto, TypeOK
<1>1. CASE MissesRow(t) \/ FindsNoTask(t) \/ FindsNoScript(t) \/ Raises(t) \/ Ends(t)
  <2>1. PICK q \in {"ended", "emptying", "failing", "error"} :
          Goto(t, q) /\ LeadsOn(t, exec[t].pc, q)
    BY <1>1 DEF MissesRow, FindsNoTask, FindsNoScript, Raises, Ends, LeadsOn, At, Late
  <2>2. cancel' = cancel /\ row' = row /\ request' = request /\ registered' = registered
    BY <1>1 DEF MissesRow, FindsNoTask, FindsNoScript, Raises, Ends
  <2>3. flag' = flag \/ (exec[t].pc = "stored" /\ flag' = [flag EXCEPT ![t] = FALSE])
    BY <1>1 DEF MissesRow, FindsNoTask, FindsNoScript, Raises, Ends
  <2>4. Moves(t, exec[t].pc, q)
    BY <2>1, <2>2, <2>3, GotoMoves, Zenon
  <2> QED
    BY <2>1, <2>4, MovesInv
<1>2. CASE \/ Announces(t) \/ TestAnnounces(t) \/ DiagnosisStarts(t)
           \/ DiagnosisConcludes(t) \/ DiagnosisFails(t) \/ DiagnosisRaises(t)
  <2>1. PICK q \in {"queued", "closing", "diagnosing"} :
          Goto(t, q) /\ LeadsOn(t, exec[t].pc, q)
    BY <1>2 DEF Announces, TestAnnounces, DiagnosisStarts, DiagnosisConcludes, DiagnosisFails,
                DiagnosisRaises, LeadsOn, At, Late
  <2>2. cancel' = cancel /\ row' = row /\ request' = request /\ registered' = registered
    BY <1>2 DEF Announces, TestAnnounces, DiagnosisStarts, DiagnosisConcludes, DiagnosisFails,
                DiagnosisRaises
  <2>3. flag' = flag \/ (exec[t].pc = "stored" /\ flag' = [flag EXCEPT ![t] = FALSE])
    <3>1. CASE Announces(t)
      BY <3>1 DEF Announces, At
    <3>2. CASE ~Announces(t)
      <4>1. flag' = flag
        BY <1>2, <3>2 DEF TestAnnounces, DiagnosisStarts, DiagnosisConcludes, DiagnosisFails,
                          DiagnosisRaises
      <4> QED
        BY <4>1
    <3> QED
      BY <3>1, <3>2
  <2>4. Moves(t, exec[t].pc, q)
    BY <2>1, <2>2, <2>3, GotoMoves, Zenon
  <2> QED
    BY <2>1, <2>4, MovesInv
<1>3. CASE Trigger(t)
  <2>1. cancel' = cancel /\ \A u \in Runs \ {t} : LeavesAlone(u)
    BY <1>3 DEF Trigger, Goto, LeavesAlone, TypeOK
  <2>2. RunInv(t)'
    BY <1>0, <1>3, <2>1, BoundsAssumption, RunsAssumption
       DEF Trigger, At, Goto, RunInv, RowInv, RequestInv, ExecInv, FlagInv, LiveInv, FaithfulInv,
           Accepted, TypeOK, Unstored, Pending
  <2>3. \A c \in Cancels : cancel[c].of = t => RequestsInv(c)'
    BY <1>0, <1>a, <1>3, <2>1
       DEF Trigger, At, Goto, RunInv, RowInv, RequestInv, ExecInv, RequestsInv, CancelInv,
           HonouredInv, TypeOK, Unstored, Pending
  <2> QED
    BY <2>1, <2>2, <2>3, StepOfOneRun
<1>4. CASE RequestCommits(t)
  <2>1. cancel' = cancel /\ \A u \in Runs \ {t} : LeavesAlone(u)
    BY <1>4 DEF RequestCommits, Goto, LeavesAlone, TypeOK
  <2>2. RunInv(t)'
    BY <1>0, <1>4, <2>1, BoundsAssumption, RunsAssumption
       DEF RequestCommits, At, Goto, RunInv, RowInv, RequestInv, ExecInv, FlagInv, LiveInv, FaithfulInv,
           Accepted, TypeOK, Unstored, Pending
  <2>3. \A c \in Cancels : cancel[c].of = t => RequestsInv(c)'
    BY <1>0, <1>a, <1>4, <2>1
       DEF RequestCommits, At, Goto, RunInv, RowInv, RequestInv, ExecInv, RequestsInv, CancelInv,
           HonouredInv, TypeOK, Unstored, Pending
  <2> QED
    BY <2>1, <2>2, <2>3, StepOfOneRun
<1>5. CASE RequestFails(t)
  <2>1. cancel' = cancel /\ \A u \in Runs \ {t} : LeavesAlone(u)
    BY <1>5 DEF RequestFails, Goto, LeavesAlone, TypeOK
  <2>2. RunInv(t)'
    BY <1>0, <1>5, <2>1, BoundsAssumption, RunsAssumption
       DEF RequestFails, At, Goto, RunInv, RowInv, RequestInv, ExecInv, FlagInv, LiveInv, FaithfulInv,
           Accepted, TypeOK, Unstored, Pending
  <2>3. \A c \in Cancels : cancel[c].of = t => RequestsInv(c)'
    BY <1>0, <1>a, <1>5, <2>1
       DEF RequestFails, At, Goto, RunInv, RowInv, RequestInv, ExecInv, RequestsInv, CancelInv,
           HonouredInv, TypeOK, Unstored, Pending
  <2> QED
    BY <2>1, <2>2, <2>3, StepOfOneRun
<1>6. CASE DoneCallback(t)
  <2>1. cancel' = cancel /\ \A u \in Runs \ {t} : LeavesAlone(u)
    BY <1>6 DEF DoneCallback, Goto, LeavesAlone, TypeOK
  <2>2. RunInv(t)'
    BY <1>0, <1>6, <2>1, BoundsAssumption, RunsAssumption
       DEF DoneCallback, At, Goto, RunInv, RowInv, RequestInv, ExecInv, FlagInv, LiveInv, FaithfulInv,
           Accepted, TypeOK, Unstored, Pending
  <2>3. \A c \in Cancels : cancel[c].of = t => RequestsInv(c)'
    BY <1>0, <1>a, <1>6, <2>1
       DEF DoneCallback, At, Goto, RunInv, RowInv, RequestInv, ExecInv, RequestsInv, CancelInv,
           HonouredInv, TypeOK, Unstored, Pending
  <2> QED
    BY <2>1, <2>2, <2>3, StepOfOneRun
<1>7. CASE TestStarts(t)
  <2>1. cancel' = cancel /\ \A u \in Runs \ {t} : LeavesAlone(u)
    BY <1>7 DEF TestStarts, Goto, LeavesAlone, TypeOK
  <2>2. RunInv(t)'
    BY <1>0, <1>7, <2>1, BoundsAssumption, RunsAssumption
       DEF TestStarts, At, Goto, RunInv, RowInv, RequestInv, ExecInv, FlagInv, LiveInv, FaithfulInv,
           Accepted, TypeOK, Unstored, Pending
  <2>3. \A c \in Cancels : cancel[c].of = t => RequestsInv(c)'
    BY <1>0, <1>a, <1>7, <2>1
       DEF TestStarts, At, Goto, RunInv, RowInv, RequestInv, ExecInv, RequestsInv, CancelInv,
           HonouredInv, TypeOK, Unstored, Pending
  <2> QED
    BY <2>1, <2>2, <2>3, StepOfOneRun
<1>8. CASE Stores(t)
  <2>1. cancel' = cancel /\ \A u \in Runs \ {t} : LeavesAlone(u)
    BY <1>8 DEF Stores, Goto, LeavesAlone, TypeOK
  <2>2. RunInv(t)'
    BY <1>0, <1>8, <2>1, BoundsAssumption, RunsAssumption
       DEF Stores, At, Goto, RunInv, RowInv, RequestInv, ExecInv, FlagInv, LiveInv, FaithfulInv,
           Accepted, TypeOK, Unstored, Pending
  <2>3. \A c \in Cancels : cancel[c].of = t => RequestsInv(c)'
    BY <1>0, <1>a, <1>8, <2>1
       DEF Stores, At, Goto, RunInv, RowInv, RequestInv, ExecInv, RequestsInv, CancelInv,
           HonouredInv, TypeOK, Unstored, Pending
  <2> QED
    BY <2>1, <2>2, <2>3, StepOfOneRun
<1>9. CASE ReturnsEarly(t)
  <2>1. cancel' = cancel /\ \A u \in Runs \ {t} : LeavesAlone(u)
    BY <1>9, <1>b DEF ReturnsEarly, LeavesAlone, TypeOK
  <2>a. \E st \in {"FAILED", "DONE"} : row'[t] = [row[t] EXCEPT !.status = st]
    BY <1>9, <1>0 DEF ReturnsEarly, TypeOK
  <2>b. exec[t].pc \in {"failing", "emptying"} /\ exec'[t] = [exec[t] EXCEPT !.pc = "ended"]
    BY <1>9, <1>b DEF ReturnsEarly, At
  <2>2. /\ request' = request /\ registered' = registered /\ flag' = flag
        /\ exec[t].pc \in {"failing", "emptying"} /\ exec'[t].pc = "ended"
        /\ row'[t].status = "FAILED" \/ row'[t].status = "DONE"
        /\ row'[t].runs = row[t].runs /\ row'[t].diagnosed = row[t].diagnosed
        /\ exec'[t].plan = exec[t].plan /\ exec'[t].cancelled = exec[t].cancelled
    BY <1>9, <1>0, <2>a, <2>b DEF ReturnsEarly, Rows, Execs
  <2>3. Accepted(t)' = Accepted(t)
    BY <2>1 DEF Accepted
  <2>4. RunInv(t)'
    BY <1>0, <2>1, <2>2, <2>3
       DEF RunInv, RowInv, RequestInv, ExecInv, FlagInv, LiveInv, FaithfulInv, Unstored, Pending
  <2>5. \A c \in Cancels : cancel[c].of = t => RequestsInv(c)'
    BY <1>0, <1>a, <2>1, <2>2
       DEF RunInv, RowInv, ExecInv, RequestsInv, CancelInv, HonouredInv, Unstored, Pending
  <2> QED
    BY <2>1, <2>4, <2>5, StepOfOneRun
<1>10. CASE DiagnosisStores(t)
  <2>1. cancel' = cancel /\ \A u \in Runs \ {t} : LeavesAlone(u)
    BY <1>10, <1>b DEF DiagnosisStores, LeavesAlone, TypeOK
  <2>a. row'[t] = [row[t] EXCEPT !.diagnosed = TRUE]
    BY <1>10, <1>0 DEF DiagnosisStores, TypeOK
  <2>b. exec[t].pc = "diagnosing" /\ exec'[t] = [exec[t] EXCEPT !.pc = "diagnosed"]
    BY <1>10, <1>b DEF DiagnosisStores, At
  <2>2. /\ request' = request /\ registered' = registered /\ flag' = flag
        /\ exec[t].pc = "diagnosing" /\ exec'[t].pc = "diagnosed"
        /\ row'[t].status = row[t].status /\ row'[t].runs = row[t].runs
        /\ exec'[t].plan = exec[t].plan /\ exec'[t].cancelled = exec[t].cancelled
    BY <1>10, <1>0, <2>a, <2>b DEF DiagnosisStores, Rows, Execs
  <2>3. Accepted(t)' = Accepted(t)
    BY <2>1 DEF Accepted
  <2>4. RunInv(t)'
    BY <1>0, <2>1, <2>2, <2>3
       DEF RunInv, RowInv, RequestInv, ExecInv, FlagInv, LiveInv, FaithfulInv, Unstored, Pending
  <2>5. \A c \in Cancels : cancel[c].of = t => RequestsInv(c)'
    BY <1>0, <1>a, <2>1, <2>2
       DEF RunInv, RowInv, ExecInv, RequestsInv, CancelInv, HonouredInv, Unstored, Pending
  <2> QED
    BY <2>1, <2>4, <2>5, StepOfOneRun
<1>11. CASE LoadsScripts(t)
  <2>1. PICK n \in 1..MaxScripts : AtBreakpoint(t, [exec[t] EXCEPT !.plan = n])
    BY <1>11 DEF LoadsScripts
  <2>2. cancel' = cancel /\ \A u \in Runs \ {t} : LeavesAlone(u)
    BY <1>11, <2>1 DEF LoadsScripts, AtBreakpoint, LeavesAlone, TypeOK
  <2>3. RunInv(t)'
    BY <1>0, <1>11, <2>1, <2>2, BoundsAssumption, RunsAssumption
       DEF LoadsScripts, At, AtBreakpoint, RunInv, RowInv, RequestInv, ExecInv, FlagInv, LiveInv,
           FaithfulInv, Accepted, TypeOK, Unstored, Pending
  <2>4. \A c \in Cancels : cancel[c].of = t => RequestsInv(c)'
    BY <1>0, <1>a, <1>11, <2>1, <2>2
       DEF LoadsScripts, At, AtBreakpoint, RunInv, RowInv, RequestInv, ExecInv, RequestsInv,
           CancelInv, HonouredInv, TypeOK, Unstored, Pending
  <2> QED
    BY <2>2, <2>3, <2>4, StepOfOneRun
<1>12. CASE ScriptEnds(t)
  <2>1. PICK a \in BOOLEAN :
          AtBreakpoint(t, [exec[t] EXCEPT !.ran = @ + 1, !.anomalous = @ \/ a])
    BY <1>12 DEF ScriptEnds
  <2>2. cancel' = cancel /\ \A u \in Runs \ {t} : LeavesAlone(u)
    BY <1>12, <2>1 DEF ScriptEnds, AtBreakpoint, LeavesAlone, TypeOK
  <2>3. RunInv(t)'
    BY <1>0, <1>12, <2>1, <2>2, BoundsAssumption, RunsAssumption
       DEF ScriptEnds, At, AtBreakpoint, RunInv, RowInv, RequestInv, ExecInv, FlagInv, LiveInv,
           FaithfulInv, Accepted, TypeOK, Unstored, Pending
  <2>4. \A c \in Cancels : cancel[c].of = t => RequestsInv(c)'
    BY <1>0, <1>a, <1>12, <2>1, <2>2
       DEF ScriptEnds, At, AtBreakpoint, RunInv, RowInv, RequestInv, ExecInv, RequestsInv,
           CancelInv, HonouredInv, TypeOK, Unstored, Pending
  <2> QED
    BY <2>2, <2>3, <2>4, StepOfOneRun
<1> QED
  BY <1>1, <1>2, <1>3, <1>4, <1>5, <1>6, <1>7, <1>8, <1>9, <1>10, <1>11, <1>12 DEF Executes

(* A request cancels the run it names, if that is registered. *)
LEMMA CancelStepInv ==
    ASSUME TypeOK, IInv, NEW c \in Cancels, CancelReads(c) \/ CancelAccepted(c) \/ CancelRefused(c)
    PROVE  IInv'
<1> DEFINE u == cancel[c].of
<1>0. u \in Runs /\ cancel[c] \in [of : Runs, state : CancelStates]
  BY DEF TypeOK
<1>1. /\ UNCHANGED <<row, request, exec, registered>>
      /\ cancel' \in [Cancels -> [of : Runs, state : CancelStates]]
      /\ cancel'[c].of = u
      /\ \A d \in Cancels \ {c} : cancel'[d] = cancel[d]
  <2>1. PICK st \in CancelStates : cancel' = [cancel EXCEPT ![c].state = st]
    BY DEF CancelReads, CancelAccepted, CancelRefused, CancelStates
  <2>2. row' = row /\ request' = request /\ exec' = exec /\ registered' = registered
    BY DEF CancelReads, CancelAccepted, CancelRefused
  <2>3. [cancel[c] EXCEPT !.state = st] \in [of : Runs, state : CancelStates]
    BY <1>0
  <2> QED
    BY <1>0, <2>1, <2>2, <2>3 DEF TypeOK
<1>2. ASSUME NEW d \in Cancels, cancel[d].state = "early"
      PROVE  cancel'[d] = cancel[d]
  BY <1>2, <1>1 DEF CancelReads, CancelAccepted, CancelRefused
<1>3. ASSUME NEW t \in Runs, NEW d \in Accepted(t), cancel[d].state = "early"
      PROVE  d \in Accepted(t)' /\ cancel'[d].state = "early"
  BY <1>2, <1>3 DEF Accepted
<1>4. CASE CancelReads(c) \/ CancelRefused(c)
  <2>1. flag' = flag /\ cancel'[c].state # "early"
    BY <1>4, <1>0 DEF CancelReads, CancelRefused, TypeOK
  <2>2. ASSUME NEW t \in Runs
        PROVE  RunInv(t)'
    <3>1. RunInv(t)
      BY DEF IInv
    <3> QED
      BY <1>1, <1>3, <2>1, <3>1
         DEF RunInv, RowInv, RequestInv, ExecInv, FlagInv, LiveInv, FaithfulInv
  <2>3. ASSUME NEW d \in Cancels
        PROVE  RequestsInv(d)'
    <3>1. RequestsInv(d)
      BY DEF IInv
    <3> QED
      BY <1>1, <2>1, <3>1 DEF RequestsInv, CancelInv, HonouredInv
  <2> QED
    BY <2>2, <2>3 DEF IInv
<1>5. CASE CancelAccepted(c)
  <2>1. /\ registered[u] /\ flag'[u] /\ u \notin Tests /\ exec[u].pc # "none"
        /\ \A t \in Runs \ {u} : flag'[t] = flag[t]
        /\ cancel'[c].state = IF exec[u].pc \in {"scheduled", "script"} THEN "early" ELSE "late"
    <3>1. RequestInv(u)
      BY <1>0 DEF IInv, RunInv
    <3> QED
      BY <1>0, <1>5, <3>1 DEF CancelAccepted, TypeOK, RequestInv
  <2>2. ASSUME NEW t \in Runs
        PROVE  RunInv(t)'
    <3>1. RunInv(t)
      BY DEF IInv
    <3>2. RowInv(t)' /\ ExecInv(t)' /\ LiveInv(t)'
      BY <1>1, <3>1 DEF RunInv, RowInv, ExecInv, LiveInv
    <3>3. RequestInv(t)'
      BY <1>0, <1>1, <2>1, <3>1 DEF RunInv, RequestInv
    <3>4. FaithfulInv(t)'
      BY <1>1, <1>3, <3>1 DEF RunInv, FaithfulInv
    <3>5. FlagInv(t)'
      <4>1. CASE t = u /\ exec[u].pc \in {"scheduled", "script"}
        <5>1. c \in Accepted(t)' /\ cancel'[c].state = "early"
          BY <1>1, <2>1, <4>1 DEF Accepted
        <5> QED
          BY <5>1 DEF FlagInv
      <4>2. CASE ~(t = u /\ exec[u].pc \in {"scheduled", "script"})
        BY <1>1, <1>3, <2>1, <3>1, <4>2 DEF RunInv, FlagInv
      <4> QED
        BY <4>1, <4>2
    <3> QED
      BY <3>2, <3>3, <3>4, <3>5 DEF RunInv
  <2>3. ASSUME NEW d \in Cancels
        PROVE  RequestsInv(d)'
    <3>1. RequestsInv(d)
      BY DEF IInv
    <3>2. CASE d = c
      <4>1. RowInv(u)
        BY <1>0 DEF IInv, RunInv
      <4> QED
        BY <1>1, <2>1, <3>2, <4>1 DEF RequestsInv, CancelInv, HonouredInv, RowInv, Unstored, Pending
    <3>3. CASE d # c
      <4>1. cancel[d].of \in Runs /\ (flag[cancel[d].of] => flag'[cancel[d].of])
        BY <2>1 DEF TypeOK
      <4> QED
        BY <1>1, <3>1, <3>3, <4>1 DEF RequestsInv, CancelInv, HonouredInv
    <3> QED
      BY <3>2, <3>3
  <2> QED
    BY <2>2, <2>3 DEF IInv
<1> QED
  BY <1>4, <1>5

(* A restart loses the executions and the registries, not the rows. *)
LEMMA RestartInv ==
    ASSUME TypeOK, IInv, Restart
    PROVE  IInv'
<1>1. ASSUME NEW c \in Cancels
      PROVE  /\ cancel'[c].of = cancel[c].of /\ cancel[c].of \in Runs
             /\ cancel'[c].state = "early" <=> cancel[c].state = "early"
             /\ cancel[c].state = "early" => cancel'[c] = cancel[c]
  BY DEF Restart, TypeOK
<1>2. ASSUME NEW t \in Runs
      PROVE  /\ row'[t] = row[t] /\ ~registered'[t] /\ ~flag'[t]
             /\ exec'[t].plan = exec[t].plan
             /\ exec'[t].pc = IF exec[t].pc \in {"none", "ended", "error"} THEN exec[t].pc ELSE "lost"
             /\ request'[t] = "none" <=> request[t] = "none"
             /\ request'[t] = "committed" <=> request[t] = "committed"
  <2>1. exec[t] \in Execs
    BY DEF TypeOK
  <2> QED
    BY <2>1 DEF Restart, Execs
<1>3. ASSUME NEW t \in Runs
      PROVE  RunInv(t)'
  <2>1. RunInv(t)
    BY DEF IInv
  <2>2. RowInv(t)'
    BY <1>2, <2>1 DEF RunInv, RowInv, Unstored, Pending
  <2>3. RequestInv(t)' /\ ExecInv(t)' /\ FlagInv(t)' /\ LiveInv(t)'
    BY <1>2, <2>1 DEF RunInv, RequestInv, ExecInv, FlagInv, LiveInv
  <2>4. FaithfulInv(t)'
    <3>1. (\E c \in Accepted(t) : cancel[c].state = "early")
            => (\E c \in Accepted(t)' : cancel'[c].state = "early")
      BY <1>1 DEF Accepted
    <3> QED
      BY <1>2, <2>1, <3>1 DEF RunInv, FaithfulInv
  <2> QED
    BY <2>2, <2>3, <2>4 DEF RunInv
<1>4. ASSUME NEW c \in Cancels
      PROVE  RequestsInv(c)'
  <2>1. RequestsInv(c)
    BY DEF IInv
  <2> QED
    BY <1>1, <1>2, <2>1 DEF RequestsInv, CancelInv, HonouredInv
<1> QED
  BY <1>3, <1>4 DEF IInv

(* What is known of every run and every request holds throughout. *)
THEOREM Inductive == Spec => []IInv
<1>1. Init => IInv
  <2> SUFFICES ASSUME Init
               PROVE  IInv
    OBVIOUS
  <2>1. ASSUME NEW t \in Runs
        PROVE  RunInv(t)
    BY DEF Init, NewExec, RunInv, RowInv, RequestInv, ExecInv, FlagInv, LiveInv, FaithfulInv,
           Unstored, Pending
  <2>2. ASSUME NEW c \in Cancels
        PROVE  RequestsInv(c)
    BY DEF Init, RequestsInv, CancelInv, HonouredInv
  <2> QED
    BY <2>1, <2>2 DEF IInv
<1>2. TypeOK /\ IInv /\ [Next]_vars => IInv'
  <2> SUFFICES ASSUME TypeOK, IInv, [Next]_vars
               PROVE  IInv'
    OBVIOUS
  <2>1. CASE \E t \in Runs : \/ Trigger(t) \/ RequestCommits(t) \/ RequestFails(t)
                             \/ Executes(t) \/ DoneCallback(t) \/ TestStarts(t)
    BY <2>1, RunStepInv
  <2>2. CASE \E c \in Cancels : CancelReads(c) \/ CancelAccepted(c) \/ CancelRefused(c)
    BY <2>2, CancelStepInv
  <2>3. CASE Restart
    BY <2>3, RestartInv
  <2>4. CASE UNCHANGED vars
    BY <2>4 DEF vars, IInv, RunInv, RowInv, RequestInv, ExecInv, FlagInv, LiveInv, FaithfulInv,
                RequestsInv, CancelInv, HonouredInv, Accepted
  <2> QED
    BY <2>1, <2>2, <2>3, <2>4 DEF Next
<1> QED
  BY <1>1, <1>2, TypeCorrect, PTL DEF Spec

(* The registry knows every live execution of a triggered run: between     *)
(* create_task and the end of the coroutine, cancel finds it.              *)
THEOREM RegistryComplete == Spec => []LiveIsRegistered
<1>1. IInv => LiveIsRegistered
  BY DEF IInv, RunInv, LiveInv, LiveIsRegistered, Runs
<1> QED
  BY <1>1, Inductive, PTL

(* A stored DONE means that every script ran, a stored CANCELLED that a    *)
(* request came in time, and only what is DONE is diagnosed.               *)
THEOREM StatusTold == Spec => []StatusFaithful
<1>1. IInv => StatusFaithful
  BY DEF IInv, RunInv, FaithfulInv, StatusFaithful
<1> QED
  BY <1>1, Inductive, PTL

(* A cancel accepted before the last look at the flag is never overruled   *)
(* by DONE.                                                                *)
THEOREM EarlyCancelWins == Spec => []EarlyCancelHonoured
<1>1. IInv => EarlyCancelHonoured
  BY DEF IInv, RequestsInv, HonouredInv, EarlyCancelHonoured
<1> QED
  BY <1>1, Inductive, PTL

-----------------------------------------------------------------------------
(* Once the flag is up, no further script goes to a host: the execution    *)
(* looks at the flag before every script, in the step that would start it. *)
THEOREM CancelStopsScripts == Spec => NoScriptAfterCancel
<1> DEFINE P == \A t \in Runs : flag[t] => Dispatched(t)' <= Dispatched(t)
<1>1. TypeOK /\ IInv /\ [Next]_vars => P \/ UNCHANGED vars
  <2> SUFFICES ASSUME TypeOK, IInv, [Next]_vars, NEW t \in Runs, flag[t]
               PROVE  Dispatched(t)' <= Dispatched(t)
    OBVIOUS
  <2>0. /\ exec[t] \in Execs /\ exec[t].ran \in Nat
        /\ t \notin Tests /\ exec[t].pc # "none"
    BY DEF TypeOK, Execs, IInv, RunInv, RequestInv
  <2>1. CASE exec'[t] = exec[t]
    BY <2>0, <2>1 DEF Dispatched
  <2>2. ASSUME NEW pc \in Pcs \ {"script"}, exec'[t] = [exec[t] EXCEPT !.pc = pc]
        PROVE  Dispatched(t)' <= Dispatched(t)
    BY <2>0, <2>2 DEF Dispatched, Execs
  <2>3. CASE LoadsScripts(t)
    <3>1. exec'[t].ran = exec[t].ran /\ exec'[t].pc = "summing"
      BY <2>0, <2>3 DEF LoadsScripts, AtBreakpoint, TypeOK, Execs
    <3> QED
      BY <2>0, <3>1 DEF Dispatched
  <2>4. CASE ScriptEnds(t)
    <3>1. exec'[t].ran = exec[t].ran + 1 /\ exec'[t].pc = "summing" /\ exec[t].pc = "script"
      BY <2>0, <2>4 DEF ScriptEnds, AtBreakpoint, At, TypeOK, Execs
    <3> QED
      BY <2>0, <3>1 DEF Dispatched
  <2>5. CASE Restart
    <3>1. exec'[t] = exec[t] \/ exec'[t] = [exec[t] EXCEPT !.pc = "lost"]
      BY <2>5 DEF Restart
    <3> QED
      BY <2>1, <2>2, <3>1 DEF Pcs
  <2>6. ASSUME NEW u \in Runs \ {t},
               \/ Trigger(u) \/ RequestCommits(u) \/ RequestFails(u)
               \/ Executes(u) \/ DoneCallback(u) \/ TestStarts(u)
        PROVE  exec'[t] = exec[t]
    BY <2>6 DEF Trigger, RequestCommits, RequestFails, DoneCallback, TestStarts, Executes,
                MissesRow, FindsNoTask, FindsNoScript, LoadsScripts, ScriptEnds, Raises,
                ReturnsEarly, Stores, Announces, TestAnnounces, DiagnosisStarts, DiagnosisStores,
                DiagnosisConcludes, DiagnosisFails, DiagnosisRaises, Ends, Goto, AtBreakpoint, TypeOK
  <2>7. CASE \/ RequestCommits(t) \/ RequestFails(t) \/ DoneCallback(t)
             \/ \E c \in Cancels : CancelReads(c) \/ CancelAccepted(c) \/ CancelRefused(c)
             \/ UNCHANGED vars
    <3>1. exec' = exec
      BY <2>7 DEF RequestCommits, RequestFails, DoneCallback, CancelReads, CancelAccepted,
                  CancelRefused, vars
    <3> QED
      BY <2>1, <3>1
  <2>8. CASE \/ Trigger(t) \/ MissesRow(t) \/ FindsNoTask(t) \/ FindsNoScript(t) \/ Raises(t)
             \/ ReturnsEarly(t) \/ Stores(t) \/ Announces(t) \/ TestAnnounces(t)
             \/ DiagnosisStarts(t) \/ DiagnosisStores(t) \/ DiagnosisConcludes(t)
             \/ DiagnosisFails(t) \/ DiagnosisRaises(t) \/ Ends(t)
    <3>1. PICK pc \in Pcs \ {"script"} : Goto(t, pc)
      BY <2>8 DEF Trigger, MissesRow, FindsNoTask, FindsNoScript, Raises, ReturnsEarly, Stores,
                  Announces, TestAnnounces, DiagnosisStarts, DiagnosisStores, DiagnosisConcludes,
                  DiagnosisFails, DiagnosisRaises, Ends, Pcs
    <3>2. exec'[t] = [exec[t] EXCEPT !.pc = pc]
      BY <3>1 DEF Goto, TypeOK
    <3> QED
      BY <2>2, <3>2
  <2>9. ~TestStarts(t)
    BY <2>0 DEF TestStarts
  <2> QED
    BY <2>1, <2>3, <2>4, <2>5, <2>6, <2>7, <2>8, <2>9 DEF Next, Executes
<1>2. TypeOK /\ IInv /\ [Next]_vars => [P]_vars
  BY <1>1
<1> QED
  BY <1>2, TypeCorrect, Inductive, PTL DEF Spec, NoScriptAfterCancel

-----------------------------------------------------------------------------
(* The channel of a run: the results of the scripts that have run, and     *)
(* then one of the stories an execution tells after its commit.            *)
Stories ==
    {<<>>, <<"done">>,
     <<"batch_ready">>,
     <<"batch_ready", "done">>,
     <<"batch_ready", "diag_started">>,
     <<"batch_ready", "diag_started", "done">>,
     <<"batch_ready", "diag_started", "diag_failed", "done">>,
     <<"batch_ready", "diag_started", "diagnostic_done", "done">>}

Concluded == <<"batch_ready", "diag_started", "diagnostic_done", "done">>

(* How far the story has come at each point of the execution. *)
ToldAt(pc) ==
    CASE pc \in Unstored \cup {"stored"} -> {<<>>}
      [] pc = "queued" -> {<<"batch_ready">>}
      [] pc \in {"diagnosing", "diagnosed"} -> {<<"batch_ready", "diag_started">>}
      [] OTHER -> Stories

Narrates(t, s) ==
    /\ Len(events[t]) = exec[t].ran + Len(s)
    /\ \A i \in 1..exec[t].ran : events[t][i] = "run_result"
    /\ \A i \in 1..Len(s) : events[t][exec[t].ran + i] = s[i]

(* What is stored by the time the batch is announced, and the diagnosis.   *)
RowStored(t) == row[t].status \in {"DONE", "CANCELLED"} /\ row[t].runs = exec[t].ran

ToldInv(t, s) ==
    /\ s \in ToldAt(exec[t].pc) /\ Narrates(t, s)
    /\ exec[t].pc \in Late \/ s # <<>> => RowStored(t)
    /\ exec[t].pc = "diagnosed" \/ s = Concluded => row[t].diagnosed

ChannelInv(t) == \E s \in Stories : ToldInv(t, s)

(* A story is a sequence of events.                                        *)
LEMMA StoriesAreLogs ==
    ASSUME NEW s \in Stories
    PROVE  /\ s \in Seq(EventNames)
           /\ \A i \in 1..Len(s) : s[i] # "run_result"
           /\ s # <<>> /\ s # <<"done">> => Len(s) > 0 /\ s[1] = "batch_ready"
<1>1. s \in Seq(EventNames)
  <2>1. /\ <<>> \in Seq(EventNames) /\ <<"done">> \in Seq(EventNames)
        /\ <<"batch_ready">> \in Seq(EventNames)
        /\ <<"batch_ready", "done">> \in Seq(EventNames)
        /\ <<"batch_ready", "diag_started">> \in Seq(EventNames)
        /\ <<"batch_ready", "diag_started", "done">> \in Seq(EventNames)
        /\ <<"batch_ready", "diag_started", "diag_failed", "done">> \in Seq(EventNames)
        /\ <<"batch_ready", "diag_started", "diagnostic_done", "done">> \in Seq(EventNames)
    BY DEF EventNames
  <2> QED
    BY <2>1, Zenon DEF Stories
<1>2. ASSUME NEW i \in 1..Len(s)
      PROVE  s[i] # "run_result"
  BY DEF Stories
<1>3. s # <<>> /\ s # <<"done">> => Len(s) > 0 /\ s[1] = "batch_ready"
  BY DEF Stories
<1> QED
  BY <1>1, <1>2, <1>3

(* What follows the first of two sequences is the second.                  *)
LEMMA ConcatTail ==
    ASSUME NEW S, NEW a \in Seq(S), NEW b \in Seq(S),
           NEW i \in (Len(a) + 1)..(Len(a) + Len(b))
    PROVE  (a \o b)[i] = b[i - Len(a)]
  OBVIOUS

(* What a story of at most two events and one or two more make.            *)
LEMMA EmptyThen ==
    ASSUME NEW a \in EventNames, NEW b \in EventNames
    PROVE  <<>> \o <<a>> = <<a>> /\ <<>> \o <<a, b>> = <<a, b>>
<1>1. <<a>> \in Seq(EventNames) /\ <<a, b>> \in Seq(EventNames)
  OBVIOUS
<1> QED
  BY <1>1, ConcatEmptySeq

(* One event and another. *)
LEMMA OneThen ==
    ASSUME NEW a \in EventNames, NEW b \in EventNames
    PROVE  <<a>> \o <<b>> = <<a, b>>
<1> DEFINE x == <<a>> \o <<b>>
<1>1. /\ x \in Seq(EventNames) /\ <<a, b>> \in Seq(EventNames)
      /\ Len(x) = 2 /\ x[1] = a /\ x[2] = b
  OBVIOUS
<1> HIDE DEF x
<1>2. x = <<a, b>>
  BY <1>1, SeqEqual
<1> QED
  BY <1>2 DEF x

(* Two events and a third. *)
LEMMA TwoThenOne ==
    ASSUME NEW a \in EventNames, NEW b \in EventNames, NEW c \in EventNames
    PROVE  <<a, b>> \o <<c>> = <<a, b, c>>
<1> DEFINE x == <<a, b>> \o <<c>>
<1>1. /\ x \in Seq(EventNames) /\ <<a, b, c>> \in Seq(EventNames)
      /\ Len(x) = 3 /\ x[1] = a /\ x[2] = b /\ x[3] = c
  OBVIOUS
<1> HIDE DEF x
<1>2. x = <<a, b, c>>
  BY <1>1, SeqEqual
<1> QED
  BY <1>2 DEF x

(* Two events and two more. *)
LEMMA TwoThenTwo ==
    ASSUME NEW a \in EventNames, NEW b \in EventNames, NEW c \in EventNames,
           NEW d \in EventNames
    PROVE  <<a, b>> \o <<c, d>> = <<a, b, c, d>>
<1> DEFINE x == <<a, b>> \o <<c, d>>
<1>1. /\ x \in Seq(EventNames) /\ <<a, b, c, d>> \in Seq(EventNames)
      /\ Len(x) = 4 /\ x[1] = a /\ x[2] = b /\ x[3] = c /\ x[4] = d
  OBVIOUS
<1> HIDE DEF x
<1>2. x = <<a, b, c, d>>
  BY <1>1, SeqEqual
<1> QED
  BY <1>2 DEF x

(* publish carries the story on, and a script that ends adds its result.   *)
LEMMA PublishTells ==
    ASSUME TypeOK, NEW t \in Runs, NEW s \in Stories, NEW es \in Seq(EventNames),
           Narrates(t, s), Publish(t, es), exec'[t].ran = exec[t].ran
    PROVE  Narrates(t, s \o es)'
<1>1. events'[t] = events[t] \o es /\ events[t] \in Seq(EventNames)
  BY DEF Publish, TypeOK
<1>2. s \in Seq(EventNames)
  BY StoriesAreLogs
<1>3. exec[t].ran \in Nat
  BY DEF TypeOK, Execs
<1> DEFINE n == exec[t].ran
<1>4. Len(events'[t]) = n + Len(s \o es)
  <2>1. Len(events'[t]) = Len(events[t]) + Len(es) /\ Len(s \o es) = Len(s) + Len(es)
    BY <1>1, <1>2
  <2> QED
    BY <1>2, <1>3, <2>1 DEF Narrates
<1>5. ASSUME NEW i \in 1..n
      PROVE  events'[t][i] = "run_result"
  BY <1>1, <1>2, <1>3 DEF Narrates
<1>6. ASSUME NEW i \in 1..Len(s \o es)
      PROVE  events'[t][n + i] = (s \o es)[i]
  <2>1. CASE i \in 1..Len(s)
    <3>0. Len(events[t]) = n + Len(s) /\ events[t][n + i] = s[i]
      BY <2>1 DEF Narrates
    <3>1. n + i \in 1..Len(events[t]) /\ events[t][n + i] = s[i] /\ n \in Nat
      BY <1>2, <1>3, <2>1, <3>0
    <3>2. events'[t][n + i] = events[t][n + i]
      BY <1>1, <3>1
    <3>3. (s \o es)[i] = s[i]
      BY <1>2, <2>1
    <3> QED
      BY <3>1, <3>2, <3>3
  <2>2. CASE i \in (Len(s) + 1)..(Len(s) + Len(es))
    <3> DEFINE j == n + i
    <3>1. j \in (Len(events[t]) + 1)..(Len(events[t]) + Len(es))
      BY <1>2, <1>3, <2>2 DEF Narrates
    <3>2. j - Len(events[t]) = i - Len(s)
      BY <1>1, <1>2, <1>3, <2>2 DEF Narrates
    <3> HIDE DEF j
    <3>3. (events[t] \o es)[j] = es[j - Len(events[t])]
      BY <1>1, <3>1, ConcatTail
    <3>4. (s \o es)[i] = es[i - Len(s)]
      BY <1>2, <2>2, ConcatTail
    <3> QED
      BY <1>1, <3>2, <3>3, <3>4 DEF j
  <2> QED
    BY <1>2, <2>1, <2>2
<1> QED
  BY <1>4, <1>5, <1>6 DEF Narrates

(* The result of a script is told when its Run is flushed.                 *)
LEMMA ResultTells ==
    ASSUME TypeOK, NEW t \in Runs, Narrates(t, <<>>), Publish(t, <<"run_result">>),
           exec'[t].ran = exec[t].ran + 1
    PROVE  Narrates(t, <<>>)'
<1>1. events'[t] = events[t] \o <<"run_result">> /\ events[t] \in Seq(EventNames)
  BY DEF Publish, TypeOK
<1>2. exec[t].ran \in Nat
  BY DEF TypeOK, Execs
<1> QED
  BY <1>1, <1>2 DEF Narrates

(* A step that neither publishes nor stores keeps the story, if the        *)
(* execution is still allowed to have told no more than that.              *)
LEMMA QuietKeeps ==
    ASSUME TypeOK, NEW t \in Runs, ChannelInv(t), events'[t] = events[t],
           exec'[t].ran = exec[t].ran, row'[t] = row[t],
           ToldAt(exec[t].pc) \subseteq ToldAt(exec'[t].pc),
           exec'[t].pc \in Late => exec[t].pc \in Late,
           exec'[t].pc = "diagnosed" => exec[t].pc = "diagnosed"
    PROVE  ChannelInv(t)'
<1>1. PICK s \in Stories : ToldInv(t, s)
  BY DEF ChannelInv
<1>2. ToldInv(t, s)'
  BY <1>1 DEF ToldInv, Narrates, RowStored
<1> QED
  BY <1>2 DEF ChannelInv

(* From point p to point q with events es: whatever has been told by p,    *)
(* with es it is a story that may have been told by q.                     *)
Carries(p, q, es) ==
    /\ p \in Late /\ q \in Late \ {"diagnosed"} /\ es \in Seq(EventNames)
    /\ \A s \in ToldAt(p) : (s \o es) \in Stories
    /\ \A s \in ToldAt(p) : (s \o es) \in ToldAt(q)
    /\ \A s \in ToldAt(p) : (s \o es) = Concluded => p = "diagnosed"

(* A step of an execution after its commit that publishes es and goes on   *)
(* to such a point keeps the invariant.                                    *)
LEMMA PublishKeeps ==
    ASSUME TypeOK, NEW t \in Runs, ChannelInv(t), NEW es, Publish(t, es),
           exec'[t].ran = exec[t].ran, row'[t] = row[t],
           Carries(exec[t].pc, exec'[t].pc, es)
    PROVE  ChannelInv(t)'
<1>1. PICK s \in Stories : ToldInv(t, s)
  BY DEF ChannelInv
<1>0. es \in Seq(EventNames) /\ exec[t].pc \in Late /\ exec'[t].pc # "diagnosed"
  BY DEF Carries
<1>2. Narrates(t, s \o es)'
  BY <1>0, <1>1, PublishTells DEF ToldInv
<1>a. /\ s \o es \in Stories /\ s \o es \in ToldAt(exec'[t].pc)
      /\ s \o es = Concluded => exec[t].pc = "diagnosed"
  <2>1. s \in ToldAt(exec[t].pc)
    BY <1>1 DEF ToldInv
  <2> DEFINE p == exec[t].pc
             q == exec'[t].pc
  <2>2. s \in ToldAt(p) /\ Carries(p, q, es)
    BY <2>1
  <2> HIDE DEF p, q
  <2>3. (s \o es) \in Stories /\ (s \o es) \in ToldAt(q) /\ (s \o es = Concluded => p = "diagnosed")
    BY <2>2 DEF Carries
  <2> QED
    BY <2>3 DEF p, q
<1>3. RowStored(t)'
  BY <1>0, <1>1 DEF ToldInv, RowStored
<1>4. s \o es = Concluded => row'[t].diagnosed
  BY <1>1, <1>a DEF ToldInv
<1>5. ToldInv(t, s \o es)'
  BY <1>0, <1>a, <1>2, <1>3, <1>4 DEF ToldInv
<1> QED
  BY <1>a, <1>5 DEF ChannelInv

(* Every step of a run keeps the invariant of its channel.                 *)
LEMMA ChannelStep ==
    ASSUME TypeOK, IInv, NEW t \in Runs, ChannelInv(t),
           \/ Trigger(t) \/ RequestCommits(t) \/ RequestFails(t)
           \/ Executes(t) \/ DoneCallback(t) \/ TestStarts(t)
    PROVE  ChannelInv(t)'
<1>0. RunInv(t) /\ row[t] \in Rows /\ exec[t] \in Execs
  BY DEF IInv, TypeOK
<1>1. CASE RequestFails(t) \/ DoneCallback(t)
  BY <1>1, QuietKeeps DEF RequestFails, DoneCallback
<1>2. CASE \/ Trigger(t) \/ MissesRow(t) \/ FindsNoTask(t) \/ FindsNoScript(t)
           \/ Raises(t) \/ Ends(t)
  <2>1. PICK pc \in {"scheduled", "ended", "failing", "emptying", "error"} :
          /\ Goto(t, pc)
          /\ ToldAt(exec[t].pc) \subseteq ToldAt(pc)
    BY <1>0, <1>2 DEF Trigger, MissesRow, FindsNoTask, FindsNoScript, Raises, Ends, At, ToldAt,
                      RunInv, RequestInv, Unstored, Stories
  <2>2. exec'[t].pc = pc /\ exec'[t].ran = exec[t].ran
    BY <1>0, <2>1 DEF Goto, TypeOK, Execs
  <2>3. row' = row /\ events' = events
    BY <1>2 DEF Trigger, MissesRow, FindsNoTask, FindsNoScript, Raises, Ends
  <2> QED
    BY <2>1, <2>2, <2>3, QuietKeeps DEF Late
<1>3. CASE TestStarts(t)
  <2>1. exec[t].pc = "none" /\ exec'[t].pc = "script" /\ exec'[t].ran = exec[t].ran
    BY <1>0, <1>3 DEF TestStarts, RunInv, RequestInv, TypeOK, Execs
  <2> QED
    BY <1>3, <2>1, QuietKeeps DEF TestStarts, Late, ToldAt, Unstored
<1>4. CASE LoadsScripts(t)
  <2>1. /\ exec[t].pc = "scheduled" /\ exec'[t].pc \in {"script", "summing"}
        /\ exec'[t].ran = exec[t].ran
    BY <1>0, <1>4 DEF LoadsScripts, AtBreakpoint, At, TypeOK, Execs
  <2> QED
    BY <1>4, <2>1, QuietKeeps DEF LoadsScripts, Late, ToldAt, Unstored
<1>5. CASE ScriptEnds(t)
  <2>1. /\ exec[t].pc = "script" /\ exec'[t].pc \in {"script", "summing"}
        /\ exec'[t].ran = exec[t].ran + 1
    BY <1>0, <1>5 DEF ScriptEnds, AtBreakpoint, At, TypeOK, Execs
  <2>2. ToldInv(t, <<>>)
    BY <2>1 DEF ChannelInv, ToldInv, ToldAt, Unstored
  <2>3. Narrates(t, <<>>)'
    BY <1>5, <2>1, <2>2, ResultTells DEF ScriptEnds, ToldInv
  <2> QED
    BY <2>1, <2>3 DEF ChannelInv, ToldInv, ToldAt, Unstored, Stories, Late, Concluded
<1>6. CASE RequestCommits(t)
  <2>1. row[t].status = "absent" /\ exec' = exec /\ events' = events
    BY <1>0, <1>6 DEF RequestCommits, RunInv, RequestInv
  <2>2. PICK s \in Stories : ToldInv(t, s)
    BY DEF ChannelInv
  <2>3. s = <<>> /\ exec[t].pc \notin Late
    BY <2>1, <2>2 DEF ToldInv, RowStored
  <2>4. ToldInv(t, s)'
    BY <2>1, <2>2, <2>3 DEF ToldInv, Narrates, Late, Concluded
  <2> QED
    BY <2>4 DEF ChannelInv
<1>7. CASE ReturnsEarly(t)
  <2>1. /\ exec[t].pc \in {"failing", "emptying"} /\ exec'[t].pc = "ended"
        /\ exec'[t].ran = exec[t].ran /\ events' = events
    BY <1>0, <1>7 DEF ReturnsEarly, At, Goto, TypeOK, Execs
  <2>2. ToldInv(t, <<>>)
    BY <2>1 DEF ChannelInv, ToldInv, ToldAt, Unstored
  <2>3. ToldInv(t, <<>>)'
    BY <2>1, <2>2 DEF ToldInv, Narrates, ToldAt, Stories, Unstored, Late, Concluded
  <2> QED
    BY <2>3 DEF ChannelInv, Stories
<1>8. CASE Stores(t)
  <2>1. /\ exec[t].pc = "summing" /\ exec'[t].pc = "stored"
        /\ exec'[t].ran = exec[t].ran /\ events' = events
    BY <1>0, <1>8 DEF Stores, At, Goto, TypeOK, Execs
  <2>2. RowStored(t)'
    BY <1>0, <1>8, <2>1 DEF Stores, RowStored, TypeOK, Rows
  <2>3. ToldInv(t, <<>>)
    BY <2>1 DEF ChannelInv, ToldInv, ToldAt, Unstored
  <2>4. ToldInv(t, <<>>)'
    BY <2>1, <2>2, <2>3 DEF ToldInv, Narrates, ToldAt, Stories, Unstored, Late, Concluded
  <2> QED
    BY <2>4 DEF ChannelInv, Stories
<1>9. CASE DiagnosisStores(t)
  <2>1. /\ exec[t].pc = "diagnosing" /\ exec'[t].pc = "diagnosed"
        /\ exec'[t].ran = exec[t].ran /\ events' = events
    BY <1>0, <1>9 DEF DiagnosisStores, At, Goto, TypeOK, Execs
  <2>2. PICK s \in Stories : ToldInv(t, s)
    BY DEF ChannelInv
  <2>3. /\ row'[t].status = row[t].status /\ row'[t].runs = row[t].runs
        /\ row'[t].diagnosed
    BY <1>0, <1>9 DEF DiagnosisStores, TypeOK, Rows
  <2>4. ToldInv(t, s)'
    BY <2>1, <2>2, <2>3 DEF ToldInv, Narrates, RowStored, ToldAt, Unstored, Late
  <2> QED
    BY <2>4 DEF ChannelInv
<1>10. CASE \/ Announces(t) \/ TestAnnounces(t) \/ DiagnosisStarts(t)
            \/ DiagnosisConcludes(t) \/ DiagnosisFails(t) \/ DiagnosisRaises(t)
  <2> DEFINE Step(p, q, es) ==
        exec[t].pc = p /\ Goto(t, q) /\ Publish(t, es)
  <2>1. row' = row
    BY <1>10 DEF Announces, TestAnnounces, DiagnosisStarts, DiagnosisConcludes, DiagnosisFails,
                 DiagnosisRaises
  <2>2. \/ Step("stored", "queued", <<"batch_ready">>)
        \/ Step("stored", "closing", <<"batch_ready", "done">>)
        \/ Step("stored", "closing", <<"done">>)
        \/ Step("queued", "diagnosing", <<"diag_started">>)
        \/ Step("diagnosed", "closing", <<"diagnostic_done", "done">>)
        \/ Step("diagnosing", "closing", <<"diag_failed", "done">>)
        \/ Step("queued", "closing", <<"done">>)
        \/ Step("diagnosing", "closing", <<"done">>)
    BY <1>10 DEF Announces, TestAnnounces, DiagnosisStarts, DiagnosisConcludes, DiagnosisFails,
                 DiagnosisRaises, At
  <2>3. ASSUME NEW p, NEW q, NEW es, Step(p, q, es), Carries(p, q, es)
        PROVE  ChannelInv(t)'
    <3>1. exec[t].pc = p /\ exec'[t].pc = q /\ exec'[t].ran = exec[t].ran
      BY <1>0, <2>3 DEF Goto, TypeOK, Execs
    <3> QED
      BY <2>1, <2>3, <3>1, PublishKeeps
  <2>4. /\ <<"batch_ready">> \in Seq(EventNames) /\ <<"batch_ready", "done">> \in Seq(EventNames)
        /\ <<"done">> \in Seq(EventNames) /\ <<"diag_started">> \in Seq(EventNames)
        /\ <<"diagnostic_done", "done">> \in Seq(EventNames)
        /\ <<"diag_failed", "done">> \in Seq(EventNames)
    BY DEF EventNames
  <2>5. /\ ToldAt("stored") = {<<>>} /\ ToldAt("queued") = {<<"batch_ready">>}
        /\ ToldAt("diagnosing") = {<<"batch_ready", "diag_started">>}
        /\ ToldAt("diagnosed") = {<<"batch_ready", "diag_started">>}
        /\ ToldAt("closing") = Stories
    BY DEF ToldAt, Unstored
  <2>6. /\ <<>> \o <<"batch_ready">> = <<"batch_ready">>
        /\ <<>> \o <<"batch_ready", "done">> = <<"batch_ready", "done">>
        /\ <<>> \o <<"done">> = <<"done">>
        /\ <<"batch_ready">> \o <<"diag_started">> = <<"batch_ready", "diag_started">>
        /\ <<"batch_ready">> \o <<"done">> = <<"batch_ready", "done">>
        /\ <<"batch_ready", "diag_started">> \o <<"diagnostic_done", "done">> = Concluded
        /\ <<"batch_ready", "diag_started">> \o <<"diag_failed", "done">>
             = <<"batch_ready", "diag_started", "diag_failed", "done">>
        /\ <<"batch_ready", "diag_started">> \o <<"done">>
             = <<"batch_ready", "diag_started", "done">>
    <3>1. /\ "batch_ready" \in EventNames /\ "diag_started" \in EventNames
          /\ "diagnostic_done" \in EventNames /\ "diag_failed" \in EventNames
          /\ "done" \in EventNames
      BY DEF EventNames
    <3> HIDE DEF EventNames
    <3>3. <<>> \o <<"batch_ready">> = <<"batch_ready">> /\ <<>> \o <<"done">> = <<"done">>
      BY <3>1, EmptyThen, Zenon
    <3>4. <<>> \o <<"batch_ready", "done">> = <<"batch_ready", "done">>
      BY <3>1, EmptyThen, Zenon
    <3>5. /\ <<"batch_ready">> \o <<"diag_started">> = <<"batch_ready", "diag_started">>
          /\ <<"batch_ready">> \o <<"done">> = <<"batch_ready", "done">>
      BY <3>1, OneThen, Zenon
    <3>6. <<"batch_ready", "diag_started">> \o <<"done">>
            = <<"batch_ready", "diag_started", "done">>
      BY <3>1, TwoThenOne, Zenon
    <3>7. <<"batch_ready", "diag_started">> \o <<"diagnostic_done", "done">> = Concluded
      <4>1. <<"batch_ready", "diag_started">> \o <<"diagnostic_done", "done">>
              = <<"batch_ready", "diag_started", "diagnostic_done", "done">>
        BY <3>1, TwoThenTwo
      <4> QED
        BY <4>1, Zenon DEF Concluded
    <3>8. <<"batch_ready", "diag_started">> \o <<"diag_failed", "done">>
            = <<"batch_ready", "diag_started", "diag_failed", "done">>
      BY <3>1, TwoThenTwo
    <3> QED
      BY <3>3, <3>4, <3>5, <3>6, <3>7, <3>8
  <2>7. /\ Stories = ToldAt("closing") /\ "closing" \in Late \ {"diagnosed"}
        /\ {"stored", "queued", "diagnosing", "diagnosed"} \subseteq Late
    BY <2>5 DEF Late
  <2>8. /\ Carries("stored", "queued", <<"batch_ready">>)
        /\ Carries("stored", "closing", <<"batch_ready", "done">>)
        /\ Carries("stored", "closing", <<"done">>)
    <3>1. \A es \in {<<"batch_ready">>, <<"batch_ready", "done">>, <<"done">>} :
            es \in Stories /\ es # Concluded
      BY DEF Stories, Concluded
    <3> QED
      BY <2>4, <2>5, <2>6, <2>7, <3>1 DEF Carries, Late
  <2>9. /\ Carries("queued", "diagnosing", <<"diag_started">>)
        /\ Carries("queued", "closing", <<"done">>)
    <3>1. \A es \in {<<"batch_ready", "diag_started">>, <<"batch_ready", "done">>} :
            es \in Stories /\ es # Concluded
      BY DEF Stories, Concluded
    <3> QED
      BY <2>4, <2>5, <2>6, <2>7, <3>1 DEF Carries
  <2>10. /\ Carries("diagnosed", "closing", <<"diagnostic_done", "done">>)
         /\ Carries("diagnosing", "closing", <<"diag_failed", "done">>)
         /\ Carries("diagnosing", "closing", <<"done">>)
    <3>1. \A es \in {<<"batch_ready", "diag_started", "diag_failed", "done">>,
                     <<"batch_ready", "diag_started", "done">>} :
            es \in Stories /\ es # Concluded
      BY DEF Stories, Concluded
    <3>2. Concluded \in Stories
      BY DEF Stories, Concluded
    <3> QED
      BY <2>4, <2>5, <2>6, <2>7, <3>1, <3>2 DEF Carries
  <2> QED
    BY <2>2, <2>3, <2>8, <2>9, <2>10
<1> QED
  BY <1>1, <1>2, <1>3, <1>4, <1>5, <1>6, <1>7, <1>8, <1>9, <1>10 DEF Executes

ChannelsInv == \A t \in Runs : ChannelInv(t)

(* On every channel: as many results as scripts have run, and then one of  *)
(* the stories, with what it announces stored.                             *)
THEOREM ChannelsTell == Spec => []ChannelsInv
<1>1. Init => ChannelsInv
  <2> SUFFICES ASSUME Init, NEW t \in Runs
               PROVE  ToldInv(t, <<>>)
    BY DEF ChannelsInv, ChannelInv, Stories
  <2> QED
    BY DEF Init, NewExec, ToldInv, Narrates, ToldAt, Unstored, Late, Concluded
<1>2. TypeOK /\ IInv /\ ChannelsInv /\ [Next]_vars => ChannelsInv'
  <2> SUFFICES ASSUME TypeOK, IInv, ChannelsInv, [Next]_vars, NEW t \in Runs
               PROVE  ChannelInv(t)'
    BY DEF ChannelsInv
  <2>0. ChannelInv(t) /\ exec[t] \in Execs
    BY DEF ChannelsInv, TypeOK
  <2>1. ASSUME row'[t] = row[t], exec'[t] = exec[t], events'[t] = events[t]
        PROVE  ChannelInv(t)'
    BY <2>0, <2>1 DEF ChannelInv, ToldInv, Narrates, RowStored
  <2>2. CASE \/ Trigger(t) \/ RequestCommits(t) \/ RequestFails(t)
             \/ Executes(t) \/ DoneCallback(t) \/ TestStarts(t)
    BY <2>0, <2>2, ChannelStep
  <2>3. ASSUME NEW u \in Runs \ {t},
               \/ Trigger(u) \/ RequestCommits(u) \/ RequestFails(u)
               \/ Executes(u) \/ DoneCallback(u) \/ TestStarts(u)
        PROVE  row'[t] = row[t] /\ exec'[t] = exec[t] /\ events'[t] = events[t]
    <3>0. DOMAIN row = Runs /\ DOMAIN exec = Runs /\ DOMAIN events = Runs
      BY DEF TypeOK
    <3>1. CASE Executes(u)
      BY <2>3, <3>0, <3>1 DEF Executes, MissesRow, FindsNoTask, FindsNoScript, LoadsScripts, ScriptEnds,
                        Raises, ReturnsEarly, Stores, Announces, TestAnnounces, DiagnosisStarts,
                        DiagnosisStores, DiagnosisConcludes, DiagnosisFails, DiagnosisRaises,
                        Ends, Goto, AtBreakpoint, Publish
    <3>2. CASE \/ Trigger(u) \/ RequestCommits(u) \/ RequestFails(u) \/ DoneCallback(u)
               \/ TestStarts(u)
      BY <2>3, <3>0, <3>2 DEF Trigger, Goto, RequestCommits, RequestFails, DoneCallback, TestStarts
    <3> QED
      BY <2>3, <3>1, <3>2
  <2>4. CASE \E c \in Cancels : CancelReads(c) \/ CancelAccepted(c) \/ CancelRefused(c)
    BY <2>1, <2>4 DEF CancelReads, CancelAccepted, CancelRefused
  <2>5. CASE Restart
    <3>1. row' = row /\ events' = events
      BY <2>5 DEF Restart
    <3>2. CASE exec'[t] = exec[t]
      BY <2>1, <3>1, <3>2
    <3>3. CASE exec'[t] = [exec[t] EXCEPT !.pc = "lost"]
      <4>1. exec'[t].pc = "lost" /\ exec'[t].ran = exec[t].ran
        BY <2>0, <3>3 DEF Execs
      <4>2. ToldAt(exec[t].pc) \subseteq ToldAt("lost")
        BY DEF ToldAt, Unstored, Stories
      <4> QED
        BY <2>0, <3>1, <4>1, <4>2, QuietKeeps DEF Late
    <3> QED
      BY <2>5, <3>2, <3>3 DEF Restart
  <2>6. CASE UNCHANGED vars
    BY <2>1, <2>6 DEF vars
  <2> QED
    BY <2>1, <2>2, <2>3, <2>4, <2>5, <2>6 DEF Next
<1> QED
  BY <1>1, <1>2, TypeCorrect, Inductive, PTL DEF Spec

(* The events of a story come in the documented order.                     *)
LEMMA StoriesInOrder ==
    ASSUME NEW s \in Stories, NEW i \in 1..Len(s), NEW j \in 1..Len(s), i < j
    PROVE  Rank(s[i]) < Rank(s[j])
<1>1. /\ Rank("batch_ready") = 2 /\ Rank("diag_started") = 3 /\ Rank("diag_failed") = 4
      /\ Rank("diagnostic_done") = 4 /\ Rank("done") = 5
  BY DEF Rank
<1> HIDE DEF Rank
<1> QED
  BY <1>1 DEF Stories

(* What is on a channel, one event at a time.                              *)
LEMMA ChannelEvents ==
    ASSUME TypeOK, NEW t \in Runs, NEW s \in Stories, Narrates(t, s), NEW i \in DOMAIN events[t]
    PROVE  /\ i \in Nat /\ exec[t].ran \in Nat /\ Len(s) \in Nat
           /\ i <= exec[t].ran => events[t][i] = "run_result"
           /\ i > exec[t].ran => /\ i - exec[t].ran \in 1..Len(s)
                                 /\ events[t][i] = s[i - exec[t].ran]
                                 /\ events[t][i] \in EventNames \ {"run_result"}
<1>1. exec[t].ran \in Nat /\ events[t] \in Seq(EventNames) /\ s \in Seq(EventNames)
  BY StoriesAreLogs DEF TypeOK, Execs
<1>2. i \in 1..(exec[t].ran + Len(s))
  BY <1>1 DEF Narrates
<1>3. ASSUME i <= exec[t].ran
      PROVE  events[t][i] = "run_result"
  BY <1>1, <1>2, <1>3 DEF Narrates
<1>4. ASSUME i > exec[t].ran
      PROVE  /\ i - exec[t].ran \in 1..Len(s)
             /\ events[t][i] = s[i - exec[t].ran]
             /\ events[t][i] \in EventNames \ {"run_result"}
  <2> DEFINE k == i - exec[t].ran
  <2>1. k \in 1..Len(s) /\ exec[t].ran + k = i
    BY <1>1, <1>2, <1>4
  <2>2. events[t][exec[t].ran + k] = s[k]
    BY <2>1 DEF Narrates
  <2> HIDE DEF k
  <2>3. s[k] # "run_result" /\ s[k] \in EventNames
    BY <1>1, <2>1, StoriesAreLogs
  <2>4. events[t][i] = s[k]
    BY <2>1, <2>2
  <2>5. /\ k \in 1..Len(s) /\ events[t][i] = s[k]
        /\ events[t][i] \in EventNames \ {"run_result"}
    BY <2>1, <2>3, <2>4
  <2> QED
    BY <2>5 DEF k
<1>5. i \in Nat /\ exec[t].ran \in Nat /\ Len(s) \in Nat
  BY <1>1, <1>2
<1> QED
  BY <1>3, <1>4, <1>5

(* A channel tells results, the batch, at most one diagnosis and done, in  *)
(* this order, whatever fails and whenever the process stops.              *)
THEOREM ChannelsInOrder == Spec => []EventsInOrder
<1>1. TypeOK /\ ChannelsInv => EventsInOrder
  <2> SUFFICES ASSUME TypeOK, ChannelsInv, NEW t \in Runs,
                      NEW i \in DOMAIN events[t], NEW j \in DOMAIN events[t], i < j
               PROVE  \/ Rank(events[t][i]) < Rank(events[t][j])
                      \/ events[t][i] = "run_result" /\ events[t][j] = "run_result"
    BY DEF EventsInOrder
  <2>1. PICK s \in Stories : Narrates(t, s)
    BY DEF ChannelsInv, ChannelInv, ToldInv
  <2>2. CASE j <= exec[t].ran
    BY <2>1, <2>2, ChannelEvents
  <2>3. CASE i <= exec[t].ran /\ j > exec[t].ran
    <3>1. events[t][i] = "run_result" /\ events[t][j] \in EventNames \ {"run_result"}
      BY <2>1, <2>3, ChannelEvents
    <3>2. Rank("run_result") = 1 /\ \A e \in EventNames \ {"run_result"} : Rank(e) \in 2..5
      BY DEF Rank, EventNames
    <3> QED
      BY <3>1, <3>2
  <2>4. CASE i > exec[t].ran /\ j > exec[t].ran
    <3> DEFINE k == i - exec[t].ran
               l == j - exec[t].ran
    <3>1. /\ k \in 1..Len(s) /\ l \in 1..Len(s)
          /\ events[t][i] = s[k] /\ events[t][j] = s[l]
      BY <2>1, <2>4, ChannelEvents
    <3>2. k < l
      BY <2>1, ChannelEvents
    <3> HIDE DEF k, l
    <3> QED
      BY <3>1, <3>2, StoriesInOrder
  <2> QED
    BY <2>1, <2>2, <2>3, <2>4, ChannelEvents
<1> QED
  BY <1>1, TypeCorrect, ChannelsTell, PTL

(* The results on a channel are as many as the scripts that have run.      *)
LEMMA ResultsCounted ==
    ASSUME TypeOK, NEW t \in Runs, NEW s \in Stories, Narrates(t, s)
    PROVE  Cardinality(Results(t)) = exec[t].ran
<1>1. exec[t].ran \in Nat /\ events[t] \in Seq(EventNames) /\ s \in Seq(EventNames)
  BY StoriesAreLogs DEF TypeOK, Execs
<1>2. DOMAIN events[t] = 1..(exec[t].ran + Len(s))
  BY <1>1 DEF Narrates
<1>3. Results(t) = 1..exec[t].ran
  <2>1. ASSUME NEW i \in DOMAIN events[t]
        PROVE  events[t][i] = "run_result" <=> i <= exec[t].ran
    BY ChannelEvents
  <2> QED
    BY <1>1, <1>2, <2>1 DEF Results
<1> QED
  BY <1>1, <1>3, FS_Interval

(* What batch_ready, done and diagnostic_done announce is committed when   *)
(* they are published: a page that reloads finds it.                       *)
THEOREM AnnouncedStored == Spec => []AnnouncedIsStored
<1>1. TypeOK /\ ChannelsInv => AnnouncedIsStored
  <2> SUFFICES ASSUME TypeOK, ChannelsInv, NEW t \in Runs
               PROVE  /\ Published(t, "batch_ready") \/ Published(t, "done") =>
                           /\ row[t].status \in {"DONE", "CANCELLED"}
                           /\ row[t].runs = Cardinality(Results(t))
                      /\ Published(t, "diagnostic_done") => row[t].diagnosed
    BY DEF AnnouncedIsStored
  <2>1. PICK s \in Stories : ToldInv(t, s)
    BY DEF ChannelsInv, ChannelInv
  <2>2. ASSUME NEW e \in EventNames \ {"run_result"}, Published(t, e)
        PROVE  \E k \in 1..Len(s) : s[k] = e
    <3>1. PICK i \in DOMAIN events[t] : events[t][i] = e
      BY <2>2 DEF Published
    <3>2. i > exec[t].ran /\ i - exec[t].ran \in 1..Len(s) /\ s[i - exec[t].ran] = e
      BY <2>1, <2>2, <3>1, ChannelEvents DEF ToldInv
    <3> QED
      BY <3>2
  <2>3. ASSUME Published(t, "batch_ready") \/ Published(t, "done")
        PROVE  s # <<>>
    BY <2>2, <2>3 DEF EventNames
  <2>4. ASSUME Published(t, "diagnostic_done")
        PROVE  s = Concluded
    <3>1. PICK k \in 1..Len(s) : s[k] = "diagnostic_done"
      BY <2>2, <2>4 DEF EventNames
    <3> QED
      BY <3>1 DEF Stories, Concluded
  <2> QED
    BY <2>1, <2>3, <2>4, ResultsCounted DEF ToldInv, RowStored
<1> QED
  BY <1>1, TypeCorrect, ChannelsTell, PTL

-----------------------------------------------------------------------------
(* The live channel. *)

(* What has been delivered, as a sequence g, when n events are published.  *)
Ordered(from, g, n) ==
    /\ \A i \in 1..Len(g) : g[i] > from /\ g[i] <= n
    /\ \A i, j \in 1..Len(g) : i < j => g[i] < g[j]
    /\ Len(g) + from <= n

Complete(from, g, n) ==
    \A k \in 1..QueueSize : from + k <= n => k <= Len(g) /\ g[k] = from + k

QueueInv(b) ==
    /\ Ordered(stream[b].from, Delivered(b), Len(Told(b)))
    /\ stream[b].open => Complete(stream[b].from, Delivered(b), Len(Told(b)))

-----------------------------------------------------------------------------
(* The composition does what the task runs do. *)

LEMMA StreamStep == [StreamNext]_svars => [Next]_vars
  BY DEF StreamNext, svars, vars, Next, Watches

(* Pages and queues do not disturb the task runs: a behaviour of the       *)
(* composition is one of TaskRuns, so that what is proved of TaskRuns      *)
(* holds of it.                                                            *)
THEOREM ComposesTaskRuns == StreamSpec => Spec
<1>1. StreamInit => Init
  BY DEF StreamInit
<1> QED
  BY <1>1, StreamStep, PTL DEF StreamSpec, Spec

(* A step publishes two events at most, behind those there are. *)
LEMMA PublishGrows ==
    ASSUME TypeOK, NEW t \in Runs, NEW es \in Seq(EventNames), Len(es) \in 0..2,
           Publish(t, es)
    PROVE  \A u \in Runs : Len(events'[u]) - Len(events[u]) \in 0..2
<1> SUFFICES ASSUME NEW u \in Runs
             PROVE  Len(events'[u]) - Len(events[u]) \in 0..2
  OBVIOUS
<1>1. events[u] \in Seq(EventNames)
  BY DEF TypeOK
<1>2. events'[u] = IF u = t THEN events[u] \o es ELSE events[u]
  BY DEF TypeOK, Publish
<1>3. Len(events[u]) \in Nat /\ Len(events[u] \o es) = Len(events[u]) + Len(es)
  BY <1>1
<1>4. CASE u = t
  BY <1>2, <1>3, <1>4
<1>5. CASE u # t
  BY <1>2, <1>3, <1>5
<1> QED
  BY <1>4, <1>5

Bursts == {<<"run_result">>, <<"batch_ready">>, <<"batch_ready", "done">>, <<"done">>,
           <<"diag_started">>, <<"diagnostic_done", "done">>, <<"diag_failed", "done">>}

(* What a step may publish is at most two events.                          *)
LEMMA BurstTypes == \A es \in Bursts : es \in Seq(EventNames) /\ Len(es) \in 0..2
<1>1. \A e, f \in EventNames : /\ <<e>> \in Seq(EventNames) /\ Len(<<e>>) = 1
                               /\ <<e, f>> \in Seq(EventNames) /\ Len(<<e, f>>) = 2
  OBVIOUS
<1>2. {"run_result", "batch_ready", "done", "diag_started", "diagnostic_done", "diag_failed"}
        \subseteq EventNames
  BY DEF EventNames
<1>3. 1 \in 0..2 /\ 2 \in 0..2
  OBVIOUS
<1> QED
  BY <1>1, <1>2, <1>3, Zenon DEF Bursts

(* A step of the task runs appends at most two events to each channel, and *)
(* takes nothing back.                                                     *)
LEMMA StepGrows ==
    ASSUME TypeOK, [Next]_vars
    PROVE  \A u \in Runs : Len(events'[u]) - Len(events[u]) \in 0..2
<1>1. CASE events' = events
  <2>1. \A u \in Runs : Len(events[u]) - Len(events[u]) \in 0..2
    BY DEF TypeOK
  <2> QED
    BY <1>1, <2>1, Zenon
<1>2. ASSUME NEW t \in Runs,
             \/ ScriptEnds(t) \/ Announces(t) \/ TestAnnounces(t) \/ DiagnosisStarts(t)
             \/ DiagnosisConcludes(t) \/ DiagnosisFails(t) \/ DiagnosisRaises(t)
      PROVE  \A u \in Runs : Len(events'[u]) - Len(events[u]) \in 0..2
  <2>1. \E es \in Bursts : Publish(t, es)
    BY <1>2 DEF Bursts, ScriptEnds, Announces, TestAnnounces, DiagnosisStarts,
                DiagnosisConcludes, DiagnosisFails, DiagnosisRaises
  <2> QED
    BY <2>1, BurstTypes, PublishGrows
<1>3. \/ events' = events
      \/ \E t \in Runs :
           \/ ScriptEnds(t) \/ Announces(t) \/ TestAnnounces(t) \/ DiagnosisStarts(t)
           \/ DiagnosisConcludes(t) \/ DiagnosisFails(t) \/ DiagnosisRaises(t)
  BY DEF Next, Executes, vars, Trigger, RequestCommits, RequestFails, DoneCallback, TestStarts,
         CancelReads, CancelAccepted, CancelRefused, Restart, MissesRow, FindsNoTask,
         FindsNoScript, LoadsScripts, Raises, ReturnsEarly, Stores, DiagnosisStores, Ends
<1> QED
  BY <1>1, <1>2, <1>3

-----------------------------------------------------------------------------
(* Type correctness. *)

LEMMA PutTypes ==
    ASSUME NEW q \in Seq(Nat), NEW i \in Nat, Len(q) <= QueueSize
    PROVE  Put(q, i) \in Seq(Nat) /\ Len(Put(q, i)) <= QueueSize
  BY StreamAssumption DEF Put

(* publish keeps a queue a sequence of numbers within its limit.           *)
LEMMA PutAllTypes ==
    ASSUME NEW q \in Seq(Nat), NEW n \in Nat, NEW k, Len(q) <= QueueSize
    PROVE  PutAll(q, n, k) \in Seq(Nat) /\ Len(PutAll(q, n, k)) <= QueueSize
<1>1. Put(q, n + 1) \in Seq(Nat) /\ Len(Put(q, n + 1)) <= QueueSize
  BY PutTypes
<1>2. Put(Put(q, n + 1), n + 2) \in Seq(Nat) /\ Len(Put(Put(q, n + 1), n + 2)) <= QueueSize
  BY <1>1, PutTypes
<1> QED
  BY <1>1, <1>2 DEF PutAll

(* The channel that a page watches is a sequence of events.                *)
LEMMA ToldTypes ==
    ASSUME TypeOK, StreamTypeOK, NEW b \in Boards
    PROVE  /\ page[b].of \in Runs /\ Told(b) \in Seq(EventNames) /\ Len(Told(b)) \in Nat
           /\ Stored(b) \in Statuses
  BY DEF TypeOK, StreamTypeOK, Pages, Told, Stored, Rows

(* A change of the stream of one page keeps the types.                     *)
LEMMA StreamUpdateTypes ==
    ASSUME StreamTypeOK, NEW b \in Boards, NEW s \in Streams, Len(s.queue) <= QueueSize,
           stream' = [stream EXCEPT ![b] = s],
           page' \in [Boards -> Pages], breaks' \in 0..MaxBreaks
    PROVE  StreamTypeOK'
<1>1. stream' \in [Boards -> Streams]
  BY DEF StreamTypeOK
<1>2. ASSUME NEW c \in Boards
      PROVE  Len(stream'[c].queue) <= QueueSize
  <2>1. CASE c = b
    BY <2>1 DEF StreamTypeOK
  <2>2. CASE c # b
    <3>1. stream'[c] = stream[c]
      BY <2>2 DEF StreamTypeOK
    <3> QED
      BY <3>1 DEF StreamTypeOK
  <2> QED
    BY <2>1, <2>2
<1> QED
  BY <1>1, <1>2 DEF StreamTypeOK

(* Every variable keeps its type, and no queue grows beyond its limit.     *)
THEOREM StreamTypeCorrect == StreamSpec => []StreamTypeOK
<1>1. StreamInit => StreamTypeOK
  <2> SUFFICES ASSUME StreamInit
               PROVE  StreamTypeOK
    OBVIOUS
  <2>1. <<>> \in Seq(Nat) /\ Len(<<>>) = 0
    OBVIOUS
  <2> QED
    <3>1. [open |-> FALSE, from |-> 0, queue |-> <<>>, got |-> <<>>] \in Streams
      BY <2>1 DEF Streams
    <3>2. stream \in [Boards -> Streams] /\ \A b \in Boards : Len(stream[b].queue) <= QueueSize
      BY <2>1, <3>1, StreamAssumption DEF StreamInit
    <3>3. page \in [Boards -> Pages]
      <4>1. \A t \in Runs : [of |-> t, pc |-> "away", shown |-> "absent", timer |-> FALSE] \in Pages
        BY DEF Pages, Statuses
      <4> QED
        BY <4>1, Zenon DEF StreamInit
    <3> QED
      BY <3>2, <3>3, StreamAssumption DEF StreamInit, StreamTypeOK
<1>2. TypeOK /\ StreamTypeOK /\ [StreamNext]_svars => StreamTypeOK'
  <2> SUFFICES ASSUME TypeOK, StreamTypeOK, [StreamNext]_svars
               PROVE  StreamTypeOK'
    OBVIOUS
  <2>0. ASSUME NEW b \in Boards
        PROVE  /\ stream[b] \in Streams /\ page[b] \in Pages
               /\ Len(stream[b].queue) <= QueueSize /\ Stored(b) \in Statuses
    BY ToldTypes DEF StreamTypeOK
  <2>1. CASE Publishes /\ UNCHANGED <<page, breaks>>
    <3>1. ASSUME NEW b \in Boards
          PROVE  stream'[b] \in Streams /\ Len(stream'[b].queue) <= QueueSize
      <4> DEFINE k == Len(events'[page[b].of]) - Len(Told(b))
                 q == PutAll(stream[b].queue, Len(Told(b)), k)
      <4>1. q \in Seq(Nat) /\ Len(q) <= QueueSize
        BY <2>0, ToldTypes, PutAllTypes DEF Streams
      <4>2. [stream[b] EXCEPT !.queue = q] \in Streams
        BY <2>0, <4>1 DEF Streams
      <4>3. stream'[b] = IF stream[b].open THEN [stream[b] EXCEPT !.queue = q] ELSE stream[b]
        BY <2>1 DEF Publishes
      <4> HIDE DEF q
      <4>4. [stream[b] EXCEPT !.queue = q].queue = q
        BY <2>0 DEF Streams
      <4> QED
        BY <2>0, <4>1, <4>2, <4>3, <4>4
    <3>2. stream' \in [Boards -> Streams]
      BY <2>1, <3>1 DEF Publishes
    <3> QED
      BY <2>1, <3>1, <3>2 DEF StreamTypeOK
  <2>2. CASE LosesStreams
    <3>1. ASSUME NEW b \in Boards
          PROVE  /\ [stream[b] EXCEPT !.open = FALSE] \in Streams
                 /\ [stream[b] EXCEPT !.open = FALSE].queue = stream[b].queue
                 /\ [page[b] EXCEPT !.pc = "opening", !.timer = TRUE] \in Pages
      BY <2>0 DEF Streams, Pages
    <3>2. stream' \in [Boards -> Streams] /\ page' \in [Boards -> Pages] /\ breaks' = breaks
      BY <2>0, <2>2, <3>1 DEF LosesStreams
    <3>3. \A b \in Boards : stream'[b].queue = stream[b].queue
      BY <2>2, <3>1 DEF LosesStreams
    <3> QED
      BY <2>0, <3>2, <3>3 DEF StreamTypeOK
  <2>3. ASSUME NEW b \in Boards, Mounts(b) \/ Reloads(b) \/ FallsBack(b)
        PROVE  StreamTypeOK'
    <3>1. UNCHANGED <<stream, breaks>>
      BY <2>3 DEF Mounts, Reloads, FallsBack
    <3>2. page' \in [Boards -> Pages]
      <4> DEFINE pc == IF Stored(b) = "RUNNING" THEN "opening" ELSE "settled"
      <4>1. CASE Mounts(b)
        <5>1. [page[b] EXCEPT !.shown = Stored(b), !.pc = pc] \in Pages
          BY <2>0 DEF Pages
        <5>2. page' = [page EXCEPT ![b] = [page[b] EXCEPT !.shown = Stored(b), !.pc = pc]]
          BY <4>1 DEF Mounts, StreamTypeOK
        <5> QED
          BY <5>1, <5>2 DEF StreamTypeOK
      <4>2. CASE Reloads(b)
        BY <2>0, <4>2 DEF Reloads, StreamTypeOK, Pages
      <4>3. CASE FallsBack(b)
        BY <2>0, <4>3 DEF FallsBack, StreamTypeOK, Pages
      <4> QED
        BY <2>3, <4>1, <4>2, <4>3
    <3>3. stream' = stream /\ breaks' = breaks
      BY <3>1
    <3>4. stream' \in [Boards -> Streams] /\ breaks' \in 0..MaxBreaks
      BY <3>3 DEF StreamTypeOK
    <3>5. \A c \in Boards : Len(stream'[c].queue) <= QueueSize
      BY <2>0, <3>3
    <3> QED
      BY <3>2, <3>4, <3>5 DEF StreamTypeOK
  <2>4. ASSUME NEW b \in Boards, Opens(b)
        PROVE  StreamTypeOK'
    <3>1. [open |-> TRUE, from |-> Len(Told(b)), queue |-> <<>>, got |-> <<>>] \in Streams
      BY ToldTypes DEF Streams
    <3>2. page' \in [Boards -> Pages]
      BY <2>0, <2>4 DEF Opens, StreamTypeOK, Pages
    <3> QED
      <4>1. Len(<<>>) <= QueueSize
        BY StreamAssumption
      <4>2. breaks' \in 0..MaxBreaks
        BY <2>4 DEF Opens, StreamTypeOK
      <4> QED
        BY <2>4, <3>1, <3>2, <4>1, <4>2, StreamUpdateTypes DEF Opens
  <2>5. ASSUME NEW b \in Boards, TakesEvent(b) \/ TakesDone(b)
        PROVE  StreamTypeOK'
    <3>1. Sent(b) \in Streams /\ Len(Sent(b).queue) <= QueueSize
      <4>1. stream[b].queue # <<>> /\ stream[b].queue \in Seq(Nat) /\ stream[b].got \in Seq(Nat)
        BY <2>0, <2>5 DEF TakesEvent, TakesDone, Streams
      <4>2. /\ Head(stream[b].queue) \in Nat /\ Tail(stream[b].queue) \in Seq(Nat)
            /\ Len(Tail(stream[b].queue)) = Len(stream[b].queue) - 1
            /\ Len(stream[b].queue) \in Nat
        BY <4>1
      <4>3. Append(stream[b].got, Head(stream[b].queue)) \in Seq(Nat)
        BY <4>1, <4>2
      <4>4. Len(Tail(stream[b].queue)) <= QueueSize
        BY <2>0, <4>2, StreamAssumption
      <4> QED
        BY <2>0, <4>2, <4>3, <4>4 DEF Sent, Streams
    <3>2. \/ stream' = [stream EXCEPT ![b] = Sent(b)]
          \/ stream' = [stream EXCEPT ![b] = [Sent(b) EXCEPT !.open = FALSE]]
      BY <2>5 DEF TakesEvent, TakesDone
    <3>3. /\ [Sent(b) EXCEPT !.open = FALSE] \in Streams
          /\ [Sent(b) EXCEPT !.open = FALSE].queue = Sent(b).queue
      BY <3>1 DEF Streams
    <3>4. page' \in [Boards -> Pages] /\ breaks' = breaks
      <4>1. [page[b] EXCEPT !.pc = "reloading", !.shown = "DONE"] \in Pages
        BY <2>0 DEF Pages, Statuses, Terminal
      <4>2. /\ breaks' = breaks
            /\ \/ page' = page
               \/ page' = [page EXCEPT ![b] = [page[b] EXCEPT !.pc = "reloading", !.shown = "DONE"]]
        BY <2>5 DEF TakesEvent, TakesDone
      <4> QED
        BY <4>1, <4>2 DEF StreamTypeOK
    <3> QED
      <4>1. breaks' \in 0..MaxBreaks
        BY <3>4 DEF StreamTypeOK
      <4> QED
        BY <3>1, <3>2, <3>3, <3>4, <4>1, StreamUpdateTypes
  <2>6. ASSUME NEW b \in Boards, Breaks(b) \/ Leaves(b)
        PROVE  StreamTypeOK'
    <3> DEFINE s == [stream[b] EXCEPT !.open = FALSE]
    <3>1. s \in Streams /\ s.queue = stream[b].queue /\ stream' = [stream EXCEPT ![b] = s]
      <4>1. s \in Streams /\ s.queue = stream[b].queue
        BY <2>0 DEF Streams
      <4> QED
        BY <2>6, <4>1 DEF Breaks, Leaves, Unsubscribes
    <3>2. page' \in [Boards -> Pages]
      BY <2>0, <2>6 DEF Breaks, Leaves, StreamTypeOK, Pages, Statuses
    <3>3. breaks' \in 0..MaxBreaks
      BY <2>6, StreamAssumption DEF Breaks, Leaves, StreamTypeOK
    <3> QED
      BY <2>0, <3>1, <3>2, <3>3, StreamUpdateTypes
  <2>7. CASE UNCHANGED svars
    BY <2>7 DEF svars, StreamTypeOK
  <2> QED
    BY <2>1, <2>2, <2>3, <2>4, <2>5, <2>6, <2>7 DEF StreamNext, Watches
<1> QED
  BY <1>1, <1>2, ComposesTaskRuns, TypeCorrect, PTL DEF StreamSpec

-----------------------------------------------------------------------------
(* What is delivered. *)

LEMMA OnePut ==
    ASSUME NEW from \in Nat, NEW n \in Nat, NEW got \in Seq(Nat), NEW q \in Seq(Nat),
           Ordered(from, got \o q, n), Complete(from, got \o q, n)
    PROVE  /\ Ordered(from, got \o Put(q, n + 1), n + 1)
           /\ Complete(from, got \o Put(q, n + 1), n + 1)
<1> DEFINE g == got \o q
<1>0. Ordered(from, g, n) /\ Complete(from, g, n)
  OBVIOUS
<1>1. g \in Seq(Nat) /\ Len(g) \in Nat /\ Len(g) >= Len(q) /\ Len(q) \in Nat
  OBVIOUS
<1>2. CASE Len(q) < QueueSize
  <2> DEFINE h == Append(g, n + 1)
  <2>1. got \o Put(q, n + 1) = h
    BY <1>2 DEF Put
  <2>2. /\ h \in Seq(Nat) /\ Len(h) = Len(g) + 1 /\ h[Len(g) + 1] = n + 1
        /\ \A i \in 1..Len(g) : h[i] = g[i]
    BY <1>1
  <2> HIDE DEF g, h
  <2>3. Len(g) + from <= n
    BY <1>0 DEF Ordered
  <2>a. /\ \A i \in 1..Len(g) : g[i] > from /\ g[i] <= n /\ g[i] \in Nat
        /\ \A i, j \in 1..Len(g) : i < j => g[i] < g[j]
    BY <1>0, <1>1 DEF Ordered
  <2>4. Ordered(from, h, n + 1)
    <3>1. ASSUME NEW i \in 1..Len(h)
          PROVE  h[i] > from /\ h[i] <= n + 1
      <4>1. CASE i = Len(g) + 1
        BY <1>1, <2>2, <2>3, <4>1
      <4>2. CASE i \in 1..Len(g)
        <5>1. g[i] > from /\ g[i] <= n /\ g[i] \in Nat /\ h[i] = g[i]
          BY <2>2, <2>a, <4>2
        <5> QED
          BY <5>1
      <4> QED
        BY <1>1, <2>2, <4>1, <4>2
    <3>2. ASSUME NEW i \in 1..Len(h), NEW j \in 1..Len(h), i < j
          PROVE  h[i] < h[j]
      <4>1. i \in 1..Len(g) /\ g[i] <= n /\ g[i] \in Nat /\ h[i] = g[i]
        <5>1. i \in 1..Len(g)
          BY <1>1, <2>2, <3>2
        <5>2. g[i] <= n /\ g[i] \in Nat
          BY <2>a, <5>1
        <5> QED
          BY <2>2, <5>1, <5>2
      <4>2. CASE j = Len(g) + 1
        BY <2>2, <4>1, <4>2
      <4>3. CASE j \in 1..Len(g)
        BY <2>2, <2>a, <3>2, <4>1, <4>3
      <4> QED
        BY <1>1, <2>2, <4>2, <4>3
    <3> QED
      BY <1>1, <2>2, <2>3, <3>1, <3>2 DEF Ordered
  <2>5. Complete(from, h, n + 1)
    <3> SUFFICES ASSUME NEW k \in 1..QueueSize, from + k <= n + 1
                 PROVE  k <= Len(h) /\ h[k] = from + k
      BY <1>0 DEF Complete
    <3> USE StreamAssumption
    <3>1. CASE from + k <= n
      <4>1. k <= Len(g) /\ g[k] = from + k
        BY <1>0, <3>1 DEF Complete
      <4> QED
        BY <1>1, <2>2, <4>1
    <3>2. CASE from + k = n + 1
      <4>1. CASE k = 1
        <5>1. Len(g) = 0
          BY <1>1, <2>3, <3>2, <4>1
        <5> QED
          BY <2>2, <3>2, <4>1, <5>1
      <4>2. CASE k > 1
        <5>1. k - 1 \in 1..QueueSize /\ from + (k - 1) <= n
          BY <3>2, <4>2
        <5>2. k - 1 <= Len(g)
          BY <1>0, <5>1 DEF Complete
        <5>3. Len(g) = k - 1
          BY <1>1, <2>3, <3>2, <5>2
        <5> QED
          BY <2>2, <3>2, <5>3
      <4> QED
        BY <4>1, <4>2
    <3> QED
      BY <3>1, <3>2
  <2> QED
    BY <2>1, <2>4, <2>5
<1>3. CASE ~(Len(q) < QueueSize)
  <2>1. got \o Put(q, n + 1) = g
    BY <1>3 DEF Put
  <2>2. Len(g) >= QueueSize
    BY <1>1, <1>3, StreamAssumption
  <2> HIDE DEF g
  <2>3. Ordered(from, g, n + 1)
    <3>1. \A i \in 1..Len(g) : g[i] \in Nat
      BY <1>1
    <3> QED
      BY <1>0, <1>1, <3>1 DEF Ordered
  <2>4. Complete(from, g, n + 1)
    <3> SUFFICES ASSUME NEW k \in 1..QueueSize, from + k <= n + 1
                 PROVE  k <= Len(g) /\ g[k] = from + k
      BY <1>0 DEF Complete
    <3>1. Len(g) + from <= n
      BY <1>0 DEF Ordered
    <3>2. from + k <= n
      BY <1>1, <2>2, <3>1, StreamAssumption
    <3> QED
      BY <1>0, <3>2 DEF Complete
  <2> QED
    BY <2>1, <2>3, <2>4
<1> QED
  BY <1>2, <1>3

(* What is in order stays in order when the channel grows.                 *)
LEMMA LaterOrdered ==
    ASSUME NEW from \in Nat, NEW n \in Nat, NEW m \in Nat, n <= m, NEW g \in Seq(Nat),
           Ordered(from, g, n)
    PROVE  Ordered(from, g, m)
<1>1. \A i \in 1..Len(g) : g[i] \in Nat
  OBVIOUS
<1> QED
  BY <1>1 DEF Ordered

(* The events of one step leave what a page has got and will get in order, *)
(* and complete up to the size of the queue.                               *)
LEMMA AllPut ==
    ASSUME NEW from \in Nat, NEW n \in Nat, NEW k \in 0..2, NEW got \in Seq(Nat),
           NEW q \in Seq(Nat), Len(q) <= QueueSize,
           Ordered(from, got \o q, n), Complete(from, got \o q, n)
    PROVE  /\ Ordered(from, got \o PutAll(q, n, k), n + k)
           /\ Complete(from, got \o PutAll(q, n, k), n + k)
<1> DEFINE q1 == Put(q, n + 1)
<1>1. Ordered(from, got \o q1, n + 1) /\ Complete(from, got \o q1, n + 1)
  BY OnePut
<1>2. q1 \in Seq(Nat)
  BY PutTypes
<1>3. Ordered(from, got \o Put(q1, n + 2), n + 2) /\ Complete(from, got \o Put(q1, n + 2), n + 2)
  <2> HIDE DEF q1
  <2>1. (n + 1) + 1 = n + 2
    OBVIOUS
  <2>2. /\ Ordered(from, got \o Put(q1, (n + 1) + 1), (n + 1) + 1)
        /\ Complete(from, got \o Put(q1, (n + 1) + 1), (n + 1) + 1)
    BY <1>1, <1>2, OnePut
  <2> QED
    BY <2>1, <2>2, Zenon
<1>4. CASE k = 0
  <2>1. n + k = n
    BY <1>4
  <2> QED
    BY <1>4, <2>1 DEF PutAll
<1>5. CASE k = 1
  BY <1>1, <1>5 DEF PutAll
<1>6. CASE k = 2
  BY <1>3, <1>6 DEF PutAll
<1> QED
  BY <1>4, <1>5, <1>6

(* Taking an event moves it from the queue to what was got. *)
LEMMA TakeMoves ==
    ASSUME NEW got \in Seq(Nat), NEW q \in Seq(Nat), q # <<>>
    PROVE  Append(got, Head(q)) \o Tail(q) = got \o q
<1> DEFINE l == Append(got, Head(q)) \o Tail(q)
           r == got \o q
<1>1. Head(q) = q[1] /\ Head(q) \in Nat /\ Tail(q) \in Seq(Nat) /\ Len(q) \in Nat /\ Len(q) > 0
  OBVIOUS
<1>2. Append(got, Head(q)) \in Seq(Nat)
  BY <1>1
<1>3. l \in Seq(Nat) /\ r \in Seq(Nat) /\ Len(l) = Len(r)
  BY <1>1, <1>2
<1>4. ASSUME NEW i \in 1..Len(l)
      PROVE  l[i] = r[i]
  BY <1>1, <1>2
<1> QED
  BY <1>3, <1>4, SeqEqual

(* Nothing published, and nothing added or lost.                          *)
LEMMA QueueKept ==
    ASSUME NEW b \in Boards, QueueInv(b), events' = events, page'[b].of = page[b].of,
           stream'[b].from = stream[b].from,
           stream'[b].got \o stream'[b].queue = stream[b].got \o stream[b].queue,
           stream'[b].open => stream[b].open
    PROVE  QueueInv(b)'
<1>1. Delivered(b)' = Delivered(b) /\ Told(b)' = Told(b)
  BY DEF Delivered, Told
<1> QED
  BY <1>1 DEF QueueInv

(* Every step keeps what is in order in order, and complete up to the size *)
(* of the queue.                                                           *)
LEMMA QueueStep ==
    ASSUME TypeOK, TypeOK', StreamTypeOK, [StreamNext]_svars, NEW b \in Boards, QueueInv(b)
    PROVE  QueueInv(b)'
<1> DEFINE n == Len(Told(b))
           m == Len(events'[page[b].of])
<1>0. /\ page[b].of \in Runs /\ n \in Nat
      /\ stream[b].from \in Nat /\ stream[b].got \in Seq(Nat) /\ stream[b].queue \in Seq(Nat)
      /\ Len(stream[b].queue) <= QueueSize
  BY ToldTypes DEF StreamTypeOK, Streams
<1>1. page'[b].of = page[b].of
  <2>1. CASE UNCHANGED page
    BY <2>1
  <2>2. CASE LosesStreams
    BY <1>0, <2>2 DEF LosesStreams, StreamTypeOK, Pages
  <2>3. ASSUME NEW c \in Boards, Watches(c)
        PROVE  page'[b].of = page[b].of
    BY <2>3 DEF Watches, Mounts, Opens, TakesEvent, TakesDone, Reloads, Breaks, FallsBack, Leaves,
                StreamTypeOK, Pages
  <2> QED
    BY <2>1, <2>2, <2>3 DEF StreamNext, svars
<1>2. m - n \in 0..2
  BY <1>0, StreamStep, StepGrows DEF Told
<1>3. m \in Nat /\ n <= m /\ n + (m - n) = m /\ Len(Told(b))' = m
  <2>1. m \in Nat
    BY <1>0 DEF TypeOK
  <2> QED
    BY <1>0, <1>1, <1>2, <2>1 DEF Told
<1>4. CASE Publishes
  <2>1. CASE stream[b].open
    <3> DEFINE q == PutAll(stream[b].queue, n, m - n)
    <3>1. /\ stream'[b].from = stream[b].from /\ stream'[b].got = stream[b].got
          /\ stream'[b].queue = q
      BY <1>4, <2>1 DEF Publishes, StreamTypeOK, Streams
    <3>2. Ordered(stream[b].from, stream[b].got \o q, n + (m - n))
          /\ Complete(stream[b].from, stream[b].got \o q, n + (m - n))
      <4>1. Ordered(stream[b].from, stream[b].got \o stream[b].queue, n)
            /\ Complete(stream[b].from, stream[b].got \o stream[b].queue, n)
        BY <2>1 DEF QueueInv, Delivered
      <4> HIDE DEF n, m
      <4> QED
        BY <1>0, <1>2, <4>1, AllPut
    <3>3. Delivered(b)' = stream[b].got \o q
      BY <3>1 DEF Delivered
    <3> QED
      BY <1>3, <3>1, <3>2, <3>3, Zenon DEF QueueInv
  <2>2. CASE ~stream[b].open
    <3>1. stream'[b] = stream[b]
      BY <1>4, <2>2 DEF Publishes
    <3>2. Delivered(b) \in Seq(Nat)
      BY <1>0 DEF Delivered
    <3>3. Ordered(stream[b].from, Delivered(b), m)
      BY <1>0, <1>3, <3>2, LaterOrdered DEF QueueInv
    <3> QED
      BY <1>3, <2>2, <3>1, <3>3 DEF QueueInv, Delivered
  <2> QED
    BY <2>1, <2>2
<1>5. CASE Restart /\ LosesStreams
  <2>1. events' = events
    BY <1>5 DEF Restart
  <2>2. /\ stream'[b].from = stream[b].from /\ stream'[b].got = stream[b].got
        /\ stream'[b].queue = stream[b].queue /\ ~stream'[b].open
    BY <1>5 DEF LosesStreams, StreamTypeOK, Streams
  <2> QED
    BY <1>1, <2>1, <2>2, QueueKept
<1>6. ASSUME NEW c \in Boards, Watches(c)
      PROVE  QueueInv(b)'
  <2>1. events' = events
    BY <1>6 DEF Watches, vars
  <2>2. CASE stream'[b] = stream[b]
    BY <1>1, <2>1, <2>2, QueueKept
  <2>3. CASE c = b /\ Opens(c)
    <3>1. stream'[b] = [open |-> TRUE, from |-> n, queue |-> <<>>, got |-> <<>>]
      BY <2>3 DEF Opens, StreamTypeOK
    <3>2. stream'[b].from = n /\ Delivered(b)' = <<>>
      BY <3>1 DEF Delivered
    <3>3. Told(b)' = Told(b)
      BY <1>1, <2>1 DEF Told
    <3>4. Ordered(n, <<>>, n) /\ Complete(n, <<>>, n)
      BY <1>0, StreamAssumption DEF Ordered, Complete
    <3> QED
      BY <3>2, <3>3, <3>4 DEF QueueInv
  <2>4. CASE c = b /\ (TakesEvent(c) \/ TakesDone(c))
    <3>1. stream[b].queue # <<>>
      BY <2>4 DEF TakesEvent, TakesDone
    <3>2. /\ stream'[b].from = stream[b].from
          /\ stream'[b].got = Append(stream[b].got, Head(stream[b].queue))
          /\ stream'[b].queue = Tail(stream[b].queue)
          /\ stream[b].open
      <4>1. stream[b] \in Streams /\ stream[b].open
        BY <2>4 DEF TakesEvent, TakesDone, StreamTypeOK
      <4>2. stream'[b] \in {Sent(b), [Sent(b) EXCEPT !.open = FALSE]}
        BY <2>4 DEF TakesEvent, TakesDone, StreamTypeOK
      <4> QED
        BY <4>1, <4>2 DEF Sent, Streams
    <3>3. stream'[b].got \o stream'[b].queue = stream[b].got \o stream[b].queue
      BY <1>0, <3>1, <3>2, TakeMoves
    <3> QED
      BY <1>1, <2>1, <3>2, <3>3, QueueKept
  <2>5. CASE c = b /\ (Breaks(c) \/ Leaves(c))
    <3>1. /\ stream'[b].from = stream[b].from /\ stream'[b].got = stream[b].got
          /\ stream'[b].queue = stream[b].queue /\ ~stream'[b].open
      BY <2>5 DEF Breaks, Leaves, Unsubscribes, StreamTypeOK, Streams
    <3> QED
      BY <1>1, <2>1, <3>1, QueueKept
  <2>6. \/ stream'[b] = stream[b]
        \/ c = b /\ (Opens(c) \/ TakesEvent(c) \/ TakesDone(c) \/ Breaks(c) \/ Leaves(c))
    <3>1. CASE Mounts(c) \/ Reloads(c) \/ FallsBack(c)
      <4>1. stream' = stream
        BY <3>1 DEF Mounts, Reloads, FallsBack
      <4>2. stream'[b] = stream[b]
        BY <4>1
      <4> QED
        BY <4>2
    <3>2. CASE c # b
      <4>1. CASE Opens(c)
        BY <3>2, <4>1 DEF Opens, StreamTypeOK
      <4>2. CASE TakesEvent(c) \/ TakesDone(c)
        BY <3>2, <4>2 DEF TakesEvent, TakesDone, StreamTypeOK
      <4>3. CASE Breaks(c) \/ Leaves(c)
        BY <3>2, <4>3 DEF Breaks, Leaves, Unsubscribes, StreamTypeOK
      <4> QED
        BY <1>6, <3>1, <4>1, <4>2, <4>3 DEF Watches
    <3> QED
      BY <1>6, <3>1, <3>2 DEF Watches
  <2> QED
    BY <2>2, <2>3, <2>4, <2>5, <2>6
<1>7. CASE UNCHANGED svars
  <2>1. events' = events /\ stream' = stream
    BY <1>7 DEF svars, vars
  <2> QED
    BY <1>1, <2>1, QueueKept
<1> QED
  BY <1>4, <1>5, <1>6, <1>7 DEF StreamNext

(* What is in a queue, or was in it, is what was published since the page  *)
(* subscribed, up to QueueSize events at least.                            *)
THEOREM QueuesHold == StreamSpec => [](\A b \in Boards : QueueInv(b))
<1>1. StreamInit => \A b \in Boards : QueueInv(b)
  <2> SUFFICES ASSUME StreamInit, NEW b \in Boards
               PROVE  QueueInv(b)
    OBVIOUS
  <2>1. stream[b] = [open |-> FALSE, from |-> 0, queue |-> <<>>, got |-> <<>>]
    BY DEF StreamInit
  <2>2. Told(b) = <<>>
    BY DEF StreamInit, Init, Told
  <2>3. Delivered(b) = <<>> /\ stream[b].from = 0 /\ ~stream[b].open
    BY <2>1 DEF Delivered
  <2>4. Len(<<>>) = 0
    OBVIOUS
  <2> QED
    BY <2>2, <2>3, <2>4 DEF QueueInv, Ordered
<1>2. TypeOK /\ TypeOK' /\ StreamTypeOK /\ (\A b \in Boards : QueueInv(b)) /\ [StreamNext]_svars
        => (\A b \in Boards : QueueInv(b))'
  BY QueueStep
<1> QED
  BY <1>1, <1>2, ComposesTaskRuns, TypeCorrect, StreamTypeCorrect, PTL DEF StreamSpec

(* Events arrive in order, each once, none from before the subscription.   *)
THEOREM EventsArriveInOrder == StreamSpec => []InOrderOnce
<1>1. StreamTypeOK /\ (\A b \in Boards : QueueInv(b)) => InOrderOnce
  <2> SUFFICES ASSUME StreamTypeOK, NEW b \in Boards, QueueInv(b)
               PROVE  /\ \A i \in DOMAIN Delivered(b) :
                           Delivered(b)[i] > stream[b].from /\ Delivered(b)[i] <= Len(Told(b))
                      /\ \A i, j \in DOMAIN Delivered(b) :
                           i < j => Delivered(b)[i] < Delivered(b)[j]
    BY DEF InOrderOnce
  <2>1. Delivered(b) \in Seq(Nat)
    BY DEF Delivered, StreamTypeOK, Streams
  <2>2. DOMAIN Delivered(b) = 1..Len(Delivered(b))
    BY <2>1
  <2> QED
    BY <2>2 DEF QueueInv, Ordered
<1> QED
  BY <1>1, StreamTypeCorrect, QueuesHold, PTL

(* However slow its page, an open stream has the first QueueSize events.   *)
THEOREM FirstEventsArrive == StreamSpec => []FirstEventsKept
<1>1. StreamTypeOK /\ (\A b \in Boards : QueueInv(b)) => FirstEventsKept
  <2> SUFFICES ASSUME StreamTypeOK, NEW b \in Boards, QueueInv(b), stream[b].open,
                      NEW k \in 1..QueueSize, stream[b].from + k <= Len(Told(b))
               PROVE  k \in DOMAIN Delivered(b) /\ Delivered(b)[k] = stream[b].from + k
    BY DEF FirstEventsKept
  <2>1. Delivered(b) \in Seq(Nat)
    BY DEF Delivered, StreamTypeOK, Streams
  <2> QED
    BY <2>1, StreamAssumption DEF QueueInv, Complete
<1> QED
  BY <1>1, StreamTypeCorrect, QueuesHold, PTL

-----------------------------------------------------------------------------
(* What the page shows. *)

(* A stored end of a run is final. *)
LEMMA StatusFinal ==
    ASSUME TypeOK, IInv, [Next]_vars, NEW t \in Runs, row[t].status \in Terminal
    PROVE  row'[t].status = row[t].status
<1>0. RunInv(t) /\ row \in [Runs -> Rows] /\ row[t] \in Rows
  BY DEF IInv, TypeOK
<1>1. CASE row' = row
  BY <1>1
<1>2. ASSUME NEW u \in Runs, RequestCommits(u)
      PROVE  row'[t].status = row[t].status
  <2>1. CASE u = t
    BY <1>0, <1>2, <2>1 DEF RequestCommits, RunInv, RequestInv, Terminal
  <2>2. CASE u # t
    BY <1>0, <1>2, <2>2 DEF RequestCommits
  <2> QED
    BY <2>1, <2>2
<1>3. ASSUME NEW u \in Runs, ReturnsEarly(u) \/ Stores(u)
      PROVE  row'[t].status = row[t].status
  <2>1. u # t
    BY <1>0, <1>3 DEF ReturnsEarly, Stores, At, RunInv, RowInv, Unstored, Pending, Terminal
  <2> QED
    BY <1>0, <1>3, <2>1 DEF ReturnsEarly, Stores
<1>4. ASSUME NEW u \in Runs, DiagnosisStores(u)
      PROVE  row'[t].status = row[t].status
  BY <1>0, <1>4 DEF DiagnosisStores, Rows
<1>5. \/ row' = row
      \/ \E u \in Runs : RequestCommits(u) \/ ReturnsEarly(u) \/ Stores(u) \/ DiagnosisStores(u)
  BY DEF Next, Executes, vars, Trigger, RequestFails, DoneCallback, TestStarts,
         CancelReads, CancelAccepted, CancelRefused, Restart, MissesRow, FindsNoTask,
         FindsNoScript, LoadsScripts, ScriptEnds, Raises, Announces, TestAnnounces,
         DiagnosisStarts, DiagnosisConcludes, DiagnosisFails, DiagnosisRaises, Ends
<1> QED
  BY <1>1, <1>2, <1>3, <1>4, <1>5

ShownInv(b) ==
    page[b].shown \in Terminal /\ page[b].pc # "reloading" => page[b].shown = Stored(b)

(* Every step keeps the final status on a page the stored one.             *)
LEMMA ShownStep ==
    ASSUME TypeOK, IInv, StreamTypeOK, [StreamNext]_svars, NEW b \in Boards, ShownInv(b)
    PROVE  ShownInv(b)'
<1>0. page[b] \in Pages /\ page[b].of \in Runs /\ page \in [Boards -> Pages]
  BY DEF StreamTypeOK, Pages
<1>1. Stored(b) \in Terminal => row'[page[b].of].status = Stored(b)
  BY <1>0, StreamStep, StatusFinal DEF Stored
<1>2. ASSUME page'[b].of = page[b].of, page'[b].shown = page[b].shown,
             page'[b].pc = "reloading" \/ page[b].pc # "reloading"
      PROVE  ShownInv(b)'
  BY <1>1, <1>2 DEF ShownInv, Stored
<1>3. ASSUME page'[b].of = page[b].of, page'[b].shown = Stored(b), row' = row
      PROVE  ShownInv(b)'
  BY <1>3 DEF ShownInv, Stored
<1>4. CASE UNCHANGED page
  BY <1>2, <1>4
<1>5. CASE LosesStreams
  BY <1>0, <1>2, <1>5 DEF LosesStreams, Pages
<1>6. ASSUME NEW c \in Boards, Watches(c)
      PROVE  ShownInv(b)'
  <2>0. row' = row
    BY <1>6 DEF Watches, vars
  <2>1. CASE page'[b] = page[b]
    BY <1>2, <2>1
  <2>2. CASE c = b /\ (Mounts(c) \/ Reloads(c) \/ FallsBack(c))
    BY <1>0, <1>3, <2>0, <2>2 DEF Mounts, Reloads, FallsBack, Pages
  <2>3. CASE c = b /\ (Opens(c) \/ Breaks(c))
    BY <1>0, <1>2, <2>3 DEF Opens, Breaks, Pages
  <2>4. CASE c = b /\ TakesDone(c)
    <3>1. page'[b].pc = "reloading"
      BY <1>0, <2>4 DEF TakesDone, Pages
    <3> QED
      BY <3>1 DEF ShownInv
  <2>5. CASE c = b /\ Leaves(c)
    <3>1. page'[b].shown = "absent"
      BY <1>0, <2>5 DEF Leaves, Pages
    <3> QED
      BY <3>1 DEF ShownInv, Terminal
  <2>6. CASE c # b
    <3>1. page'[b] = page[b]
      BY <1>0, <1>6, <2>6 DEF Watches, Mounts, Opens, TakesEvent, TakesDone, Reloads, Breaks,
                              FallsBack, Leaves
    <3> QED
      BY <1>2, <3>1
  <2> QED
    BY <1>6, <2>1, <2>2, <2>3, <2>4, <2>5, <2>6 DEF Watches, TakesEvent
<1> QED
  BY <1>4, <1>5, <1>6 DEF StreamNext, svars

(* The final status on a page is the stored one.                           *)
THEOREM PageTellsTheTruth == StreamSpec => []ShownIsStored
<1>1. StreamInit => \A b \in Boards : ShownInv(b)
  BY DEF StreamInit, ShownInv, Terminal
<1>2. TypeOK /\ IInv /\ StreamTypeOK /\ (\A b \in Boards : ShownInv(b)) /\ [StreamNext]_svars
        => (\A b \in Boards : ShownInv(b))'
  BY ShownStep
<1>3. (\A b \in Boards : ShownInv(b)) => ShownIsStored
  BY DEF ShownInv, ShownIsStored
<1> QED
  BY <1>1, <1>2, <1>3, ComposesTaskRuns, TypeCorrect, Inductive, StreamTypeCorrect, PTL
     DEF StreamSpec
=============================================================================
