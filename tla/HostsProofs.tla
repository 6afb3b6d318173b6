---------------------------- MODULE HostsProofs ----------------------------
(***************************************************************************)
(* Theorems about the calls to hosts and the rows of the hosts, for any    *)
(* scripts, requests and limits, and any number of broken connections: the *)
(* channel keeps the promise that the engine relies on, no script outlives *)
(* a patient caller, and a deleted host stays deleted.                     *)
(***************************************************************************)
EXTENDS Hosts, TLAPS

ClientStates == [pc : {"idle", "opening", "calling", "closing", "sleeping", "over"},
                 attempt : 1..Retries,
                 waited : 0..CallTimeout,
                 answer : {"none", "exit", "timed_out", "pong", "error"}]
ScriptStates == [pc : {"none", "queued", "running", "ended", "killed", "refused"},
                 ran : 0..ScriptTimeout,
                 late : BOOLEAN,
                 noisy : BOOLEAN]

(* Only a call that may be tried again sleeps.                             *)
SleepInv(c) == call[c].pc = "sleeping" => call[c].attempt < Attempts(c)

(* A script is asked for once, and only by a call that has been opened.    *)
OnceInv(r) ==
    /\ call[r].pc \in {"idle", "opening"} => r \notin sent /\ script[r].pc = "none"
    /\ r \in sent => script[r].pc = "none"

(* What the caller has been answered is what happened to the script.       *)
TruthInv(r) ==
    call[r].pc \in {"closing", "over"} =>
        /\ call[r].answer \in {"exit", "timed_out", "error"}
        /\ call[r].answer = "exit" => script[r].pc = "ended"
        /\ call[r].answer = "timed_out" => script[r].pc = "killed"

(* The caller of a script that started in time has waited for less than    *)
(* the grace longer than the script has run.                               *)
PatienceInv(r) ==
    script[r].pc = "running" /\ ~script[r].late /\ cuts = 0 =>
        call[r].pc = "calling" /\ call[r].waited < Grace + script[r].ran

RunInv(r) == OnceInv(r) /\ TruthInv(r) /\ PatienceInv(r)

ChannelInv ==
    /\ ChannelTypeOK
    /\ \A c \in Calls : SleepInv(c)
    /\ \A r \in Runs : RunInv(r)

-----------------------------------------------------------------------------
(* Updates of one call or one script. *)

(* The limit of a call is a number of ticks. *)
LEMMA CallTimeoutType == CallTimeout \in Nat /\ CallTimeout >= ScriptTimeout
  BY ChannelAssumption DEF CallTimeout

(* A step of one call changes that call only.                              *)
LEMMA OneCall ==
    ASSUME ChannelTypeOK, NEW c \in Calls, NEW q \in ClientStates, call' = [call EXCEPT ![c] = q]
    PROVE  /\ call' \in [Calls -> ClientStates]
           /\ call'[c] = q
           /\ \A d \in Calls \ {c} : call'[d] = call[d]
  BY DEF ChannelTypeOK, ClientStates

(* A step of one script changes that script only.                          *)
LEMMA OneScript ==
    ASSUME ChannelTypeOK, NEW r \in Runs, NEW s \in ScriptStates,
           script' = [script EXCEPT ![r] = s]
    PROVE  /\ script' \in [Runs -> ScriptStates]
           /\ script'[r] = s
           /\ \A u \in Runs \ {r} : script'[u] = script[u]
  BY DEF ChannelTypeOK, ScriptStates

(* A failed attempt is followed by another or by the error; that of a      *)
(* script is the only one.                                                 *)
LEMMA FailedTypes ==
    ASSUME NEW q \in ClientStates, NEW c \in Calls
    PROVE  /\ Failed(q, c) \in ClientStates
           /\ Failed(q, c).pc \in {"sleeping", "over"}
           /\ Failed(q, c).pc = "sleeping" => Failed(q, c).attempt < Attempts(c)
           /\ c \in Runs => Failed(q, c).pc = "over" /\ Failed(q, c).answer = "error"
<1>1. CASE q.attempt < Attempts(c)
  <2>1. Failed(q, c) = [q EXCEPT !.pc = "sleeping", !.answer = "none"]
    BY <1>1 DEF Failed
  <2>2. c \notin Runs
    BY <1>1 DEF Attempts, ClientStates
  <2> QED
    BY <1>1, <2>1, <2>2 DEF ClientStates
<1>2. CASE ~(q.attempt < Attempts(c))
  <2>1. Failed(q, c) = [q EXCEPT !.pc = "over", !.answer = "error"]
    BY <1>2 DEF Failed
  <2> QED
    BY <2>1 DEF ClientStates
<1> QED
  BY <1>1, <1>2

(* What keeps the part of the invariant that speaks of one script: steps   *)
(* of other calls and other scripts.                                       *)
LEMMA RunLeftAlone ==
    ASSUME NEW r \in Runs, RunInv(r), call'[r] = call[r], script'[r] = script[r],
           r \in sent' <=> r \in sent, cuts' = 0 => cuts = 0
    PROVE  RunInv(r)'
  BY DEF RunInv, OnceInv, TruthInv, PatienceInv

(* A step of one call keeps the invariant if it keeps its own parts.       *)
LEMMA CallKeeps ==
    ASSUME ChannelInv, NEW c \in Calls, NEW q \in ClientStates, call' = [call EXCEPT ![c] = q],
           script' = script, sent' \subseteq Runs, cuts' \in 0..MaxCuts, cuts' = 0 => cuts = 0,
           \A r \in Runs \ {c} : r \in sent' <=> r \in sent,
           q.pc = "sleeping" => q.attempt < Attempts(c),
           c \in Runs => RunInv(c)'
    PROVE  ChannelInv'
<1>1. /\ call' \in [Calls -> ClientStates] /\ call'[c] = q
      /\ \A d \in Calls \ {c} : call'[d] = call[d]
  BY OneCall DEF ChannelInv
<1>2. ChannelTypeOK'
  BY <1>1 DEF ChannelInv, ChannelTypeOK, ClientStates
<1>3. ASSUME NEW d \in Calls
      PROVE  SleepInv(d)'
  BY <1>1 DEF ChannelInv, SleepInv, Attempts
<1>4. ASSUME NEW r \in Runs
      PROVE  RunInv(r)'
  <2>1. CASE r = c
    BY <2>1
  <2>2. CASE r # c
    BY <1>1, <2>2, RunLeftAlone DEF ChannelInv, Calls
  <2> QED
    BY <2>1, <2>2
<1> QED
  BY <1>2, <1>3, <1>4 DEF ChannelInv

(* A step of one script keeps the invariant if it keeps its own part.      *)
LEMMA ScriptKeeps ==
    ASSUME ChannelInv, NEW r \in Runs, NEW s \in ScriptStates, script' = [script EXCEPT ![r] = s],
           call' = call, cuts' = cuts, sent' \in {sent, sent \ {r}}, RunInv(r)'
    PROVE  ChannelInv'
<1>1. /\ script' \in [Runs -> ScriptStates] /\ script'[r] = s
      /\ \A u \in Runs \ {r} : script'[u] = script[u]
  BY OneScript DEF ChannelInv
<1>2. ChannelTypeOK'
  BY <1>1 DEF ChannelInv, ChannelTypeOK, ScriptStates
<1>3. \A c \in Calls : SleepInv(c)'
  BY DEF ChannelInv, SleepInv, Attempts
<1>4. ASSUME NEW u \in Runs
      PROVE  RunInv(u)'
  <2>1. CASE u # r
    BY <1>1, <2>1, RunLeftAlone DEF ChannelInv
  <2> QED
    BY <2>1
<1> QED
  BY <1>2, <1>3, <1>4 DEF ChannelInv

-----------------------------------------------------------------------------
(* The steps of the channel. *)

(* Every step of a client keeps the invariant.                             *)
LEMMA ClientStep ==
    ASSUME ChannelInv, NEW c \in Calls,
           \/ Begins(c) \/ Opened(c) \/ GivesUp(c) \/ Cut(c) \/ Answered(c)
           \/ Closes(c) \/ Wakes(c)
    PROVE  ChannelInv'
<1>0. /\ ChannelTypeOK /\ SleepInv(c) /\ (c \in Runs => RunInv(c) /\ script[c] \in ScriptStates)
      /\ call[c] \in ClientStates /\ sent \subseteq Runs /\ cuts \in 0..MaxCuts
      /\ MaxCuts \in Nat
  BY ChannelAssumption DEF ChannelInv, ChannelTypeOK, ClientStates, ScriptStates
<1> DEFINE F == Failed(call[c], c)
<1>f. /\ F \in ClientStates
      /\ F.pc = "sleeping" => F.attempt < Attempts(c)
      /\ c \in Runs => F.pc = "over" /\ F.answer = "error"
  BY <1>0, FailedTypes
<1> HIDE DEF F
<1>1. CASE Begins(c)
  <2> DEFINE q == [call[c] EXCEPT !.pc = "opening"]
  <2>1. /\ q \in ClientStates /\ q.pc = "opening" /\ q.answer = call[c].answer
        /\ q.waited = call[c].waited
    BY <1>0 DEF ClientStates
  <2>2. call' = [call EXCEPT ![c] = q] /\ call'[c] = q /\ call[c].pc = "idle"
    BY <1>0, <1>1 DEF Begins, ChannelTypeOK
  <2> HIDE DEF q
  <2>3. c \in Runs => RunInv(c)'
    BY <1>0, <1>1, <2>1, <2>2 DEF Begins, RunInv, OnceInv, TruthInv, PatienceInv
  <2> QED
    BY <1>0, <1>1, <2>1, <2>2, <2>3, CallKeeps DEF Begins
<1>2. CASE Opened(c)
  <2> DEFINE q == [call[c] EXCEPT !.pc = "calling", !.waited = 0]
  <2>1. /\ q \in ClientStates /\ q.pc = "calling" /\ q.answer = call[c].answer
        /\ q.waited = 0
    <3>1. 0 \in 0..CallTimeout
      BY CallTimeoutType
    <3> QED
      BY <1>0, <3>1 DEF ClientStates
  <2>2. call' = [call EXCEPT ![c] = q] /\ call'[c] = q /\ call[c].pc = "opening"
    BY <1>0, <1>2 DEF Opened, ChannelTypeOK
  <2> HIDE DEF q
  <2>3. c \in Runs => RunInv(c)'
    BY <1>0, <1>2, <2>1, <2>2 DEF Opened, RunInv, OnceInv, TruthInv, PatienceInv
  <2>4. sent' \subseteq Runs /\ \A r \in Runs \ {c} : r \in sent' <=> r \in sent
    BY <1>0, <1>2 DEF Opened
  <2> QED
    BY <1>0, <1>2, <2>1, <2>2, <2>3, <2>4, CallKeeps DEF Opened
<1>3. CASE GivesUp(c)
  <2>1. call' = [call EXCEPT ![c] = F] /\ call'[c] = F
    BY <1>0, <1>3 DEF GivesUp, F, ChannelTypeOK
  <2>2. ASSUME c \in Runs
        PROVE  ~(script[c].pc = "running" /\ ~script[c].late /\ cuts = 0)
    BY <1>0, <1>3, <2>2, ChannelAssumption
       DEF GivesUp, RunInv, PatienceInv, CallTimeout, ScriptStates, ClientStates
  <2>3. c \in Runs => RunInv(c)'
    BY <1>0, <1>f, <1>3, <2>1, <2>2 DEF GivesUp, RunInv, OnceInv, TruthInv, PatienceInv
  <2> QED
    BY <1>0, <1>f, <1>3, <2>1, <2>3, CallKeeps DEF GivesUp
<1>4. CASE Cut(c)
  <2>1. call' = [call EXCEPT ![c] = F] /\ call'[c] = F
    BY <1>0, <1>4 DEF Cut, F, ChannelTypeOK
  <2>2. cuts' \in 0..MaxCuts /\ cuts' # 0 /\ sent' \subseteq sent
        /\ \A r \in Runs \ {c} : r \in sent' <=> r \in sent
    BY <1>0, <1>4 DEF Cut
  <2>3. c \in Runs => RunInv(c)'
    BY <1>0, <1>f, <1>4, <2>1, <2>2 DEF Cut, RunInv, OnceInv, TruthInv, PatienceInv
  <2> QED
    BY <1>0, <1>f, <1>4, <2>1, <2>2, <2>3, CallKeeps DEF Cut
<1>5. CASE Answered(c)
  <2>1. PICK a \in Answer(c) : call' = [call EXCEPT ![c].pc = "closing", ![c].answer = a]
    BY <1>5 DEF Answered
  <2>2. /\ a \in {"exit", "timed_out", "pong", "error"}
        /\ c \in Runs => /\ a \in {"exit", "timed_out", "error"}
                         /\ a = "exit" => script[c].pc = "ended"
                         /\ a = "timed_out" => script[c].pc = "killed"
                         /\ script[c].pc # "running"
    BY <1>0, <2>1, ChannelAssumption DEF Answer, ScriptStates
  <2> DEFINE q == [call[c] EXCEPT !.pc = "closing", !.answer = a]
  <2>3. q \in ClientStates /\ q.pc = "closing" /\ q.answer = a
    BY <1>0, <2>2 DEF ClientStates
  <2>4. call' = [call EXCEPT ![c] = q] /\ call'[c] = q
    BY <1>0, <2>1 DEF ChannelTypeOK
  <2> HIDE DEF q
  <2>5. c \in Runs => RunInv(c)'
    BY <1>0, <1>5, <2>2, <2>3, <2>4 DEF Answered, RunInv, OnceInv, TruthInv, PatienceInv
  <2> QED
    BY <1>0, <1>5, <2>3, <2>4, <2>5, CallKeeps DEF Answered
<1>6. CASE Closes(c)
  <2> DEFINE q == IF call[c].answer = "error" THEN F ELSE [call[c] EXCEPT !.pc = "over"]
  <2>1. /\ q \in ClientStates /\ (q.pc = "sleeping" => q.attempt < Attempts(c))
        /\ c \in Runs => q.pc = "over" /\ q.answer = call[c].answer
    BY <1>0, <1>f DEF ClientStates
  <2>2. call' = [call EXCEPT ![c] = q] /\ call'[c] = q /\ call[c].pc = "closing"
    BY <1>0, <1>6 DEF Closes, F, ChannelTypeOK
  <2> HIDE DEF q
  <2>3. c \in Runs => RunInv(c)'
    BY <1>0, <1>6, <2>1, <2>2 DEF Closes, RunInv, OnceInv, TruthInv, PatienceInv
  <2> QED
    BY <1>0, <1>6, <2>1, <2>2, <2>3, CallKeeps DEF Closes
<1>7. CASE Wakes(c)
  <2> DEFINE q == [call[c] EXCEPT !.pc = "opening", !.attempt = @ + 1, !.waited = 0]
  <2>1. c \notin Runs /\ call[c].attempt < Retries
    BY <1>0, <1>7 DEF Wakes, SleepInv, Attempts, ClientStates
  <2>2. q \in ClientStates /\ q.pc = "opening"
    <3>1. 0 \in 0..CallTimeout
      BY CallTimeoutType
    <3>2. call[c].attempt + 1 \in 1..Retries
      BY <1>0, <2>1, ChannelAssumption DEF ClientStates
    <3> QED
      BY <1>0, <3>1, <3>2 DEF ClientStates
  <2>3. call' = [call EXCEPT ![c] = q]
    BY <1>0, <1>7 DEF Wakes, ChannelTypeOK
  <2> HIDE DEF q
  <2> QED
    BY <1>0, <1>7, <2>1, <2>2, <2>3, CallKeeps DEF Wakes
<1> QED
  BY <1>1, <1>2, <1>3, <1>4, <1>5, <1>6, <1>7

(* Every step of the host keeps the invariant.                             *)
LEMMA HostStep ==
    ASSUME ChannelInv, NEW r \in Runs,
           Received(r) \/ ScriptStarts(r) \/ ScriptEnds(r) \/ ScriptKilled(r)
    PROVE  ChannelInv'
<1>0. /\ ChannelTypeOK /\ RunInv(r) /\ script[r] \in ScriptStates /\ r \in Calls
      /\ call[r] \in ClientStates /\ 0 \in 0..ScriptTimeout
  BY ChannelAssumption DEF ChannelInv, ChannelTypeOK, ClientStates, ScriptStates, Calls
<1>1. CASE Received(r)
  <2>1. PICK pc \in {"queued", "refused"} : script' = [script EXCEPT ![r].pc = pc]
    BY <1>1 DEF Received
  <2> DEFINE s == [script[r] EXCEPT !.pc = pc]
  <2>2. s \in ScriptStates /\ s.pc = pc
    BY <1>0, <2>1 DEF ScriptStates
  <2>3. script' = [script EXCEPT ![r] = s] /\ script'[r] = s
    BY <1>0, <2>1 DEF ChannelTypeOK
  <2> HIDE DEF s
  <2>4. RunInv(r)'
    BY <1>0, <1>1, <2>2, <2>3 DEF Received, RunInv, OnceInv, TruthInv, PatienceInv
  <2> QED
    BY <1>1, <2>2, <2>3, <2>4, ScriptKeeps DEF Received
<1>2. CASE ScriptStarts(r)
  <2> DEFINE l == GaveUp(r) \/ call[r].waited >= Grace
             s == [pc |-> "running", ran |-> 0, noisy |-> FALSE, late |-> l]
  <2>1. l \in BOOLEAN
    OBVIOUS
  <2>2. script' = [script EXCEPT ![r] = s] /\ script'[r] = s /\ script[r].pc = "queued"
    BY <1>0, <1>2 DEF ScriptStarts, ChannelTypeOK
  <2>3. ~l => call[r].pc = "calling" /\ call[r].waited < Grace
    BY <1>0, <2>2, CallTimeoutType, ChannelAssumption
       DEF GaveUp, RunInv, OnceInv, ClientStates
  <2> HIDE DEF l
  <2>4. s \in ScriptStates /\ s.pc = "running" /\ s.late = l /\ s.ran = 0
    BY <1>0, <2>1 DEF ScriptStates
  <2> HIDE DEF s
  <2>5. RunInv(r)'
    BY <1>0, <1>2, <2>2, <2>3, <2>4, ChannelAssumption
       DEF ScriptStarts, RunInv, OnceInv, TruthInv, PatienceInv
  <2> QED
    BY <1>2, <2>2, <2>4, <2>5, ScriptKeeps DEF ScriptStarts
<1>3. CASE ScriptEnds(r)
  <2> DEFINE s == [script[r] EXCEPT !.pc = "ended", !.ran = 0]
  <2>1. s \in ScriptStates /\ s.pc = "ended"
    BY <1>0 DEF ScriptStates
  <2>2. script' = [script EXCEPT ![r] = s] /\ script'[r] = s /\ script[r].pc = "running"
    BY <1>0, <1>3 DEF ScriptEnds, ChannelTypeOK
  <2> HIDE DEF s
  <2>3. RunInv(r)'
    BY <1>0, <1>3, <2>1, <2>2 DEF ScriptEnds, RunInv, OnceInv, TruthInv, PatienceInv
  <2> QED
    BY <1>3, <2>1, <2>2, <2>3, ScriptKeeps DEF ScriptEnds
<1>4. CASE ScriptKilled(r)
  <2>1. PICK n \in BOOLEAN :
          script' = [script EXCEPT ![r].pc = "killed", ![r].ran = 0, ![r].noisy = n]
    BY <1>4 DEF ScriptKilled
  <2> DEFINE s == [script[r] EXCEPT !.pc = "killed", !.ran = 0, !.noisy = n]
  <2>2. s \in ScriptStates /\ s.pc = "killed"
    BY <1>0 DEF ScriptStates
  <2>3. script' = [script EXCEPT ![r] = s] /\ script'[r] = s /\ script[r].pc = "running"
    BY <1>0, <1>4, <2>1 DEF ScriptKilled, ChannelTypeOK
  <2> HIDE DEF s
  <2>4. RunInv(r)'
    BY <1>0, <1>4, <2>2, <2>3 DEF ScriptKilled, RunInv, OnceInv, TruthInv, PatienceInv
  <2> QED
    BY <1>4, <2>2, <2>3, <2>4, ScriptKeeps DEF ScriptKilled
<1> QED
  BY <1>1, <1>2, <1>3, <1>4

(* What a tick does to each call and to each script.                       *)
LEMMA TickMoves ==
    ASSUME ChannelInv, Tick
    PROVE  /\ call' \in [Calls -> ClientStates] /\ script' \in [Runs -> ScriptStates]
           /\ \A c \in Calls :
                /\ call'[c].pc = call[c].pc /\ call'[c].attempt = call[c].attempt
                /\ call'[c].answer = call[c].answer
                /\ call'[c].waited <= call[c].waited + 1
           /\ \A r \in Runs :
                /\ script'[r].pc = script[r].pc /\ script'[r].late = script[r].late
                /\ script[r].pc = "running" => script'[r].ran = script[r].ran + 1
<1>0. call \in [Calls -> ClientStates] /\ script \in [Runs -> ScriptStates]
  BY DEF ChannelInv, ChannelTypeOK, ClientStates, ScriptStates
<1>1. ASSUME NEW c \in Calls
      PROVE  /\ call'[c] \in ClientStates
             /\ call'[c].pc = call[c].pc /\ call'[c].attempt = call[c].attempt
             /\ call'[c].answer = call[c].answer
             /\ call'[c].waited <= call[c].waited + 1
  <2>1. call[c] \in ClientStates
    BY <1>0
  <2>2. CASE call[c].waited < CallTimeout /\ call'[c] = [call[c] EXCEPT !.waited = @ + 1]
    <3>1. call[c].waited + 1 \in 0..CallTimeout
      BY <2>1, <2>2, CallTimeoutType DEF ClientStates
    <3> QED
      BY <2>1, <2>2, <3>1 DEF ClientStates
  <2>3. CASE call'[c] = call[c]
    <3>1. call[c].waited \in Nat
      BY <2>1, CallTimeoutType DEF ClientStates
    <3> QED
      BY <2>1, <2>3, <3>1
  <2> QED
    BY <2>2, <2>3 DEF Tick
<1>2. ASSUME NEW r \in Runs
      PROVE  /\ script'[r] \in ScriptStates
             /\ script'[r].pc = script[r].pc /\ script'[r].late = script[r].late
             /\ script[r].pc = "running" => script'[r].ran = script[r].ran + 1
  <2>1. script[r] \in ScriptStates
    BY <1>0
  <2>2. CASE script[r].pc = "running"
    <3>1. /\ script[r].ran < ScriptTimeout
          /\ script'[r] = [script[r] EXCEPT !.ran = @ + 1]
      BY <2>2 DEF Tick, Running
    <3>2. script[r].ran + 1 \in 0..ScriptTimeout
      BY <2>1, <3>1, ChannelAssumption DEF ScriptStates
    <3> QED
      BY <2>1, <3>1, <3>2 DEF ScriptStates
  <2>3. CASE script[r].pc # "running"
    BY <2>1, <2>3 DEF Tick, Running
  <2> QED
    BY <2>2, <2>3
<1> QED
  BY <1>1, <1>2 DEF Tick

(* Time keeps the invariant: a script that runs and the caller that waits  *)
(* for it grow old together.                                               *)
LEMMA TickStep ==
    ASSUME ChannelInv, Tick
    PROVE  ChannelInv'
<1>1. ChannelTypeOK'
  BY TickMoves DEF ChannelInv, ChannelTypeOK, ClientStates, ScriptStates, Tick
<1>2. \A c \in Calls : SleepInv(c)'
  BY TickMoves DEF ChannelInv, SleepInv, Attempts
<1>3. ASSUME NEW r \in Runs
      PROVE  RunInv(r)'
  <2>0. /\ RunInv(r) /\ r \in Calls /\ sent' = sent /\ cuts' = cuts
        /\ call[r].waited \in Nat /\ call'[r].waited \in Nat /\ script[r].ran \in Nat
    BY TickMoves, CallTimeoutType, ChannelAssumption
       DEF ChannelInv, ChannelTypeOK, ClientStates, Calls, Tick
  <2>1. OnceInv(r)' /\ TruthInv(r)'
    BY <2>0, TickMoves DEF RunInv, OnceInv, TruthInv
  <2>2. PatienceInv(r)'
    BY <2>0, TickMoves, ChannelAssumption DEF RunInv, PatienceInv
  <2> QED
    BY <2>1, <2>2 DEF RunInv
<1> QED
  BY <1>1, <1>2, <1>3 DEF ChannelInv

(* What is known of every call and every script, in every state.           *)
THEOREM ChannelInductive == Spec => []ChannelInv
<1>1. Init => ChannelInv
  <2> SUFFICES ASSUME Init
               PROVE  ChannelInv
    OBVIOUS
  <2>1. ChannelTypeOK
    BY ChannelAssumption, CallTimeoutType DEF Init, ChannelInit, ChannelTypeOK
  <2>2. \A c \in Calls : SleepInv(c)
    BY DEF Init, ChannelInit, SleepInv
  <2>3. \A r \in Runs : RunInv(r)
    BY DEF Init, ChannelInit, RunInv, OnceInv, TruthInv, PatienceInv, Calls
  <2> QED
    BY <2>1, <2>2, <2>3 DEF ChannelInv
<1>2. ChannelInv /\ [Next]_vars => ChannelInv'
  <2> SUFFICES ASSUME ChannelInv, [Next]_vars
               PROVE  ChannelInv'
    OBVIOUS
  <2>1. CASE ChannelNext
    BY <2>1, ClientStep, HostStep, TickStep DEF ChannelNext
  <2>2. ASSUME NEW c \in Calls, Begins(c)
        PROVE  ChannelInv'
    BY <2>2, ClientStep
  <2>3. CASE UNCHANGED cvars
    BY <2>3 DEF cvars, ChannelInv, ChannelTypeOK, SleepInv, RunInv, OnceInv, TruthInv, PatienceInv
  <2>4. ChannelNext \/ (\E c \in Calls : Begins(c)) \/ UNCHANGED cvars
    BY DEF Next, ScriptCalled, Calling, Called, Updates, Deletes, Commits, Fails, vars, Requests,
           Calls
  <2> QED
    BY <2>1, <2>2, <2>3, <2>4
<1> QED
  BY <1>1, <1>2, PTL DEF Spec

(* A script that started in time is not left running by a caller whose     *)
(* connection holds: the host kills it before the caller gives up.         *)
THEOREM NoScriptOrphaned == Spec => []NoOrphan
<1>1. ChannelInv => NoOrphan
  BY ChannelAssumption DEF ChannelInv, ChannelTypeOK, RunInv, PatienceInv, NoOrphan, Running
<1> QED
  BY <1>1, ChannelInductive, PTL

-----------------------------------------------------------------------------
(* The promise of the channel. *)

FateOf(s) == IF s.pc \in {"none", "queued", "refused"} THEN "none" ELSE s.pc
ToldBy(q) == IF q.pc = "over" THEN q.answer ELSE "none"

(* The mapping of a script and of a call.                                  *)
LEMMA Mapping ==
    /\ Fate = [r \in Runs |-> FateOf(script[r])]
    /\ Told = [r \in Runs |-> ToldBy(call[r])]
  BY DEF Fate, Told, FateOf, ToldBy

(* A client that goes on tells nothing, or the truth about its script when *)
(* the call is over.                                                       *)
LEMMA ClientTells ==
    ASSUME ChannelInv, ChannelInv', NEW c \in Calls,
           \/ Begins(c) \/ Opened(c) \/ GivesUp(c) \/ Cut(c) \/ Answered(c)
           \/ Closes(c) \/ Wakes(c)
    PROVE  [Promise!Next]_<<Fate, Told>>
<1>0. /\ script' = script /\ call[c].pc # "over" /\ call \in [Calls -> ClientStates]
      /\ \A d \in Calls \ {c} : call'[d] = call[d]
  BY DEF Begins, Opened, GivesUp, Cut, Answered, Closes, Wakes, ChannelInv, ChannelTypeOK,
         ClientStates
<1>1. Fate' = Fate
  BY <1>0 DEF Fate
<1>2. CASE c \in Runs /\ call'[c].pc = "over"
  <2> DEFINE what == call'[c].answer
  <2>1. TruthInv(c)'
    BY <1>2 DEF ChannelInv, RunInv
  <2>2. /\ what \in {"exit", "timed_out", "error"}
        /\ what = "exit" => Fate[c] = "ended"
        /\ what = "timed_out" => Fate[c] = "killed"
    BY <1>0, <1>2, <2>1 DEF TruthInv, Fate
  <2>3. Told[c] = "none"
    BY <1>0, <1>2 DEF Told
  <2>4. Told' = [Told EXCEPT ![c] = what]
    BY <1>0, <1>2, Mapping DEF ToldBy, Told, Calls
  <2> HIDE DEF what
  <2>5. Promise!Tell(c, what)
    BY <1>1, <2>2, <2>3, <2>4 DEF Promise!Tell
  <2> QED
    BY <1>2, <2>2, <2>5 DEF Promise!Next
<1>3. CASE ~(c \in Runs /\ call'[c].pc = "over")
  <2>1. Told' = Told
    BY <1>0, <1>3 DEF Told, Calls
  <2> QED
    BY <1>1, <2>1
<1> QED
  BY <1>2, <1>3

(* A script starts once and stops once; nothing else changes its fate.     *)
LEMMA HostDecides ==
    ASSUME ChannelInv, NEW r \in Runs,
           Received(r) \/ ScriptStarts(r) \/ ScriptEnds(r) \/ ScriptKilled(r)
    PROVE  [Promise!Next]_<<Fate, Told>>
<1>0. /\ call' = call /\ script \in [Runs -> ScriptStates] /\ OnceInv(r)
  BY DEF Received, ScriptStarts, ScriptEnds, ScriptKilled, ChannelInv, ChannelTypeOK,
         ScriptStates, RunInv
<1>1. Told' = Told
  BY <1>0 DEF Told
<1>2. /\ \A u \in Runs \ {r} : script'[u] = script[u]
      /\ \/ /\ script[r].pc = "none" /\ script'[r].pc \in {"queued", "refused"}
         \/ /\ script[r].pc = "queued" /\ script'[r].pc = "running"
         \/ /\ script[r].pc = "running" /\ script'[r].pc \in {"ended", "killed"}
  <2>1. CASE Received(r)
    BY <1>0, <2>1 DEF Received, OnceInv, ScriptStates
  <2>2. CASE ScriptStarts(r)
    BY <1>0, <2>2 DEF ScriptStarts
  <2>3. CASE ScriptEnds(r)
    BY <1>0, <2>3 DEF ScriptEnds, ScriptStates
  <2>4. CASE ScriptKilled(r)
    <3>1. PICK n \in BOOLEAN :
            script' = [script EXCEPT ![r].pc = "killed", ![r].ran = 0, ![r].noisy = n]
      BY <2>4 DEF ScriptKilled
    <3>2. script[r] \in ScriptStates /\ script[r].pc = "running"
      BY <1>0, <2>4 DEF ScriptKilled
    <3>3. script'[r] = [script[r] EXCEPT !.pc = "killed", !.ran = 0, !.noisy = n]
      BY <1>0, <3>1
    <3>4. script'[r].pc = "killed"
      BY <3>2, <3>3 DEF ScriptStates
    <3>5. \A u \in Runs \ {r} : script'[u] = script[u]
      BY <1>0, <3>1
    <3> QED
      BY <3>2, <3>4, <3>5
  <2> QED
    BY <2>1, <2>2, <2>3, <2>4
<1>3. Fate' = [Fate EXCEPT ![r] = FateOf(script'[r])]
  BY <1>2, Mapping DEF FateOf, Fate
<1>4. CASE script[r].pc = "none"
  <2>1. Fate' = Fate
    BY <1>2, <1>4 DEF Fate
  <2> QED
    BY <1>1, <2>1
<1>5. CASE script[r].pc = "queued"
  <2>1. Fate[r] = "none" /\ FateOf(script'[r]) = "running"
    BY <1>2, <1>5 DEF Fate, FateOf
  <2>2. Promise!Start(r)
    BY <1>1, <1>3, <2>1 DEF Promise!Start
  <2> QED
    BY <2>2 DEF Promise!Next
<1>6. CASE script[r].pc = "running"
  <2>1. Fate[r] = "running" /\ FateOf(script'[r]) \in {"ended", "killed"}
    BY <1>2, <1>6 DEF Fate, FateOf
  <2>2. Promise!Stop(r)
    BY <1>1, <1>3, <2>1 DEF Promise!Stop
  <2> QED
    BY <2>2 DEF Promise!Next
<1> QED
  BY <1>2, <1>4, <1>5, <1>6

(* The channel implements the promise that the engine relies on: whatever  *)
(* breaks, times out or is tried again, a script starts at most once, and  *)
(* an exit or a timeout is told of the script it happened to.              *)
THEOREM ChannelKeepsPromise == Spec => PromiseKept
<1>1. Init => Promise!Init
  BY DEF Init, ChannelInit, Promise!Init, Fate, Told, Calls
<1>2. ChannelInv /\ ChannelInv' /\ [Next]_vars => [Promise!Next]_<<Fate, Told>>
  <2> SUFFICES ASSUME ChannelInv, ChannelInv', [Next]_vars
               PROVE  [Promise!Next]_<<Fate, Told>>
    OBVIOUS
  <2>1. CASE ChannelNext
    <3>1. CASE Tick
      <4>1. Fate' = Fate /\ Told' = Told
        BY <3>1, TickMoves DEF Fate, Told, Calls
      <4> QED
        BY <4>1
    <3> QED
      BY <2>1, <3>1, ClientTells, HostDecides DEF ChannelNext
  <2>2. ASSUME NEW c \in Calls, Begins(c)
        PROVE  [Promise!Next]_<<Fate, Told>>
    BY <2>2, ClientTells
  <2>3. CASE UNCHANGED cvars
    BY <2>3 DEF cvars, Fate, Told
  <2>4. ChannelNext \/ (\E c \in Calls : Begins(c)) \/ UNCHANGED cvars
    BY DEF Next, ScriptCalled, Calling, Called, Updates, Deletes, Commits, Fails, vars, Requests,
           Calls
  <2> QED
    BY <2>1, <2>2, <2>3, <2>4
<1> QED
  BY <1>1, <1>2, ChannelInductive, PTL DEF Spec, PromiseKept, Promise!Spec

-----------------------------------------------------------------------------
(* The rows of the hosts. *)

RequestStates == [kind : {"none", "create", "ping", "update", "delete"},
                  pc : {"idle", "calling", "set", "over"},
                  seen : Row, new : Row]

(* A request on a host has read a row that is there, and changes neither   *)
(* that nor a deletion it has seen.                                        *)
RequestInv(q) ==
    /\ request[q].pc \in {"calling", "set"} /\ request[q].kind # "create" =>
         /\ host.there /\ request[q].seen.there /\ request[q].new.there
         /\ request[q].seen.deleted => request[q].new.deleted
    /\ request[q].pc \in {"calling", "set"} => request[q].kind # "none"
    /\ request[q].pc = "set" /\ request[q].kind = "create" => request[q].new.there

HostInv ==
    /\ host \in Row
    /\ request \in [Requests -> RequestStates]
    /\ host.deleted => host.there
    /\ \A q \in Requests : RequestInv(q)

(* What an UPDATE of the changed columns leaves of a row.                  *)
LEMMA FlushedRow ==
    ASSUME NEW row \in Row, NEW seen \in Row, NEW new \in Row
    PROVE  /\ Flushed(row, seen, new) \in Row
           /\ Flushed(row, seen, new).there =
                IF new.there = seen.there THEN row.there ELSE new.there
           /\ Flushed(row, seen, new).deleted =
                IF new.deleted = seen.deleted THEN row.deleted ELSE new.deleted
<1> DEFINE f == Flushed(row, seen, new)
           G(c) == IF new[c] = seen[c] THEN row[c] ELSE new[c]
<1>1. DOMAIN row = {"there", "endpoint", "pinged", "deleted"}
  BY DEF Row
<1>2. f = [there |-> G("there"), endpoint |-> G("endpoint"), pinged |-> G("pinged"),
           deleted |-> G("deleted")]
  BY <1>1 DEF Flushed
<1> QED
  BY <1>2 DEF Row

(* A step of one request that leaves the row alone keeps the invariant.    *)
LEMMA RequestKeeps ==
    ASSUME HostInv, NEW q \in Requests, NEW s \in RequestStates, host' = host,
           request' = [request EXCEPT ![q] = s],
           s.pc \in {"calling", "set"} => s.kind # "none",
           s.pc = "set" /\ s.kind = "create" => s.new.there,
           s.pc \in {"calling", "set"} /\ s.kind # "create" =>
               host.there /\ s.seen.there /\ s.new.there /\ (s.seen.deleted => s.new.deleted)
    PROVE  HostInv'
<1>1. /\ request' \in [Requests -> RequestStates] /\ request'[q] = s
      /\ \A p \in Requests \ {q} : request'[p] = request[p]
  BY DEF HostInv
<1>2. ASSUME NEW p \in Requests
      PROVE  RequestInv(p)'
  BY <1>1 DEF HostInv, RequestInv
<1> QED
  BY <1>1, <1>2 DEF HostInv

(* What a commit makes of the row: a row once there stays there, and one   *)
(* that is deleted stays deleted.                                          *)
LEMMA CommitMoves ==
    ASSUME HostInv, NEW q \in Requests, Commits(q)
    PROVE  /\ host' \in Row /\ host'.there
           /\ host.deleted => host'.deleted
<1> DEFINE s == request[q]
<1>0. /\ s \in RequestStates /\ RequestInv(q) /\ s.pc = "set" /\ host \in Row
      /\ s.seen \in Row /\ s.new \in Row
  BY DEF HostInv, Commits, RequestStates
<1>1. CASE s.kind = "create"
  BY <1>0, <1>1 DEF Commits, RequestInv, HostInv
<1>2. CASE s.kind # "create"
  <2>1. host' = Flushed(host, s.seen, s.new)
    BY <1>2 DEF Commits
  <2>2. s.seen.there = TRUE /\ s.new.there = TRUE /\ host.there = TRUE
    BY <1>0, <1>2 DEF RequestInv, Row
  <2>3. s.seen.deleted => s.new.deleted
    BY <1>0, <1>2 DEF RequestInv
  <2>4. s.seen.deleted \in BOOLEAN /\ s.new.deleted \in BOOLEAN /\ host.deleted \in BOOLEAN
    BY <1>0 DEF Row
  <2> HIDE DEF s
  <2>5. host' \in Row /\ host'.there
    BY <1>0, <2>1, <2>2, FlushedRow
  <2>6. host'.deleted = IF s.new.deleted = s.seen.deleted THEN host.deleted ELSE s.new.deleted
    BY <1>0, <2>1, FlushedRow
  <2> QED
    BY <2>3, <2>4, <2>5, <2>6
<1> QED
  BY <1>1, <1>2

(* What is known of the row and of the requests about it, in every state.  *)
THEOREM RowsInductive == Spec => []HostInv
<1>1. Init => HostInv
  BY DEF Init, HostInv, RequestStates, RequestInv, Row
<1>2. HostInv /\ [Next]_vars => HostInv'
  <2> SUFFICES ASSUME HostInv, [Next]_vars
               PROVE  HostInv'
    OBVIOUS
  <2>0. host \in Row /\ \A q \in Requests : request[q] \in RequestStates /\ RequestInv(q)
    BY DEF HostInv
  <2>1. ASSUME NEW q \in Requests, NEW kind \in {"create", "ping"}, Calling(q, kind)
        PROVE  HostInv'
    <3> DEFINE s == [kind |-> kind, pc |-> "calling", seen |-> host, new |-> host]
    <3>1. s \in RequestStates /\ request' = [request EXCEPT ![q] = s] /\ host' = host
      BY <2>0, <2>1 DEF Calling, RequestStates
    <3>2. kind # "create" => host.there
      BY <2>1 DEF Calling
    <3> QED
      BY <3>1, <3>2, RequestKeeps
  <2>2. ASSUME NEW q \in Requests, Called(q)
        PROVE  HostInv'
    <3> DEFINE old == request[q]
               b == call[q].answer = "pong"
               pinged == Pinged(old.new, call[q].answer)
    <3>1. PICK e \in Endpoints : request' = [request EXCEPT ![q].pc = "set", ![q].new =
             IF request[q].kind = "create"
             THEN [there |-> TRUE, endpoint |-> e, pinged |-> b, deleted |-> FALSE]
             ELSE Pinged(@, call[q].answer)]
      BY <2>2 DEF Called
    <3> DEFINE fresh == [there |-> TRUE, endpoint |-> e, pinged |-> b, deleted |-> FALSE]
               new == IF old.kind = "create" THEN fresh ELSE pinged
               s == [old EXCEPT !.pc = "set", !.new = new]
    <3>2. b \in BOOLEAN
      OBVIOUS
    <3>3. /\ old \in RequestStates /\ RequestInv(q) /\ old.pc = "calling" /\ old.new \in Row
          /\ host' = host
      BY <2>0, <2>2 DEF Called, RequestStates
    <3>4. request' = [request EXCEPT ![q] = s]
      BY <2>2, <3>1, <3>3 DEF HostInv, RequestStates
    <3>5. fresh \in Row /\ fresh.there
      <4> HIDE DEF b
      <4> QED
        BY <3>2 DEF Row
    <3>6. pinged \in Row /\ pinged.there = old.new.there /\ pinged.deleted = old.new.deleted
      <4> DEFINE p == old.new.pinged \/ b
      <4>1. p \in BOOLEAN /\ pinged = [old.new EXCEPT !.pinged = p]
        BY <3>3 DEF Pinged, Row
      <4> HIDE DEF p, pinged, old
      <4> QED
        BY <3>3, <4>1 DEF Row
    <3> HIDE DEF fresh, pinged, b
    <3>7. new \in Row
      BY <3>5, <3>6
    <3> HIDE DEF old
    <3>8. /\ s \in RequestStates /\ s.pc = "set" /\ s.kind = old.kind /\ s.seen = old.seen
          /\ s.new = new
      BY <3>3, <3>7 DEF RequestStates
    <3>9. old.kind # "none" /\ (old.kind # "create" =>
            host.there /\ old.seen.there /\ new.there /\ (old.seen.deleted => new.deleted))
      BY <3>3, <3>6 DEF RequestInv, old
    <3>10. old.kind = "create" => new.there
      BY <3>5
    <3> HIDE DEF s, new
    <3> QED
      BY <3>3, <3>4, <3>8, <3>9, <3>10, RequestKeeps
  <2>3. ASSUME NEW q \in Requests, Updates(q)
        PROVE  HostInv'
    <3>1. PICK e \in Endpoints : request' = [request EXCEPT ![q] =
            [kind |-> "update", pc |-> "set", seen |-> host, new |-> [host EXCEPT !.endpoint = e]]]
      BY <2>3 DEF Updates
    <3> DEFINE new == [host EXCEPT !.endpoint = e]
               s == [kind |-> "update", pc |-> "set", seen |-> host, new |-> new]
    <3>2. new \in Row /\ new.there = host.there /\ new.deleted = host.deleted
      BY <2>0 DEF Row
    <3>3. host.there /\ host' = host /\ request' = [request EXCEPT ![q] = s]
      BY <2>3, <3>1 DEF Updates
    <3> HIDE DEF new
    <3>4. s \in RequestStates
      BY <2>0, <3>2 DEF RequestStates
    <3> QED
      BY <3>2, <3>3, <3>4, RequestKeeps
  <2>4. ASSUME NEW q \in Requests, Deletes(q)
        PROVE  HostInv'
    <3> DEFINE new == [host EXCEPT !.deleted = TRUE]
               s == [kind |-> "delete", pc |-> "set", seen |-> host, new |-> new]
    <3>1. new \in Row /\ new.there = host.there /\ new.deleted = TRUE
      BY <2>0 DEF Row
    <3>2. host.there /\ host' = host /\ request' = [request EXCEPT ![q] = s]
      BY <2>4 DEF Deletes
    <3> HIDE DEF new
    <3>3. s \in RequestStates
      BY <2>0, <3>1 DEF RequestStates
    <3> QED
      BY <3>1, <3>2, <3>3, RequestKeeps
  <2>5. ASSUME NEW q \in Requests, Commits(q)
        PROVE  HostInv'
    <3> DEFINE s == [request[q] EXCEPT !.pc = "over", !.seen = host', !.new = host']
    <3>1. host' \in Row /\ host'.there /\ (host.deleted => host'.deleted)
      BY <2>5, CommitMoves
    <3>2. s \in RequestStates /\ s.pc = "over"
      BY <2>0, <3>1 DEF RequestStates
    <3>3. request' = [request EXCEPT ![q] = s]
      BY <2>0, <2>5 DEF Commits, HostInv, RequestStates
    <3> HIDE DEF s
    <3>4. /\ request' \in [Requests -> RequestStates] /\ request'[q] = s
          /\ \A p \in Requests \ {q} : request'[p] = request[p]
      BY <3>2, <3>3 DEF HostInv
    <3>5. ASSUME NEW p \in Requests
          PROVE  RequestInv(p)'
      BY <2>0, <3>1, <3>2, <3>4 DEF RequestInv
    <3> QED
      BY <3>1, <3>4, <3>5 DEF HostInv
  <2>6. ASSUME NEW q \in Requests, Fails(q)
        PROVE  HostInv'
    <3> DEFINE s == [request[q] EXCEPT !.pc = "over", !.seen = host, !.new = host]
    <3>1. s \in RequestStates /\ s.pc = "over"
      BY <2>0 DEF RequestStates
    <3>2. request' = [request EXCEPT ![q] = s] /\ host' = host
      BY <2>0, <2>6 DEF Fails, HostInv, RequestStates
    <3> HIDE DEF s
    <3> QED
      BY <3>1, <3>2, RequestKeeps
  <2>7. CASE UNCHANGED <<host, request>>
    BY <2>7 DEF HostInv, RequestInv
  <2> QED
    BY <2>1, <2>2, <2>3, <2>4, <2>5, <2>6, <2>7 DEF Next, ScriptCalled, vars
<1> QED
  BY <1>1, <1>2, PTL DEF Spec

(* Row, requests and calls keep their types. *)
THEOREM TypeCorrect == Spec => []TypeOK
<1>1. ChannelInv /\ HostInv => TypeOK
  BY DEF ChannelInv, HostInv, RequestStates, TypeOK
<1> QED
  BY <1>1, ChannelInductive, RowsInductive, PTL

(* A ping or an update that read a host before it was deleted cannot       *)
(* revive it, nor can a host of the same name.                             *)
THEOREM DeletedHostsStay == Spec => DeletedHostStays
<1>1. HostInv /\ [Next]_vars => [host.deleted => host'.deleted]_vars
  <2> SUFFICES ASSUME HostInv, [Next]_vars, host.deleted
               PROVE  host'.deleted
    OBVIOUS
  <2>1. CASE host' = host
    BY <2>1
  <2>2. ASSUME NEW q \in Requests, Commits(q)
        PROVE  host'.deleted
    BY <2>2, CommitMoves
  <2>3. host' = host \/ \E q \in Requests : Commits(q)
    BY DEF Next, ScriptCalled, Calling, Called, Updates, Deletes, Fails, vars
  <2> QED
    BY <2>1, <2>2, <2>3
<1> QED
  BY <1>1, RowsInductive, PTL DEF Spec, DeletedHostStays
=============================================================================
