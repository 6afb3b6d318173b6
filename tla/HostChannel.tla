---------------------------- MODULE HostChannel ----------------------------
(***************************************************************************)
(* A call to the execution service of a host, on both sides: call_host and *)
(* _call_host_once (executor/mcp_client.py) with their handshake, retries  *)
(* and time limits, and run_script (executor/server.py), which runs the    *)
(* script on a thread of a bounded pool and kills it after its timeout.    *)
(*                                                                         *)
(* Each request of a call has its own time limit, which only counts time   *)
(* without any byte: it may come later than the limit, not earlier.        *)
(***************************************************************************)
EXTENDS FiniteSets, Integers

CONSTANTS
    Runs,           \* calls of run_script
    Pings,          \* calls of ping
    Retries,        \* tries of a call other than run_script (3)
    ScriptTimeout,  \* the timeout of a script
    Grace,          \* what the caller adds to it for the call (10 seconds)
    Workers,        \* threads of the host
    MaxCuts         \* bound of the model: connections that break

ASSUME ChannelAssumption ==
    /\ Runs \cap Pings = {}
    /\ Retries \in Nat \ {0}
    /\ ScriptTimeout \in Nat \ {0} /\ Grace \in Nat
    /\ Workers \in Nat \ {0}
    /\ MaxCuts \in Nat

VARIABLES
    call,       \* the client's side of each call
    sent,       \* run_script requests that are on their way
    script,     \* each script on the host
    cuts

cvars == <<call, sent, script, cuts>>

Calls == Runs \cup Pings

(* Faulty variant of CallTimeout: without the grace.                       *)
CallTimeoutBare == ScriptTimeout

CallTimeout == ScriptTimeout + Grace

(* Faulty variant of Attempts: a script is retried as well.                *)
AttemptsOfAll(c) == Retries

Attempts(c) == IF c \in Runs THEN 1 ELSE Retries

ChannelTypeOK ==
    /\ call \in [Calls -> [pc : {"idle", "opening", "calling", "closing", "sleeping", "over"},
                           attempt : 1..Retries,
                           waited : 0..CallTimeout,
                           answer : {"none", "exit", "timed_out", "pong", "error"}]]
    /\ sent \subseteq Runs
    /\ script \in [Runs -> [pc : {"none", "queued", "running", "ended", "killed", "refused"},
                            ran : 0..ScriptTimeout,
                            late : BOOLEAN,
                            noisy : BOOLEAN]]
    /\ cuts \in 0..MaxCuts

ChannelInit ==
    /\ call = [c \in Calls |-> [pc |-> "idle", attempt |-> 1, waited |-> 0, answer |-> "none"]]
    /\ sent = {}
    /\ script = [r \in Runs |-> [pc |-> "none", ran |-> 0, late |-> FALSE, noisy |-> FALSE]]
    /\ cuts = 0

-----------------------------------------------------------------------------
(* The client *)

Begins(c) ==
    /\ call[c].pc = "idle"
    /\ call' = [call EXCEPT ![c].pc = "opening"]
    /\ UNCHANGED <<sent, script, cuts>>

(* initialize is answered with a session, and the tool is called.          *)
Opened(c) ==
    /\ call[c].pc = "opening"
    /\ call' = [call EXCEPT ![c].pc = "calling", ![c].waited = 0]
    /\ sent' = sent \cup ({c} \cap Runs)
    /\ UNCHANGED <<script, cuts>>

(* After an exception: the next attempt, or the error.                     *)
Failed(q, c) ==
    IF q.attempt < Attempts(c) THEN [q EXCEPT !.pc = "sleeping", !.answer = "none"]
                               ELSE [q EXCEPT !.pc = "over", !.answer = "error"]

(* No byte for the whole limit.  The limit of a ping is not counted: it    *)
(* may be reached at any time.                                             *)
GivesUp(c) ==
    /\ call[c].pc \in {"opening", "calling"}
    /\ c \in Runs => call[c].waited >= CallTimeout
    /\ call' = [call EXCEPT ![c] = Failed(@, c)]
    /\ UNCHANGED <<sent, script, cuts>>

(* The connection breaks, with or without the request that is on its way.  *)
Cut(c) ==
    /\ c \in Runs
    /\ cuts < MaxCuts
    /\ cuts' = cuts + 1
    /\ call[c].pc \in {"opening", "calling"}
    /\ call' = [call EXCEPT ![c] = Failed(@, c)]
    /\ sent' \in {sent, sent \ {c}}
    /\ UNCHANGED script

(* What the host answers; an exception of the tool comes as isError.  What *)
(* a killed script wrote to stderr is bytes, and adding text to it raises. *)
Answer(c) ==
    IF c \in Pings THEN {"pong", "error"}
    ELSE CASE script[c].pc = "ended" -> {"exit"}
           [] script[c].pc = "killed" -> {IF script[c].noisy THEN "error" ELSE "timed_out"}
           [] script[c].pc = "refused" -> {"error"}
           [] OTHER -> {}

Answered(c) ==
    /\ call[c].pc = "calling"
    /\ c \notin sent
    /\ \E a \in Answer(c) : call' = [call EXCEPT ![c].pc = "closing", ![c].answer = a]
    /\ UNCHANGED <<sent, script, cuts>>

(* DELETE of the session, whose failure is ignored: the session then stays *)
(* on the host, as after a failed call.  The answer is looked at last.     *)
Closes(c) ==
    /\ call[c].pc = "closing"
    /\ call' = [call EXCEPT ![c] = IF @.answer = "error" THEN Failed(@, c)
                                   ELSE [@ EXCEPT !.pc = "over"]]
    /\ UNCHANGED <<sent, script, cuts>>

Wakes(c) ==
    /\ call[c].pc = "sleeping"
    /\ call' = [call EXCEPT ![c].pc = "opening", ![c].attempt = @ + 1, ![c].waited = 0]
    /\ UNCHANGED <<sent, script, cuts>>

-----------------------------------------------------------------------------
(* The host *)

(* The tool is called: an interpreter or a command that is not allowed     *)
(* raises, and all else waits for a thread.                                *)
Received(r) ==
    /\ r \in sent
    /\ sent' = sent \ {r}
    /\ \E pc \in {"queued", "refused"} : script' = [script EXCEPT ![r].pc = pc]
    /\ UNCHANGED <<call, cuts>>

Running == {r \in Runs : script[r].pc = "running"}

GaveUp(r) == call[r].pc \notin {"opening", "calling"}

ScriptStarts(r) ==
    /\ script[r].pc = "queued"
    /\ Cardinality(Running) < Workers
    /\ script' = [script EXCEPT ![r] = [pc |-> "running", ran |-> 0, noisy |-> FALSE,
                                        late |-> GaveUp(r) \/ call[r].waited >= Grace]]
    /\ UNCHANGED <<call, sent, cuts>>

ScriptEnds(r) ==
    /\ script[r].pc = "running"
    /\ script' = [script EXCEPT ![r].pc = "ended", ![r].ran = 0]
    /\ UNCHANGED <<call, sent, cuts>>

ScriptKilled(r) ==
    /\ script[r].pc = "running"
    /\ script[r].ran = ScriptTimeout
    /\ \E n \in BOOLEAN : script' = [script EXCEPT ![r].pc = "killed", ![r].ran = 0, ![r].noisy = n]
    /\ UNCHANGED <<call, sent, cuts>>

(* Time does not pass a kill that is due.                                  *)
Tick ==
    /\ \A r \in Running : script[r].ran < ScriptTimeout
    /\ call' = [c \in Calls |->
         IF c \in Runs /\ call[c].pc \in {"opening", "calling"} /\ call[c].waited < CallTimeout
         THEN [call[c] EXCEPT !.waited = @ + 1] ELSE call[c]]
    /\ script' = [r \in Runs |->
         IF r \in Running THEN [script[r] EXCEPT !.ran = @ + 1] ELSE script[r]]
    /\ <<call', script'>> # <<call, script>>
    /\ UNCHANGED <<sent, cuts>>

(* All but the beginning of a call, which is its caller's.                 *)
ChannelNext ==
    \/ \E c \in Calls :
         \/ Opened(c)
         \/ GivesUp(c)
         \/ Cut(c)
         \/ Answered(c)
         \/ Closes(c)
         \/ Wakes(c)
    \/ \E r \in Runs :
         \/ Received(r)
         \/ ScriptStarts(r)
         \/ ScriptEnds(r)
         \/ ScriptKilled(r)
    \/ Tick

-----------------------------------------------------------------------------
(* Properties *)

(* A script is not left running by a caller that lost its patience: when   *)
(* the call has given up while the script runs, the script had started     *)
(* Grace or more after it was asked for, or the connection had broken.     *)
NoOrphan ==
    \A r \in Running : call[r].pc = "over" => script[r].late \/ cuts > 0

Fate == [r \in Runs |-> CASE script[r].pc \in {"none", "queued", "refused"} -> "none"
                          [] OTHER -> script[r].pc]
Told == [r \in Runs |-> IF call[r].pc = "over" THEN call[r].answer ELSE "none"]

(* The channel keeps the promise that the engine relies on: a script is    *)
(* started once at most, and an exit or a timeout is told of no script     *)
(* that has not ended or been killed.                                      *)
Promise == INSTANCE HostPromise WITH fate <- Fate, told <- Told
PromiseKept == Promise!Spec
=============================================================================
