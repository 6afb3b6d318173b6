----------------------------- MODULE RunStream -----------------------------
(***************************************************************************)
(* The live channel of a task run: services/events.py with its bounded     *)
(* queue per subscriber, the endpoint that streams it, and the page that   *)
(* watches a run (TaskRunBoard.vue).  It composes with TaskRuns: what an   *)
(* execution publishes goes into the queue of every open stream, in the    *)
(* same step, since nobody holds the lock of events.py over an await.      *)
(*                                                                         *)
(* An entry of a queue is the number of an event in the events published   *)
(* for the run.  Heartbeats change nothing and are left out.  A broken     *)
(* connection leaves _subscribers at once here, and with the next write    *)
(* in the program: nobody reads that queue in between.                     *)
(***************************************************************************)
EXTENDS TaskRuns

CONSTANTS
    Boards,         \* pages, each watching one task run
    QueueSize,      \* maxsize of a queue
    MaxBreaks       \* bound of the model: connections that fail

ASSUME StreamAssumption ==
    /\ QueueSize \in Nat \ {0}
    /\ MaxBreaks \in Nat

VARIABLES
    stream,     \* stream_events for each page: its queue, what it has sent
    page,       \* what the page does, and the status it shows
    breaks

svars == <<vars, stream, page, breaks>>

Streams == [open : BOOLEAN, from : Nat, queue : Seq(Nat), got : Seq(Nat)]
Pages == [of : Runs,
          pc : {"away", "opening", "streaming", "reloading", "settled"},
          shown : Statuses,
          timer : BOOLEAN]

StreamTypeOK ==
    /\ stream \in [Boards -> Streams]
    /\ \A b \in Boards : Len(stream[b].queue) <= QueueSize
    /\ page \in [Boards -> Pages]
    /\ breaks \in 0..MaxBreaks

StreamInit ==
    /\ Init
    /\ stream = [b \in Boards |-> [open |-> FALSE, from |-> 0, queue |-> <<>>, got |-> <<>>]]
    /\ page \in [Boards -> {[of |-> t, pc |-> "away", shown |-> "absent", timer |-> FALSE] : t \in Runs}]
    /\ breaks = 0

Told(b) == events[page[b].of]
Stored(b) == row[page[b].of].status

-----------------------------------------------------------------------------
(* services/events.py *)

(* Faulty variants of Put: no maxsize, or the oldest event makes room.     *)
PutUnbounded(q, i) == Append(q, i)

PutEvicting(q, i) == IF Len(q) < QueueSize THEN Append(q, i) ELSE Append(Tail(q), i)

(* put_nowait, and QueueFull ignored.                                      *)
Put(q, i) == IF Len(q) < QueueSize THEN Append(q, i) ELSE q

(* The events number n + 1 to n + k; a step of TaskRuns publishes two at   *)
(* most.                                                                   *)
PutAll(q, n, k) ==
    CASE k = 0 -> q
      [] k = 1 -> Put(q, n + 1)
      [] OTHER -> Put(Put(q, n + 1), n + 2)

(* publish, for the events of this step.                                   *)
Publishes ==
    stream' = [b \in Boards |->
        IF stream[b].open
        THEN [stream[b] EXCEPT !.queue =
                  PutAll(@, Len(Told(b)), Len(events'[page[b].of]) - Len(Told(b)))]
        ELSE stream[b]]

(* unsubscribe, in the finally of stream_events.                           *)
Unsubscribes(b) == stream' = [stream EXCEPT ![b].open = FALSE]

-----------------------------------------------------------------------------
(* TaskRunBoard.vue *)

(* onMounted: one load over REST, then a stream if the run is running.     *)
Mounts(b) ==
    /\ page[b].pc = "away"
    /\ Stored(b) # "absent"
    /\ page' = [page EXCEPT ![b].shown = Stored(b),
                            ![b].pc = IF Stored(b) = "RUNNING" THEN "opening" ELSE "settled"]
    /\ UNCHANGED <<stream, breaks>>

(* Faulty variant of Opens: a queue that has been read before.             *)
OpensReusing(b) ==
    /\ page[b].pc = "opening"
    /\ page' = [page EXCEPT ![b].pc = "streaming"]
    /\ stream' = [stream EXCEPT ![b].open = TRUE, ![b].from = Len(Told(b))]
    /\ UNCHANGED breaks

(* The request reaches stream_events: subscribe, with an empty queue.      *)
Opens(b) ==
    /\ page[b].pc = "opening"
    /\ page' = [page EXCEPT ![b].pc = "streaming"]
    /\ stream' = [stream EXCEPT ![b] =
                    [open |-> TRUE, from |-> Len(Told(b)), queue |-> <<>>, got |-> <<>>]]
    /\ UNCHANGED breaks

(* The next event of the queue goes to the page.                           *)
Sent(b) ==
    [stream[b] EXCEPT !.queue = Tail(@), !.got = Append(@, Head(stream[b].queue))]

TakesEvent(b) ==
    /\ stream[b].open
    /\ stream[b].queue # <<>>
    /\ Told(b)[Head(stream[b].queue)] # "done"
    /\ stream' = [stream EXCEPT ![b] = Sent(b)]
    /\ UNCHANGED <<page, breaks>>

(* Faulty variants of TakesDone: nobody listens for it, or the page trusts *)
(* what it was told.                                                       *)
TakesDoneUnheard(b) ==
    /\ stream[b].open
    /\ stream[b].queue # <<>>
    /\ Told(b)[Head(stream[b].queue)] = "done"
    /\ stream' = [stream EXCEPT ![b] = [Sent(b) EXCEPT !.open = FALSE]]
    /\ UNCHANGED <<page, breaks>>

TakesDoneForGood(b) ==
    /\ stream[b].open
    /\ stream[b].queue # <<>>
    /\ Told(b)[Head(stream[b].queue)] = "done"
    /\ stream' = [stream EXCEPT ![b] = [Sent(b) EXCEPT !.open = FALSE]]
    /\ page' = [page EXCEPT ![b].pc = "settled", ![b].shown = "DONE"]
    /\ UNCHANGED breaks

(* done ends the stream on both sides.  publish formats its payload as a   *)
(* Python literal, which JSON.parse of the page rejects: it assumes DONE,  *)
(* whatever "cancelled" said, and loads the run again.                     *)
TakesDone(b) ==
    /\ stream[b].open
    /\ stream[b].queue # <<>>
    /\ Told(b)[Head(stream[b].queue)] = "done"
    /\ stream' = [stream EXCEPT ![b] = [Sent(b) EXCEPT !.open = FALSE]]
    /\ page' = [page EXCEPT ![b].pc = "reloading", ![b].shown = "DONE"]
    /\ UNCHANGED breaks

(* fullReload after done.                                                  *)
Reloads(b) ==
    /\ page[b].pc = "reloading"
    /\ page' = [page EXCEPT ![b].pc = "settled", ![b].shown = Stored(b)]
    /\ UNCHANGED <<stream, breaks>>

(* onerror: the browser opens the stream again, and a timer is set for one *)
(* load over REST.                                                         *)
Breaks(b) ==
    /\ breaks < MaxBreaks
    /\ page[b].pc \in {"opening", "streaming"}
    /\ breaks' = breaks + 1
    /\ page' = [page EXCEPT ![b].pc = "opening", ![b].timer = TRUE]
    /\ Unsubscribes(b)

(* scheduleFallback, three seconds later.                                  *)
FallsBack(b) ==
    /\ page[b].timer
    /\ page' = [page EXCEPT ![b].timer = FALSE, ![b].shown = Stored(b)]
    /\ UNCHANGED <<stream, breaks>>

(* onBeforeUnmount.                                                        *)
Leaves(b) ==
    /\ page[b].pc # "away"
    /\ page' = [page EXCEPT ![b].pc = "away", ![b].shown = "absent", ![b].timer = FALSE]
    /\ Unsubscribes(b)
    /\ UNCHANGED breaks

(* The queues are lost with the process, and every connection breaks.      *)
LosesStreams ==
    /\ stream' = [b \in Boards |-> [stream[b] EXCEPT !.open = FALSE]]
    /\ page' = [b \in Boards |->
                  IF page[b].pc = "streaming"
                  THEN [page[b] EXCEPT !.pc = "opening", !.timer = TRUE]
                  ELSE page[b]]
    /\ UNCHANGED breaks

-----------------------------------------------------------------------------
Watches(b) ==
    /\ \/ Mounts(b) \/ Opens(b) \/ TakesEvent(b) \/ TakesDone(b) \/ Reloads(b)
       \/ Breaks(b) \/ FallsBack(b) \/ Leaves(b)
    /\ UNCHANGED vars

StreamNext ==
    \/ Next /\ restarts' = restarts /\ Publishes /\ UNCHANGED <<page, breaks>>
    \/ Restart /\ LosesStreams
    \/ \E b \in Boards : Watches(b)

(* A browser connects, reads its stream and loads what it has asked for.   *)
StreamFairness ==
    \A b \in Boards :
      WF_svars((Opens(b) \/ TakesEvent(b) \/ TakesDone(b) \/ Reloads(b) \/ FallsBack(b))
               /\ UNCHANGED vars)

StreamSpec == StreamInit /\ [][StreamNext]_svars /\ Fairness /\ StreamFairness

-----------------------------------------------------------------------------
(* Properties *)

Delivered(b) == stream[b].got \o stream[b].queue

(* A page gets the events of its run in the order they were published,     *)
(* each at most once, and none from before it subscribed: one new queue    *)
(* per stream_events.                                                      *)
InOrderOnce ==
    \A b \in Boards :
        /\ \A i \in DOMAIN Delivered(b) :
             Delivered(b)[i] > stream[b].from /\ Delivered(b)[i] <= Len(Told(b))
        /\ \A i, j \in DOMAIN Delivered(b) : i < j => Delivered(b)[i] < Delivered(b)[j]

(* However slow the page, the first QueueSize events after it subscribed   *)
(* are not lost: a full queue drops what comes, not what is there.         *)
FirstEventsKept ==
    \A b \in Boards : stream[b].open =>
        \A k \in 1..QueueSize : stream[b].from + k <= Len(Told(b)) =>
            k \in DOMAIN Delivered(b) /\ Delivered(b)[k] = stream[b].from + k

(* A final status on the page is the stored one, but for the moment        *)
(* between done and the load that follows it.                              *)
ShownIsStored ==
    \A b \in Boards :
        page[b].shown \in Terminal /\ page[b].pc # "reloading" => page[b].shown = Stored(b)

Missed(b) == Len(Delivered(b)) < Len(Told(b)) - stream[b].from

(* A page that watches while a script runs shows the stored end of the run *)
(* in the end, unless it leaves, loses its connection or an event, or the  *)
(* execution does not get to its done.                                     *)
WatchedRunSettles ==
    \A b \in Boards :
        stream[b].open /\ exec[page[b].of].pc = "script" ~>
            \/ page[b].pc = "settled" /\ page[b].shown \in Terminal
            \/ page[b].pc \in {"away", "opening"}
            \/ Missed(b)
            \/ exec[page[b].of].pc \in {"error", "lost"}
=============================================================================
