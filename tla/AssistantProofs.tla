-------------------------- MODULE AssistantProofs --------------------------
(***************************************************************************)
(* Theorems about the assistant and the memory, for any number of          *)
(* overlapping turns, saves, edits and deletions: that what a turn or a    *)
(* save was told is stored, and that turns do not share a search.          *)
(***************************************************************************)
EXTENDS Assistant, FiniteSetTheorems, TLAPS

TurnPcs == {"idle", "asked", "flushed", "answering", "committed", "over"}
TurnType == [pc : TurnPcs, chat : Chats \cup {"none"}, searched : Turns \cup {"none"},
             aborted : BOOLEAN, question : {"none", "flushed", "stored"},
             answer : {"none", "stored"}, told : {"nothing", "tokens", "error", "done"}]

(* What a turn q of t may have stored and told, by how far it has come.    *)
Turned(t, q) ==
    /\ q.told = "done" => q.pc = "over" /\ q.answer = "stored"
    /\ q.answer = "stored" => q.question = "stored" /\ q.pc \in {"committed", "over"}
    /\ q.pc = "committed" => q.answer = "stored"
    /\ q.pc \in {"answering", "committed"} => q.searched = t

TurnInv == TypeOK /\ \A t \in Turns : Turned(t, turn[t])

-----------------------------------------------------------------------------
(* What the memory keeps to. *)

SavePcs == {"idle", "read", "flushed", "over", "lost"}
RowType == [there : BOOLEAN, topic : Topics \cup {"none"}, chat : Chats \cup {"none"},
            texts : SUBSET Saves]
SaveType == [pc : SavePcs, topic : Topics \cup {"none"}, chat : Chats \cup {"none"},
             at : Saves \cup {"none"}, seen : SUBSET Saves, met : BOOLEAN, id : Saves \cup Nat]
ChangeType == [pc : {"idle", "read", "flushed", "over"}, kind : {"none", "edit", "delete"},
               at : Saves \cup {"none"}]

MemoryType ==
    /\ row \in [Saves -> RowType]
    /\ save \in [Saves -> SaveType]
    /\ change \in [Changes -> ChangeType]
    /\ restarts \in Nat
    /\ IsFiniteSet(store)
    /\ \A s \in Saves : IsFiniteSet(row[s].texts) /\ IsFiniteSet(save[s].seen)
    /\ \A c \in Changes : change[c].pc \in {"read", "flushed"} => change[c].at \in Saves

(* A row holds a text, or was too full for it.                             *)
Keeps(texts, s) == s \in texts \/ Cardinality(texts) >= Room

(* Before its commit there is no row named after a save, and before its    *)
(* flush it has no id.                                                     *)
Unwritten(s) ==
    /\ save[s].pc \in {"idle", "read", "flushed"} => ~row[s].there
    /\ save[s].pc \in {"idle", "read"} => save[s].id = NoId
    /\ save[s].pc = "flushed" => save[s].id \in {NoId, save[s].at}

(* A save between its read and its commit is going to make its own row, or *)
(* to append to a row of its chat session, unless that has been erased.    *)
Reading(s) ==
    LET q == save[s] IN
    q.pc \in {"read", "flushed"} =>
        /\ q.at \in Saves
        /\ q.at \in {s} \cup erased \/ (row[q.at].there /\ row[q.at].chat = q.chat)

(* Save s was answered with a row, and committed, and nobody has erased    *)
(* that row since.                                                         *)
Answered(s) == save[s].pc = "over" /\ save[s].id \in Saves /\ save[s].id \notin erased

(* That row is there, of the chat session of s; it keeps the text of s if  *)
(* s met nobody, and so does what any save has read of the row that is     *)
(* going to append to it.                                                  *)
InItsRow(s) ==
    LET r == save[s].id IN
    Answered(s) =>
        /\ row[r].there /\ row[r].chat = save[s].chat
        /\ ~save[s].met => Keeps(row[r].texts, s)

Followed(s, w) ==
    Answered(s) /\ ~save[s].met /\ save[w].pc \in {"read", "flushed"} /\ save[w].at = save[s].id
        => Keeps(save[w].seen, s)

(* A save that was answered with a number is in the list.                  *)
Listed(s) ==
    save[s].pc = "over" /\ save[s].id \in Nat \ ({NoId} \cup erased)
        => restarts > 0 \/ [id |-> save[s].id, text |-> s] \in store

MemoryInv ==
    /\ MemoryType
    /\ \A s \in Saves : Unwritten(s) /\ Reading(s) /\ InItsRow(s) /\ Listed(s)
    /\ \A s, w \in Saves : Followed(s, w)

-----------------------------------------------------------------------------
(* The turns. *)

(* A step that changes one turn into a proper one keeps the invariant, if  *)
(* it leaves the chats and RETRIEVER proper.                               *)
LEMMA OneTurn ==
    ASSUME TurnInv, NEW t \in Turns, NEW q \in TurnType, Turned(t, q),
           turn' = [turn EXCEPT ![t] = q],
           chat' \in [Chats -> {"absent", "live", "deleted"}],
           retriever' \in Turns \cup {"none"}
    PROVE  TurnInv'
<1>1. turn' \in [Turns -> TurnType] /\ \A u \in Turns : turn'[u] = IF u = t THEN q ELSE turn[u]
  BY DEF TurnInv, TypeOK, TurnType, TurnPcs
<1>2. TypeOK'
  BY <1>1 DEF TypeOK, TurnType, TurnPcs
<1>3. \A u \in Turns : Turned(u, turn'[u])
  BY <1>1 DEF TurnInv
<1> QED
  BY <1>2, <1>3 DEF TurnInv, Turned

(* Every step of a turn, of a chat session or of the process leaves the    *)
(* turns proper; no step of the memory touches them.                       *)
LEMMA TurnStep ==
    ASSUME TurnInv, [Next]_vars
    PROVE  TurnInv'
<1>0. /\ TypeOK /\ turn \in [Turns -> TurnType] /\ \A t \in Turns : Turned(t, turn[t])
      /\ chat \in [Chats -> {"absent", "live", "deleted"}] /\ retriever \in Turns \cup {"none"}
  BY DEF TurnInv, TypeOK, TurnType, TurnPcs
<1>1. ASSUME NEW t \in Turns, Asks(t) PROVE TurnInv'
  <2>1. PICK c \in Chats : /\ chat' = [chat EXCEPT ![c] = "live"]
                           /\ turn' = [turn EXCEPT ![t].pc = "asked", ![t].chat = c]
    BY <1>1 DEF Asks
  <2> DEFINE q == [turn[t] EXCEPT !.pc = "asked", !.chat = c]
  <2>a. turn[t] \in TurnType /\ turn[t].pc = "idle" /\ Turned(t, turn[t])
    BY <1>0, <1>1 DEF Asks
  <2>b. q \in TurnType
    BY <2>a DEF TurnType, TurnPcs
  <2>c. /\ q.pc = "asked" /\ q.told = turn[t].told /\ q.answer = turn[t].answer
        /\ q.question = turn[t].question
    BY <2>a DEF TurnType
  <2>d. Turned(t, q)
    BY <2>a, <2>c DEF Turned
  <2>2. q \in TurnType /\ Turned(t, q) /\ turn' = [turn EXCEPT ![t] = q]
    BY <1>0, <2>1, <2>b, <2>d
  <2> HIDE DEF q
  <2> QED
    BY <1>0, <1>1, <2>1, <2>2, OneTurn DEF Asks
<1>2. ASSUME NEW t \in Turns, AsksNothing(t) PROVE TurnInv'
  <2> DEFINE q == [turn[t] EXCEPT !.pc = "over", !.told = "error"]
  <2>a. turn[t] \in TurnType /\ turn[t].pc = "idle" /\ Turned(t, turn[t])
    BY <1>0, <1>2 DEF AsksNothing
  <2>b. q \in TurnType
    BY <2>a DEF TurnType, TurnPcs
  <2>c. q.pc = "over" /\ q.told = "error" /\ q.answer = turn[t].answer
    BY <2>a DEF TurnType
  <2>d. Turned(t, q)
    BY <2>a, <2>c DEF Turned
  <2>e. turn' = [turn EXCEPT ![t] = q]
    BY <1>2 DEF AsksNothing
  <2>1. q \in TurnType /\ Turned(t, q) /\ turn' = [turn EXCEPT ![t] = q]
    BY <2>b, <2>d, <2>e
  <2> HIDE DEF q
  <2> QED
    BY <1>0, <1>2, <2>1, OneTurn DEF AsksNothing
<1>3. ASSUME NEW t \in Turns, Flushes(t) PROVE TurnInv'
  <2> DEFINE q == [turn[t] EXCEPT !.pc = "flushed", !.question = "flushed"]
  <2>a. turn[t] \in TurnType /\ turn[t].pc = "asked" /\ Turned(t, turn[t])
    BY <1>0, <1>3 DEF Flushes
  <2>b. q \in TurnType
    BY <2>a DEF TurnType, TurnPcs
  <2>c. q.pc = "flushed" /\ q.told = turn[t].told /\ q.answer = turn[t].answer
    BY <2>a DEF TurnType
  <2>d. Turned(t, q)
    BY <2>a, <2>c DEF Turned
  <2>e. turn' = [turn EXCEPT ![t] = q]
    BY <1>3 DEF Flushes
  <2>1. q \in TurnType /\ Turned(t, q) /\ turn' = [turn EXCEPT ![t] = q]
    BY <2>b, <2>d, <2>e
  <2> HIDE DEF q
  <2> QED
    BY <1>0, <1>3, <2>1, OneTurn DEF Flushes
<1>4. ASSUME NEW t \in Turns, Searches(t) PROVE TurnInv'
  <2>1. PICK a \in BOOLEAN :
          turn' = [turn EXCEPT ![t].pc = "answering", ![t].searched = retriever',
                               ![t].aborted = a, ![t].told = "tokens"]
    BY <1>4 DEF Searches
  <2> DEFINE q == [turn[t] EXCEPT !.pc = "answering", !.searched = t,
                                  !.aborted = a, !.told = "tokens"]
  <2>2. retriever' = t
    BY <1>4 DEF Searches
  <2>a. turn[t] \in TurnType /\ turn[t].pc = "flushed" /\ Turned(t, turn[t])
    BY <1>0, <1>4 DEF Searches
  <2>b. q \in TurnType
    BY <2>a DEF TurnType, TurnPcs
  <2>c. /\ q.pc = "answering" /\ q.told = "tokens" /\ q.answer = turn[t].answer
        /\ q.searched = t
    BY <2>a DEF TurnType
  <2>3. q \in TurnType /\ Turned(t, q)
    BY <2>a, <2>b, <2>c DEF Turned
  <2>4. turn' = [turn EXCEPT ![t] = q]
    BY <1>0, <2>1, <2>2 DEF TurnType
  <2> HIDE DEF q
  <2> QED
    BY <1>0, <1>4, <2>2, <2>3, <2>4, OneTurn DEF Searches
<1>5. ASSUME NEW t \in Turns, NEW told \in {"error", turn[t].told}, NEW q \in Ended(t, told),
             turn[t].pc \in {"asked", "flushed", "answering"}
      PROVE  q \in TurnType /\ Turned(t, q)
  <2>1. PICK w \in {"none", "stored"} :
          q = [turn[t] EXCEPT !.pc = "over", !.told = told, !.question = w]
    BY <1>5 DEF Ended
  <2>2. told \in {"nothing", "tokens", "error"} /\ turn[t].answer = "none"
    BY <1>0, <1>5 DEF TurnType, TurnPcs, Turned
  <2>a. turn[t] \in TurnType
    BY <1>0
  <2>3. q \in TurnType
    BY <2>1, <2>2, <2>a DEF TurnType, TurnPcs
  <2>4. q.answer = "none" /\ q.pc = "over" /\ q.told = told
    BY <2>1, <2>2, <2>a DEF TurnType
  <2> QED
    BY <2>2, <2>3, <2>4 DEF Turned
<1>6. ASSUME NEW t \in Turns, Errs(t) \/ Breaks(t) PROVE TurnInv'
  <2>1. PICK told \in {"error", turn[t].told} : \E q \in Ended(t, told) : turn' = [turn EXCEPT ![t] = q]
    BY <1>6 DEF Errs, Breaks
  <2>2. PICK q \in Ended(t, told) : turn' = [turn EXCEPT ![t] = q]
    BY <2>1
  <2>3. q \in TurnType /\ Turned(t, q)
    BY <1>5, <1>6 DEF Errs, Breaks
  <2> QED
    BY <1>0, <1>6, <2>2, <2>3, OneTurn DEF Errs, Breaks
<1>7. ASSUME NEW t \in Turns, Commits(t) PROVE TurnInv'
  <2> DEFINE q == [turn[t] EXCEPT !.pc = "committed", !.question = "stored", !.answer = "stored"]
  <2>1. q \in TurnType /\ Turned(t, q) /\ turn' = [turn EXCEPT ![t] = q]
    BY <1>0, <1>7 DEF Commits, TurnType, TurnPcs, Turned
  <2> HIDE DEF q
  <2> QED
    BY <1>0, <1>7, <2>1, OneTurn DEF Commits
<1>8. ASSUME NEW t \in Turns, SaysDone(t) PROVE TurnInv'
  <2>1. PICK told \in {"done", turn[t].told} :
          turn' = [turn EXCEPT ![t].pc = "over", ![t].told = told]
    BY <1>8 DEF SaysDone
  <2> DEFINE q == [turn[t] EXCEPT !.pc = "over", !.told = told]
  <2>a. turn[t] \in TurnType /\ turn[t].pc = "committed" /\ Turned(t, turn[t])
    BY <1>0, <1>8 DEF SaysDone
  <2>b. q \in TurnType
    BY <2>a DEF TurnType, TurnPcs
  <2>c. q.pc = "over" /\ q.answer = turn[t].answer /\ q.question = turn[t].question
    BY <2>a DEF TurnType
  <2>2. q \in TurnType /\ Turned(t, q) /\ turn' = [turn EXCEPT ![t] = q]
    BY <1>0, <2>1, <2>a, <2>b, <2>c DEF Turned
  <2> HIDE DEF q
  <2> QED
    BY <1>0, <1>8, <2>2, OneTurn DEF SaysDone
<1>9. ASSUME UNCHANGED <<turn, retriever>>, NEW c \in Chats, CreatesChat(c) \/ DeletesChat(c)
      PROVE  TurnInv'
  <2>1. chat' \in [Chats -> {"absent", "live", "deleted"}]
    BY <1>0, <1>9 DEF CreatesChat, DeletesChat
  <2> QED
    BY <1>0, <1>9, <2>1 DEF TurnInv, TypeOK
<1>10. ASSUME UNCHANGED <<chat, turn, retriever>> PROVE TurnInv'
  BY <1>10 DEF TurnInv, TypeOK
<1>11. ASSUME Restart PROVE TurnInv'
  <2>1. ASSUME NEW t \in Turns
        PROVE  turn'[t] \in TurnType /\ Turned(t, turn'[t])
    <3>0. turn[t] \in TurnType /\ Turned(t, turn[t])
      BY <1>0
    <3> DEFINE idle == turn[t].pc = "idle"
               open == turn[t].question = "flushed"
               lost == [turn[t] EXCEPT !.pc = "over", !.question = "none"]
               ended == [turn[t] EXCEPT !.pc = "over"]
    <3>1. turn'[t] = CASE idle -> turn[t] [] open -> lost [] OTHER -> ended
      BY <1>11 DEF Restart
    <3>2. /\ idle \in BOOLEAN /\ open \in BOOLEAN
          /\ lost \in TurnType /\ lost.pc = "over" /\ lost.answer = turn[t].answer
          /\ lost.told = turn[t].told
          /\ ended \in TurnType /\ ended.pc = "over" /\ ended.answer = turn[t].answer
          /\ ended.told = turn[t].told /\ ended.question = turn[t].question
      BY <3>0 DEF TurnType, TurnPcs
    <3>3. (open => Turned(t, lost)) /\ Turned(t, ended)
      BY <3>0, <3>2 DEF Turned
    <3> HIDE DEF idle, open, lost, ended
    <3>4. turn'[t] \in {turn[t], ended} \/ (open /\ turn'[t] = lost)
      BY <3>1, <3>2
    <3> QED
      BY <3>0, <3>2, <3>3, <3>4
  <2>2. turn' = [t \in Turns |-> turn'[t]]
    <3> DEFINE next(t) == CASE turn[t].pc = "idle" -> turn[t]
                            [] turn[t].question = "flushed" ->
                                 [turn[t] EXCEPT !.pc = "over", !.question = "none"]
                            [] OTHER -> [turn[t] EXCEPT !.pc = "over"]
    <3>1. turn' = [t \in Turns |-> next(t)]
      BY <1>11 DEF Restart
    <3> HIDE DEF next
    <3> QED
      BY <3>1
  <2>3. turn' \in [Turns -> TurnType]
    BY <2>1, <2>2
  <2>4. TypeOK'
    BY <1>0, <1>11, <2>3 DEF Restart, TypeOK, TurnType, TurnPcs
  <2> QED
    BY <2>1, <2>4 DEF TurnInv, Turned
<1> QED
  BY <1>1, <1>2, <1>3, <1>4, <1>6, <1>7, <1>8, <1>9, <1>10, <1>11
     DEF Next, vars, CreatesChat, DeletesChat

(* The invariant of the turns holds of every behaviour, whatever the       *)
(* memory does in between.                                                 *)
THEOREM TurnsInductive == Spec => []TurnInv
<1>1. Init => TurnInv
  <2> SUFFICES ASSUME Init
               PROVE  TurnInv
    OBVIOUS
  <2>1. NoTurn \in TurnType /\ \A t \in Turns : Turned(t, NoTurn)
    BY DEF NoTurn, TurnType, TurnPcs, Turned
  <2> QED
    BY <2>1 DEF Init, TurnInv, TypeOK, TurnType, TurnPcs
<1> QED
  BY <1>1, TurnStep, PTL DEF Spec

(* A turn that says done has stored its question and its answer, and an    *)
(* answer is never stored alone, however many turns, breaks and restarts   *)
(* there are.                                                              *)
THEOREM DoneStored == Spec => []DoneIsStored
<1>1. TurnInv => DoneIsStored
  BY DEF TurnInv, Turned, DoneIsStored
<1> QED
  BY <1>1, TurnsInductive, PTL

(* No turn searches what the user of another one ticked, though they all   *)
(* set the same global.                                                    *)
THEOREM SearchesOwn == Spec => []OwnSearch
<1>1. TurnInv => OwnSearch
  BY DEF TurnInv, Turned, OwnSearch
<1> QED
  BY <1>1, TurnsInductive, PTL

-----------------------------------------------------------------------------
(* The memory. *)

(* A text that a row keeps, it keeps when another one is appended, and the *)
(* appended one as well.                                                   *)
LEMMA AppendedKeeps ==
    ASSUME NEW texts, IsFiniteSet(texts), NEW s, NEW u
    PROVE  /\ IsFiniteSet(Appended(texts, s))
           /\ Keeps(Appended(texts, s), s)
           /\ Keeps(texts, u) => Keeps(Appended(texts, s), u)
<1>1. IsFiniteSet(texts \cup {s}) /\ Cardinality(texts) \in Nat
  BY FS_AddElement, FS_CardinalityType
<1>2. CASE Cardinality(texts) < Room
  BY <1>1, <1>2, MemoryAssumption DEF Appended, Keeps
<1>3. CASE ~(Cardinality(texts) < Room)
  BY <1>1, <1>3, MemoryAssumption DEF Appended, Keeps
<1> QED
  BY <1>2, <1>3

(* The facts of a single save that the cases below use.                    *)
LEMMA AboutSave ==
    ASSUME MemoryInv, NEW s \in Saves
    PROVE  /\ save[s] \in SaveType /\ row[s] \in RowType
           /\ IsFiniteSet(row[s].texts) /\ IsFiniteSet(save[s].seen)
           /\ Unwritten(s) /\ Reading(s) /\ InItsRow(s) /\ Listed(s)
           /\ \A w \in Saves : Followed(s, w)
  BY DEF MemoryInv, MemoryType

(* A save that reads, flushes, answers, fails, or is answered from the     *)
(* list leaves every other save with what it had.                          *)
LEMMA SaveMoves ==
    ASSUME MemoryInv, NEW s \in Saves, NEW q \in SaveType, save[s].pc # "over",
           save' = [save EXCEPT ![s] = q], UNCHANGED <<row, change, erased, restarts>>,
           store \subseteq store', IsFiniteSet(store'), IsFiniteSet(q.seen),
           q.pc \in {"read", "flushed", "over", "lost"}, q.pc = "read" => q.seen = row[q.at].texts,
           q.pc = "flushed" => /\ save[s].pc \in {"read", "flushed"}
                               /\ q.seen = save[s].seen /\ q.at = save[s].at,
           q.pc = "over" => q.id \in Nat,
           Unwritten(s)', Reading(s)', Listed(s)'
    PROVE  MemoryInv'
<1>1. /\ save' \in [Saves -> SaveType] /\ save'[s] = q
      /\ \A u \in Saves \ {s} : save'[u] = save[u]
  BY DEF MemoryInv, MemoryType
<1>2. MemoryType'
  BY <1>1 DEF MemoryInv, MemoryType
<1>3. ~Answered(s)'
  BY <1>1, MemoryAssumption DEF Answered
<1>4. ASSUME NEW u \in Saves \ {s}
      PROVE  /\ Unwritten(u)' /\ Reading(u)' /\ InItsRow(u)' /\ Listed(u)'
             /\ Answered(u)' = Answered(u)
  BY <1>1, <1>4, AboutSave DEF Unwritten, Reading, InItsRow, Answered, Listed
<1>5. ASSUME NEW u \in Saves, NEW w \in Saves
      PROVE  Followed(u, w)'
  <2>1. CASE u = s
    BY <1>3, <2>1 DEF Followed
  <2>2. CASE u # s /\ w # s
    BY <1>1, <1>4, <2>2, AboutSave DEF Followed
  <2>3. CASE u # s /\ w = s
    BY <1>1, <1>4, <2>3, AboutSave DEF Followed, InItsRow
  <2> QED
    BY <2>1, <2>2, <2>3
<1>6. InItsRow(s)'
  BY <1>3 DEF InItsRow
<1> QED
  BY <1>2, <1>4, <1>5, <1>6 DEF MemoryInv

(* The first end of a save: what it reads is what the row keeps.           *)
LEMMA ReadsKeep ==
    ASSUME MemoryInv, NEW s \in Saves, SaveReads(s)
    PROVE  MemoryInv'
<1>0. /\ save[s] \in SaveType /\ save[s].pc = "idle" /\ Unwritten(s) /\ save[s].id = NoId
      /\ IsFiniteSet(save[s].seen) /\ IsFiniteSet(store) /\ UNCHANGED store
      /\ save \in [Saves -> SaveType] /\ ~row[s].there
  BY AboutSave DEF SaveReads, Unwritten, MemoryInv, MemoryType
<1>1. PICK t \in Topics, c \in Chats :
        LET like == {r \in Rows : row[r].chat = c /\ <<row[r].topic, t>> \in Alike} IN
        \/ save' = [save EXCEPT ![s].pc = "over"]
        \/ \E r \in IF like = {} THEN {s} ELSE like :
             save' = [save EXCEPT ![s] = [@ EXCEPT !.pc = "read", !.topic = t, !.chat = c,
                                                   !.at = r, !.seen = row[r].texts]]
  BY DEF SaveReads
<1>2. CASE save' = [save EXCEPT ![s].pc = "over"]
  <2> DEFINE q == [save[s] EXCEPT !.pc = "over"]
  <2>1. /\ q \in SaveType /\ q.pc = "over" /\ q.seen = save[s].seen /\ q.id = NoId
        /\ save' = [save EXCEPT ![s] = q]
    BY <1>0, <1>2 DEF SaveType, SavePcs
  <2> HIDE DEF q
  <2>2. save'[s] = q
    BY <1>0, <2>1
  <2>3. Unwritten(s)' /\ Reading(s)' /\ Listed(s)'
    BY <2>1, <2>2 DEF Unwritten, Reading, Listed
  <2>4. q.pc \in {"read", "over"} /\ q.pc \notin {"read", "flushed"} /\ q.id \in Nat
    BY <2>1 DEF NoId
  <2> QED
    BY <1>0, <2>1, <2>3, <2>4, SaveMoves DEF SaveReads
<1>3. ASSUME NEW r \in Saves, r # s => row[r].there /\ row[r].chat = c,
             save' = [save EXCEPT ![s] = [@ EXCEPT !.pc = "read", !.topic = t, !.chat = c,
                                                   !.at = r, !.seen = row[r].texts]]
      PROVE  MemoryInv'
  <2> DEFINE q == [save[s] EXCEPT !.pc = "read", !.topic = t, !.chat = c,
                                  !.at = r, !.seen = row[r].texts]
  <2>1. row[r].texts \in SUBSET Saves /\ IsFiniteSet(row[r].texts)
    BY AboutSave DEF RowType
  <2>2. /\ q \in SaveType /\ q.pc = "read" /\ q.seen = row[r].texts /\ q.id = NoId
        /\ q.at = r /\ q.chat = c
    BY <1>0, <2>1 DEF SaveType, SavePcs
  <2>3. save' = [save EXCEPT ![s] = q]
    BY <1>0, <1>3
  <2> HIDE DEF q
  <2>4. save'[s] = q
    BY <1>0, <2>3
  <2>5. Unwritten(s)' /\ Reading(s)' /\ Listed(s)'
    BY <1>0, <1>3, <2>2, <2>4 DEF SaveReads, Unwritten, Reading, Listed
  <2> QED
    BY <1>0, <2>1, <2>2, <2>3, <2>5, SaveMoves DEF SaveReads
<1> QED
  BY <1>1, <1>2, <1>3 DEF Rows

(* The end of a save in the list.                                          *)
LEMMA FallsBackKeeps ==
    ASSUME MemoryInv, NEW s \in Saves, SaveFallsBack(s)
    PROVE  MemoryInv'
<1>0. /\ save[s] \in SaveType /\ save[s].pc \in {"idle", "read"} /\ Unwritten(s)
      /\ IsFiniteSet(save[s].seen) /\ IsFiniteSet(store) /\ save \in [Saves -> SaveType]
  BY AboutSave DEF SaveFallsBack, MemoryInv, MemoryType
<1> DEFINE n == Cardinality(store) + 1
           e == [id |-> n, text |-> s]
<1>1. n \in Nat
  BY <1>0, FS_CardinalityType
<1>2. IsFiniteSet(store \cup {e})
  <2> HIDE DEF e
  <2> QED
    BY <1>0, FS_AddElement
<1>3. /\ store' = store \cup {e} /\ UNCHANGED <<row, change, erased, restarts>>
      /\ \E id \in {n, NoId} : save' = [save EXCEPT ![s].pc = "over", ![s].id = id]
  BY DEF SaveFallsBack
<1> HIDE DEF n
<1>4. PICK id \in {n, NoId} : save' = [save EXCEPT ![s].pc = "over", ![s].id = id]
  BY <1>3
<1> DEFINE q == [save[s] EXCEPT !.pc = "over", !.id = id]
<1>5. id \in Nat
  BY <1>1 DEF NoId
<1>6. /\ q \in SaveType /\ q.pc = "over" /\ q.seen = save[s].seen /\ q.id = id
      /\ save' = [save EXCEPT ![s] = q]
  BY <1>0, <1>4, <1>5 DEF SaveType, SavePcs
<1> HIDE DEF q
<1>7. save'[s] = q
  BY <1>0, <1>6
<1>8. e \in store' /\ (id # NoId => e = [id |-> save'[s].id, text |-> s])
  BY <1>3, <1>6, <1>7
<1>9. Unwritten(s)' /\ Reading(s)' /\ Listed(s)'
  BY <1>6, <1>7, <1>8 DEF Unwritten, Reading, Listed
<1> HIDE DEF e
<1>10. save[s].pc # "over" /\ q.pc \in {"read", "over"} /\ q.pc \notin {"read", "flushed"}
  BY <1>0, <1>6
<1> QED
  BY <1>0, <1>2, <1>3, <1>5, <1>6, <1>9, <1>10, SaveMoves

(* The flush of a save, its answer, and a commit that raises leave the     *)
(* table alone.                                                            *)
LEMMA FlushKeeps ==
    ASSUME MemoryInv, NEW s \in Saves, SaveFlushes(s) \/ SaveAnswers(s) \/ SaveFails(s)
    PROVE  MemoryInv'
<1>0. /\ save[s] \in SaveType /\ save[s].pc \in {"read", "flushed"}
      /\ Unwritten(s) /\ Reading(s) /\ save \in [Saves -> SaveType]
      /\ IsFiniteSet(save[s].seen) /\ IsFiniteSet(store)
      /\ UNCHANGED <<row, store, change, erased, restarts>>
  BY AboutSave DEF SaveFlushes, SaveAnswers, SaveFails, MemoryInv, MemoryType
<1>1. PICK pc \in {"flushed", "lost"}, id \in {save[s].id, save[s].at} :
        save' = [save EXCEPT ![s].pc = pc, ![s].id = id]
  <2>1. CASE SaveFlushes(s)
    <3>1. save' = [save EXCEPT ![s].pc = "flushed", ![s].id = save[s].id]
      BY <1>0, <2>1 DEF SaveFlushes, SaveType
    <3> QED
      BY <3>1
  <2>2. CASE SaveAnswers(s)
    <3>1. save' = [save EXCEPT ![s].pc = "flushed", ![s].id = save[s].at]
      BY <1>0, <2>2 DEF SaveAnswers, SaveType
    <3> QED
      BY <3>1
  <2>3. CASE SaveFails(s)
    <3>1. save' = [save EXCEPT ![s].pc = "lost", ![s].id = save[s].id]
      BY <1>0, <2>3 DEF SaveFails, SaveType
    <3> QED
      BY <3>1
  <2> QED
    BY <2>1, <2>2, <2>3
<1> DEFINE q == [save[s] EXCEPT !.pc = pc, !.id = id]
<1>2. save[s].at \in Saves /\ id \in Saves \cup Nat
  BY <1>0 DEF Reading, SaveType
<1>3. /\ q \in SaveType /\ q.pc = pc /\ q.id = id /\ q.seen = save[s].seen /\ q.at = save[s].at
      /\ q.chat = save[s].chat /\ save' = [save EXCEPT ![s] = q]
  BY <1>0, <1>1, <1>2 DEF SaveType, SavePcs
<1> HIDE DEF q
<1>4. save'[s] = q
  BY <1>0, <1>3
<1>5. Unwritten(s)' /\ Reading(s)' /\ Listed(s)'
  BY <1>0, <1>1, <1>3, <1>4 DEF Unwritten, Reading, Listed
<1>6. save[s].pc # "over" /\ q.pc \in {"flushed", "lost"} /\ IsFiniteSet(q.seen)
  BY <1>0, <1>3
<1> QED
  BY <1>0, <1>3, <1>5, <1>6, SaveMoves

(* The commit of a save.  Whoever is about to write to the same row either *)
(* overlaps it, which makes both of them meet, or cannot exist: no row is  *)
(* named after a save without a commit, and a row has one chat session.    *)
LEMMA CommitKeeps ==
    ASSUME MemoryInv, NEW s \in Saves, SaveCommits(s)
    PROVE  MemoryInv'
<1> DEFINE a == save[s].at
           chat_s == save[s].chat
           made == [there |-> TRUE, topic |-> save[s].topic, chat |-> chat_s, texts |-> {s}]
           more == [row[a] EXCEPT !.texts = Appended(save[s].seen, s)]
           after == IF a = s THEN made ELSE more
           met == Overlapping(s) # {}
<1>1. /\ save[s].pc = "flushed" /\ row' = [row EXCEPT ![a] = after]
      /\ UNCHANGED <<store, change, erased, restarts>>
  BY DEF SaveCommits
<1>2. /\ a \in Saves /\ save[s] \in SaveType /\ row[a] \in RowType
      /\ IsFiniteSet(save[s].seen) /\ ~row[s].there
      /\ save \in [Saves -> SaveType] /\ row \in [Saves -> RowType]
  BY <1>1, AboutSave DEF Reading, Unwritten, MemoryInv, MemoryType
<1>3. /\ Appended(save[s].seen, s) \in SUBSET Saves /\ IsFiniteSet(Appended(save[s].seen, s))
      /\ Keeps(Appended(save[s].seen, s), s)
  BY <1>2, AppendedKeeps DEF Appended, SaveType
<1>4. /\ after \in RowType /\ IsFiniteSet(after.texts)
      /\ after.there => a = s \/ row[a].there
      /\ a = s \/ row[a].there => after.there
      /\ after.chat = IF a = s THEN chat_s ELSE row[a].chat
      /\ after.texts = IF a = s THEN {s} ELSE Appended(save[s].seen, s)
  <2>1. made \in RowType /\ made.there /\ made.chat = chat_s /\ made.texts = {s}
    BY <1>2 DEF RowType, SaveType
  <2>2. a # s => /\ more \in RowType /\ more.chat = row[a].chat
                 /\ (more.there => row[a].there) /\ (row[a].there => more.there)
                 /\ more.texts = Appended(save[s].seen, s)
    BY <1>1, <1>2, <1>3 DEF RowType
  <2>3. IsFiniteSet({s})
    BY FS_Singleton
  <2> HIDE DEF made, more
  <2> QED
    BY <1>3, <2>1, <2>2, <2>3
<1>5. /\ row' \in [Saves -> RowType] /\ row'[a] = after
      /\ \A r \in Saves \ {a} : row'[r] = row[r]
  BY <1>1, <1>2, <1>4
<1> HIDE DEF after, made, more
<1>6. ASSUME NEW u \in Saves
      PROVE  /\ Met(s)[u] \in SaveType /\ Met(s)[u].pc = save[u].pc
             /\ Met(s)[u].topic = save[u].topic /\ Met(s)[u].chat = save[u].chat
             /\ Met(s)[u].at = save[u].at /\ Met(s)[u].seen = save[u].seen
             /\ Met(s)[u].id = save[u].id
             /\ Met(s)[u].met = (save[u].met \/ u \in Overlapping(s) \/ (u = s /\ met))
  <2>1. save[u] \in SaveType
    BY <1>2
  <2>2. CASE u \in Overlapping(s) \/ (u = s /\ Overlapping(s) # {})
    BY <2>1, <2>2 DEF Met, SaveType
  <2>3. CASE ~(u \in Overlapping(s) \/ (u = s /\ Overlapping(s) # {}))
    BY <2>1, <2>3 DEF Met, SaveType
  <2> QED
    BY <2>2, <2>3
<1>7. PICK i \in {save[s].id, a} : save' = [Met(s) EXCEPT ![s].pc = "over", ![s].id = i]
  BY DEF SaveCommits
<1>d. DOMAIN Met(s) = Saves /\ i \in {NoId, a}
  BY <1>1, AboutSave DEF Met, Unwritten
<1> HIDE DEF met
<1>8. /\ save'[s] \in SaveType /\ save'[s].pc = "over" /\ save'[s].id = i
      /\ save'[s].chat = chat_s /\ save'[s].seen = save[s].seen
      /\ met => save'[s].met
  <2> DEFINE m == Met(s)[s]
  <2>1. /\ m \in SaveType /\ m.chat = chat_s /\ m.seen = save[s].seen
        /\ met => m.met
    BY <1>6
  <2>2. save'[s] = [m EXCEPT !.pc = "over", !.id = i]
    BY <1>7, <1>d
  <2>3. i \in Saves \cup Nat
    BY <1>2, <1>d DEF NoId
  <2> HIDE DEF m, a, chat_s
  <2>4. [m EXCEPT !.pc = "over", !.id = i] \in SaveType
    BY <2>1, <2>3 DEF SaveType, SavePcs
  <2>5. /\ save'[s].pc = "over" /\ save'[s].id = i /\ save'[s].chat = m.chat
        /\ save'[s].seen = m.seen /\ save'[s].met = m.met
    BY <2>1, <2>2 DEF SaveType
  <2> QED
    BY <2>1, <2>2, <2>4, <2>5
<1>9. ASSUME NEW u \in Saves \ {s}
      PROVE  /\ save'[u] \in SaveType /\ save'[u].pc = save[u].pc
             /\ save'[u].chat = save[u].chat /\ save'[u].at = save[u].at
             /\ save'[u].seen = save[u].seen /\ save'[u].id = save[u].id
             /\ save[u].pc = "over" => save'[u].met = save[u].met
  <2>1. save'[u] = Met(s)[u]
    BY <1>7, <1>d
  <2>2. save[u].pc = "over" => u \notin Overlapping(s)
    BY DEF Overlapping
  <2>3. save[u].met \in BOOLEAN
    BY <1>2 DEF SaveType
  <2> QED
    BY <1>6, <2>1, <2>2, <2>3
<1>10. save' \in [Saves -> SaveType]
  <2>1. \A u \in Saves : save'[u] \in SaveType
    BY <1>8, <1>9
  <2> DEFINE over == [Met(s)[s] EXCEPT !.pc = "over", !.id = i]
  <2>2. save' = [Met(s) EXCEPT ![s] = over]
    BY <1>7
  <2>3. Met(s) \in [Saves -> SaveType]
    BY <1>6 DEF Met
  <2>4. save'[s] = over
    BY <1>7, <1>d
  <2> HIDE DEF over
  <2> QED
    BY <2>1, <2>2, <2>3, <2>4
<1> HIDE DEF a, chat_s
<1>11. MemoryType'
  <2>1. \A u \in Saves : IsFiniteSet(row'[u].texts) /\ IsFiniteSet(save'[u].seen)
    BY <1>2, <1>4, <1>5, <1>8, <1>9, AboutSave
  <2> QED
    BY <1>1, <1>5, <1>10, <2>1 DEF MemoryInv, MemoryType
<1>e. Answered(s)' => i = a /\ a \notin erased /\ (a = s \/ row[a].there)
  BY <1>1, <1>2, <1>8, <1>d, AboutSave, MemoryAssumption DEF Answered, Reading, NoId, a
<1>12. ASSUME NEW u \in Saves \ {s}, a = u, save[u].pc \in {"idle", "read", "flushed"}
       PROVE  ~row'[u].there
  BY <1>4, <1>5, <1>12, AboutSave DEF Unwritten
<1>13. ASSUME NEW u \in Saves
       PROVE  Unwritten(u)'
  <2>1. CASE u = s
    BY <1>8, <2>1 DEF Unwritten
  <2>2. CASE u # s
    <3>1. a # u => row'[u] = row[u]
      BY <1>5
    <3>2. save'[u].pc = save[u].pc /\ save'[u].id = save[u].id /\ save'[u].at = save[u].at
      BY <1>9, <2>2
    <3>3. Unwritten(u)
      BY AboutSave
    <3> QED
      BY <1>12, <2>2, <3>1, <3>2, <3>3 DEF Unwritten
  <2> QED
    BY <2>1, <2>2
<1>14. ASSUME NEW u \in Saves
       PROVE  Reading(u)'
  <2>1. CASE u = s
    BY <1>8, <2>1 DEF Reading
  <2>2. CASE u # s
    <3>1. Reading(u)
      BY AboutSave
    <3>2. ASSUME NEW r \in Saves, row[r].there
          PROVE  row'[r].there /\ row'[r].chat = row[r].chat
      BY <1>2, <1>4, <1>5, <3>2
    <3> QED
      BY <1>1, <1>9, <2>2, <3>1, <3>2 DEF Reading
  <2> QED
    BY <2>1, <2>2
<1>15. ASSUME NEW u \in Saves \ {s}, Answered(u)'
       PROVE  /\ Answered(u) /\ row[save[u].id].there /\ save[u].id # s
              /\ save'[u].met = save[u].met
  <2>1. Answered(u)
    BY <1>1, <1>9, <1>15 DEF Answered
  <2> QED
    BY <1>2, <1>9, <2>1, AboutSave DEF InItsRow, Answered
<1>16. ASSUME NEW u \in Saves
       PROVE  InItsRow(u)'
  <2> SUFFICES ASSUME Answered(u)'
               PROVE  /\ row'[save'[u].id].there /\ row'[save'[u].id].chat = save'[u].chat
                      /\ ~save'[u].met => Keeps(row'[save'[u].id].texts, u)
    BY DEF InItsRow
  <2>1. CASE u = s
    <3>1. i = a /\ (a # s => row[a].there /\ row[a].chat = chat_s)
      BY <1>1, <1>2, <1>8, <1>e, <2>1, AboutSave DEF Reading, Answered, a, chat_s
    <3>2. Keeps({s}, s)
      BY DEF Keeps
    <3> QED
      BY <1>3, <1>4, <1>5, <1>8, <2>1, <3>1, <3>2
  <2>2. CASE u # s
    <3>1. /\ Answered(u) /\ row[save[u].id].there /\ save[u].id # s
          /\ save'[u].met = save[u].met /\ save'[u].id = save[u].id
          /\ save'[u].chat = save[u].chat /\ save[u].id \in Saves
      BY <1>9, <1>15, <2>2 DEF Answered
    <3>2. InItsRow(u) /\ Followed(u, s)
      BY AboutSave
    <3>3. CASE save[u].id # a
      BY <1>5, <3>1, <3>2, <3>3 DEF InItsRow
    <3>4. CASE save[u].id = a
      <4>1. a # s /\ row'[a] = after /\ (row[a].there => after.there) /\ after.chat = row[a].chat
            /\ after.texts = Appended(save[s].seen, s)
        BY <1>4, <1>5, <3>1, <3>4
      <4>2. ~save[u].met => Keeps(save[s].seen, u)
        BY <1>1, <3>1, <3>2, <3>4 DEF Followed, a
      <4>3. ~save[u].met => Keeps(Appended(save[s].seen, s), u)
        BY <1>2, <4>2, AppendedKeeps
      <4> QED
        BY <3>1, <3>2, <3>4, <4>1, <4>3 DEF InItsRow
    <3> QED
      BY <3>3, <3>4
  <2> QED
    BY <2>1, <2>2
<1>17. ASSUME NEW u \in Saves
       PROVE  Listed(u)'
  <2>1. CASE u = s
    BY <1>2, <1>8, <1>d, <2>1, MemoryAssumption DEF Listed
  <2>2. CASE u # s
    BY <1>1, <1>9, <2>2, AboutSave DEF Listed
  <2> QED
    BY <2>1, <2>2
<1>18. ASSUME NEW u \in Saves, NEW w \in Saves
       PROVE  Followed(u, w)'
  <2> SUFFICES ASSUME Answered(u)', ~save'[u].met, save'[w].pc \in {"read", "flushed"},
                      save'[w].at = save'[u].id
               PROVE  Keeps(save'[w].seen, u)
    BY DEF Followed
  <2>1. /\ w # s /\ save[w].pc \in {"read", "flushed"}
        /\ save'[w].seen = save[w].seen /\ save'[w].at = save[w].at
    BY <1>8, <1>9
  <2>2. CASE u = s
    <3>1. save[w].at = a /\ a \notin erased
      BY <1>1, <1>8, <1>e, <2>1, <2>2
    <3>2. w \notin Overlapping(s)
      BY <1>8, <2>2 DEF met
    <3>3. save[w].chat # chat_s
      BY <2>1, <3>2 DEF Overlapping, chat_s
    <3>4. a # w
      BY <1>1, <1>e, <2>1, <2>2, AboutSave DEF Unwritten
    <3>5. row[a].there /\ row[a].chat = save[w].chat
      BY <2>1, <3>1, <3>4, AboutSave DEF Reading
    <3>6. a # s /\ row[a].chat = chat_s
      BY <1>1, <1>2, <3>1, <3>5, AboutSave DEF Reading, a, chat_s
    <3> QED
      BY <3>3, <3>5, <3>6
  <2>3. CASE u # s
    BY <1>9, <1>15, <2>1, <2>3, AboutSave DEF Followed
  <2> QED
    BY <2>2, <2>3
<1> QED
  BY <1>11, <1>13, <1>14, <1>16, <1>17, <1>18 DEF MemoryInv

(* An edit or a deletion: whoever answered with that row is now erased.    *)
LEMMA ChangesKeep ==
    ASSUME MemoryInv, NEW c \in Changes, ChangeCommits(c)
    PROVE  MemoryInv'
<1> DEFINE r == change[c].at
<1>1. /\ r \in Saves /\ row[r] \in RowType /\ IsFiniteSet(row[r].texts)
      /\ change[c] \in ChangeType /\ change \in [Changes -> ChangeType]
      /\ row \in [Saves -> RowType]
  BY DEF ChangeCommits, MemoryInv, MemoryType
<1>2. /\ change' = [change EXCEPT ![c].pc = "over"] /\ erased' = erased \cup {r}
      /\ UNCHANGED <<store, save, restarts>>
  BY DEF ChangeCommits
<1>3. PICK x \in RowType : /\ row' = [row EXCEPT ![r] = x] /\ IsFiniteSet(x.texts)
                           /\ x.there => row[r].there
  <2>1. CASE \E t \in Topics \cup {row[r].topic}, texts \in {row[r].texts, {}} :
               row' = [row EXCEPT ![r].topic = t, ![r].texts = texts]
    <3>1. PICK t \in Topics \cup {row[r].topic}, texts \in {row[r].texts, {}} :
            row' = [row EXCEPT ![r].topic = t, ![r].texts = texts]
      BY <2>1
    <3> DEFINE x == [row[r] EXCEPT !.topic = t, !.texts = texts]
    <3>2. texts \in SUBSET Saves /\ IsFiniteSet(texts) /\ t \in Topics \cup {"none"}
      BY <1>1, FS_EmptySet DEF RowType
    <3>3. x \in RowType /\ x.texts = texts /\ x.there = row[r].there
      BY <1>1, <3>2 DEF RowType
    <3>4. row' = [row EXCEPT ![r] = x]
      BY <1>1, <3>1
    <3> HIDE DEF x
    <3> QED
      BY <3>2, <3>3, <3>4
  <2>2. CASE row' = [row EXCEPT ![r] = NoRow]
    <3>1. NoRow \in RowType /\ IsFiniteSet(NoRow.texts) /\ ~NoRow.there
      BY FS_EmptySet DEF NoRow, RowType
    <3> QED
      BY <2>2, <3>1
  <2> QED
    BY <2>1, <2>2 DEF ChangeCommits
<1>4. /\ row' \in [Saves -> RowType] /\ row'[r] = x
      /\ \A u \in Saves \ {r} : row'[u] = row[u]
  BY <1>1, <1>3
<1>5. change' \in [Changes -> ChangeType]
      /\ \A d \in Changes : change'[d].at = change[d].at
                            /\ change'[d].pc \in {change[d].pc, "over"}
  BY <1>1, <1>2 DEF ChangeType
<1> HIDE DEF r
<1>6. MemoryType'
  BY <1>2, <1>3, <1>4, <1>5 DEF MemoryInv, MemoryType
<1>7. ASSUME NEW u \in Saves
      PROVE  Unwritten(u)' /\ Reading(u)' /\ InItsRow(u)' /\ Listed(u)'
  <2>1. Unwritten(u) /\ Reading(u) /\ InItsRow(u) /\ Listed(u)
    BY AboutSave
  <2>2. Unwritten(u)'
    <3>1. row'[u].there => row[u].there
      BY <1>3, <1>4
    <3> QED
      BY <1>2, <2>1, <3>1 DEF Unwritten
  <2>3. Reading(u)'
    BY <1>2, <1>4, <2>1 DEF Reading
  <2>4. InItsRow(u)'
    BY <1>2, <1>4, <2>1 DEF InItsRow, Answered
  <2>5. Listed(u)'
    BY <1>2, <2>1 DEF Listed
  <2> QED
    BY <2>2, <2>3, <2>4, <2>5
<1>8. ASSUME NEW u \in Saves, NEW w \in Saves
      PROVE  Followed(u, w)'
  BY <1>2, AboutSave DEF Followed, Answered
<1> QED
  BY <1>6, <1>7, <1>8 DEF MemoryInv

(* Steps that touch neither the table nor what a save knows: a request to  *)
(* change something that reads or misses its row, and one that drops       *)
(* episodes from the list.                                                 *)
LEMMA OthersKeep ==
    ASSUME MemoryInv, NEW c \in Changes,
           ChangeReads(c) \/ ChangeFlushes(c) \/ ChangeFails(c) \/ StoreDeletes(c)
    PROVE  MemoryInv'
<1>1. UNCHANGED <<row, save, restarts>>
  BY DEF ChangeReads, ChangeFlushes, ChangeFails, StoreDeletes
<1>2. PICK q \in ChangeType : /\ change' = [change EXCEPT ![c] = q]
                              /\ q.pc \in {"read", "flushed"} => q.at \in Saves
  <2>0. change[c] \in ChangeType /\ change \in [Changes -> ChangeType]
    BY DEF MemoryInv, MemoryType
  <2>1. CASE ChangeReads(c)
    <3>1. PICK r \in Rows, kind \in {"edit", "delete"} :
            change' = [change EXCEPT ![c] = [pc |-> "read", kind |-> kind, at |-> r]]
      BY <2>1 DEF ChangeReads
    <3>2. r \in Saves
      BY DEF Rows
    <3>3. [pc |-> "read", kind |-> kind, at |-> r] \in ChangeType
      BY <3>2 DEF ChangeType
    <3> QED
      BY <3>1, <3>2, <3>3
  <2>2. ASSUME NEW pc \in {"flushed", "over"}, change' = [change EXCEPT ![c].pc = pc],
               pc = "flushed" => change[c].at \in Saves
        PROVE  \E q \in ChangeType : /\ change' = [change EXCEPT ![c] = q]
                                     /\ q.pc \in {"read", "flushed"} => q.at \in Saves
    <3> DEFINE q == [change[c] EXCEPT !.pc = pc]
    <3>1. q \in ChangeType /\ q.pc = pc /\ q.at = change[c].at
      BY <2>0 DEF ChangeType
    <3>2. change' = [change EXCEPT ![c] = q]
      BY <2>0, <2>2
    <3> HIDE DEF q
    <3> QED
      BY <2>2, <3>1, <3>2
  <2>3. CASE ChangeFlushes(c)
    <3>1. change[c].at \in Saves
      BY <2>3 DEF ChangeFlushes, MemoryInv, MemoryType
    <3> QED
      BY <2>2, <2>3, <3>1 DEF ChangeFlushes
  <2>4. CASE ChangeFails(c) \/ StoreDeletes(c)
    BY <2>2, <2>4 DEF ChangeFails, StoreDeletes
  <2> QED
    BY <2>1, <2>3, <2>4
<1>3. /\ erased \subseteq erased' /\ store' \subseteq store
      /\ \A e \in store : e \in store' \/ e.id \in erased'
  BY DEF ChangeReads, ChangeFlushes, ChangeFails, StoreDeletes
<1>4. MemoryType'
  <2>1. IsFiniteSet(store')
    BY <1>3, FS_Subset DEF MemoryInv, MemoryType
  <2>2. /\ change' \in [Changes -> ChangeType]
        /\ \A d \in Changes : change'[d].pc \in {"read", "flushed"} => change'[d].at \in Saves
    BY <1>2 DEF MemoryInv, MemoryType
  <2> QED
    BY <1>1, <2>1, <2>2 DEF MemoryInv, MemoryType
<1>5. ASSUME NEW u \in Saves
      PROVE  Unwritten(u)' /\ Reading(u)' /\ InItsRow(u)' /\ Listed(u)'
  <2>1. Unwritten(u) /\ Reading(u) /\ InItsRow(u) /\ Listed(u)
    BY AboutSave
  <2>2. Unwritten(u)' /\ Reading(u)' /\ InItsRow(u)'
    BY <1>1, <1>3, <2>1 DEF Unwritten, Reading, InItsRow, Answered
  <2>3. Listed(u)'
    <3> DEFINE e == [id |-> save[u].id, text |-> u]
    <3>1. e.id = save[u].id
      OBVIOUS
    <3>2. e \in store => e \in store' \/ save[u].id \in erased'
      BY <1>3, <3>1
    <3> HIDE DEF e
    <3>3. save[u].pc = "over" /\ save[u].id \in Nat \ ({NoId} \cup erased)
            => restarts > 0 \/ e \in store
      BY <2>1 DEF Listed, e
    <3>4. save[u].pc = "over" /\ save[u].id \in Nat \ ({NoId} \cup erased')
            => restarts > 0 \/ e \in store'
      BY <1>3, <3>2, <3>3
    <3> QED
      BY <1>1, <3>4 DEF Listed, e
  <2> QED
    BY <2>2, <2>3
<1>6. ASSUME NEW u \in Saves, NEW w \in Saves
      PROVE  Followed(u, w)'
  BY <1>1, <1>3, AboutSave DEF Followed, Answered
<1> QED
  BY <1>4, <1>5, <1>6 DEF MemoryInv

(* A restart empties the list and ends what was being read.                *)
LEMMA RestartKeeps ==
    ASSUME MemoryInv, MemoryRestart
    PROVE  MemoryInv'
<1>1. /\ UNCHANGED <<row, erased>> /\ restarts' = restarts + 1 /\ store' = {}
      /\ restarts \in Nat
  BY DEF MemoryRestart, MemoryInv, MemoryType
<1>2. ASSUME NEW u \in Saves
      PROVE  /\ save'[u] \in SaveType /\ save'[u].pc \notin {"read", "flushed"}
             /\ save'[u].id = save[u].id
             /\ save'[u].seen = save[u].seen /\ save'[u].chat = save[u].chat
             /\ save'[u].met = save[u].met
             /\ save'[u].pc = save[u].pc \/ save'[u].pc = "lost"
             /\ save'[u].pc = "idle" => save[u].pc = "idle"
  <2>1. save[u] \in SaveType /\ Unwritten(u)
    BY AboutSave
  <2>2. CASE save[u].pc \in {"read", "flushed"}
    <3>1. save'[u] = [save[u] EXCEPT !.pc = "lost"]
      BY <2>1, <2>2 DEF MemoryRestart
    <3> QED
      BY <2>1, <3>1 DEF SaveType, SavePcs
  <2>3. CASE save[u].pc \notin {"read", "flushed"}
    <3>1. save'[u] = save[u]
      BY <2>3 DEF MemoryRestart
    <3> QED
      BY <2>1, <2>3, <3>1
  <2> QED
    BY <2>2, <2>3
<1>3. save' \in [Saves -> SaveType]
  <2> DEFINE after(u) == IF save[u].pc \in {"read", "flushed"}
                         THEN [save[u] EXCEPT !.pc = "lost"] ELSE save[u]
  <2>1. save' = [u \in Saves |-> after(u)]
    BY DEF MemoryRestart
  <2>2. \A u \in Saves : save'[u] \in SaveType
    BY <1>2
  <2> HIDE DEF after
  <2> QED
    BY <2>1, <2>2
<1>4. /\ change' \in [Changes -> ChangeType]
      /\ \A d \in Changes : change'[d].pc \in {"idle", "over"}
  <2> DEFINE after(d) == IF change[d].pc = "idle" THEN change[d]
                         ELSE [change[d] EXCEPT !.pc = "over"]
  <2>1. change' = [d \in Changes |-> after(d)]
    BY DEF MemoryRestart
  <2>2. ASSUME NEW d \in Changes
        PROVE  after(d) \in ChangeType /\ after(d).pc \in {"idle", "over"}
    BY DEF MemoryInv, MemoryType, ChangeType
  <2> HIDE DEF after
  <2> QED
    BY <2>1, <2>2
<1>5. MemoryType'
  <2>1. \A u \in Saves : IsFiniteSet(row'[u].texts) /\ IsFiniteSet(save'[u].seen)
    BY <1>1, <1>2, AboutSave
  <2> QED
    BY <1>1, <1>3, <1>4, <2>1, FS_EmptySet DEF MemoryInv, MemoryType
<1>6. ASSUME NEW u \in Saves
      PROVE  Unwritten(u)' /\ Reading(u)' /\ InItsRow(u)' /\ Listed(u)'
  <2>1. Unwritten(u) /\ InItsRow(u)
    BY AboutSave
  <2>2. Unwritten(u)' /\ Reading(u)'
    BY <1>1, <1>2, <2>1 DEF Unwritten, Reading
  <2>3. Answered(u)' => Answered(u)
    BY <1>1, <1>2, MemoryAssumption DEF Answered, NoId
  <2>4. InItsRow(u)'
    BY <1>1, <1>2, <2>1, <2>3 DEF InItsRow
  <2>5. Listed(u)'
    BY <1>1 DEF Listed
  <2> QED
    BY <2>2, <2>4, <2>5
<1>7. ASSUME NEW u \in Saves, NEW w \in Saves
      PROVE  Followed(u, w)'
  BY <1>2 DEF Followed
<1> QED
  BY <1>5, <1>6, <1>7 DEF MemoryInv

(* The invariant of the memory holds of every behaviour, whatever the      *)
(* turns do in between.                                                    *)
THEOREM MemoryInductive == Spec => []MemoryInv
<1>1. Init => MemoryInv
  <2> SUFFICES ASSUME Init
               PROVE  MemoryInv
    OBVIOUS
  <2> DEFINE q == [pc |-> "idle", topic |-> "none", chat |-> "none", at |-> "none",
                   seen |-> {}, met |-> FALSE, id |-> NoId]
  <2>1. /\ row = [s \in Saves |-> NoRow] /\ store = {} /\ erased = {} /\ restarts = 0
        /\ save = [s \in Saves |-> q]
        /\ change = [c \in Changes |-> [pc |-> "idle", kind |-> "none", at |-> "none"]]
    BY DEF Init, MemoryInit
  <2>2. NoRow \in RowType /\ ~NoRow.there /\ NoRow.texts = {}
    BY DEF NoRow, RowType
  <2>3. q \in SaveType /\ q.pc = "idle" /\ q.id = NoId /\ q.seen = {}
    BY DEF SaveType, SavePcs, NoId
  <2>4. [pc |-> "idle", kind |-> "none", at |-> "none"] \in ChangeType
    BY DEF ChangeType
  <2> HIDE DEF q
  <2>5. MemoryType
    BY <2>1, <2>2, <2>3, <2>4, FS_EmptySet DEF MemoryType
  <2> QED
    BY <2>1, <2>2, <2>3, <2>5
       DEF MemoryInv, Unwritten, Reading, InItsRow, Answered, Listed, Followed
<1>2. MemoryInv /\ [Next]_vars => MemoryInv'
  <2> SUFFICES ASSUME MemoryInv, [Next]_vars
               PROVE  MemoryInv'
    OBVIOUS
  <2>1. CASE UNCHANGED mvars
    BY <2>1 DEF mvars, MemoryInv, MemoryType, Unwritten, Reading, InItsRow, Answered, Listed, Followed
  <2>2. CASE MemoryNext
    BY <2>2, ReadsKeep, FlushKeeps, CommitKeeps, FallsBackKeeps, ChangesKeep, OthersKeep
       DEF MemoryNext
  <2>3. CASE MemoryRestart
    BY <2>3, RestartKeeps
  <2> QED
    BY <2>1, <2>2, <2>3
       DEF Next, vars, Asks, AsksNothing, Flushes, Searches, Errs, Breaks, Commits, SaysDone,
           CreatesChat, DeletesChat, Restart
<1> QED
  BY <1>1, <1>2, PTL DEF Spec

(* What was answered with an id is found under it, whatever is merged into *)
(* the row later, for any number of overlapping saves, edits, deletions    *)
(* and restarts.                                                           *)
THEOREM SavesKept == Spec => []SavedIsKept
<1>1. MemoryInv => SavedIsKept
  <2> SUFFICES ASSUME MemoryInv, NEW s \in Saves, save[s].pc = "over", save[s].id # NoId,
                      save[s].id \notin erased, ~save[s].met
               PROVE  IF save[s].id \in Saves
                      THEN \/ s \in row[save[s].id].texts
                           \/ Cardinality(row[save[s].id].texts) >= Room
                      ELSE restarts > 0 \/ [id |-> save[s].id, text |-> s] \in store
    BY DEF SavedIsKept
  <2>1. save[s].id \in Saves \cup Nat /\ InItsRow(s) /\ Listed(s)
    BY AboutSave DEF SaveType
  <2>2. CASE save[s].id \in Saves
    BY <2>1, <2>2 DEF InItsRow, Answered, Keeps
  <2>3. CASE save[s].id \notin Saves
    BY <2>1, <2>3 DEF Listed
  <2> QED
    BY <2>2, <2>3
<1> QED
  BY <1>1, MemoryInductive, PTL
=============================================================================
