------------------------------- MODULE Memory -------------------------------
(***************************************************************************)
(* The episodes of the memory (memory/episodic.py, memory/core.py,         *)
(* api/memory.py): rows of a table, and a list in the process that stands  *)
(* in for it whenever the database raises.  A save appends its summary to  *)
(* the first row of its chat session whose topic is alike, or makes a new  *)
(* row; it reads first and writes later, without a lock in between.  What  *)
(* a request writes is flushed in its handler and committed when its       *)
(* session closes (core/db.py), before or after the answer is sent: that   *)
(* depends on the version of FastAPI, and pyproject.toml allows both.      *)
(* Patterns (memory/semantic.py) are left out: nothing makes any.          *)
(***************************************************************************)
EXTENDS Integers, FiniteSets

CONSTANTS
    Saves,          \* requests that save an episode; each text is its own
    Changes,        \* requests that edit or delete one
    Chats,          \* chat sessions an episode may be of
    Topics, Alike,  \* topics, and the pairs that share half of their letters
    Room,           \* summaries that fit into a row
    MaxRestarts     \* bound of the model: restarts of the process

ASSUME MemoryAssumption ==
    /\ Alike \in SUBSET (Topics \X Topics)
    /\ \A t \in Topics : <<t, t>> \in Alike
    /\ Room \in Nat \ {0} /\ MaxRestarts \in Nat
    /\ Saves \cap Nat = {}     \* no id of a row is one of the list

VARIABLES
    row,        \* the table: a row is named after the save that made it
    store,      \* _store, the list in the process; no step reads its order
    save,       \* what each save does
    change,     \* what each edit or deletion does
    erased,     \* history: ids that were edited or deleted
    restarts

mvars == <<row, store, save, change, erased, restarts>>

NoRow == [there |-> FALSE, topic |-> "none", chat |-> "none", texts |-> {}]
NoId == 0       \* an id is a row, or n for the "en" of the list

MemoryInit ==
    /\ row = [s \in Saves |-> NoRow]
    /\ store = {}
    /\ save = [s \in Saves |-> [pc |-> "idle", topic |-> "none", chat |-> "none", at |-> "none",
                                seen |-> {}, met |-> FALSE, id |-> NoId]]
    /\ change = [c \in Changes |-> [pc |-> "idle", kind |-> "none", at |-> "none"]]
    /\ erased = {}
    /\ restarts = 0

Rows == {s \in Saves : row[s].there}

(* code_hard_filter may refuse any text; of the rows of the session the    *)
(* select gives in no order, the first that is alike is taken.             *)
SaveReads(s) ==
    /\ save[s].pc = "idle"
    /\ \E t \in Topics, c \in Chats :
         LET like == {r \in Rows : row[r].chat = c /\ <<row[r].topic, t>> \in Alike} IN
         \/ save' = [save EXCEPT ![s].pc = "over"]
         \/ \E r \in IF like = {} THEN {s} ELSE like :
              save' = [save EXCEPT ![s] = [@ EXCEPT !.pc = "read", !.topic = t, !.chat = c,
                                                    !.at = r, !.seen = row[r].texts]]
    /\ UNCHANGED <<row, store, change, erased, restarts>>

(* Faulty variant of Appended: the summary is replaced.                    *)
AppendedAlone(texts, s) == {s}

(* [:2000]: what does not fit is dropped.                                  *)
Appended(texts, s) == IF Cardinality(texts) < Room THEN texts \cup {s} ELSE texts

(* An UPDATE or a DELETE locks its row until its transaction ends.         *)
Locked(r) ==
    \/ \E s \in Saves : save[s].pc = "flushed" /\ save[s].at = r
    \/ \E c \in Changes : change[c].pc = "flushed" /\ change[c].at = r

SaveFlushes(s) ==
    /\ save[s].pc = "read"
    /\ save[s].at # s => row[save[s].at].there /\ ~Locked(save[s].at)
    /\ save' = [save EXCEPT ![s].pc = "flushed"]
    /\ UNCHANGED <<row, store, change, erased, restarts>>

(* The answer is sent, and the commit is still to come.                    *)
SaveAnswers(s) ==
    /\ save[s].pc = "flushed" /\ save[s].id = NoId
    /\ save' = [save EXCEPT ![s].id = save[s].at]
    /\ UNCHANGED <<row, store, change, erased, restarts>>

(* Saves of one chat session between the read of one and the commit of the *)
(* other: they have met.                                                   *)
Overlapping(s) ==
    {w \in Saves \ {s} : save[w].pc \in {"read", "flushed"} /\ save[w].chat = save[s].chat}
Met(s) == [w \in Saves |->
    IF w \in Overlapping(s) \/ (w = s /\ Overlapping(s) # {})
    THEN [save[w] EXCEPT !.met = TRUE] ELSE save[w]]

(* What was not answered before may be now.                                *)
SaveCommits(s) ==
    LET q == save[s] IN
    /\ q.pc = "flushed"
    /\ row' = [row EXCEPT ![q.at] =
         IF q.at = s THEN [there |-> TRUE, topic |-> q.topic, chat |-> q.chat, texts |-> {s}]
         ELSE [@ EXCEPT !.texts = Appended(q.seen, s)]]
    /\ \E id \in {q.id, q.at} : save' = [Met(s) EXCEPT ![s].pc = "over", ![s].id = id]
    /\ UNCHANGED <<store, change, erased, restarts>>

(* The commit raises: nothing is written, whatever has been answered.      *)
SaveFails(s) ==
    /\ save[s].pc = "flushed"
    /\ save' = [save EXCEPT ![s].pc = "lost"]
    /\ UNCHANGED <<row, store, change, erased, restarts>>

(* The select or the flush raises, as it does when the row is gone.  The   *)
(* list numbers by its length, and never finds anything alike: its         *)
(* episodes have no keywords.  A session that failed may fail once more at *)
(* its commit, before or after the answer.                                 *)
SaveFallsBack(s) ==
    LET n == Cardinality(store) + 1 IN
    /\ save[s].pc \in {"idle", "read"}
    /\ store' = store \cup {[id |-> n, text |-> s]}
    /\ \E id \in {n, NoId} : save' = [save EXCEPT ![s].pc = "over", ![s].id = id]
    /\ UNCHANGED <<row, change, erased, restarts>>

ChangeReads(c) ==
    /\ change[c].pc = "idle"
    /\ \E r \in Rows, kind \in {"edit", "delete"} :
         change' = [change EXCEPT ![c] = [pc |-> "read", kind |-> kind, at |-> r]]
    /\ UNCHANGED <<row, store, save, erased, restarts>>

ChangeFlushes(c) ==
    /\ change[c].pc = "read"
    /\ row[change[c].at].there /\ ~Locked(change[c].at)
    /\ change' = [change EXCEPT ![c].pc = "flushed"]
    /\ UNCHANGED <<row, store, save, erased, restarts>>

(* A new summary replaces the old one; a deletion takes the row.           *)
ChangeCommits(c) ==
    LET r == change[c].at IN
    /\ change[c].pc = "flushed"
    /\ \/ /\ change[c].kind = "edit"
          /\ \E t \in Topics \cup {row[r].topic}, texts \in {row[r].texts, {}} :
               row' = [row EXCEPT ![r].topic = t, ![r].texts = texts]
       \/ /\ change[c].kind = "delete"
          /\ row' = [row EXCEPT ![r] = NoRow]
    /\ change' = [change EXCEPT ![c].pc = "over"]
    /\ erased' = erased \cup {r}
    /\ UNCHANGED <<store, save, restarts>>

(* The flush raises, or misses a row that is gone, or the commit raises.   *)
ChangeFails(c) ==
    /\ change[c].pc \in {"read", "flushed"}
    /\ change' = [change EXCEPT ![c].pc = "over"]
    /\ UNCHANGED <<row, store, save, erased, restarts>>

(* An id that is no number, as those of the list, raises: delete_episode   *)
(* then drops everything with that id, which more than one may have.       *)
StoreDeletes(c) ==
    /\ change[c].pc = "idle"
    /\ \E n \in {e.id : e \in store} :
         /\ store' = {e \in store : e.id # n}
         /\ erased' = erased \cup {n}
    /\ change' = [change EXCEPT ![c].pc = "over"]
    /\ UNCHANGED <<row, save, restarts>>

MemoryRestart ==
    /\ restarts < MaxRestarts
    /\ restarts' = restarts + 1
    /\ store' = {}
    /\ save' = [s \in Saves |-> IF save[s].pc \in {"read", "flushed"}
                                THEN [save[s] EXCEPT !.pc = "lost"] ELSE save[s]]
    /\ change' = [c \in Changes |-> IF change[c].pc = "idle" THEN change[c]
                                    ELSE [change[c] EXCEPT !.pc = "over"]]
    /\ UNCHANGED <<row, erased>>

MemoryNext ==
    \/ \E s \in Saves :
         \/ SaveReads(s)
         \/ SaveFlushes(s)
         \/ SaveAnswers(s)
         \/ SaveCommits(s)
         \/ SaveFails(s)
         \/ SaveFallsBack(s)
    \/ \E c \in Changes :
         \/ ChangeReads(c)
         \/ ChangeFlushes(c)
         \/ ChangeCommits(c)
         \/ ChangeFails(c)
         \/ StoreDeletes(c)

-----------------------------------------------------------------------------
(* Properties *)

(* A save that was answered with an id, did not fail or die at its commit, *)
(* and met no other save of its chat session, is found under that id,      *)
(* whatever is merged into the row later: until someone edits or deletes   *)
(* that id, the row was full, or the process with the list dies.           *)
SavedIsKept ==
    \A s \in Saves :
        LET q == save[s] IN
        q.pc = "over" /\ q.id # NoId /\ q.id \notin erased /\ ~q.met =>
            IF q.id \in Saves
            THEN s \in row[q.id].texts \/ Cardinality(row[q.id].texts) >= Room
            ELSE restarts > 0 \/ [id |-> q.id, text |-> s] \in store
=============================================================================
