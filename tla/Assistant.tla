----------------------------- MODULE Assistant -----------------------------
(***************************************************************************)
(* A turn of the assistant (api/chat.py): it looks its chat session up, or *)
(* makes one, in a session of the database of its own, and then streams on *)
(* another one, which holds the question flushed and uncommitted until the *)
(* answer is complete.  The search goes through RETRIEVER, a global of     *)
(* graph/conversation.py that every turn sets before it calls it.  A chat  *)
(* session may be deleted at any time, and an episode of it may be saved   *)
(* (api/chat_sessions.py, see Memory).                                     *)
(***************************************************************************)
EXTENDS Memory

CONSTANT
    Turns

VARIABLES
    chat,       \* the committed chat sessions
    turn,       \* what each turn does, has stored and has told
    retriever   \* RETRIEVER, as the turn that set it

vars == <<mvars, chat, turn, retriever>>

NoTurn == [pc |-> "idle", chat |-> "none", searched |-> "none", aborted |-> FALSE,
           question |-> "none", answer |-> "none", told |-> "nothing"]

TypeOK ==
    /\ chat \in [Chats -> {"absent", "live", "deleted"}]
    /\ turn \in [Turns -> [pc : {"idle", "asked", "flushed", "answering", "committed", "over"},
                           chat : Chats \cup {"none"},
                           searched : Turns \cup {"none"},
                           aborted : BOOLEAN,
                           question : {"none", "flushed", "stored"},
                           answer : {"none", "stored"},
                           told : {"nothing", "tokens", "error", "done"}]]
    /\ retriever \in Turns \cup {"none"}

Init ==
    /\ MemoryInit
    /\ chat \in [Chats -> {"absent", "live"}]
    /\ turn = [t \in Turns |-> NoTurn]
    /\ retriever = "none"

-----------------------------------------------------------------------------
(* The session asked for, or a new one where that is deleted or unknown.   *)
Asks(t) ==
    /\ turn[t].pc = "idle"
    /\ \E c \in Chats :
         /\ chat[c] # "deleted"
         /\ chat' = [chat EXCEPT ![c] = "live"]
         /\ turn' = [turn EXCEPT ![t].pc = "asked", ![t].chat = c]
    /\ UNCHANGED <<mvars, retriever>>

(* An empty message is answered with an error.                             *)
AsksNothing(t) ==
    /\ turn[t].pc = "idle"
    /\ turn' = [turn EXCEPT ![t].pc = "over", ![t].told = "error"]
    /\ UNCHANGED <<mvars, chat, retriever>>

(* The stream begins: the question is flushed, and read by nobody yet.     *)
Flushes(t) ==
    /\ turn[t].pc = "asked"
    /\ turn' = [turn EXCEPT ![t].pc = "flushed", ![t].question = "flushed"]
    /\ UNCHANGED <<mvars, chat, retriever>>

(* Faulty variant of Searches: RETRIEVER is called after an await, which   *)
(* lets another turn set it in between.                                    *)
SearchesLater(t) ==
    /\ turn[t].pc = "flushed"
    /\ IF turn[t].searched = "none"
       THEN /\ retriever' = t
            /\ turn' = [turn EXCEPT ![t].searched = t]
       ELSE /\ turn' = [turn EXCEPT ![t].pc = "answering", ![t].searched = retriever]
            /\ UNCHANGED retriever
    /\ UNCHANGED <<mvars, chat>>

(* set_retriever and the call of RETRIEVER, with no await in between: the  *)
(* coroutine of the runner starts where it is awaited.  A search that      *)
(* raises is answered by a remark, but what the database refused leaves    *)
(* the transaction of the turn aborted.                                    *)
Searches(t) ==
    /\ turn[t].pc = "flushed"
    /\ retriever' = t
    /\ \E aborted \in BOOLEAN :
         turn' = [turn EXCEPT ![t].pc = "answering", ![t].searched = retriever',
                              ![t].aborted = aborted, ![t].told = "tokens"]
    /\ UNCHANGED <<mvars, chat>>

(* How a stream that does not reach its commit ends.  Whether the question *)
(* is committed then depends on the version of FastAPI, which closes the   *)
(* session of the request before or after it streams.                      *)
Ended(t, told) ==
    {[turn[t] EXCEPT !.pc = "over", !.told = told, !.question = q] :
        q \in IF turn[t].question = "flushed" /\ ~turn[t].aborted
              THEN {"none", "stored"} ELSE {"none"}}

(* Something raises while the answer is streamed or checked.               *)
Errs(t) ==
    /\ turn[t].pc = "answering"
    /\ \E q \in Ended(t, "error") : turn' = [turn EXCEPT ![t] = q]
    /\ UNCHANGED <<mvars, chat, retriever>>

(* The client leaves, or the commit raises: no event says so.              *)
Breaks(t) ==
    /\ turn[t].pc \in {"asked", "flushed", "answering"}
    /\ \E q \in Ended(t, turn[t].told) : turn' = [turn EXCEPT ![t] = q]
    /\ UNCHANGED <<mvars, chat, retriever>>

(* Faulty variant of Commits: done is sent before the commit.              *)
CommitsLast(t) ==
    /\ turn[t].pc = "answering"
    /\ turn' = [turn EXCEPT ![t].told = "done"]
    /\ UNCHANGED <<mvars, chat, retriever>>

(* The answer is complete, from the LLM or in its place the search result, *)
(* and is committed with the question, even into a deleted session.        *)
Commits(t) ==
    /\ turn[t].pc = "answering"
    /\ ~turn[t].aborted
    /\ turn' = [turn EXCEPT ![t].pc = "committed", ![t].question = "stored", ![t].answer = "stored"]
    /\ UNCHANGED <<mvars, chat, retriever>>

SaysDone(t) ==
    /\ turn[t].pc = "committed"
    /\ \E told \in {"done", turn[t].told} :
         turn' = [turn EXCEPT ![t].pc = "over", ![t].told = told]
    /\ UNCHANGED <<mvars, chat, retriever>>

CreatesChat(c) ==
    /\ chat[c] = "absent"
    /\ chat' = [chat EXCEPT ![c] = "live"]
    /\ UNCHANGED <<mvars, turn, retriever>>

DeletesChat(c) ==
    /\ chat[c] = "live"
    /\ chat' = [chat EXCEPT ![c] = "deleted"]
    /\ UNCHANGED <<mvars, turn, retriever>>

(* The process dies: an open transaction is rolled back.                   *)
Restart ==
    /\ MemoryRestart
    /\ turn' = [t \in Turns |->
         CASE turn[t].pc = "idle" -> turn[t]
           [] turn[t].question = "flushed" -> [turn[t] EXCEPT !.pc = "over", !.question = "none"]
           [] OTHER -> [turn[t] EXCEPT !.pc = "over"]]
    /\ retriever' = "none"
    /\ UNCHANGED chat

Next ==
    \/ \E t \in Turns :
         \/ Asks(t)
         \/ AsksNothing(t)
         \/ Flushes(t)
         \/ Searches(t)
         \/ Errs(t)
         \/ Breaks(t)
         \/ Commits(t)
         \/ SaysDone(t)
    \/ \E c \in Chats : CreatesChat(c) \/ DeletesChat(c)
    \/ MemoryNext /\ UNCHANGED <<chat, turn, retriever>>
    \/ Restart

Spec == Init /\ [][Next]_vars

-----------------------------------------------------------------------------
(* Properties *)

(* A turn that says done has stored its question and its answer, and an    *)
(* answer is never stored without its question, wherever the stream, the   *)
(* search or the process breaks.                                           *)
DoneIsStored ==
    \A t \in Turns :
        /\ turn[t].told = "done" => turn[t].answer = "stored"
        /\ turn[t].answer = "stored" => turn[t].question = "stored"

(* However turns overlap, each searches the documents its own user ticked. *)
OwnSearch ==
    \A t \in Turns : turn[t].pc \in {"answering", "committed"} => turn[t].searched = t
=============================================================================
