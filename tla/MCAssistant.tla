---------------------------- MODULE MCAssistant ----------------------------
(* Three overlapping saves and a change of the memory, or two turns.       *)
EXTENDS Assistant, TLC

TwoTopics == {"disk", "network"}
OwnTopic == {<<t, t>> : t \in TwoTopics}

(* Turns and saves share nothing but the restart, so that one kind runs at *)
(* a time, and saves while both chat sessions live: they do not read them. *)
OneKind ==
    \/ \A s \in Saves : save[s].pc = "idle"
    \/ /\ \A t \in Turns : turn[t].pc = "idle"
       /\ \A c \in Chats : chat[c] = "live"

Alikes ==
    Permutations(Turns) \cup Permutations(Chats)
        \cup Permutations(Saves) \cup Permutations(Changes)
============================================================================
