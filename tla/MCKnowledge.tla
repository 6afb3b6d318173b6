---------------------------- MODULE MCKnowledge ----------------------------
(* Two uploads of a text or of a PDF, and a search of them.                *)
EXTENDS Knowledge

TextAndPdf ==
    {[name |-> "guide", type |-> "text", lines |-> l] :
        l \in {<<"heading", "words", "bare">>, <<"bare", "words">>, <<"blank", "words">>}} \cup
    {[name |-> "scan", type |-> "pdf", lines |-> <<"heading", "blank", "blank", "scan">>]}
============================================================================
