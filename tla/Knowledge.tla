----------------------------- MODULE Knowledge -----------------------------
(***************************************************************************)
(* The knowledge base: an upload becomes a document, its units and their   *)
(* keys in one transaction (kb_service.py, normalizer.py, splitter.py,     *)
(* keygen.py, indexer.py), a search ranks keys by vector and by words and  *)
(* fuses the two (search.py), and a deletion only marks the document       *)
(* (api/documents.py).  A document is known by the upload that makes it,   *)
(* a key <<u, i, n>> is the n-th one of its unit that starts at line i.    *)
(***************************************************************************)
EXTENDS FiniteSetsExt, Integers, Sequences

CONSTANTS
    Uploads, Searches,
    Files,          \* what may be uploaded: a name, its type and its lines
    Seconds,        \* the suffixes that the clock gives to a name
    MaxSuffixes,    \* bound of the model: suffixes of a name
    MaxKeys,        \* bound of the model: keys that the LLM gives to a unit
    TopK,           \* results of a search
    RrfK            \* kb_rrf_k

(* A line is a heading, a heading of nothing but markup, one with words,   *)
(* or one that says nothing (empty, or markup only).                       *)
Lines == {"heading", "bare", "words", "blank"}

(* The lines of a PDF are those of its pages, put together; a "scan" is    *)
(* the line where a page without a text layer stands.                      *)
ASSUME FilesAssumption ==
    /\ \A f \in Files : /\ f.type \in {"text", "pdf"} /\ f.lines \in Seq(Lines \cup {"scan"})
                        /\ f.type = "text" => f.lines \in Seq(Lines)
    /\ \A f, g \in Files : f.name = g.name => f.type = g.type
ASSUME NumbersAssumption ==
    /\ MaxSuffixes \in Nat /\ MaxKeys \in Nat \ {0}
    /\ TopK \in Nat \ {0} /\ RrfK \in Nat \ {0}

VARIABLES
    doc,        \* the committed documents
    upload,     \* what each upload does
    search      \* what each search does

vars == <<doc, upload, search>>

NoDoc == [there |-> FALSE, deleted |-> FALSE, name |-> <<>>, lines |-> <<>>,
          keys |-> <<>>, embedded |-> FALSE]
NoSearch == [pc |-> "idle", ticked |-> {}, full |-> FALSE, byVector |-> <<>>,
             byWords |-> <<>>, found |-> {}]

Init ==
    /\ doc = [u \in Uploads |-> NoDoc]
    /\ upload = [u \in Uploads |-> [pc |-> "idle", name |-> <<>>, lines |-> <<>>]]
    /\ search = [s \in Searches |-> NoSearch]

Stored == {u \in Uploads : doc[u].there}

-----------------------------------------------------------------------------
(* Uploads *)

(* load_text: a page without text is replaced by a remark, and so is a PDF *)
(* that cannot be read.                                                    *)
Loaded(f) ==
    {[i \in DOMAIN f.lines |-> IF f.lines[i] = "scan" THEN "words" ELSE f.lines[i]]}
        \cup (IF f.type = "pdf" THEN {<<"blank", "words">>} ELSE {})

Starts(u) ==
    /\ upload[u].pc = "idle"
    /\ \E f \in Files : \E lines \in Loaded(f) :
         upload' = [upload EXCEPT ![u] = [pc |-> "naming", name |-> <<f.name>>, lines |-> lines]]
    /\ UNCHANGED <<doc, search>>

Taken(name) == \E d \in Stored : doc[d].name = name

(* _ensure_unique_name: a name that a document has, deleted or not, gets   *)
(* the time of day.                                                        *)
Names(u) ==
    LET q == upload[u] IN
    /\ q.pc = "naming"
    /\ IF Taken(q.name)
       THEN /\ Len(q.name) <= MaxSuffixes
            /\ \E t \in Seconds : upload' = [upload EXCEPT ![u].name = Append(@, t)]
       ELSE upload' = [upload EXCEPT ![u].pc = "inserting"]
    /\ UNCHANGED <<doc, search>>

(* Faulty variant of Inserts: without the unique index.                    *)
InsertsAnyway(u) ==
    /\ upload[u].pc = "inserting"
    /\ upload' = [upload EXCEPT ![u].pc = "working"]
    /\ UNCHANGED <<doc, search>>

(* The unique index lets the second insert of a name wait for the first,   *)
(* and fail after its commit.                                              *)
Inserts(u) ==
    /\ upload[u].pc = "inserting"
    /\ ~Taken(upload[u].name)
    /\ \A w \in Uploads : upload[w].pc = "working" => upload[w].name # upload[u].name
    /\ upload' = [upload EXCEPT ![u].pc = "working"]
    /\ UNCHANGED <<doc, search>>

(* split_sections and parse_unit_md: a unit starts at every heading, and   *)
(* at every line in front of the first one.                                *)
IsHeading(line) == line \in {"heading", "bare"}
Units(lines) ==
    {i \in DOMAIN lines : IsHeading(lines[i]) \/ \A j \in 1..i : ~IsHeading(lines[j])}

(* append_parent_context: every unit gets the last headings of the whole   *)
(* document; the very last of them becomes a key, if it has words.         *)
Pathed(lines) ==
    \E j \in DOMAIN lines :
        lines[j] = "heading" /\ \A k \in DOMAIN lines : k > j => ~IsHeading(lines[k])

(* The number of keys of a unit: from the LLM, which is asked twice, or    *)
(* that heading and the first line of the unit, where they have words (a   *)
(* line that repeats the heading is not told from one that does not).      *)
FallbackKeys(lines, i) ==
    (IF Pathed(lines) THEN 1 ELSE 0) + (IF lines[i] \in {"heading", "words"} THEN 1 ELSE 0)
KeyNumbers(lines, i) == (1..MaxKeys) \cup {FallbackKeys(lines, i)}

(* All vectors come in one list, or none do; then the one commit.          *)
Commits(u) ==
    LET q == upload[u] IN
    /\ q.pc = "working"
    /\ \E keys \in [Units(q.lines) -> 0..(MaxKeys + 2)], vectors \in BOOLEAN :
         /\ \A i \in Units(q.lines) : keys[i] \in KeyNumbers(q.lines, i)
         /\ doc' = [doc EXCEPT ![u] = [there |-> TRUE, deleted |-> FALSE, name |-> q.name,
                                       lines |-> q.lines, keys |-> keys, embedded |-> vectors]]
    /\ upload' = [upload EXCEPT ![u].pc = "over"]
    /\ UNCHANGED search

(* An IntegrityError, or anything else that the database refuses.          *)
Fails(u) ==
    /\ upload[u].pc \in {"naming", "inserting", "working"}
    /\ upload' = [upload EXCEPT ![u].pc = "over"]
    /\ UNCHANGED <<doc, search>>

Deletes(u) ==
    /\ doc[u].there
    /\ doc' = [doc EXCEPT ![u].deleted = TRUE]
    /\ UNCHANGED <<upload, search>>

-----------------------------------------------------------------------------
(* Searches *)

KeysOf(u) == {<<u, i, n>> : i \in DOMAIN doc[u].keys, n \in 1..(MaxKeys + 2)}
Keys(u) == {k \in KeysOf(u) : k[3] <= doc[u].keys[k[2]]}

(* The keys that both queries look at; those of deleted documents as well. *)
Scope(s) ==
    UNION {Keys(u) : u \in {d \in Stored : search[s].full \/ d \in search[s].ticked}}

Vectored(k) == doc[k[1]].embedded

(* Lists of keys, as long as the limit of a query allows.                  *)
Lists(keys, lengths) ==
    UNION {{l \in [1..n -> keys] : \A i, j \in 1..n : l[i] = l[j] => i = j} : n \in lengths}
Limit == 2 * TopK

(* Nothing ticked, nothing searched, but for the whole library.            *)
Asks(s) ==
    /\ search[s].pc = "idle"
    /\ \E ticked \in SUBSET Uploads, full \in BOOLEAN :
         search' = [search EXCEPT ![s] = [NoSearch EXCEPT
             !.pc = IF ticked = {} /\ ~full THEN "over" ELSE "vector",
             !.ticked = ticked, !.full = full /\ ticked = {}]]
    /\ UNCHANGED <<doc, upload>>

(* The nearest keys, those without a vector at the end; none where the     *)
(* query could not be embedded.                                            *)
ByVector(s) ==
    /\ search[s].pc = "vector"
    /\ LET n == Min({Limit, Cardinality(Scope(s))}) IN
       \E l \in Lists(Scope(s), {0, n}) :
         /\ \A i, j \in DOMAIN l : i < j /\ Vectored(l[j]) => Vectored(l[i])
         /\ \A k \in Scope(s) \ {l[i] : i \in DOMAIN l}, i \in DOMAIN l :
                Vectored(k) => Vectored(l[i])
         /\ search' = [search EXCEPT ![s].pc = "words", ![s].byVector = l]
    /\ UNCHANGED <<doc, upload>>

(* Faulty variant of ByWords: this query forgets what was ticked.          *)
ByWordsAnywhere(s) ==
    /\ search[s].pc = "words"
    /\ \E l \in Lists(UNION {Keys(u) : u \in Stored}, 0..Limit) :
         search' = [search EXCEPT ![s].pc = "fusing", ![s].byWords = l]
    /\ UNCHANGED <<doc, upload>>

(* The keys that hold a word of the query, in no order.                    *)
ByWords(s) ==
    /\ search[s].pc = "words"
    /\ \E l \in Lists(Scope(s), 0..Limit) :
         search' = [search EXCEPT ![s].pc = "fusing", ![s].byWords = l]
    /\ UNCHANGED <<doc, upload>>

In(l, k) == \E i \in DOMAIN l : l[i] = k
Rank(l, k) == (CHOOSE i \in DOMAIN l : l[i] = k) - 1

(* The score of a key as a fraction <<numerator, denominator>>.            *)
Score(v, b, k) ==
    CASE In(v, k) /\ In(b, k) -> <<2 * RrfK + Rank(v, k) + Rank(b, k),
                                   (RrfK + Rank(v, k)) * (RrfK + Rank(b, k))>>
      [] In(v, k) /\ ~In(b, k) -> <<1, RrfK + Rank(v, k)>>
      [] ~In(v, k) -> <<1, RrfK + Rank(b, k)>>

(* Ties keep the order in which the keys were met.                         *)
Met(v, b, k) == IF In(v, k) THEN Rank(v, k) ELSE Len(v) + Rank(b, k)
Ahead(v, b, j, k) ==
    LET x == Score(v, b, j)  y == Score(v, b, k) IN
    \/ x[1] * y[2] > y[1] * x[2]
    \/ x[1] * y[2] = y[1] * x[2] /\ Met(v, b, j) < Met(v, b, k)

Top(v, b) ==
    LET all == {v[i] : i \in DOMAIN v} \cup {b[i] : i \in DOMAIN b} IN
    {k \in all : Cardinality({j \in all : Ahead(v, b, j, k)}) < TopK}

(* The rows are loaded by their ids: the order of the ranking is lost.     *)
Fuses(s) ==
    /\ search[s].pc = "fusing"
    /\ search' = [search EXCEPT ![s].pc = "over",
                                ![s].found = Top(search[s].byVector, search[s].byWords)]
    /\ UNCHANGED <<doc, upload>>

(* The database refuses the vector: the second query, which was to make up *)
(* for it, meets an aborted transaction.                                   *)
Breaks(s) ==
    /\ search[s].pc = "vector"
    /\ search' = [search EXCEPT ![s].pc = "over"]
    /\ UNCHANGED <<doc, upload>>

Next ==
    \/ \E u \in Uploads :
         \/ Starts(u)
         \/ Names(u)
         \/ Inserts(u)
         \/ Commits(u)
         \/ Fails(u)
         \/ Deletes(u)
    \/ \E s \in Searches :
         \/ Asks(s)
         \/ ByVector(s)
         \/ ByWords(s)
         \/ Fuses(s)
         \/ Breaks(s)

Spec == Init /\ [][Next]_vars

-----------------------------------------------------------------------------
(* Properties *)

(* Uploads of one name that overlap leave documents with different names,  *)
(* and one gets a suffix only beside the document that has the name        *)
(* without it: deleting that one does not give its name away.              *)
NamesApart ==
    \A u \in Stored :
        /\ \A w \in Stored : doc[u].name = doc[w].name => u = w
        /\ Len(doc[u].name) > 1 =>
             \E w \in Stored : doc[w].name = SubSeq(doc[u].name, 1, Len(doc[u].name) - 1)

(* What a search finds was ticked, is no more than was asked for, and is   *)
(* the best there was: no key that neither query puts behind a result, and *)
(* one puts ahead of it, was left out, whatever is uploaded or deleted     *)
(* between the queries.                                                    *)
SearchSound ==
    \A s \in Searches : search[s].pc = "over" =>
        LET v == search[s].byVector  b == search[s].byWords  found == search[s].found
            NotBehind(l, j, k) == In(l, k) => In(l, j) /\ Rank(l, j) < Rank(l, k)
            all == {v[i] : i \in DOMAIN v} \cup {b[i] : i \in DOMAIN b}
        IN
        /\ found \subseteq Scope(s)
        /\ Cardinality(found) <= TopK
        /\ \A k \in found, j \in all \ found : ~(NotBehind(v, j, k) /\ NotBehind(b, j, k))
=============================================================================
