----------------------------- MODULE Embeddings -----------------------------
(***************************************************************************)
(* The memory of fragments (embedding.repository.ts): a text is embedded,  *)
(* compared with what its session already holds, and kept when nothing is  *)
(* near enough.  Handlers may overtake each other at every await.          *)
(*                                                                         *)
(* A vector is named by its text.  Economizer and deduplication are on.    *)
(***************************************************************************)
EXTENDS Naturals, FiniteSets, SequencesExt

CONSTANTS
    Users,       \* a session is named by its user
    Calls,       \* the requests, and the tasks they leave behind
    Texts,
    Near,        \* the pairs of texts whose cosine reaches dedupThreshold
    Documents,   \* what is ingested: chunks of a document, or one text alone
    Settings,    \* sets of "pgvector", "provider", "crash", "noPostgres", "outages"
    None

ASSUME NearAssumption ==
    /\ Near \subseteq Texts \X Texts
    /\ \A t \in Texts : <<t, t>> \in Near
    /\ \A p \in Near : <<p[2], p[1]>> \in Near
ASSUME NoneAssumption == None \notin Users /\ None \notin Calls \X Nat
ASSUME DocumentsAssumption == Documents \subseteq Seq(Texts) /\ <<>> \notin Documents

VARIABLES
    setting,     \* the backend and what may happen; it never changes
    fragments,   \* the table, or the Map in its order
    ingest,      \* ingest[c]: what an ingestion holds
    beside       \* history: the pairs of ingestions of a session that were under way at once

memoryVars == <<fragments, ingest, beside>>

Id == Calls \X Nat
Fragment == [id : Id, session : Users, text : Texts]

Ingestion ==
    [pc      : {"idle", "embed", "find", "keep", "ok", "failed", "lost"},
     session : Users \union {None},
     texts   : Seq(Texts),
     found   : Id \union {None},   \* dup
     out     : Seq(Id)]

NoIngestion == [pc |-> "idle", session |-> None, texts |-> <<>>, found |-> None, out |-> <<>>]

MemoryTypeOK ==
    /\ setting \in Settings
    /\ fragments \in Seq(Fragment)
    /\ ingest \in [Calls -> Ingestion]
    /\ beside \subseteq SUBSET Calls

MemoryInit ==
    /\ setting \in Settings
    /\ fragments = <<>>
    /\ ingest = [c \in Calls |-> NoIngestion]
    /\ beside = {}

Ingesting(c) == ingest[c].pc \in {"embed", "find", "keep"}
Chunk(c) == ingest[c].texts[Len(ingest[c].out) + 1]

\* ingest, ingestMany.
Ingest(c, s, texts) ==
    /\ ingest[c].pc = "idle"
    /\ ingest' = [ingest EXCEPT ![c] = [@ EXCEPT !.pc = "embed", !.session = s, !.texts = texts]]
    /\ beside' = beside \union {{c, d} : d \in {x \in Calls : Ingesting(x) /\ ingest[x].session = s}}
    /\ UNCHANGED fragments

Embedded(c) ==
    /\ ingest[c].pc = "embed"
    /\ \/ ingest' = [ingest EXCEPT ![c].pc = "find"]
       \/ "provider" \in setting /\ ingest' = [ingest EXCEPT ![c].pc = "failed"]
    /\ UNCHANGED <<fragments, beside>>

Alike(f, s, t) == f.session = s /\ <<f.text, t>> \in Near

\* Slips: the session is not looked at; only the very text is recognised.
AlikeAnywhere(f, s, t) == <<f.text, t>> \in Near
AlikeIfSame(f, s, t) == f.session = s /\ f.text = t

\* What the comparison goes by.
Matches(f, s, t) == Alike(f, s, t)

\* The Map answers with the first that matches, the index with the nearest; an
\* error of the index counts as none.
NearDuplicate(s, t) ==
    LET alike == {n \in DOMAIN fragments : Matches(fragments[n], s, t)}
        same  == {n \in alike : fragments[n].text = t}
        first == {n \in alike : \A m \in alike : n <= m}
        picks == IF "pgvector" \notin setting THEN first ELSE IF same # {} THEN same ELSE alike
    IN {fragments[n].id : n \in picks}
         \union (IF alike = {} \/ {"pgvector", "noPostgres"} \subseteq setting THEN {None} ELSE {})

FindNearDuplicate(c) ==
    /\ ingest[c].pc = "find"
    /\ \E dup \in NearDuplicate(ingest[c].session, Chunk(c)) :
          ingest' = [ingest EXCEPT ![c] = [@ EXCEPT !.pc = "keep", !.found = dup]]
    /\ UNCHANGED <<fragments, beside>>

\* A slip: what the search has found is answered, though it found nothing.
FoundOnly(c) == ingest[c].found

Named(c) == IF ingest[c].found = None THEN <<c, Len(ingest[c].out) + 1>> ELSE ingest[c].found

\* The duplicate is answered, or the fragment inserted; then the next chunk.
Keep(c) ==
    LET new == ingest[c].found = None
        out == Append(ingest[c].out, Named(c))
    IN
    /\ ingest[c].pc = "keep"
    /\ fragments' = IF new THEN Append(fragments, [id |-> Named(c), session |-> ingest[c].session,
                                                   text |-> Chunk(c)])
                    ELSE fragments
    /\ ingest' = [ingest EXCEPT ![c] = [@ EXCEPT
           !.pc = IF Len(out) = Len(ingest[c].texts) THEN "ok" ELSE "find",
           !.found = None, !.out = out]]
    /\ UNCHANGED beside

InsertFails(c) ==
    /\ ingest[c].pc = "keep" /\ ingest[c].found = None
    /\ {"pgvector", "noPostgres"} \subseteq setting
    /\ ingest' = [ingest EXCEPT ![c].pc = "failed"]
    /\ UNCHANGED <<fragments, beside>>

\* The Map dies with the process, and what it answered is worth nothing.
ForgetMemory ==
    /\ fragments' = IF "pgvector" \in setting THEN fragments ELSE <<>>
    /\ ingest' = [c \in Calls |->
           IF Ingesting(c) \/ (ingest[c].pc = "ok" /\ "pgvector" \notin setting)
             THEN [ingest[c] EXCEPT !.pc = "lost"] ELSE ingest[c]]
    /\ UNCHANGED beside

IngestStep(c) == Embedded(c) \/ FindNearDuplicate(c) \/ Keep(c) \/ InsertFails(c)

----------------------------------------------------------------------------
(***************************************************************************)
(* Properties.                                                             *)
(***************************************************************************)

\* While the index answers, two fragments of a session that are near each other come
\* from two ingestions that were under way at once: never from one document, nor from
\* a retry of an ingestion that was answered, failed or was cut off half way.
NoTwins ==
    "noPostgres" \notin setting =>
        \A m, n \in DOMAIN fragments :
            (m < n /\ Alike(fragments[m], fragments[n].session, fragments[n].text)) =>
                {fragments[m].id[1], fragments[n].id[1]} \in beside

\* An ingestion that was answered names, for each chunk in its order, a fragment of
\* its own session near that chunk, although others insert meanwhile.
AnswerNames ==
    \A c \in Calls : ingest[c].pc = "ok" =>
        /\ Len(ingest[c].out) = Len(ingest[c].texts)
        /\ \A n \in DOMAIN ingest[c].out : \E k \in DOMAIN fragments :
              /\ fragments[k].id = ingest[c].out[n]
              /\ Alike(fragments[k], ingest[c].session, ingest[c].texts[n])

=============================================================================
