----------------------------- MODULE Knowledge -----------------------------
(***************************************************************************)
(* The NEXUS knowledge store (harness/nexus) and the prompt hydration that *)
(* reads it.  Ingest: validate, dedup by fingerprint, store, auto Q&A.     *)
(* Query: Q&A cache, then vector search, then the model with a write-back. *)
(* A vector is known by the space it lives in: the provider's, or the      *)
(* hashing fallback's when the provider fails.                             *)
(***************************************************************************)
EXTENDS Naturals, Sequences, SequencesExt, FiniteSets

CONSTANTS Ingester,
          CacheSize,       \* EmbeddingService cache_size
          TTL,             \* NexusPromptInterceptor._TTL
          MaxTime,         \* bound: clock
          MaxEntries,      \* bound: entries ever stored
          KnowledgeFaults  \* sets of "down" (the remote KMS fails), "provider" (the embedder fails)

VARIABLES entries,   \* the entries table: [doc, space]
          qas,       \* the qa table: [q, space]
          seen,      \* KnowledgePipeline._seen
          ingest,    \* ingester -> its ingest()
          query,     \* the _lookup() in progress and the time it began
          vecs,      \* EmbeddingService._cache, oldest first: <<text, space>>
          hydrated,  \* question -> NexusPromptInterceptor._cache entry, with the time its text was found
          kclock,
          served,    \* the age of the text last put into a prompt
          asked,     \* question -> answers the model has given to it, up to two
          kfaults

kvars == <<entries, qas, seen, ingest, query, vecs, hydrated, kclock, served, asked, kfaults>>

(* Three documents of one title: "b" begins differently from "a"; "c" begins as "a" does for   *)
(* the 500 characters the fingerprint reads. A question is known by its subject.               *)
Doc == {"a", "b", "c"}
Opening(d) == IF d = "b" THEN "other" ELSE "same"
Question == {"titled", "other"}
None == [at |-> 0, born |-> 0, known |-> FALSE]

KnowledgeInit ==
    /\ entries = <<>> /\ qas = {} /\ seen = {} /\ vecs = <<>> /\ kclock = 0 /\ served = 0
    /\ ingest = [i \in Ingester |-> [pc |-> "idle", doc |-> "a", result |-> "none"]]
    /\ query = [pc |-> "idle", q |-> "other", at |-> 0]
    /\ hydrated = [q \in Question |-> None]
    /\ asked = [q \in Question |-> 0]
    /\ kfaults \in KnowledgeFaults

-----------------------------------------------------------------------------
(* EmbeddingService.embed *)

CachedVec(text) == {v \in ToSet(vecs) : v[1] = text}

\* The oldest entry goes when the cache is full.
MakeRoom(c) == IF Len(c) >= CacheSize THEN Tail(c) ELSE c

\* embed(text) leaves the cache as vecs' and gives a vector in this space.
Embed(text, space) ==
    IF CachedVec(text) # {}
    THEN vecs' = vecs /\ <<text, space>> \in CachedVec(text)
    ELSE /\ space = "provider" \/ "provider" \in kfaults
         /\ vecs' = Append(MakeRoom(vecs), <<text, space>>)

Space == {"provider", "hashing"}
Fails == "down" \in kfaults

-----------------------------------------------------------------------------
(* KnowledgePipeline.ingest *)

\* The title and the first 500 characters.
Fingerprint(d) == Opening(d)

At(i, pc) == ingest[i].pc = pc
Goes(i, pc, result) == ingest' = [ingest EXCEPT ![i].pc = pc, ![i].result = result]

Ingest(i, d) ==
    /\ At(i, "idle")
    /\ ingest' = [ingest EXCEPT ![i] = [pc |-> "check", doc |-> d, result |-> "none"]]
    /\ UNCHANGED <<entries, qas, seen, query, vecs, hydrated, kclock, served, asked, kfaults>>

\* validate and dedup; the fingerprint is noted before the entry is stored.
Dedup(i) ==
    /\ At(i, "check")
    /\ \/ Goes(i, "idle", "invalid") /\ UNCHANGED seen
       \/ /\ Fingerprint(ingest[i].doc) \in seen
          /\ Goes(i, "idle", "duplicate") /\ UNCHANGED seen
       \/ /\ Fingerprint(ingest[i].doc) \notin seen
          /\ Goes(i, "note", "none") /\ UNCHANGED seen
    /\ UNCHANGED <<entries, qas, query, vecs, hydrated, kclock, served, asked, kfaults>>

Note(i) ==
    /\ At(i, "note")
    /\ seen' = seen \cup {Fingerprint(ingest[i].doc)}
    /\ Goes(i, "store", "none")
    /\ UNCHANGED <<entries, qas, query, vecs, hydrated, kclock, served, asked, kfaults>>

AddEntry(i) ==
    /\ At(i, "store")
    /\ \/ /\ Len(entries) < MaxEntries
          /\ \E space \in Space :
               /\ Embed(ingest[i].doc, space)
               /\ entries' = Append(entries, [doc |-> ingest[i].doc, space |-> space])
          /\ Goes(i, "qa", "none")
       \/ Fails /\ Goes(i, "idle", "failed") /\ UNCHANGED <<entries, vecs>>
    /\ UNCHANGED <<qas, seen, query, hydrated, kclock, served, asked, kfaults>>

\* The auto Q&A, asked as "What is <title>?"; without it the ingest succeeds all the same.
AddQA(i) ==
    /\ At(i, "qa") /\ Goes(i, "idle", "stored")
    /\ \/ \E space \in Space : Embed("titled", space) /\ qas' = qas \cup {[q |-> "titled", space |-> space]}
       \/ Fails /\ UNCHANGED <<qas, vecs>>
    /\ UNCHANGED <<entries, seen, query, hydrated, kclock, served, asked, kfaults>>

-----------------------------------------------------------------------------
(* NexusPromptInterceptor._lookup and NexusQueryRouter.query *)

\* A hit leaves the entry as it is.
Hit(h) == h

Fresh(q) == hydrated[q].known /\ kclock - hydrated[q].at < TTL

Hydrate(q) ==
    /\ query.pc = "idle"
    /\ \/ /\ Fresh(q)
          /\ served' = kclock - hydrated[q].born
          /\ hydrated' = [hydrated EXCEPT ![q] = Hit(@)]
          /\ UNCHANGED query
       \/ /\ ~Fresh(q)
          /\ query' = [pc |-> "tiers", q |-> q, at |-> kclock]
          /\ UNCHANGED <<served, hydrated>>
    /\ UNCHANGED <<entries, qas, seen, ingest, vecs, kclock, asked, kfaults>>

\* The entry bears the time at which the lookup began.
Answered == /\ hydrated' = [hydrated EXCEPT ![query.q] = [at |-> query.at, born |-> kclock, known |-> TRUE]]
            /\ served' = 0
            /\ query' = [query EXCEPT !.pc = "idle", !.at = 0]

\* find_qa: the same question, in the space it was stored in.
FindQA(q, space) == [q |-> q, space |-> space] \in qas
Search(q, space) == q = "titled" /\ \E i \in DOMAIN entries : entries[i].space = space

Tiers ==
    /\ query.pc = "tiers"
    /\ \E space \in Space :
         /\ Embed(query.q, space)
         /\ \/ /\ FindQA(query.q, space) \/ Search(query.q, space)
               /\ Answered /\ UNCHANGED asked
            \/ /\ ~(FindQA(query.q, space) \/ Search(query.q, space)) \/ Fails
               /\ query' = [query EXCEPT !.pc = "model"]
               /\ UNCHANGED <<hydrated, served, asked>>
    /\ UNCHANGED <<entries, qas, seen, ingest, kclock, kfaults>>

\* The model answers and the pair is written back; or it raises, or has nothing to say.
LLM ==
    /\ query.pc = "model" /\ Answered
    /\ asked' = [asked EXCEPT ![query.q] = IF @ = 2 THEN 2 ELSE @ + 1]
    /\ \/ \E space \in Space : Embed(query.q, space) /\ qas' = qas \cup {[q |-> query.q, space |-> space]}
       \/ Fails /\ UNCHANGED <<qas, vecs>>
    /\ UNCHANGED <<entries, seen, ingest, kclock, kfaults>>

LLMFails ==
    /\ query.pc = "model" /\ Answered
    /\ UNCHANGED <<entries, qas, seen, ingest, vecs, kclock, asked, kfaults>>

Elapse ==
    /\ kclock < MaxTime /\ kclock' = kclock + 1
    /\ UNCHANGED <<entries, qas, seen, ingest, query, vecs, hydrated, served, asked, kfaults>>

KnowledgeNext ==
    \/ \E i \in Ingester : (\E d \in Doc : Ingest(i, d)) \/ Dedup(i) \/ Note(i) \/ AddEntry(i) \/ AddQA(i)
    \/ \E q \in Question : Hydrate(q)
    \/ Tiers \/ LLM \/ LLMFails \/ Elapse

KnowledgeSpec == KnowledgeInit /\ [][KnowledgeNext]_kvars

-----------------------------------------------------------------------------
Reliable == kfaults = {}

\* When no store fails and there is one ingester, a document that was reported as
\* ingested or as a duplicate is in the store, up to what follows its opening.
SuccessIsStored == Reliable /\ Cardinality(Ingester) = 1 => \A i \in Ingester :
    ingest[i].pc = "idle" /\ ingest[i].result \in {"stored", "duplicate"} =>
        \E n \in DOMAIN entries : Opening(entries[n].doc) = Opening(ingest[i].doc)

\* The embedding cache keeps its bound, with the hydration and the ingests all
\* inserting into it.
CacheBounded == Len(vecs) <= CacheSize

\* What hydration puts into a prompt was found less than the TTL ago: hits do not
\* prolong it.
FreshEnough == served < TTL

\* The model answers a question once: the answer, written back, is what the first
\* tier finds, whatever was ingested or evicted from the embedding cache since.
LearnedOnce == Reliable => \A q \in Question : asked[q] <= 1
=============================================================================
