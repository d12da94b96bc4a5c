------------------------------- MODULE Recall -------------------------------
(***************************************************************************)
(* What she may bring up: the one seam every reader of the store goes      *)
(* through (memory.search_memories_ranked_rows), the law over it           *)
(* (verdict.py), the semantic index that admits paraphrases (semindex.py)  *)
(* and the sidecar of same-subject links (slots.py).  A row is an owner, a *)
(* standing, a class and the set of words it is about.                     *)
(***************************************************************************)
EXTENDS Naturals, FiniteSets, Sequences

CONSTANTS Word,     \* content words
          NRows,    \* rows of the store
          TopK,     \* bound: the k a reader asks for
          MaxPairs  \* bound: lines of the sidecar, where a scan starts

VARIABLES rows,     \* the live and the retired rows of the store
          index,    \* per row, the embedding spaces it has a line in
          daemon,   \* "up" or "down", for the embedding and the oracle
          holdoff,  \* _EMBED_DOWN_UNTIL lies ahead
          links,    \* the slots sidecar, in order
          scan,     \* the scan under way: pairs still to decide, `seen` at its start
          law,      \* SP_SEM_VERDICT
          said,     \* the last answer of the seam, until the store, the links or the tool changes
          listed    \* what list_memories or provenance last read out, likewise

cvars == <<rows, index, daemon, holdoff, links, scan, law, said, listed>>

Row == 1..NRows
Pair == Row \X Row       \* an inference and a testimony
NoScan == [pc |-> "none"]
Nothing == {}
Topic == {w \in SUBSET Word : Cardinality(w) = 2}

Ground(r) == rows[r].status = "observed"
Overlap(r, s) == Cardinality(rows[r].topic \cap rows[s].topic)
SameOwner(r, s) == rows[r].speaker = rows[s].speaker

RecallInit ==
    /\ rows \in [Row -> [speaker : {"user", "self"}, status : {"observed", "inferred"},
                         class : {"fact", "preference"}, subject : {"he", "his"},
                         dead : {FALSE}, topic : Topic]]
    /\ Ground(1) /\ rows[1].speaker = "user"
    /\ rows[1].topic = CHOOSE t \in Topic : TRUE    \* the words are interchangeable
    /\ \A r \in Row : Ground(r) =>
          rows[r].class = "fact" /\ rows[r].subject = "he"
    /\ index = [r \in Row |-> {}] /\ daemon = "up" /\ holdoff = FALSE
    /\ links = <<>> /\ scan = NoScan /\ law \in BOOLEAN /\ said = Nothing /\ listed = Nothing

-----------------------------------------------------------------------------
\* slots._load, linked: a pair is linked once any line of it says "same".
Linked(b, a) == \E i \in DOMAIN links : links[i].pair = <<b, a>> /\ links[i].verdict = "same"

Seen == {links[i].pair : i \in DOMAIN links}

Line(p, verdict, oracle) == Append(links, [pair |-> p, verdict |-> verdict, oracle |-> oracle])

\* frame_link: one grammatical subject, and values that compete.
FrameLink(b, a) == rows[b].subject = rows[a].subject /\ rows[b].topic # rows[a].topic

\* The gap zone: an inference and a testimony of one owner, both live, that
\* share exactly one word.
GapZone == {p \in Pair : /\ ~Ground(p[1]) /\ Ground(p[2]) /\ SameOwner(p[1], p[2])
                         /\ ~rows[p[1]].dead /\ ~rows[p[2]].dead
                         /\ Overlap(p[1], p[2]) = 1}

Candidates == GapZone \ Seen

\* scan(): what was decided is read once, then the pairs are taken in turn.
ScanStart ==
    /\ scan = NoScan /\ Candidates # {} /\ Len(links) + Cardinality(Candidates) < MaxPairs
    /\ scan' = [pc |-> "pairs", todo |-> Candidates]
    /\ UNCHANGED <<rows, index, daemon, holdoff, links, law, said, listed>>

\* One pair: the frame test proposes it for review; what it cannot decide goes
\* to the oracle, and an oracle that does not answer proposes nothing.
ScanPair(p, verdict) ==
    /\ scan.pc = "pairs" /\ p \in scan.todo
    /\ verdict \in {"same", "different"} => daemon = "up"
    /\ links' = IF FrameLink(p[1], p[2]) THEN Line(p, "pending", "frame")
                ELSE IF verdict = "none" THEN links ELSE Line(p, verdict, "oneshot")
    /\ scan' = IF scan.todo = {p} THEN NoScan ELSE [scan EXCEPT !.todo = @ \ {p}]
    /\ said' = Nothing
    /\ UNCHANGED <<rows, index, daemon, holdoff, law, listed>>

\* pending(): proposals of the frame test the operator has not ruled on.
Pending == {p \in Seen : /\ \E i \in DOMAIN links : links[i].pair = p /\ links[i].verdict = "pending"
                         /\ ~\E i \in DOMAIN links : links[i].pair = p /\ links[i].oracle = "operator"}

\* resolve(), from the review command.
Resolve(p, verdict) ==
    /\ p \in Pending
    /\ links' = Line(p, verdict, "operator")
    /\ said' = Nothing
    /\ UNCHANGED <<rows, index, daemon, holdoff, scan, law, listed>>

-----------------------------------------------------------------------------
\* read_ep_l5, hash_embed: a line is in the engine's space when the episode left a
\* vector that is whole and finite, else in hash space.
MintSpace(vector) == IF vector THEN "l5" ELSE "hash"

\* mint, after a remember().
IndexRow(r, vector) ==
    /\ ~rows[r].dead /\ index[r] = {}
    /\ index' = [index EXCEPT ![r] = {MintSpace(vector)}]
    /\ UNCHANGED <<rows, daemon, holdoff, links, scan, law, said, listed>>

\* upgrade(): the episode's vector came late; a second line, never an edit.
Upgrade(r) ==
    /\ ~rows[r].dead /\ index[r] = {"hash"}
    /\ index' = [index EXCEPT ![r] = {"hash", "l5"}]
    /\ UNCHANGED <<rows, daemon, holdoff, links, scan, law, said, listed>>

\* backfill(): every live row the index lacks, in the space its episode allows.
Backfill(vectors) ==
    LET lacking == {r \in Row : ~rows[r].dead /\ index[r] = {}} IN
    /\ lacking # {} /\ vectors \subseteq lacking
    /\ index' = [r \in Row |-> IF r \in lacking THEN {MintSpace(r \in vectors)} ELSE index[r]]
    /\ UNCHANGED <<rows, daemon, holdoff, links, scan, law, said, listed>>

\* load(), load_cached(): the best line of a row; the engine's space outranks.
Best(r) == IF "l5" \in index[r] THEN "l5" ELSE IF index[r] = {} THEN "none" ELSE "hash"

\* query_embed: the daemon's vector, or hash space while it does not answer.
QuerySpace == IF daemon = "up" /\ ~holdoff THEN "l5" ELSE "hash"

-----------------------------------------------------------------------------
\* Faulty: the seam reads every row and leaves the filter to its callers.
StandsAlways(r) == TRUE

\* Retired rows are out, on every path.
Stands(r) == ~rows[r].dead

\* _toks, _overlap: the question's content words, without their plural, in the row.
Shares(q, r) == rows[r].topic \cap q # {}

\* The dual gate: a shared word, or nearness in one and the same space.
Admitted(q, near) ==
    {r \in Row : Stands(r) /\ (Shares(q, r) \/ (r \in near /\ Best(r) = QuerySpace))}

\* lifecycle.testimony_wins: an inference yields to testimony among the hits.
TestimonyWins(hits) ==
    {r \in hits : Ground(r) \/ ~\E g \in hits : Ground(g) /\ SameOwner(r, g) /\ Overlap(r, g) >= 2}

\* _query_target, _target_and_rank: the owner the pronoun names, if he has any.
Scoped(hits, target) ==
    LET owned == {r \in hits : rows[r].speaker = target}
    IN  IF target = "anyone" \/ owned = {} THEN hits ELSE owned

\* verdict.competition: a live testimony covers the row, by words or by a link.
Competition(r) ==
    \E g \in Row \ {r} : /\ ~rows[g].dead /\ Ground(g) /\ SameOwner(r, g)
                         /\ Overlap(r, g) >= 2 \/ Linked(r, g)

\* verdict.enforce over the committed table: a covered conclusion is silent; a
\* cell the table does not have (a conclusion of another class) is kept.
Enforce(hits) ==
    {r \in hits : Ground(r) \/ rows[r].class # "fact" \/ ~Competition(r)}

Ruled(hits) == IF law THEN Enforce(hits) ELSE hits

\* search_memories_ranked_rows, as recall(), the search tool and the automatic
\* recall of every turn use it.  Scores are left open: any k of the ruled rows, or all of
\* them if they are fewer, for some k up to TopK; a question holds one content word.
Ask(q, near, target) ==
    /\ holdoff' = (holdoff \/ daemon = "down")
    /\ LET ruled == Ruled(Scoped(TestimonyWins(Admitted(q, near)), target))
       IN  \E top \in SUBSET ruled :
              /\ Cardinality(top) <= TopK /\ (top = {} => ruled = {})
              /\ said' = top
    /\ listed' = Nothing
    /\ UNCHANGED <<rows, index, daemon, links, scan, law>>

\* list_memories: every row that stands, whatever else stands beside it.
ListAll ==
    /\ listed' = {r \in Row : Stands(r)} /\ said' = Nothing
    /\ UNCHANGED <<rows, index, daemon, holdoff, links, scan, law>>

\* provenance: the row that shares most with the question, if it shares anything.
Provenance(q) ==
    /\ LET found == {r \in Row : Stands(r) /\ Shares(q, r)}
       IN  \E hit \in SUBSET found : /\ listed' = hit
                                      /\ Cardinality(hit) = IF found = {} THEN 0 ELSE 1
    /\ said' = Nothing
    /\ UNCHANGED <<rows, index, daemon, holdoff, links, scan, law>>

\* A row is superseded or forgotten.
RetireRow(r) ==
    /\ ~rows[r].dead
    /\ rows' = [rows EXCEPT ![r].dead = TRUE]
    /\ said' = Nothing /\ listed' = Nothing
    /\ UNCHANGED <<index, daemon, holdoff, links, scan, law>>

DaemonTurns ==
    /\ daemon' = IF daemon = "up" THEN "down" ELSE "up"
    /\ UNCHANGED <<rows, index, holdoff, links, scan, law, said, listed>>

\* The minute of _EMBED_HOLDOFF passes.
Elapse ==
    /\ holdoff /\ holdoff' = FALSE
    /\ UNCHANGED <<rows, index, daemon, links, scan, law, said, listed>>

\* The rows a question can be near to: the others change no answer.
Near(q) == {r \in Row : Stands(r) /\ ~Shares(q, r) /\ Best(r) = QuerySpace}

RecallNext ==
    \/ ScanStart
    \/ \E p \in Pair, v \in {"same", "different", "none"} : ScanPair(p, v)
    \/ \E p \in Pair, v \in {"same", "different"} : Resolve(p, v)
    \/ \E r \in Row : Upgrade(r) \/ \E vector \in BOOLEAN : IndexRow(r, vector)
    \/ \E vectors \in SUBSET Row : Backfill(vectors)
    \/ ListAll
    \/ \E w \in Word : Provenance({w})
    \/ \E w \in Word : \E near \in {{}} \cup {{r} : r \in Near({w})},
          t \in {"anyone"} \cup {rows[r].speaker : r \in Row} : Ask({w}, near, t)
    \/ \E r \in Row : RetireRow(r)
    \/ DaemonTurns \/ Elapse

RecallSpec == RecallInit /\ [][RecallNext]_cvars

-----------------------------------------------------------------------------
\* She does not say "you told me" and "I have come to think" of one subject in
\* one breath: an answer holds no conclusion beside testimony that covers it.
OneBreath == \A r, g \in said :
    ~Ground(r) /\ Ground(g) /\ SameOwner(r, g) => Overlap(r, g) < 2

\* With the law armed she does not speak over him even where his words were not
\* found: a conclusion of class fact is said only while no live testimony covers
\* it, by two shared words, or by one that the review has linked.
LawCovers == law =>
    \A r \in said, g \in Row :
       ~Ground(r) /\ rows[r].class = "fact" /\ Ground(g) /\ ~rows[g].dead /\ SameOwner(r, g)
          => Overlap(r, g) < 2 /\ ~Linked(r, g)

\* Superseded is superseded on every path: no answer, listing or account of a source
\* holds a retired row, however close its line in the index, which retiring does not
\* remove, is to the question.
DeadStay == \A r \in said \cup listed : ~rows[r].dead

\* A pair is put to a machine once: no proposal is made of a pair already decided,
\* whatever the operator ruled since.
AskedOnce == \A i, j \in DOMAIN links :
    links[i].pair = links[j].pair /\ links[i].oracle # "operator" /\ links[j].oracle # "operator"
       => i = j
=============================================================================
