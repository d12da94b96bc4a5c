------------------------------ MODULE OkfPage ------------------------------
(***************************************************************************)
(* A page that an agent and a human edit together (tools/okf_mem.py,       *)
(* upsert_block): the agent rewrites the block between the markers of its  *)
(* key, the human everything else.  A page is the sequence of its lines.   *)
(***************************************************************************)
EXTENDS Naturals, Sequences, SequencesExt

CONSTANTS Key,        \* the blocks' keys
          Line,       \* lines a human writes
          MaxPage,    \* bound: lines
          PageFaults  \* sets of faults, one chosen per behaviour: "marker" the human deletes a marker

VARIABLES page,
          mine,       \* the human's lines that he wrote outside every block
          shown,      \* key -> the content last generated for it, or "none"
          pgfaults

pgvars == <<page, mine, shown, pgfaults>>

Start(k) == <<"START", k>>
End(k) == <<"END", k>>
Block(k, content) == <<Start(k), <<"generated", content>>, End(k)>>
Human(l) == <<"human", l>>

OkfPageInit == page = <<>> /\ mine = {} /\ shown = [k \in Key |-> "none"] /\ pgfaults \in PageFaults

\* text.find: the first of them, 0 for none.
Find(x) == IF Contains(page, x) THEN SelectInSeq(page, LAMBDA y : y = x) ELSE 0

\* What follows the old block.
AfterBlock(j) == SubSeq(page, j + 1, Len(page))

\* The block, where the old one was.
Replaced(k, content) == SubSeq(page, 1, Find(Start(k)) - 1) \o Block(k, content) \o AfterBlock(Find(End(k)))

\* Without its two markers in this order, a block is appended.
Upsert(k, content) ==
    /\ page' = IF Find(Start(k)) # 0 /\ Find(End(k)) > Find(Start(k)) THEN Replaced(k, content)
               ELSE page \o Block(k, content)
    /\ Len(page') <= MaxPage
    /\ shown' = [shown EXCEPT ![k] = content]
    /\ UNCHANGED <<mine, pgfaults>>

\* A line put at p stands between two markers of one key.
Inside(p) == \E k \in Key : \E i \in 1..(p - 1), j \in p..Len(page) : page[i] = Start(k) /\ page[j] = End(k)

HumanWrites(l, p) ==
    /\ Len(page) < MaxPage /\ ~Contains(page, Human(l))
    /\ page' = InsertAt(page, p, Human(l))
    /\ mine' = IF Inside(p) THEN mine ELSE mine \cup {l}
    /\ UNCHANGED <<shown, pgfaults>>

HumanDeletes(p) ==
    /\ page[p][1] = "human" \/ ("marker" \in pgfaults /\ page[p][1] \in {"START", "END"})
    /\ page' = RemoveAt(page, p)
    /\ mine' = mine \ {l \in Line : page[p] = Human(l)}
    /\ UNCHANGED <<shown, pgfaults>>

OkfPageNext ==
    \/ \E k \in Key, c \in {"c1", "c2"} : Upsert(k, c)
    \/ \E l \in Line, p \in 1..(Len(page) + 1) : HumanWrites(l, p)
    \/ \E p \in DOMAIN page : HumanDeletes(p)
OkfPageSpec == OkfPageInit /\ [][OkfPageNext]_pgvars

-----------------------------------------------------------------------------
Intact == pgfaults = {}

\* The agent never takes a line that the human wrote outside its blocks, with the
\* blocks of two keys on the page, while he leaves the markers alone.
HumanKept == Intact => \A l \in mine : Contains(page, Human(l))

\* Generating again is idempotent: a key has one block, which shows its last content.
OneBlock == Intact => \A k \in Key : shown[k] # "none" =>
    /\ \A i, j \in DOMAIN page : page[i] = End(k) /\ page[j] = End(k) => i = j
    /\ page[Find(Start(k)) + 1] = <<"generated", shown[k]>> \/ page[Find(Start(k)) + 1][1] = "human"
=============================================================================
