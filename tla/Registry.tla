------------------------------ MODULE Registry ------------------------------
(***************************************************************************)
(* The memory registry: one file of rows (harness/skills/memory.py) and    *)
(* the rules of who may retire what (lifecycle.py).  A fact fills a slot   *)
(* with a value; two texts of one fact are restatements of each other.     *)
(* Three hands write: "he" (a turn's capture), "she" (remember_about_self) *)
(* and "reflection", whose conclusions go into his lane as inferences.     *)
(***************************************************************************)
EXTENDS Naturals, Sequences, SequencesExt, FiniteSets

CONSTANTS Attr, Value,     \* facts with an attribute key
          Loose,           \* facts that have none
          MaxRows,         \* bound: rows ever written
          MaxMentions,     \* bound: the counter of restatements
          RegistryFaults   \* sets of faults, one chosen per behaviour:
                           \* "echo"    one hand says what another's live row says
                           \* "compact" compaction may meet a fact told again
                           \* "fold"    the operator's compaction and cleanup run
                           \* "crash"   the process dies inside a write
                           \* "overlap" the mint worker does not wait for remember()

NoSlot == "no slot"
ASSUME RegistryShape == MaxRows \in Nat /\ NoSlot \notin Attr

VARIABLES file,      \* the rows on disk, in order
          job,       \* the remember() under way: its step and what it loaded
          mint,      \* the mint worker: the rows it loaded, the row it minted
          todo,      \* _MINT_Q
          born,      \* rows named so far; a row's name is its number
          told,      \* what he said last of each slot and has not taken back
          kept,      \* the names the store has promised to keep
          quarantine, \* the names in quarantine.jsonl
          rfaults

mvars == <<file, job, mint, todo, born, told, kept, quarantine, rfaults>>

NoFact == [slot |-> NoSlot, value |-> "nothing"]
Fact == [slot : Attr, value : Value] \cup [slot : {NoSlot}, value : Loose]
Alive == 0
Forgotten == MaxRows + 1
NoJob == [pc |-> "none"]
NoMint == [pc |-> "none"]

RegistryInit ==
    /\ file = <<>> /\ job = NoJob /\ mint = NoMint /\ todo = {} /\ born = 0
    /\ told = [s \in Attr |-> NoFact] /\ kept = {} /\ quarantine = {}
    /\ rfaults \in RegistryFaults

Live(r) == r.by = Alive
Names(rows) == {rows[i].name : i \in DOMAIN rows}

\* infer_speaker and the status stamp() gives.
Speaker(hand) == IF hand = "she" THEN "self" ELSE "user"
Status(hand) == IF hand = "reflection" THEN "inferred" ELSE "observed"

-----------------------------------------------------------------------------
\* Faulty: where a claim comes from is not asked.
MaySupersedeAny(incoming, held) == TRUE

\* verdict.may_supersede: an inference never retires ground truth.
MaySupersede(incoming, held) == ~(incoming = "inferred" /\ held = "observed")

\* find_superseded: same slot, same lane, another value, not retired yet.
Superseded(f, hand, rows) ==
    {i \in DOMAIN rows :
        /\ f.slot # NoSlot /\ Live(rows[i])
        /\ rows[i].speaker = Speaker(hand)
        /\ rows[i].text.slot = f.slot /\ rows[i].text # f
        /\ MaySupersede(Status(hand), rows[i].status)}

\* The two guards on a repeat: the first live row that says it, in any lane.
Repeats(f, rows) == {i \in DOMAIN rows : Live(rows[i]) /\ rows[i].text = f}

First(S) == CHOOSE i \in S : \A j \in S : i <= j

Reinforced(rows, i) == [rows EXCEPT ![i].mentions = IF @ < MaxMentions THEN @ + 1 ELSE @]

-----------------------------------------------------------------------------
\* An echo: the live row that would be reinforced is of another hand's kind.
Echoes(f, hand) ==
    \E i \in Repeats(f, file) :
       file[i].speaker # Speaker(hand) \/ file[i].status # Status(hand)

\* What he has said, for the record: his last word on the slot.
Heard(f, hand) ==
    told' = IF hand = "he" /\ f.slot # NoSlot THEN [told EXCEPT ![f.slot] = f] ELSE told

\* remember(), up to the first write: load, look for a repeat, queue the mint,
\* find what the fact retires.  Chatter, instructions and her own identity in
\* his lane are turned away at the door and change nothing.
Remember(f, hand) ==
    /\ job = NoJob
    /\ mint.pc # "none" => "overlap" \in rfaults
    /\ Echoes(f, hand) => "echo" \in rfaults
    /\ IF Repeats(f, file) # {}
       THEN /\ file' = Reinforced(file, First(Repeats(f, file)))
            /\ Heard(f, hand)
            /\ UNCHANGED <<job, todo, born, kept>>
       ELSE /\ born < MaxRows
            /\ born' = born + 1
            /\ todo' = todo \cup {born + 1}
            /\ job' = [pc |-> IF Superseded(f, hand, file) = {} THEN "append" ELSE "open",
                       hand |-> hand, rows |-> file,
                       out |-> {file[i].name : i \in Superseded(f, hand, file)},
                       line |-> [name |-> born + 1, text |-> f, speaker |-> Speaker(hand),
                                 status |-> Status(hand), by |-> Alive, npos |-> FALSE,
                                 mentions |-> 1]]
            /\ UNCHANGED <<file, told, kept>>
    /\ UNCHANGED <<mint, quarantine, rfaults>>

\* The registry is opened for writing, and is empty until the rows are out.
OpenForWrite ==
    /\ job.pc = "open"
    /\ job' = [job EXCEPT !.pc = "retire", !.rows = file]
    /\ file' = <<>>
    /\ UNCHANGED <<mint, todo, born, told, kept, quarantine, rfaults>>

\* lifecycle = 1, and the name of the row that replaces it.
Retired(rows, out, name) ==
    [i \in DOMAIN rows |-> IF rows[i].name \in out THEN [rows[i] EXCEPT !.by = name]
                                                   ELSE rows[i]]

Retire ==
    /\ job.pc = "retire"
    /\ file' = Retired(job.rows, job.out, job.line.name)
    /\ job' = [job EXCEPT !.pc = "append"]
    /\ UNCHANGED <<mint, todo, born, told, kept, quarantine, rfaults>>

AppendRow ==
    /\ job.pc = "append"
    /\ file' = Append(file, job.line)
    /\ Heard(job.line.text, job.hand)
    /\ kept' = kept \cup {job.line.name}
    /\ job' = NoJob
    /\ UNCHANGED <<mint, todo, born, quarantine, rfaults>>

Tombstoned(rows, i) == [rows EXCEPT ![i].by = Forgotten]

\* forget(): the live row that matches best.
Forget(i) ==
    /\ job = NoJob /\ mint.pc = "none"
    /\ i \in DOMAIN file /\ Live(file[i])
    /\ file' = Tombstoned(file, i)
    /\ told' = [s \in Attr |-> IF told[s] = file[i].text THEN NoFact ELSE told[s]]
    /\ UNCHANGED <<job, mint, todo, born, kept, quarantine, rfaults>>

\* _mint_drain: the capture, then under _REG_LOCK load, find by dir, save.
MintLoad(n) ==
    /\ mint.pc = "none" /\ n \in todo
    /\ job.pc # "none" => "overlap" \in rfaults
    /\ todo' = todo \ {n}
    /\ mint' = [pc |-> "save", name |-> n, rows |-> file]
    /\ UNCHANGED <<file, job, born, told, kept, quarantine, rfaults>>

Minted(rows, n) == [i \in DOMAIN rows |-> IF rows[i].name = n
                                          THEN [rows[i] EXCEPT !.npos = TRUE] ELSE rows[i]]

MintSave(ok) ==
    /\ mint.pc = "save"
    /\ file' = IF ok /\ mint.name \in Names(mint.rows)
               THEN Minted(mint.rows, mint.name) ELSE file
    /\ mint' = NoMint
    /\ UNCHANGED <<job, todo, born, told, kept, quarantine, rfaults>>

\* compact_registry: the first row of each text stays, in the order of the file.
Firsts(rows) == {i \in DOMAIN rows : \A j \in 1..(i - 1) : rows[j].text # rows[i].text}
Compacted(rows) ==
    LET kth(k) == CHOOSE i \in Firsts(rows) : Cardinality({j \in Firsts(rows) : j <= i}) = k
    IN  [k \in 1..Cardinality(Firsts(rows)) |-> rows[kth(k)]]

\* The hygiene pass after a turn; what it drops is no longer promised.
Compact ==
    /\ job = NoJob /\ mint.pc = "none"
    /\ Compacted(file) # file
    /\ "compact" \in rfaults
    /\ file' = Compacted(file)
    /\ kept' = Names(file')
    /\ UNCHANGED <<job, mint, todo, born, told, quarantine, rfaults>>

\* maintenance/ops.py compact(): of two live rows with one text the later is
\* retired; of two that fill a slot of one speaker differently, the older.
Doubles(rows, i) == {j \in 1..(i - 1) : Live(rows[j]) /\ rows[j].text = rows[i].text}
Outbids(rows, i) == {k \in (i + 1)..Len(rows) :
    /\ Live(rows[k]) /\ Doubles(rows, k) = {} /\ rows[k].speaker = rows[i].speaker
    /\ rows[i].text.slot # NoSlot /\ rows[k].text.slot = rows[i].text.slot /\ rows[k].text # rows[i].text}
Folded(rows) ==
    [i \in DOMAIN rows |->
        IF Live(rows[i]) /\ Doubles(rows, i) # {}
        THEN [rows[i] EXCEPT !.by = rows[First(Doubles(rows, i))].name]
        ELSE IF Live(rows[i]) /\ Outbids(rows, i) # {}
        THEN [rows[i] EXCEPT !.by = rows[First(Outbids(rows, i))].name]
        ELSE rows[i]]

OpsCompact ==
    /\ "fold" \in rfaults /\ job = NoJob /\ mint.pc = "none"
    /\ file' = Folded(file)
    /\ UNCHANGED <<job, mint, todo, born, told, kept, quarantine, rfaults>>

\* Faulty: the row is dropped and put by nowhere.
QuarantinedNot(name) == quarantine

\* quarantine.jsonl is appended to before the registry is rewritten.
Quarantined(name) == quarantine \union {name}

\* cleanup(): a live row that is a turn and not one fact goes into quarantine;
\* a fact it carries, if the store does not hold it, is rescued into a new row,
\* which retires nothing and is stamped as testimony.
Cleanup(i, f) ==
    /\ "fold" \in rfaults /\ job = NoJob /\ mint.pc = "none"
    /\ i \in DOMAIN file /\ Live(file[i]) /\ file[i].text.slot = NoSlot
    /\ quarantine' = Quarantined(file[i].name)
    /\ IF f = NoFact \/ \E j \in DOMAIN file : file[j].text = f
       THEN file' = RemoveAt(file, i) /\ UNCHANGED born
       ELSE /\ born < MaxRows /\ born' = born + 1
            /\ file' = Append(RemoveAt(file, i), [file[i] EXCEPT !.name = born + 1, !.text = f, !.npos = FALSE,
                                                        !.status = "observed"])
    /\ UNCHANGED <<job, mint, todo, told, kept, rfaults>>

\* The gateway dies inside a remember(); the queue dies with it.
Crash ==
    /\ "crash" \in rfaults
    /\ job.pc # "none" \/ mint.pc # "none" \/ todo # {}
    /\ job' = NoJob /\ mint' = NoMint /\ todo' = {}
    /\ UNCHANGED <<file, born, told, kept, quarantine, rfaults>>

RegistryNext ==
    \/ \E f \in Fact, hand \in {"he", "she", "reflection"} : Remember(f, hand)
    \/ OpenForWrite \/ Retire \/ AppendRow
    \/ \E i \in DOMAIN file : Forget(i)
    \/ \E n \in todo : MintLoad(n)
    \/ \E ok \in BOOLEAN : MintSave(ok)
    \/ Compact \/ OpsCompact \/ Crash
    \/ \E i \in DOMAIN file, f \in Fact \cup {NoFact} : Cleanup(i, f)

RegistrySpec == RegistryInit /\ [][RegistryNext]_mvars

-----------------------------------------------------------------------------
Rest == job = NoJob
His(s) == {i \in DOMAIN file : file[i].speaker = "user" /\ file[i].text.slot = s /\ Live(file[i])}

\* What he said last of a thing is live in the store until he says otherwise or
\* has it forgotten: no conclusion of hers retires it, and no restatement,
\* repetition or change of mind of his loses it.
TestimonyKept == rfaults = {} /\ Rest =>
    \A s \in Attr : told[s] # NoFact => \E i \in His(s) : file[i].text = told[s]

\* He is not contradicted in his own voice: of a slot at most one live row is
\* testimony, and at most one is her conclusion.
OneVoice == rfaults \cap {"fold", "overlap"} = {} /\ Rest =>
    \A s \in Attr : \A i, j \in His(s) : file[i].status = file[j].status => i = j

\* She does not speak over him: what he said last of a thing is live until he says
\* otherwise, no conclusion of hers retires it, and of a slot at most one live row is
\* testimony and one her conclusion (find_superseded, may_supersede).
HisWordStands == TestimonyKept /\ OneVoice

\* Nothing is destroyed: a row whose writing was acknowledged is in the file, dead
\* or alive, or in quarantine, whatever retired, minted, folded or cleaned it.
NothingDestroyed == rfaults \cap {"crash", "overlap"} = {} /\ job.pc # "retire" =>
    kept \subseteq Names(file) \union quarantine

\* The audit trail leads somewhere: a retired row names the row that took its
\* place in the same slot and lane.
TrailLeads == rfaults = {} /\ Rest =>
    \A i \in DOMAIN file : file[i].by \in 1..MaxRows =>
       \E j \in DOMAIN file :
          /\ file[j].name = file[i].by /\ file[j].text # file[i].text
          /\ file[j].text.slot = file[i].text.slot /\ file[j].speaker = file[i].speaker

\* The mint lands on the row it was made from: a row bears a mint only once its own
\* capture has left the queue, whichever rows took its text meanwhile.
MintOwn == \A i \in DOMAIN file : file[i].npos => file[i].name \notin todo

\* What was acknowledged is found again: a row is in the file, dead or alive, or in
\* quarantine, a retired one leads to its successor, and a mint lands on its own row
\* (remember, find_superseded, _mint_drain, maintenance/ops.py).
NothingLost == NothingDestroyed /\ TrailLeads /\ MintOwn
=============================================================================
