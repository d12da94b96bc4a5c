------------------------------ MODULE OkfStore ------------------------------
(***************************************************************************)
(* The content-addressed store (tools/okf_mem.py) under the conversation   *)
(* archive (harness/skills/conversation_memory.py): a text goes into       *)
(* full/, its gist into sum/, and a row into the table LUT.md that readers *)
(* start from.  Every file is rewritten whole, in place.                   *)
(***************************************************************************)
EXTENDS Naturals, Sequences, SequencesExt, FiniteSets

CONSTANTS Body,       \* texts; a text's address is the text
          Writer,     \* processes: the idle pass, the command line
          MaxAdds,    \* bound: adds ever begun
          OkfFaults   \* sets of faults, one chosen per behaviour:
                      \* "race"  two writers are inside cmd_add at once
                      \* "crash" a writer dies inside cmd_add
                      \* "model" the one-shot call fails

VARIABLES full, sum,   \* the addresses that have a file in full/, in sum/
          lut,         \* the rows of LUT.md, or "torn" while it is being written
          adding,      \* per writer: its step, its text, the rows it read
          adds,
          facts,       \* how often the texts' facts went through remember()
          filed,       \* texts whose archiving was reported done
          ofaults

ovars == <<full, sum, lut, adding, adds, facts, filed, ofaults>>

NoAdd == [pc |-> "idle"]

OkfInit ==
    /\ full = {} /\ sum = {} /\ lut = <<>> /\ adding = [w \in Writer |-> NoAdd] /\ adds = 0
    /\ facts = [b \in Body |-> 0] /\ filed = {} /\ ofaults \in OkfFaults

Free(w) == adding[w] = NoAdd /\ ("race" \in ofaults \/ \A v \in Writer : adding[v] = NoAdd)
At(w, pc) == adding[w].pc = pc

\* consolidate_conversation: the facts first, each through remember(), then the
\* summary's own call, which may raise and leave the archive as it was.
Consolidate(w, b) ==
    /\ Free(w) /\ adds < MaxAdds /\ adds' = adds + 1
    /\ facts' = [facts EXCEPT ![b] = @ + 1]
    /\ \/ adding' = [adding EXCEPT ![w] = [pc |-> "full", body |-> b, rows |-> <<>>]]
       \/ "model" \in ofaults /\ UNCHANGED adding
    /\ UNCHANGED <<full, sum, lut, filed, ofaults>>

\* cmd_add: the text, the gist, the table.
WriteFull(w) ==
    /\ At(w, "full") /\ full' = full \union {adding[w].body}
    /\ adding' = [adding EXCEPT ![w].pc = "sum"]
    /\ UNCHANGED <<sum, lut, adds, facts, filed, ofaults>>

Gists(b) == sum \union {b}

WriteSum(w) ==
    /\ At(w, "sum") /\ sum' = Gists(adding[w].body)
    /\ adding' = [adding EXCEPT ![w].pc = "read"]
    /\ UNCHANGED <<full, lut, adds, facts, filed, ofaults>>

\* The address's old row goes, its new one comes last.
Rows(rows, b) == Append(SelectSeq(rows, LAMBDA r : r # b), b)

\* lut_rows: the table as it is now.  A table another writer has open is empty.
ReadLut(w) ==
    /\ At(w, "read")
    /\ adding' = [adding EXCEPT ![w].pc = "write",
                                ![w].rows = Rows(IF lut = <<"torn">> THEN <<>> ELSE lut, adding[w].body)]
    /\ lut' = lut
    /\ UNCHANGED <<full, sum, adds, facts, filed, ofaults>>

OpenLut(w) ==
    /\ At(w, "write") /\ lut' = <<"torn">>
    /\ adding' = [adding EXCEPT ![w].pc = "close"]
    /\ UNCHANGED <<full, sum, adds, facts, filed, ofaults>>

CloseLut(w) ==
    /\ At(w, "close") /\ lut' = adding[w].rows
    /\ adding' = [adding EXCEPT ![w] = NoAdd]
    /\ filed' = filed \union {adding[w].body}
    /\ UNCHANGED <<full, sum, adds, facts, ofaults>>

Die(w) ==
    /\ "crash" \in ofaults /\ adding[w] # NoAdd
    /\ adding' = [adding EXCEPT ![w] = NoAdd]
    /\ UNCHANGED <<full, sum, lut, adds, facts, filed, ofaults>>

OkfNext == \E w \in Writer :
    \/ \E b \in Body : Consolidate(w, b)
    \/ WriteFull(w) \/ WriteSum(w) \/ ReadLut(w) \/ OpenLut(w) \/ CloseLut(w) \/ Die(w)

OkfSpec == OkfInit /\ [][OkfNext]_ovars

-----------------------------------------------------------------------------
\* Every row of the table leads to a gist and from there to the whole text, in
\* the middle of a write, after a crash and with two writers at once.
Resolves == \A i \in DOMAIN lut : lut[i] # "torn" => lut[i] \in sum /\ lut[i] \in full

\* One writer at a time and none that dies: what was archived is found, once.
Listed == ofaults \cap {"race", "crash"} = {} /\ (\A w \in Writer : adding[w] = NoAdd) =>
              \A b \in filed : Cardinality({i \in DOMAIN lut : lut[i] = b}) = 1
=============================================================================
