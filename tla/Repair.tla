------------------------------- MODULE Repair -------------------------------
(***************************************************************************)
(* The operator's tools over the memory registry (tools/memory/): triage,  *)
(* the two identity repairs and the salience backfill, each a process that *)
(* reads the whole file, decides, copies it to a backup and rewrites it in *)
(* place; and the two counters of a row they share with the gateway        *)
(* (lifecycle.reinforce, lifecycle.note_recalled).                         *)
(*                                                                         *)
(* The rows are the ones the repairs were written for: bad is HER name     *)
(* filed as his, which retired keep and old (his name); she is her gender, *)
(* which retired male; echo is a tool receipt; noise is any other row,     *)
(* with the marks its text bears.  later, when it is there, is a new name  *)
(* he gave after bad.                                                      *)
(***************************************************************************)
EXTENDS Naturals, Sequences, FiniteSets, SequencesExt

CONSTANTS
    Spoken,         \* the rows that come up in conversation between the tools
    MaxAgain,       \* how often he repeats one fact, and how often she looks one up
    MaxJobs,        \* how many tools are run
    RepairFaults    \* what may go wrong in a behaviour: sets of "crash", "renamed"

VARIABLES
    reg,            \* registry.jsonl: a row per name that is in the file
    quar,           \* quarantine.jsonl: the names in it
    bak,            \* the names in some backup file
    tool,           \* the tool that is running
    done,           \* the tools that ran to their end, in order
    again,          \* per row, how often he has said it again
    marks,          \* what triage can see in the noise row's text
    rpfaults

rpvars == <<reg, quar, bak, tool, done, again, marks, rpfaults>>

Order == <<"old", "keep", "bad", "male", "she", "echo", "noise", "later">>
Name == ToSet(Order)
Tool == {"triage", "repair", "repair2", "backfill"}

\* What each identity row says, and of whom it is true.
Identity == Name \ {"echo", "noise"}
Says == [n \in Identity |-> CASE n = "bad" -> "shannon" [] n = "she" -> "woman"
                              [] n = "male" -> "male" [] n = "later" -> "nico"
                              [] OTHER -> "knack"]
Hers == {"shannon", "woman"}
Slot(n) == IF Says[n] \in {"male", "woman"} THEN "gender" ELSE "name"

\* mentions = 0 stands for a row written before the counter existed.
Row(life, by, sup) == [speaker |-> "user", lifecycle |-> life, superseded_by |-> by,
                       supersedes |-> sup, mentions |-> 0, last_seen |-> FALSE, recalled |-> 0]

\* The registry as the two bugs left it.
Broken(renamed) ==
    [n \in IF renamed THEN Name ELSE Name \ {"later"} |->
        CASE n \in {"old", "keep"} -> Row(1, "bad", {})
          [] n = "bad" -> IF renamed THEN Row(1, "later", {"old", "keep"})
                          ELSE Row(0, "", {"old", "keep"})
          [] n = "male" -> Row(1, "she", {})
          [] n = "she" -> Row(0, "", {"male"})
          [] n = "later" -> Row(0, "", {"bad"})
          [] OTHER -> Row(0, "", {})]

NoTool == [name |-> "none", at |-> "idle", rows |-> <<>>]

\* He had given a newer name before the tools were run.
Renamed == "renamed" \in rpfaults

RepairInit ==
    /\ rpfaults \in RepairFaults
    /\ marks \in SUBSET {"listed", "personal"}
    /\ reg = Broken(Renamed)
    /\ quar = {} /\ bak = {} /\ done = <<>>
    /\ tool = NoTool
    /\ again = [n \in Name |-> 0]

-----------------------------------------------------------------------------
(* The gateway's two counters, between the tools.                          *)

Mentions(row) == IF row.mentions = 0 THEN 1 ELSE row.mentions

\* reinforce: he said it again.
Reinforced(row) == [row EXCEPT !.mentions = Mentions(row) + 1, !.last_seen = TRUE]

\* note_recalled: she used it.
NoteRecalled(row) == [row EXCEPT !.recalled = @ + 1]

SaysAgain(n) ==
    /\ tool = NoTool /\ n \in DOMAIN reg /\ again[n] < MaxAgain
    /\ reg' = [reg EXCEPT ![n] = Reinforced(@)]
    /\ again' = [again EXCEPT ![n] = @ + 1]
    /\ UNCHANGED <<quar, bak, tool, done, marks, rpfaults>>

LooksUp(n) ==
    /\ tool = NoTool /\ n \in DOMAIN reg /\ reg[n].recalled < MaxAgain
    /\ reg' = [reg EXCEPT ![n] = NoteRecalled(@)]
    /\ UNCHANGED <<quar, bak, tool, done, again, marks, rpfaults>>

-----------------------------------------------------------------------------
(* What each tool makes of the rows it read.                               *)

\* is_test_corpus: empty, on one of the lists, a template, or about nobody.
IsTestCorpus(n) == n = "noise" /\ ("listed" \in marks \/ "personal" \notin marks)

Keep(rows) == {n \in DOMAIN rows : ~IsTestCorpus(n)}
Junk(rows) == {n \in DOMAIN rows : IsTestCorpus(n)}

Victims(rows, n) == IF n \in DOMAIN rows THEN rows[n].supersedes \cap DOMAIN rows ELSE {}

Refiled(row) == [row EXCEPT !.speaker = "self", !.supersedes = {}]
Unretired(row) == [row EXCEPT !.lifecycle = 0, !.superseded_by = ""]
RetiredBy(row, n) == [row EXCEPT !.lifecycle = 1, !.superseded_by = n]

\* repair_identity: bad goes to her lane, every row it retired comes back, and the
\* duplicates of the canonical row are retired against that one.
Repaired(rows) ==
    LET victims == Victims(rows, "bad")
        canon == "keep" \in DOMAIN rows
    IN  [n \in DOMAIN rows |->
            IF n = "bad" THEN Refiled(rows[n])
            ELSE IF n \notin victims THEN rows[n]
            ELSE IF canon /\ n # "keep" THEN RetiredBy(rows[n], "keep")
            ELSE Unretired(rows[n])]

\* repair_identity2: her gender to her lane, the receipt tombstoned, his gender back.
Repaired2(rows) ==
    LET victims == Victims(rows, "she") IN
    [n \in DOMAIN rows |->
        CASE n = "she" -> Refiled(rows[n])
          [] n = "echo" -> [rows[n] EXCEPT !.lifecycle = 1]
          [] n \in victims -> Unretired(rows[n])
          [] OTHER -> rows[n]]

\* backfill_salience: a row without both fields gets the ones it lacks.
Backfilled(rows) ==
    [n \in DOMAIN rows |->
        IF rows[n].mentions # 0 /\ rows[n].last_seen THEN rows[n]
        ELSE [rows[n] EXCEPT !.mentions = Mentions(rows[n]), !.last_seen = TRUE]]

\* The rows the tool writes back.
Output(name, rows) ==
    CASE name = "triage" -> [n \in Keep(rows) |-> rows[n]]
      [] name = "repair" -> Repaired(rows)
      [] name = "repair2" -> Repaired2(rows)
      [] OTHER -> Backfilled(rows)

-----------------------------------------------------------------------------
(* A run of a tool with --apply.  The gateway is down: the tools take no   *)
(* lock.                                                                   *)

\* main, first half: the file is read and the new rows are worked out.  The name
\* repair stops here when the bad row is not in the file.
Start(t) ==
    /\ tool = NoTool /\ Len(done) < MaxJobs
    /\ t = "repair" => "bad" \in DOMAIN reg
    /\ tool' = [name |-> t, at |-> "read", rows |-> reg]
    /\ UNCHANGED <<reg, quar, bak, done, again, marks, rpfaults>>


\* shutil.copy2(REG, bak)
BackUp ==
    /\ tool.at = "read"
    /\ bak' = bak \cup DOMAIN reg
    /\ tool' = [tool EXCEPT !.at = "saved"]
    /\ UNCHANGED <<reg, quar, done, again, marks, rpfaults>>
\* open(REG, "w"), a line per row; the other three tools end here.
Rewrite ==
    /\ tool.at = "saved"
    /\ reg' = Output(tool.name, tool.rows)
    /\ IF tool.name = "triage"
       THEN tool' = [tool EXCEPT !.at = "written"] /\ done' = done
       ELSE tool' = NoTool /\ done' = Append(done, tool.name)
    /\ UNCHANGED <<quar, bak, again, marks, rpfaults>>

\* triage appends what it took out to quarantine.jsonl.
Quarantine ==
    /\ tool.at = "written"
    /\ quar' = quar \cup Junk(tool.rows)
    /\ tool' = NoTool /\ done' = Append(done, tool.name)
    /\ UNCHANGED <<reg, bak, again, marks, rpfaults>>

\* The tool dies.  The rewrite truncates the file first, so what is left of it is some
\* number of the first lines; the append leaves some of what it was to add.
Crash ==
    /\ "crash" \in rpfaults /\ tool # NoTool
    /\ rpfaults' = rpfaults \ {"crash"}
    /\ tool' = NoTool
    /\ \/ tool.at = "saved"
          /\ \E k \in 0..Len(Order) :
                LET out == Output(tool.name, tool.rows) IN
                reg' = [n \in DOMAIN out \cap {Order[i] : i \in 1..k} |-> out[n]]
       \/ reg' = reg
    /\ UNCHANGED <<quar, bak, done, again, marks>>

RepairNext ==
    \/ \E n \in Spoken : SaysAgain(n) \/ LooksUp(n)
    \/ \E t \in Tool : Start(t)
    \/ BackUp \/ Rewrite \/ Quarantine \/ Crash

RepairSpec == RepairInit /\ [][RepairNext]_rpvars

-----------------------------------------------------------------------------
\* Nothing is deleted (triage.py): whatever the order of the tools and wherever one of
\* them dies, every row of the registry is still in it, in the quarantine or in a backup.
NothingDeleted ==
    DOMAIN Broken(Renamed) \subseteq DOMAIN reg \cup quar \cup bak

Live(n) == n \in DOMAIN reg /\ reg[n].lifecycle = 0
Ran(t) == t \in ToSet(done)
Whole == \A n \in Name \ {"noise", "later"} : n \in DOMAIN reg

\* The identity slot after the repairs (repair_identity.py): once the tool of a slot has
\* run, and unless he had given a newer value before it did, exactly one row of his is
\* live in the slot and it says what is true of him; her row is still live, as hers.
SlotRepaired ==
    \A s \in {t \in {"name", "gender"} :
                 /\ Whole /\ ~Renamed
                 /\ Ran(IF t = "name" THEN "repair" ELSE "repair2")} :
        /\ Cardinality({n \in Identity : Live(n) /\ Slot(n) = s /\ reg[n].speaker = "user"}) = 1
        /\ \A n \in Identity : Live(n) /\ Slot(n) = s =>
              (Says[n] \in Hers <=> reg[n].speaker = "self")

\* The two counters are not the same (lifecycle.py): a row's mentions is one more than the
\* number of times he repeated it, whatever she looked up and whenever the backfill ran.
MentionsAreHis ==
    tool = NoTool => \A n \in DOMAIN reg : Mentions(reg[n]) = 1 + again[n]
=============================================================================
