------------------------------- MODULE Board -------------------------------
(***************************************************************************)
(* The notes board: one file that every change reads whole and writes back *)
(* through a temporary one (harness/skills/notes.py), the panel's routes   *)
(* (server/app.py), her tools (note_tools.py) and the watches the ticker   *)
(* looks after (watch.py).  Times are left out: any note may come due, any *)
(* watch may be stale.                                                     *)
(***************************************************************************)
EXTENDS Naturals

CONSTANT Id          \* note ids, uuid4

VARIABLES board,     \* the file notes.jsonl: a partial function from Id to rows
          tmp,       \* notes.jsonl.tmp: a board, or "torn" while it is written
          author,    \* _AUTHOR
          change,    \* the change that is under way, and how far
          look,      \* the watch the ticker is looking at, as it read it
          acked,     \* what callers were told: the notes that exist, with their door
          removed    \* and the notes that were taken off

bvars == <<board, tmp, author, change, look, acked, removed>>

NoChange == [pc |-> "none", door |-> "user"]
NoLook == [pc |-> "none"]
HalfWritten == {"torn"}

BoardInit ==
    /\ board = <<>> /\ tmp = <<>> /\ author = "user"
    /\ change = NoChange /\ look = NoLook
    /\ acked = {} /\ removed = {}

Ids(f) == DOMAIN f
With(f, n, row) == [m \in DOMAIN f \cup {n} |-> IF m = n THEN row ELSE f[m]]

\* live() and due_checks()
LiveIds(f) == {n \in Ids(f) : ~f[n].dead}
DueChecks(f) == {n \in LiveIds(f) : f[n].watch}

-----------------------------------------------------------------------------
(* The doors. A change names its door and is then loaded, applied, written. *)

\* _mine() for her tools, set_author for the panel; the ticker has no author.
Door(who) == author' = IF who = "ticker" THEN author ELSE who

Begin(who, op, n, row) ==
    /\ change = NoChange
    /\ Door(who)
    /\ change' = [pc |-> "load", door |-> who, op |-> op, id |-> n, row |-> row]
    /\ UNCHANGED <<board, tmp, look, acked, removed>>

\* add: a note, or with a question a watch.
Add(who, n, watch) ==
    /\ n \notin Ids(board)
    /\ Begin(who, "add", n, [speaker |-> "user", watch |-> watch, raised |-> FALSE,
                             dead |-> FALSE])

\* update: only the fields that are passed; a new due time takes "raised" off.
Edit(who, n, f) == n \in Ids(board) /\ Begin(who, "update", n, f)
Fields == [raised : BOOLEAN] \cup {<<>>}

\* remove: a tombstone.
RemoveNote(who, n) == n \in Ids(board) /\ Begin(who, "remove", n, <<>>)

-----------------------------------------------------------------------------
\* The rows after the change; add stamps the author as it is by now.
Applied(rows) ==
    CASE change.op = "add"    -> With(rows, change.id, [change.row EXCEPT !.speaker = author])
      [] change.op = "update" -> With(rows, change.id,
                                   [k \in DOMAIN rows[change.id] |->
                                      IF k \in DOMAIN change.row THEN change.row[k]
                                                              ELSE rows[change.id][k]])
      [] change.op = "remove" -> With(rows, change.id, [rows[change.id] EXCEPT !.dead = TRUE])

\* _load_all, the change, and _write_all begins its temporary file.
LoadAll ==
    /\ change.pc = "load"
    /\ change' = [pc |-> "write", door |-> change.door, op |-> change.op, id |-> change.id,
               row |-> change.row, rows |-> Applied(board)]
    /\ tmp' = HalfWritten
    /\ UNCHANGED <<board, author, look, acked, removed>>

WriteAll ==
    /\ change.pc = "write"
    /\ tmp' = change.rows
    /\ change' = [change EXCEPT !.pc = "replace"]
    /\ UNCHANGED <<board, author, look, acked, removed>>

\* os.replace, and the caller has its answer.
Replace ==
    /\ change.pc = "replace"
    /\ board' = tmp /\ tmp' = <<>>
    /\ acked' = IF change.op = "add" THEN acked \cup {<<change.id, change.door>>} ELSE acked
    /\ removed' = IF change.op = "remove" THEN removed \cup {change.id} ELSE removed
    /\ change' = NoChange
    /\ UNCHANGED <<author, look>>

\* The process dies in the middle of anything and comes up again.
BoardCrash ==
    /\ change # NoChange \/ look # NoLook
    /\ change' = NoChange /\ look' = NoLook /\ author' = "user"
    /\ UNCHANGED <<board, tmp, acked, removed>>

-----------------------------------------------------------------------------
(* The watch: read, then a search that takes its time, then written to.     *)

LookBegins(n) ==
    /\ look = NoLook /\ n \in DueChecks(board)
    /\ look' = [pc |-> "search", id |-> n, row |-> board[n]]
    /\ UNCHANGED <<board, tmp, author, change, acked, removed>>

\* Faulty: the row as it was when the tick began goes back whole.
StampStale(row) == row

\* check(): the receipt that she looked.
Stamp(row) == <<>>

Looked ==
    /\ look.pc = "search"
    /\ Begin("ticker", "update", look.id, Stamp(look.row))

\* The judge's YES counts only if it quotes what she was shown; _watch_tick makes
\* a fired watch a due reminder.
Judged(fired, grounded) ==
    /\ look.pc = "search" /\ change = NoChange
    /\ IF fired /\ grounded
       THEN change' = [pc |-> "load", door |-> "ticker", op |-> "update", id |-> look.id,
                    row |-> [raised |-> FALSE]]
       ELSE change' = change
    /\ look' = NoLook
    /\ UNCHANGED <<board, tmp, author, acked, removed>>

BoardNext ==
    \/ \E who \in {"user", "self"}, n \in Id :
          \/ \E watch \in BOOLEAN : Add(who, n, watch)
          \/ \E f \in Fields : Edit(who, n, f)
          \/ RemoveNote(who, n)
    \/ LoadAll \/ WriteAll \/ Replace \/ BoardCrash
    \/ \E n \in Id : LookBegins(n)
    \/ Looked
    \/ \E fired, grounded \in BOOLEAN : Judged(fired, grounded)

BoardSpec == BoardInit /\ [][BoardNext]_bvars

-----------------------------------------------------------------------------
\* A note that was acknowledged is in the file after any crash, and whose it is
\* follows from the door it came through, however the two doors alternate on the
\* one _AUTHOR.
OwnerIsDoor == \A a \in acked : a[1] \in Ids(board) /\ board[a[1]].speaker = a[2]

\* A note taken off is a tombstone and stays off, through any crash and though a
\* watch read it before and writes after.
RemovedStays == \A n \in removed : n \in Ids(board) /\ board[n].dead

\* A note is kept as it was given: an acknowledged one is in the file after any crash
\* with the owner of its door, and one taken off stays off (notes.py, watch.py).
NotesKept == OwnerIsDoor /\ RemovedStays
=============================================================================
