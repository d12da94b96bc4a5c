------------------------------- MODULE Spine --------------------------------
(***************************************************************************)
(* The control spine (harness/control/spine.py): deciders fold a turn into *)
(* decisions, executors act, verifiers look again, and every decision      *)
(* leaves a receipt in a ring that is flushed into the content-addressed   *)
(* telemetry store (harness/telemetry/sink.py).                            *)
(***************************************************************************)
EXTENDS Naturals, Sequences, SequencesExt, FiniteSets

CONSTANTS Thread,      \* the gateway's threads: a turn or a tick each
          Mood,        \* what a reply's mood or voice tag says
          RingSize,    \* maxlen of _RECEIPT_RING
          MaxReceipts, \* bound: receipts ever made
          MaxRaced,    \* bound: the same in a race
          SpineFaults  \* sets of faults, one chosen per behaviour:
                       \* "race"  two threads are inside the ring's code at once
                       \* "crash" the process dies inside a flush
                       \* "disk"  a record's file cannot be made, or not be filled, or its
                       \*         line not be added to the log
                       \* "gone"  a client leaves, and its turn's flush with it

ASSUME SpineShape ==
    /\ "decline_recall" \notin Mood
    /\ RingSize \in Nat \ {0} /\ MaxReceipts \in Nat /\ MaxRaced \in Nat /\ IsFiniteSet(Thread)
    /\ \A faults \in SpineFaults : faults \subseteq {"race", "crash", "disk", "gone"}

VARIABLES mood,       \* the mood, or the voice, that persona.md has
          ring,       \* _RECEIPT_RING, oldest first
          seqno,      \* _SEQ
          made,       \* receipts ever made; a receipt's name is its number
          persisted,  \* _PERSISTED_SEQ
          turn,       \* per thread: where it is and what it holds
          records,    \* the store's record files
          empty,      \* those whose content was never written
          log,        \* the lines of log.jsonl
          lost,       \* receipts that left the ring unwritten
          spfaults

svars == <<mood, ring, seqno, made, persisted, turn, records, empty, log, lost, spfaults>>

Idle == [pc |-> "idle"]

\* A decision, named by what it is about: a reply with a mood or a voice tag, the last
\* of which counts, one that tags traits alone, a compaction, what a turn is told or
\* given for tools, and a recall declined, for which there is no executor.
Decision == Mood \cup {"traits", "compact_registry", "inject_recall", "select_toolset", "decline_recall"}
Executed == Decision \ {"decline_recall"}
Verified == Mood \cup {"traits", "compact_registry"}

SpineInit ==
    /\ mood \in Mood
    /\ ring = <<>> /\ seqno = 0 /\ made = 0 /\ persisted = 0 /\ turn = [t \in Thread |-> Idle]
    /\ records = {} /\ empty = {} /\ log = <<>> /\ lost = {} /\ spfaults \in SpineFaults

Alone(t) == "race" \in spfaults \/ \A u \in Thread \ {t} : turn[u] = Idle

-----------------------------------------------------------------------------
\* A turn folds and executes one decision. The executor may raise; the persona's
\* swallows the errors of its writer and returns as if it had written. "effect" is
\* whether the file then has the mood that was asked for.
Fold(t, d, raised, wrote) ==
    /\ turn[t] = Idle /\ Alone(t) /\ made < IF "race" \in spfaults THEN MaxRaced ELSE MaxReceipts
    /\ raised => d \in Executed
    /\ wrote => d \in Mood /\ ~raised
    /\ made' = made + 1
    /\ mood' = IF wrote THEN d ELSE mood
    /\ LET effect == IF d \notin Mood \/ raised THEN "unseen"
                     ELSE IF mood' = d THEN "there" ELSE "missing"
       IN  turn' = [turn EXCEPT ![t] =
             [pc |-> "verify", look |-> IF d \in Verified /\ ~raised THEN d ELSE "nothing",
              r |-> [id |-> made', seq |-> 0, ok |-> d \in Executed /\ ~raised,
                     effect |-> effect, verified |-> "none"]]]
    /\ UNCHANGED <<ring, seqno, persisted, records, empty, log, lost, spfaults>>

\* What the verifiers look at. vf_persona reads persona.md again and compares the mood
\* and the voice, never the traits; vf_compact reads the health report, whatever was
\* compacted. "found": the file can be read, the report has no complaint.
Verdict(look, found) ==
    IF look = "nothing" THEN "none"
    ELSE IF found /\ (look \in Mood => mood = look) THEN "yes" ELSE "no"

Verify(t, found) ==
    /\ turn[t].pc = "verify"
    /\ turn' = [turn EXCEPT ![t] =
         [pc |-> "stamp", r |-> [turn[t].r EXCEPT !.verified = Verdict(turn[t].look, found)]]]
    /\ UNCHANGED <<mood, ring, seqno, made, persisted, records, empty, log, lost, spfaults>>

\* _SEQ += 1
Stamp(t) ==
    /\ turn[t].pc = "stamp"
    /\ seqno' = seqno + 1
    /\ turn' = [turn EXCEPT ![t] = [pc |-> "append", r |-> [turn[t].r EXCEPT !.seq = seqno']]]
    /\ UNCHANGED <<mood, ring, made, persisted, records, empty, log, lost, spfaults>>

\* _RECEIPT_RING.append: the oldest of a full ring goes.
AppendReceipt(t) ==
    /\ turn[t].pc = "append"
    /\ LET full == Len(ring) = RingSize
           out  == IF full /\ ring[1].id \notin records THEN {ring[1].id} ELSE {}
       IN  /\ ring' = Append(IF full THEN Tail(ring) ELSE ring, turn[t].r)
           /\ lost' = lost \cup out
    /\ turn' = [turn EXCEPT ![t] = [pc |-> "flush"]]
    /\ UNCHANGED <<mood, seqno, made, persisted, records, empty, log, spfaults>>

\* The end of the turn: persist_receipts copies the ring and the watermark.
FlushStart(t) ==
    /\ turn[t].pc = "flush"
    /\ \/ /\ "gone" \in spfaults
          /\ turn' = [turn EXCEPT ![t] = Idle]
       \/ turn' = [turn EXCEPT ![t] = [pc |-> "sink", rows |-> ring, hi |-> persisted]]
    /\ UNCHANGED <<mood, ring, seqno, made, persisted, records, empty, log, lost, spfaults>>

\* The record file is there, filled or not: its name is the hash of its content.
Held(id) == id \in records

Max2(a, b) == IF a < b THEN b ELSE a

\* The next of the copied rows is new to the watermark, which is read afresh.
AtRow(t) == turn[t].pc = "sink" /\ turn[t].rows # <<>>
Unflushed(t) == AtRow(t) /\ turn[t].rows[1].seq > persisted

SkipRow(t) ==
    /\ AtRow(t) /\ ~Unflushed(t)
    /\ turn' = [turn EXCEPT ![t] = [pc |-> "sink", rows |-> Tail(turn[t].rows), hi |-> turn[t].hi]]
    /\ UNCHANGED <<mood, ring, seqno, made, persisted, records, empty, log, lost, spfaults>>

\* TelemetrySink.sink: the record file is made, unless it is there.
SinkRecord(t) ==
    /\ Unflushed(t)
    /\ LET r == turn[t].rows[1]
           rows == Tail(turn[t].rows)
           hi == Max2(turn[t].hi, r.seq)
       IN  /\ records' = records \cup {r.id}
           /\ turn' = [turn EXCEPT ![t] =
                IF Held(r.id) THEN [pc |-> "sink", rows |-> rows, hi |-> hi]
                ELSE [pc |-> "log", rows |-> rows, hi |-> hi, id |-> r.id]]
    /\ UNCHANGED <<mood, ring, seqno, made, persisted, empty, log, lost, spfaults>>

\* It is filled, and its line added to the log.
SinkLog(t) ==
    /\ turn[t].pc = "log"
    /\ log' = Append(log, turn[t].id)
    /\ turn' = [turn EXCEPT ![t] = [pc |-> "sink", rows |-> turn[t].rows, hi |-> turn[t].hi]]
    /\ UNCHANGED <<mood, ring, seqno, made, persisted, records, empty, lost, spfaults>>

\* Faulty: the watermark moves along with the loop, ahead of the write.
MarkOnFailureEager(t) == IF turn[t].pc = "log" THEN turn[t].hi ELSE turn[t].rows[1].seq

\* The watermark after a flush that raised: it moves after the last write only.
MarkOnFailure(t) == persisted

\* A file that cannot be made; one that was made and could not be filled; one that was
\* filled and whose line could not be added. The next flush finds the last two.
SinkFails(t) ==
    /\ "disk" \in spfaults
    /\ \/ Unflushed(t) /\ UNCHANGED empty
       \/ turn[t].pc = "log" /\ empty' \in {empty, empty \cup {turn[t].id}}
    /\ persisted' = MarkOnFailure(t)
    /\ turn' = [turn EXCEPT ![t] = Idle]
    /\ UNCHANGED <<mood, ring, seqno, made, records, log, lost, spfaults>>

FlushEnd(t) ==
    /\ turn[t].pc = "sink" /\ turn[t].rows = <<>>
    /\ persisted' = turn[t].hi
    /\ turn' = [turn EXCEPT ![t] = Idle]
    /\ UNCHANGED <<mood, ring, seqno, made, records, empty, log, lost, spfaults>>

\* The process dies and starts again: ring, counters and watermark are memory. A file
\* that was being filled may stay empty.
Torn == {turn[t].id : t \in {u \in Thread : turn[u].pc = "log"}}
Dies ==
    /\ "crash" \in spfaults /\ \E t \in Thread : turn[t] # Idle
    /\ ring' = <<>> /\ turn' = [t \in Thread |-> Idle] /\ seqno' = 0 /\ persisted' = 0
    /\ \E torn \in SUBSET Torn : empty' = empty \cup torn
    /\ UNCHANGED <<mood, made, records, log, lost, spfaults>>

SpineNext ==
    \/ \E t \in Thread : Stamp(t) \/ AppendReceipt(t) \/ FlushStart(t)
                       \/ SkipRow(t) \/ SinkRecord(t) \/ SinkLog(t) \/ SinkFails(t) \/ FlushEnd(t)
    \/ \E t \in Thread, d \in Decision, raised, wrote \in BOOLEAN : Fold(t, d, raised, wrote)
    \/ \E t \in Thread, found \in BOOLEAN : Verify(t, found)
    \/ Dies

SpineSpec == SpineInit /\ [][SpineNext]_svars

-----------------------------------------------------------------------------
Calm == spfaults = {}

\* A receipt does not claim what did not happen, as far as the verifiers look: one that
\* says verified is of an executor that returned, and if it was a mood or a voice, of one
\* after which the file had it. Traits and compactions are verified unseen.
Truthful(r) ==
    r.verified = "yes" => r.ok /\ ("race" \notin spfaults => r.effect # "missing")
Honest == \A i \in DOMAIN ring : Truthful(ring[i])

\* What the watermark passed is in the store: no receipt is skipped by a flush. Only a
\* disk that fails leaves a file without its content there, which the next flush passes.
BelowWatermark == "race" \notin spfaults =>
    \A i \in DOMAIN ring : ring[i].seq <= persisted =>
        ring[i].id \in records /\ ("disk" \notin spfaults => ring[i].id \notin empty)

\* No receipt is pushed out of the ring before it was written down.
NonePushedOut == Calm => lost = {}

\* The log has one line for each record, however often a receipt is flushed.
OneLine == "race" \notin spfaults =>
    /\ \A i, j \in DOMAIN log : log[i] = log[j] => i = j
    /\ Calm /\ (\A t \in Thread : turn[t].pc # "log") => Range(log) = records

\* The spine's record is true and whole: a receipt that says verified is of an executor
\* that returned and, where the verifier looks at it, of an effect that was there; what
\* the watermark passed is in the store, none is pushed out of the ring unwritten, and
\* the log has one line for each, with two threads flushing and either dying (run_spine,
\* persist_receipts, sink).
RecordTrue == Honest /\ BelowWatermark /\ NonePushedOut /\ OneLine

-----------------------------------------------------------------------------
(* The parts of the inductive invariant behind RecordTrue. *)

ReceiptType == [id : Nat, seq : Nat, ok : BOOLEAN, effect : {"unseen", "there", "missing"},
                verified : {"none", "yes", "no"}]
TurnType == [pc : {"idle", "flush"}] \cup [pc : {"stamp", "append"}, r : ReceiptType]
            \cup [pc : {"verify"}, look : Decision \cup {"nothing"}, r : ReceiptType]
            \cup [pc : {"sink"}, rows : Seq(ReceiptType), hi : Nat]
            \cup [pc : {"log"}, rows : Seq(ReceiptType), hi : Nat, id : Nat]

SpineTypeOK ==
    /\ mood \in Mood
    /\ ring \in Seq(ReceiptType) /\ Len(ring) <= RingSize
    /\ seqno \in Nat /\ made \in Nat /\ persisted \in Nat
    /\ turn \in [Thread -> TurnType]
    /\ records \in SUBSET Nat /\ empty \in SUBSET Nat /\ log \in Seq(Nat) /\ lost \in SUBSET Nat

\* What a verifier is about to look at is what was asked for, and the file has not
\* changed since the executor left it.
Unspoilt(look, r) ==
    look # "nothing" =>
        /\ r.ok
        /\ "race" \notin spfaults /\ r.effect = "missing" => look \in Mood /\ mood # look
Holding(t) == turn[t].pc \in {"verify", "stamp", "append"}
HonestHands == \A t \in Thread : Holding(t) =>
    IF turn[t].pc = "verify" THEN Unspoilt(turn[t].look, turn[t].r) ELSE Truthful(turn[t].r)

Flushing(t) == turn[t].pc \in {"sink", "log"}

\* No receipt has a name that was not given out yet.
Numbered ==
    /\ \A id \in empty : id <= made
    /\ \A i \in DOMAIN ring : ring[i].id <= made
    /\ \A t \in Thread :
        /\ Holding(t) => turn[t].r.id <= made
        /\ Flushing(t) => \A j \in DOMAIN turn[t].rows : turn[t].rows[j].id <= made
        /\ turn[t].pc = "log" => turn[t].id <= made

\* A receipt that has still to be written, or may be looked at again, has no empty file
\* unless the disk failed: the files a crash left empty are of receipts gone with the ring.
Fresh == "disk" \notin spfaults =>
    /\ \A i \in DOMAIN ring : ring[i].id \notin empty
    /\ \A t \in Thread : Holding(t) => turn[t].r.id \notin empty

\* The rows still to be looked at are the end of the ring, and the store has
\* all that came before them.
Looked(rows, queue, store) ==
    LET past == Len(queue) - Len(rows) IN
    /\ past >= 0
    /\ \A j \in 1..Len(rows) : rows[j] = queue[j + past]
    /\ \A j \in 1..past : queue[j].id \in store

\* One thread at a time is inside the ring's code, and no watermark is ahead of
\* the counter.
InTurn ==
    /\ \A t, u \in Thread : turn[t] # Idle /\ turn[u] # Idle => t = u
    /\ \A t \in Thread : Flushing(t) => Looked(turn[t].rows, ring, records) /\ turn[t].hi <= seqno
    /\ \A t \in Thread : turn[t].pc = "append" => turn[t].r.seq = seqno /\ persisted < seqno
    /\ persisted <= seqno /\ \A i \in DOMAIN ring : ring[i].seq <= seqno

\* A line is of a record, and the record whose line is due has none yet.
LinesInv ==
    /\ Range(log) \subseteq records
    /\ \A t \in Thread : turn[t].pc = "log" => turn[t].id \in records \ Range(log)

\* Without faults every record has its line or is about to, and between two
\* flushes the store has all of the ring.
WholeInv ==
    /\ \A id \in records : id \in Range(log) \/ \E t \in Thread : turn[t].pc = "log" /\ turn[t].id = id
    /\ (\A t \in Thread : turn[t].pc \notin {"flush", "sink", "log"}) =>
          \A i \in DOMAIN ring : ring[i].id \in records

SpineInv ==
    /\ SpineTypeOK /\ HonestHands /\ Numbered /\ Fresh /\ RecordTrue
    /\ "race" \notin spfaults => InTurn /\ LinesInv
    /\ Calm => WholeInv
=============================================================================
