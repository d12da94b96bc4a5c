---------------------------- MODULE Reflection ----------------------------
(***************************************************************************)
(* Thinking on the clock: scheduler.reflect_tick and ops.insight.  She     *)
(* thinks when the room is still, the cooldown is over and the number of   *)
(* rows that are evidence has changed; what she concludes goes through     *)
(* remember() with source "reflection".  What may be said of it is a claim *)
(* that has gone quiet, one of his or one of hers, and failing that a      *)
(* conclusion that was not in the store before.                            *)
(***************************************************************************)
EXTENDS Naturals, FiniteSets

CONSTANTS Fact, Belief,
          IdleS, CooldownS,   \* reflect.idle_s, reflect.cooldown_s
          MaxTime             \* bound: clock

VARIABLES rclock,
          evidence,     \* live rows he told her
          beliefs,      \* live rows she concluded; they are stored as the user's, like his
          rhythm,       \* those of both that were mentioned often enough to be missed
          lastUser,     \* the last user turn, 0 before the first
          lastReflect,  \* _LAST_REFLECT_AT
          lastEvidence, \* _LAST_EVIDENCE, None = -1
          thought,      \* the tick past its gate: [pc, wrote, fresh]
          read,         \* the evidence when she last passed the gate, or {} with none
          said,         \* belief -> how it was handed to the scheduler since it was stored
          woken         \* what the gate let her think about last time: "nothing" or "news"

refvars == <<rclock, evidence, beliefs, rhythm, lastUser, lastReflect, lastEvidence, thought,
             read, said, woken>>

None == Cardinality(Fact) + 2 * Cardinality(Belief) + 1
Quiet == [pc |-> "idle", wrote |-> {}, fresh |-> {}]
MostWritten == 2    \* insight() stops at two

ReflectionInit ==
    /\ rclock = 1 /\ evidence = {} /\ beliefs = {} /\ rhythm = {} /\ lastUser = 0
    /\ lastReflect = 0 /\ lastEvidence = None /\ thought = Quiet
    /\ read = {} /\ said = [b \in Belief |-> "untold"] /\ woken = "news"

Elapse == /\ rclock < MaxTime /\ rclock' = rclock + 1
          /\ UNCHANGED <<evidence, beliefs, rhythm, lastUser, lastReflect, lastEvidence, thought, read, said, woken>>

\* A turn of his, which teaches her something, takes something back, says something
\* once more, or none of these.
UserTurn ==
    /\ lastUser' = rclock
    /\ \/ UNCHANGED <<evidence, rhythm>>
       \/ \E f \in Fact \ evidence : evidence' = evidence \cup {f} /\ UNCHANGED rhythm
       \/ \E f \in evidence : evidence' = evidence \ {f} /\ rhythm' = rhythm \ {f}
       \/ \E f \in evidence : rhythm' = rhythm \cup {f} /\ UNCHANGED evidence
    /\ UNCHANGED <<rclock, beliefs, lastReflect, lastEvidence, thought, read, said, woken>>

\* A belief retired by the operator.
Retire(b) ==
    /\ b \in beliefs /\ beliefs' = beliefs \ {b} /\ rhythm' = rhythm \ {b}
    /\ UNCHANGED <<rclock, evidence, lastUser, lastReflect, lastEvidence, thought, read, said, woken>>

-----------------------------------------------------------------------------
(* reflect_tick *)

\* Faulty: every row of the store counts.
RowCount == Cardinality(evidence) + Cardinality(beliefs)
\* _evidence_count: rows the world told her, none she concluded and no tombstone.
EvidenceCount == Cardinality(evidence)

Still == lastUser # 0 /\ rclock - lastUser >= IdleS
Cool == lastReflect = 0 \/ rclock - lastReflect >= CooldownS

\* The gate, under _LOCK.
ReflectTick ==
    /\ thought.pc = "idle" /\ Still /\ Cool
    /\ EvidenceCount # lastEvidence
    /\ lastReflect' = rclock /\ lastEvidence' = EvidenceCount
    /\ thought' = [Quiet EXCEPT !.pc = "thinking"]
    /\ woken' = IF lastEvidence # None /\ read = evidence THEN "nothing" ELSE "news"
    /\ read' = evidence
    /\ UNCHANGED <<rclock, evidence, beliefs, rhythm, lastUser, said>>

\* insight(): a model turn outside the lock, which may raise. At most two sentences, each
\* of which remember() stores, or takes as a repetition, which may make its rhythm.
Insight ==
    /\ thought.pc = "thinking"
    /\ \/ \E wrote \in SUBSET Belief :
            /\ Cardinality(wrote) <= MostWritten
            /\ beliefs' = beliefs \cup wrote
            /\ \E often \in SUBSET (wrote \cap beliefs) : rhythm' = rhythm \cup often
            /\ thought' = [pc |-> "judge", wrote |-> wrote, fresh |-> wrote \ beliefs]
            /\ said' = [b \in Belief |-> IF b \in wrote \ beliefs THEN "untold" ELSE said[b]]
       \/ thought' = Quiet /\ UNCHANGED <<beliefs, rhythm, said>>
    /\ UNCHANGED <<rclock, evidence, lastUser, lastReflect, lastEvidence, read, woken>>

\* "-> stored" and not "-> reinforced".
News == thought.fresh

\* First, a claim that has gone quiet, which is none that was mentioned just now; then the
\* first of the news; each if it is surprising enough. She may hand over nothing.
Judge ==
    /\ thought.pc = "judge"
    /\ \/ \E c \in rhythm \ thought.wrote :
            said' = IF c \in Belief THEN [said EXCEPT ![c] = "as a silence"] ELSE said
       \/ \E b \in News : said' = [said EXCEPT ![b] = IF @ = "untold" THEN "as news" ELSE "again"]
       \/ UNCHANGED said
    /\ thought' = Quiet
    /\ UNCHANGED <<rclock, evidence, beliefs, rhythm, lastUser, lastReflect, lastEvidence, read, woken>>

\* A new gateway process: the globals are gone.
Restart ==
    /\ lastReflect' = 0 /\ lastEvidence' = None /\ lastUser' = 0 /\ thought' = Quiet
    /\ UNCHANGED <<rclock, evidence, beliefs, rhythm, read, said, woken>>

ReflectionNext ==
    \/ Elapse \/ UserTurn \/ (\E b \in Belief : Retire(b)) \/ ReflectTick \/ Insight \/ Judge \/ Restart
ReflectionSpec == ReflectionInit /\ [][ReflectionNext]_refvars

-----------------------------------------------------------------------------
\* "Deriving a belief from evidence must not create evidence": within one process she
\* never thinks about what she has thought about already, nor asks after what went quiet,
\* whatever she concluded, and whoever retired conclusions of hers, in between.
NoOwnExhaust == woken = "news"

\* A conclusion is news once for each time it is stored, and only to one who was not told
\* it yet: deriving it again makes it stronger and is not news, through restarts too. That
\* does not keep it from coming back as a silence, as often as she thinks.
ToldOnce == \A b \in Belief : said[b] # "again"
=============================================================================
