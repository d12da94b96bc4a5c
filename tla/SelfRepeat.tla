----------------------------- MODULE SelfRepeat -----------------------------
(***************************************************************************)
(* "She may not say the same thing twice": the sampler ban armed on every  *)
(* path to the model (agent._arm_self_repeat_ban) and the re-roll behind   *)
(* it on the OpenAI paths (harness/quality/repeat_guard.py).  History is   *)
(* the assistant rows of the transcript, tool rounds and blank rows        *)
(* included.                                                               *)
(***************************************************************************)
EXTENDS Naturals, Sequences

CONSTANTS MaxRows   \* bound: assistant rows

VARIABLES hist,     \* the assistant rows, oldest first
          door      \* the door of the last reply: "console", "openai", "failed" (openai, and
                    \* the re-roll raised) or "none"

srvars == <<hist, door>>

(* "A" and "B" are replies of five words and more, "A2" has the words of "A" and no four of   *)
(* them in a row, "k" is a short one, "" is blank, "fence" is the row of a tool round, and    *)
(* "said" is the guard's own sentence.                                                        *)
Long == {"A", "A2", "B", "said"}
Short == {"k"}
Raw == {"A", "A2", "B", "k", ""}
Twin(x, y) == x = y \/ {x, y} = {"A", "A2"}

SelfRepeatInit == hist = <<>> /\ door = "none"

Last(s) == IF s = <<>> THEN "" ELSE s[Len(s)]

\* Faulty: blank rows are counted.
AssistantsAll(h) == h
\* The rows that say something.
Assistants(h) == SelectSeq(h, LAMBDA x : x # "")

\* The last two rows are the same short reply.
Hodor(a) == Len(a) >= 2 /\ Last(a) \in Short /\ a[Len(a) - 1] = Last(a)

\* _arm_self_repeat_ban: the replies the sampler cannot produce, {} if it is not armed.
Banned(h) ==
    LET a == Assistants(h)
    IN  IF a # <<>> /\ (Last(a) \in Long \/ Hodor(a)) THEN {Last(a)} ELSE {}

\* is_self_repeat, by the words of the two.
IsSelfRepeat(reply, previous) == reply \in Long /\ previous # "" /\ Twin(reply, previous)

\* guard: re-roll once, under the same ban; a second repeat, or nothing, is replaced.
Guard(reply, h) ==
    IF ~IsSelfRepeat(reply, Last(h)) THEN {reply}
    ELSE {s \in Raw \ Banned(h) : s # "" /\ ~IsSelfRepeat(s, Last(h))} \cup {"said"}

Say(d) ==
    /\ Len(hist) < MaxRows
    /\ \E raw \in Raw \ Banned(hist) :
         \/ /\ \E out \in IF d = "openai" THEN Guard(raw, hist) ELSE {raw} : hist' = Append(hist, out)
            /\ door' = d
         \/ /\ d = "openai" /\ IsSelfRepeat(raw, Last(hist))      \* the re-roll raises
            /\ hist' = Append(hist, raw) /\ door' = "failed"

\* A tool round leaves its own assistant row in the canonical transcript.
ToolRound == Len(hist) < MaxRows /\ hist' = Append(hist, "fence") /\ door' = "none"

SelfRepeatNext == (\E d \in {"console", "openai"} : Say(d)) \/ ToolRound
SelfRepeatSpec == SelfRepeatInit /\ [][SelfRepeatNext]_srvars

-----------------------------------------------------------------------------
Before(s) == IF Len(s) < 2 THEN "" ELSE s[Len(s) - 1]

Spoken == SelectSeq(hist, LAMBDA x : x # "")

\* No long reply follows itself word for word, on any door and although blank rows
\* stand between the two.
NoParrot == Last(Spoken) \in Long => Before(Spoken) # Last(Spoken)

\* A short reply may recur once; no row repeats it a third time.
TwiceAtMost == \A i \in 1..(Len(Spoken) - 2) :
    Spoken[i] \in Short => ~(Spoken[i] = Spoken[i+1] /\ Spoken[i+1] = Spoken[i+2])

\* On the OpenAI paths a long reply is not even her last row in other order, unless the
\* re-roll failed.
NoEcho == door = "openai" /\ Last(hist) \in Long => ~Twin(Last(hist), Before(hist))
=============================================================================
