------------------------------ MODULE Persona -------------------------------
(***************************************************************************)
(* The state block of persona.md and its writers: the tags of a reply      *)
(* (personality/interceptor.py, from the post-turn spine), her own tools   *)
(* (tools.py) and the night's curation (curator.py).                       *)
(***************************************************************************)
EXTENDS Naturals, FiniteSets, Sequences, SequencesExt

CONSTANTS Mood, Trait,
          MaxTraits,     \* MAX_TRAITS of the curator
          MaxReplies,    \* bound: replies of a session
          PersonaFaults  \* sets of faults, one chosen per behaviour:
                         \* "crash"  the process dies inside write_state
                         \* "replay" the night reads a transcript with old tags

VARIABLES md,        \* persona.md: prose there or not, mood, traits
          writing,   \* the state a write_state under way will write
          tagsHeard, \* the tags of this session's replies, oldest first
          want,      \* what she last chose: a mood, and per trait to have it or not
          stuck,     \* traits a tag dropped and its writer kept
          pfaults

pvars == <<md, writing, tagsHeard, want, stuck, pfaults>>

NoMood == "none"
NoWrite == [pc |-> "none"]
Tag == [kind : {"mood"}, arg : Mood] \cup [kind : {"+", "-"}, arg : Trait]

PersonaInit ==
    /\ md = [prose |-> TRUE, mood |-> NoMood, traits |-> {}] /\ writing = NoWrite
    /\ tagsHeard = <<>> /\ want = [mood |-> NoMood, traits |-> {}]
    /\ stuck = {}
    /\ pfaults \in PersonaFaults

-----------------------------------------------------------------------------
TraitsAfter(traits, tag) ==
    CASE tag.kind = "+" -> traits \cup {tag.arg}
      [] tag.kind = "-" -> traits \ {tag.arg}
      [] OTHER -> traits

\* Faulty: a removal reads as an addition.
TaggedSignless(state, tag) ==
    IF tag.kind = "mood" THEN [state EXCEPT !.mood = tag.arg]
    ELSE [state EXCEPT !.traits = @ \cup {tag.arg}]

\* apply_personality_tags for one tag.  `if traits:` leaves the old list in
\* place when the removal empties it.
Tagged(state, tag) ==
    LET left == TraitsAfter(state.traits, tag)
    IN  [state EXCEPT !.mood = IF tag.kind = "mood" THEN tag.arg ELSE @,
                      !.traits = IF left = {} THEN @ ELSE left]

\* write_state: the prose, parsed out and put back, and the block.
Rewritten(state) == [prose |-> md.prose, mood |-> state.mood, traits |-> state.traits]

\* write_text truncates, then writes.
StartWrite(state) == writing' = [pc |-> "write", state |-> Rewritten(state)]

EndWrite ==
    /\ writing.pc = "write"
    /\ md' = writing.state /\ writing' = NoWrite
    /\ UNCHANGED <<tagsHeard, want, stuck, pfaults>>

Wanted(tag) == [want EXCEPT !.mood = IF tag.kind = "mood" THEN tag.arg ELSE @,
                            !.traits = TraitsAfter(@, tag)]

\* The post-turn spine: a reply's tags become state.
ReplyTags(tag) ==
    /\ writing = NoWrite /\ Len(tagsHeard) < MaxReplies
    /\ tagsHeard' = Append(tagsHeard, tag)
    /\ want' = Wanted(tag)
    /\ StartWrite(Tagged(md, tag))
    /\ stuck' = IF tag.kind = "-" /\ Tagged(md, tag).traits = md.traits
                THEN stuck \cup (md.traits \cap {tag.arg}) ELSE stuck
    /\ UNCHANGED <<md, pfaults>>

\* adjust_mood, set_voice and set_trait: the tool writes what is left, none too.
ToolSets(tag) ==
    /\ writing = NoWrite
    /\ want' = Wanted(tag)
    /\ StartWrite([md EXCEPT !.mood = IF tag.kind = "mood" THEN tag.arg ELSE @,
                             !.traits = TraitsAfter(@, tag)])
    /\ UNCHANGED <<md, tagsHeard, stuck, pfaults>>

\* The curator's cap: the first of the list stay.
CappedTraits(traits) ==
    {t \in SUBSET traits : Cardinality(t) = IF Cardinality(traits) > MaxTraits
                                            THEN MaxTraits ELSE Cardinality(traits)}

\* consolidate_personality at night, over the transcript it is handed: the tags
\* of the assistant's turns once more, then the cap, then a snapshot.
Curate ==
    /\ writing = NoWrite
    /\ LET state == IF "replay" \in pfaults THEN FoldLeft(Tagged, md, tagsHeard) ELSE md
       IN  \E kept \in CappedTraits(state.traits) : StartWrite([state EXCEPT !.traits = kept])
                                              /\ want' = [want EXCEPT !.traits = @ \cap kept]
    /\ UNCHANGED <<md, tagsHeard, stuck, pfaults>>

\* The file is empty between the truncation and the write.
DiesWriting ==
    /\ "crash" \in pfaults /\ writing # NoWrite
    /\ md' = [prose |-> FALSE, mood |-> NoMood, traits |-> {}]
    /\ writing' = NoWrite /\ tagsHeard' = <<>>
    /\ UNCHANGED <<want, stuck, pfaults>>

PersonaNext ==
    \/ \E tag \in Tag : ReplyTags(tag) \/ ToolSets(tag)
    \/ EndWrite \/ Curate \/ DiesWriting

PersonaSpec == PersonaInit /\ [][PersonaNext]_pvars

-----------------------------------------------------------------------------
Settled == writing = NoWrite /\ pfaults = {}

\* What she chose stands: the mood is the last one she expressed, by tag or by
\* tool, she has every trait she took on, and none she dropped, but for one that
\* was the last of her list when a tag dropped it.
ChosenStands == Settled =>
    /\ md.mood = want.mood
    /\ want.traits \subseteq md.traits
    /\ md.traits \subseteq want.traits \cup stuck

\* No writer of the block loses the prose around it.
VoiceKept == "crash" \notin pfaults => md.prose

\* What was chosen stands: her mood is the last she expressed and her traits those she
\* took on and did not drop, and the prose of persona.md is kept (write_state).
WhatSheChose == ChosenStands /\ VoiceKept
=============================================================================
