------------------------------ MODULE Governor ------------------------------
(***************************************************************************)
(* The governed reply path (harness/mcp/comms_framework.py): auto skills,  *)
(* the pre-call stages in order of priority, the model, the post-call      *)
(* stages.  The stages are the built-in interceptors and one the embedder  *)
(* registers, which may abort, answer itself or raise.  Callers share the  *)
(* pipeline, the persona the tags are kept in, and the skills' book of     *)
(* past uses (harness/skills/registry.py, skill.py).                       *)
(***************************************************************************)
EXTENDS Naturals, Sequences, SequencesExt

CONSTANTS Caller,
          Cooldown,    \* cooldown of the skill "read"; "write" needs "read" and has none
          MaxTime,     \* bound: clock
          MaxReply     \* bound: parts of a reply

VARIABLES pipe,      \* InterceptorPipeline._items
          gcall,     \* caller -> the ResponseContext of its reply() and where it is
          used,      \* CooldownTracker._last: skill -> time, or Never
          gclock,
          kept,      \* caller -> tags of its raw reply that reached the persona
          ran        \* <<skill, had its prerequisite returned by then>> of every run

govars == <<pipe, gcall, used, gclock, kept, ran>>

Stage == {"nexus", "aware", "gate", "mood", "shaper"}
StagePriority(s) == CASE s = "nexus" -> 6 [] s = "aware" -> 30 [] s = "gate" -> 50
                 [] s = "mood" -> 72 [] s = "shaper" -> 80
Skill == {"read", "write"}
Never == MaxTime + 1
\* A reply in parts: prose, a personality tag, leaked scaffolding of the prompt, a
\* special token.
Part == {"text", "tag", "leak", "token"}
Replies == UNION {[1..n -> Part] : n \in 0..MaxReply}

Idle == [pc |-> "idle", at |-> 0, todo |-> <<>>, abort |-> FALSE, skip |-> FALSE,
         asked |-> FALSE, raw |-> <<>>, reply |-> <<>>]

GovernorInit ==
    /\ pipe = <<>> /\ gclock = 0 /\ ran = {}
    /\ gcall = [c \in Caller |-> Idle]
    /\ used = [s \in Skill |-> Never]
    /\ kept = [c \in Caller |-> {}]

Becomes(c, r) == gcall' = [gcall EXCEPT ![c] = r]

-----------------------------------------------------------------------------
(* InterceptorPipeline.add *)

\* The new stage, and the list sorted by priority.
Added(p, s) ==
    SelectSeq(p, LAMBDA t : StagePriority(t) <= StagePriority(s)) \o <<s>>
        \o SelectSeq(p, LAMBDA t : StagePriority(t) > StagePriority(s))

Add(s) ==
    /\ \A c \in Caller : gcall[c].pc = "idle"
    /\ s \notin ToSet(pipe)
    /\ pipe' = Added(pipe, s)
    /\ UNCHANGED <<gcall, used, gclock, kept, ran>>

\* _build_context, for a manifest with these auto skills.
Reply(c, auto) ==
    /\ gcall[c].pc \in {"idle", "returned", "raised"}
    /\ ToSet(pipe) = Stage
    /\ Becomes(c, [Idle EXCEPT !.pc = "auto", !.todo = auto])
    /\ kept' = [kept EXCEPT ![c] = {}]
    /\ UNCHANGED <<pipe, used, gclock, ran>>

-----------------------------------------------------------------------------
(* _run_auto_skills, SkillRegistry.execute_skill *)

CanUse(s) == s = "write" \/ used[s] = Never \/ gclock - used[s] >= Cooldown
WasUsed(s) == used[s] # Never
NextSkill(c) == Becomes(c, [gcall[c] EXCEPT !.pc = "auto", !.todo = Tail(@)])

\* mark_used comes after the function has returned.
ExecuteSkill(c) ==
    LET s == gcall[c].todo[1] IN
    /\ gcall[c].pc = "auto" /\ gcall[c].todo # <<>>
    /\ \/ /\ ~CanUse(s) \/ (s = "write" /\ ~WasUsed("read"))
          /\ NextSkill(c) /\ UNCHANGED <<used, ran>>
       \/ /\ CanUse(s) /\ (s = "write" => WasUsed("read"))
          /\ Becomes(c, [gcall[c] EXCEPT !.pc = "skill"])
          /\ UNCHANGED used
          /\ ran' = ran \cup {<<s, s = "read" \/ \E r \in ran : r[1] = "read returned">>}
    /\ UNCHANGED <<pipe, gclock, kept>>

SkillReturns(c) ==
    LET s == gcall[c].todo[1] IN
    /\ gcall[c].pc = "skill"
    /\ used' = [used EXCEPT ![s] = gclock]
    /\ ran' = IF s = "read" THEN ran \cup {<<"read returned", TRUE>>} ELSE ran
    /\ NextSkill(c) /\ UNCHANGED <<pipe, gclock, kept>>

\* The governor swallows it; the skill is not marked.
SkillRaises(c) ==
    /\ gcall[c].pc = "skill"
    /\ NextSkill(c) /\ UNCHANGED <<pipe, used, gclock, kept, ran>>

SkillsDone(c) ==
    /\ gcall[c].pc = "auto" /\ gcall[c].todo = <<>>
    /\ Becomes(c, [gcall[c] EXCEPT !.pc = "pre", !.at = 1])
    /\ UNCHANGED <<pipe, used, gclock, kept, ran>>

-----------------------------------------------------------------------------
(* run_pre, the model, run_post *)

\* What the pre-call of stage s may do to the context; raising is to do nothing. The
\* text that hydration adds to the system prompt is left out.
PreCall(s, r) ==
    IF s = "gate" THEN {r, [r EXCEPT !.abort = TRUE], [r EXCEPT !.skip = TRUE, !.reply = <<"text">>]}
    ELSE {r}

RunPre(c) ==
    LET r == gcall[c] IN
    /\ r.pc = "pre" /\ r.at <= Len(pipe) /\ ~r.abort
    /\ \E n \in PreCall(pipe[r.at], r) : Becomes(c, [n EXCEPT !.at = @ + 1])
    /\ UNCHANGED <<pipe, used, gclock, kept, ran>>

\* reply() looks at the flag again when the loop has ended.
Stops(r) == r.abort

AfterPre(c) ==
    LET r == gcall[c] IN
    /\ r.pc = "pre" /\ (r.at > Len(pipe) \/ r.abort)
    /\ Becomes(c, IF Stops(r) THEN [r EXCEPT !.pc = "returned"]
                  ELSE [r EXCEPT !.pc = IF r.skip THEN "post" ELSE "model", !.at = 1])
    /\ UNCHANGED <<pipe, used, gclock, kept, ran>>

Model(c) ==
    /\ gcall[c].pc = "model"
    /\ \/ \E text \in Replies :
             Becomes(c, [gcall[c] EXCEPT !.pc = "post", !.asked = TRUE, !.raw = text, !.reply = text])
       \/ Becomes(c, [gcall[c] EXCEPT !.pc = "raised", !.asked = TRUE])   \* agent.reply is not guarded
    /\ UNCHANGED <<pipe, used, gclock, kept, ran>>

Without(text, parts) == SelectSeq(text, LAMBDA p : p \notin parts)
\* _LEAK_MARKERS: the reply up to the first marker.
BeforeLeak(text) ==
    LET leaks == {i \in DOMAIN text : text[i] = "leak"}
    IN  IF leaks = {} THEN text ELSE SubSeq(text, 1, (CHOOSE i \in leaks : \A j \in leaks : i <= j) - 1)

PostCall(s, text) == CASE s = "mood" -> Without(text, {"tag"})
                       [] s = "shaper" -> Without(BeforeLeak(text), {"token"})
                       [] OTHER -> text

\* It is logged and the next stage runs.
AfterRaise(r) == [r EXCEPT !.at = @ + 1]

RunPost(c) ==
    LET r == gcall[c]  s == pipe[r.at] IN
    /\ r.pc = "post" /\ r.at <= Len(pipe)
    /\ \/ /\ Becomes(c, [r EXCEPT !.reply = PostCall(s, @), !.at = @ + 1])
          /\ kept' = IF s = "mood" /\ "tag" \in ToSet(r.reply) THEN [kept EXCEPT ![c] = {"tag"}] ELSE kept
       \/ s = "gate" /\ Becomes(c, AfterRaise(r)) /\ UNCHANGED kept
    /\ UNCHANGED <<pipe, used, gclock, ran>>

Return(c) ==
    /\ gcall[c].pc = "post" /\ gcall[c].at > Len(pipe)
    /\ Becomes(c, [gcall[c] EXCEPT !.pc = "returned"])
    /\ UNCHANGED <<pipe, used, gclock, kept, ran>>

Elapse ==
    /\ gclock < MaxTime /\ gclock' = gclock + 1
    /\ UNCHANGED <<pipe, gcall, used, kept, ran>>

GovernorNext ==
    \/ \E s \in Stage : Add(s)
    \/ \E c \in Caller : \E auto \in {<<>>, <<"read">>, <<"read", "write">>} : Reply(c, auto)
    \/ \E c \in Caller : \/ ExecuteSkill(c) \/ SkillReturns(c) \/ SkillRaises(c) \/ SkillsDone(c)
                         \/ RunPre(c) \/ AfterPre(c) \/ Model(c) \/ RunPost(c) \/ Return(c)
    \/ Elapse

GovernorSpec == GovernorInit /\ [][GovernorNext]_govars

-----------------------------------------------------------------------------
Returned(c) == gcall[c].pc = "returned"

\* What a governed call hands back shows neither a personality tag nor scaffolding of
\* the prompt nor a special token, in whatever order the stages were added and
\* although a stage in between raised.
NothingLeaks == \A c \in Caller : Returned(c) => ToSet(gcall[c].reply) \subseteq {"text"}

\* A personality tag the model emitted has reached the persona when the reply is
\* handed back, even one that stood behind leaked scaffolding.
TagsReachPersona == \A c \in Caller : Returned(c) /\ "tag" \in ToSet(gcall[c].raw) => kept[c] = {"tag"}

\* A call that any stage aborted asks no model.
AbortIsFinal == \A c \in Caller : gcall[c].abort => ~gcall[c].asked

\* A skill runs only when its prerequisite has returned at some time before: one that
\* raised or is still running in another call does not count.
PrerequisiteRan == \A r \in ran : r[2]
=============================================================================
