------------------------------ MODULE ToolLoop ------------------------------
(***************************************************************************)
(* One turn of the agent's tool loop, on either of its two paths:          *)
(*   "stream"  agent_chat_stream (harness/agent.py), which shows the text  *)
(*             while it is generated and holds back what may be a call;    *)
(*   "block"   run_with_tools (harness/mcp/tools.py), which reads a whole  *)
(*             text through the grammar of harness/mcp/grammar.py.         *)
(* A text of the stream is a sequence of three characters: Tick, the mark  *)
(* a fence is made of, Tool, a fence's word "tool", and Prose.             *)
(***************************************************************************)
EXTENDS Integers, Sequences, SequencesExt, FiniteSets

CONSTANTS StreamRounds,   \* max_rounds of agent_chat_stream
          BlockRounds,    \* max_rounds of run_with_tools
          Hold,           \* fence-free characters before the text is shown
          MaxBuf,         \* bound: characters of one generation
          MaxDelta,       \* bound: characters of one delta
          Call, Result    \* the calls a text can name, what they can return

VARIABLES path,      \* which of the two loops runs this turn
          pc,        \* "gen" while a generation runs, else how the turn ended
          round,     \* _round
          buf,       \* the text of this generation so far
          is_tool,   \* what the text is taken for: Unknown, "tool",
                     \* "answer" or "late" (None, True, False, "late")
          flushed,   \* characters of buf already yielded
          shown,     \* what this generation's yields put on the screen
          ran,       \* the calls executed in this turn with their results
          seen,      \* how many results the running generation was shown
          prev_sig, repeat_streak   \* the no-progress detector

tlvars == <<path, pc, round, buf, is_tool, flushed, shown, ran, seen,
          prev_sig, repeat_streak>>

Prose == "x"
Tick  == "f"
Tool  == "t"
Unknown == "None"
NoSig == <<>>

Texts(n) == SeqOf({Prose, Tick, Tool}, n)
TurnOver == {"answer", "exhausted", "stopped", "failed"}

-----------------------------------------------------------------------------
\* "```" at offset i of text, and text.find("```", start); -1 when there is none.
FenceAt(text, i) == i + 3 <= Len(text) /\ \A k \in 1..3 : text[i + k] = Tick
FindFence(text, start) ==
    LET at == {i \in start..Len(text) : FenceAt(text, i)}
    IN  IF at = {} THEN -1 ELSE CHOOSE i \in at : \A j \in at : i <= j
HasFence(text) == FindFence(text, 0) >= 0
\* re.search("```[ \t]*tool")
HasToolFence(text) ==
    \E i \in 0..Len(text) : FenceAt(text, i) /\ i + 4 <= Len(text) /\ text[i + 4] = Tool

\* _parse_tool_calls: no call, or the calls of the text in order. Which one is
\* the model's choice: every fence may hold a call (tool_code, drifted, or a
\* python block routed to run_python), and the legacy <tool> form needs none.
ParseToolCalls(text) == SeqOf(Call, 2)

\* calls = calls[:1]: she sees a result before she decides the next call.
TakeFirst(calls) == SubSeq(calls, 1, 1)

LoopInit ==
    /\ path \in {"stream", "block"}
    /\ pc = "gen" /\ round = 0
    /\ buf = <<>> /\ is_tool = Unknown /\ flushed = 0 /\ shown = <<>>
    /\ ran = <<>> /\ seen = 0
    /\ prev_sig = NoSig /\ repeat_streak = 0

Rounds == IF path = "stream" THEN StreamRounds ELSE BlockRounds

\* The next generation of the loop, or its end when the rounds are used up.
NextRound ==
    /\ round' = round + 1
    /\ buf' = <<>> /\ is_tool' = Unknown /\ flushed' = 0 /\ shown' = <<>>
    /\ seen' = Len(ran')
    /\ pc' = IF round + 1 < Rounds THEN "gen" ELSE "exhausted"

-----------------------------------------------------------------------------
\* Faulty: the search starts at what was shown, so a straddling mark is missed.
SearchFromShown == flushed

\* Where the search for a late fence starts: its mark may straddle two deltas.
SearchFrom == IF flushed >= 2 THEN flushed - 2 ELSE 0

\* A yield of the characters of the new buffer from flushed up to end.
Yield(end) == /\ shown' = shown \o SubSeq(buf', flushed + 1, end)
              /\ flushed' = end

Undecided ==
    IF HasFence(buf') THEN is_tool' = "tool" /\ UNCHANGED <<flushed, shown>>
    ELSE IF Len(buf') >= Hold THEN is_tool' = "answer" /\ Yield(Len(buf'))
    ELSE UNCHANGED <<is_tool, flushed, shown>>

Streaming ==
    LET fi == FindFence(buf', SearchFrom)
    IN  IF fi < 0 THEN is_tool' = is_tool /\ Yield(Len(buf'))
        ELSE /\ is_tool' = "late"
             /\ IF fi > flushed THEN Yield(fi) ELSE UNCHANGED <<flushed, shown>>

\* One delta of client.chat_stream.
Delta ==
    /\ path = "stream" /\ pc = "gen"
    /\ \E d \in Texts(MaxDelta) \ {<<>>} :
          /\ Len(buf) + Len(d) <= MaxBuf
          /\ buf' = buf \o d
    /\ CASE is_tool = Unknown  -> Undecided
         [] is_tool = "answer" -> Streaming
         [] OTHER              -> UNCHANGED <<is_tool, flushed, shown>>
    /\ UNCHANGED <<path, pc, round, ran, seen, prev_sig, repeat_streak>>

\* The generation ended without a call: a fence that names itself a tool's is
\* sent back to her to correct, any other text is the answer.
ReadAsAnswer ==
    IF is_tool \in {"tool", "late"} /\ HasToolFence(buf)
    THEN ran' = ran /\ NextRound
    ELSE /\ pc' = "answer"
         /\ IF is_tool = "answer" THEN UNCHANGED <<flushed, shown>>
            ELSE /\ shown' = shown \o SubSeq(buf, flushed + 1, Len(buf))
                 /\ flushed' = Len(buf)
         /\ UNCHANGED <<round, buf, is_tool, ran, seen>>

\* The one call taken is executed and its result goes into the next prompt; a
\* name that is no tool's returns the text that says so, a raised exception the
\* text of it.
Execute(calls) ==
    \E results \in [1..Len(calls) -> Result] :
       ran' = ran \o [i \in 1..Len(calls) |-> <<calls[i], results[i]>>]

EndOfText ==
    /\ path = "stream" /\ pc = "gen"
    /\ \E calls \in ParseToolCalls(buf) :
          IF calls = <<>> THEN ReadAsAnswer
          ELSE Execute(TakeFirst(calls)) /\ NextRound
    /\ UNCHANGED <<path, prev_sig, repeat_streak>>

-----------------------------------------------------------------------------
(***************************************************************************)
(* The grammar: what ToolGrammar.parse tells apart in a whole text. blocks *)
(* counts strict tool_code fences, drift says whether a python fence names *)
(* a tool, syntax how the block reads as Python, calls its call nodes,     *)
(* sound whether name, arguments and keywords fit a tool she has.          *)
(***************************************************************************)
Utterance == [blocks : 0..2, drift : BOOLEAN, syntax : {"ok", "split", "bad"},
              calls : 0..2, sound : BOOLEAN]

GrammarParse(u) ==
    IF u.blocks = 0 /\ ~u.drift THEN "talk"
    ELSE IF \/ u.blocks > 1 \/ u.syntax = "bad"
            \/ u.calls # 1 \/ ~u.sound THEN "refused"
    ELSE "call"

\* identical calls producing identical outputs two rounds running is a rut
Streak(sig) == IF sig = prev_sig THEN repeat_streak + 1 ELSE 0

\* One round of run_with_tools: client.chat, the grammar, and what follows.
BlockRound ==
    /\ path = "block" /\ pc = "gen"
    /\ \E u \in Utterance :
       CASE GrammarParse(u) = "talk" ->
              /\ pc' = "answer"
              /\ UNCHANGED <<round, buf, is_tool, flushed, shown, ran, seen,
                             prev_sig, repeat_streak>>
         [] GrammarParse(u) = "refused" ->
              /\ ran' = ran /\ NextRound
              /\ UNCHANGED <<prev_sig, repeat_streak>>
         [] OTHER ->
              \E c \in Call, r \in Result :
                 /\ ran' = Append(ran, <<c, r>>)
                 /\ prev_sig' = <<c, r>> /\ repeat_streak' = Streak(<<c, r>>)
                 /\ IF repeat_streak' >= 2
                    THEN /\ pc' = "stopped"
                         /\ UNCHANGED <<round, buf, is_tool, flushed, shown, seen>>
                    ELSE NextRound
    /\ UNCHANGED path

\* The client raised: the exception leaves the loop.
ClientRaises ==
    /\ pc = "gen" /\ pc' = "failed"
    /\ UNCHANGED <<path, round, buf, is_tool, flushed, shown, ran, seen,
                   prev_sig, repeat_streak>>

\* The turn is over; the loop holds nothing from one turn to the next.
NewTurn ==
    /\ pc \in TurnOver
    /\ path' \in {"stream", "block"}
    /\ pc' = "gen" /\ round' = 0
    /\ buf' = <<>> /\ is_tool' = Unknown /\ flushed' = 0 /\ shown' = <<>>
    /\ ran' = <<>> /\ seen' = 0
    /\ prev_sig' = NoSig /\ repeat_streak' = 0

LoopNext == Delta \/ EndOfText \/ BlockRound \/ ClientRaises \/ NewTurn
LoopSpec == LoopInit /\ [][LoopNext]_tlvars

-----------------------------------------------------------------------------
\* No text that is still undecided, or that turned out to be a call, puts a
\* whole fence on the screen: the hold and the late search keep it back even
\* when the mark straddles two deltas.
FenceHeld == pc = "gen" => ~HasFence(shown)

\* When a turn ends in an answer, what was shown of that generation is its text,
\* every character once and in order: no tail is lost and no prefix sent twice.
AnswerWhole == path = "stream" /\ pc = "answer" => shown = buf

\* A fence that opens as a tool's and could not be read is never the answer he
\* sees: the stream sends it back to her instead.
NoBrokenFence == path = "stream" /\ pc = "answer" => ~HasToolFence(buf)

\* What he sees is the answer, whole, and nothing else: no undecided text puts a
\* fence on the screen, an answer is shown every character once and in order, and a
\* call that cannot be read is not the answer (agent_chat_stream).
ScreenShowsAnswer == FenceHeld /\ AnswerWhole /\ NoBrokenFence

\* Act, observe, decide: a call is executed only by a generation that was shown
\* the results of all calls before it, and only one at a time.
OneAtATimeStep ==
    ran' \notin {ran, <<>>} => seen = Len(ran) /\ Len(ran') = Len(ran) + 1
OneAtATime == [][OneAtATimeStep]_tlvars

\* The blocking loop never makes the same call with the same result a fourth
\* time in a row, refusals in between or not.
NoRut == path = "block" =>
    \A i \in 1..Len(ran) - 3 : Cardinality(Range(SubSeq(ran, i, i + 3))) > 1
=============================================================================
