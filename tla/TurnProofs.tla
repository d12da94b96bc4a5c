----------------------------- MODULE TurnProofs -----------------------------
(***************************************************************************)
(* A turn of hers, from his words to the screen and the file.  The tool    *)
(* loop shows an answer and never a call; her persona keeps what she       *)
(* chose; the gateway hears him and only ever extends a prompt; the router *)
(* keeps its promise of one worker.  Each part has one inductive           *)
(* invariant, and a lemma for each of its actions.                         *)
(***************************************************************************)
EXTENDS ToolLoop, Gateway, Persona, Inference, FiniteSetTheorems, SequenceTheorems, NaturalsInduction,
        WellFoundedInduction, TLAPS

\* A set of naturals that is not empty has a least element, and one below a bound a
\* greatest: what text.find and the searches for a newest message return.
LEMMA LeastNat ==
    ASSUME NEW S \in SUBSET Nat, S # {}
    PROVE  \E m \in S : \A y \in S : m <= y
<1>1. PICK m \in S : \A y \in S : <<y, m>> \notin OpToRel(<, Nat)
  BY NatLessThanWellFounded, WFMin
<1>2. \A x, y \in Nat : x < y => <<x, y>> \in OpToRel(<, Nat)
  BY DEF OpToRel
<1>3. \A y \in S : ~(y < m)
  BY <1>1, <1>2, Zenon
<1>4. \A y \in S : m <= y
  BY <1>3
<1> QED BY <1>4

LEMMA GreatestNat ==
    ASSUME NEW n \in Nat, NEW S \in SUBSET (0..n), S # {}
    PROVE  \E m \in S : \A y \in S : m >= y
<1> DEFINE T == {n - i : i \in S}
<1>0. \A i \in S : n - i \in Nat
  OBVIOUS
<1>1. T \in SUBSET Nat /\ T # {}
  BY <1>0, Zenon
<1>2. PICK t \in T : \A y \in T : t <= y
  BY <1>1, LeastNat
<1>3. PICK m \in S : t = n - m
  BY <1>2
<1>4. \A y \in S : n - m <= n - y
  BY <1>2, <1>3
<1>5. \A y \in S : m >= y
  BY <1>4
<1> QED BY <1>5

-----------------------------------------------------------------------------
(***************************************************************************)
(* The tool loop.  What is on the screen is a prefix of the text, without  *)
(* a fence as long as the text may still be a call; a text that is taken   *)
(* for an answer is shown to its end.                                      *)
(***************************************************************************)
Chars == {Prose, Tick, Tool}
NoFence(text) == \A i \in Nat : ~FenceAt(text, i)

LoopInv ==
    /\ path \in {"stream", "block"}
    /\ buf \in Seq(Chars) /\ flushed \in 0..Len(buf)
    /\ shown = SubSeq(buf, 1, flushed)
    /\ is_tool \in {Unknown, "tool", "answer", "late"}
    /\ pc = "gen" =>
          /\ NoFence(shown)
          /\ is_tool \in {Unknown, "answer"} => NoFence(buf)
          /\ is_tool \in {Unknown, "tool"} => flushed = 0
          /\ is_tool = "answer" => flushed = Len(buf)
    /\ path = "stream" /\ pc = "answer" => shown = buf /\ ~HasToolFence(buf)

\* What text.find returns: the first fence from start on, or -1 when there is none.
LEMMA FindFenceFinds ==
    ASSUME NEW text \in Seq(Chars), NEW start \in Nat
    PROVE  \/ /\ FindFence(text, start) = -1
              /\ \A i \in Nat : i >= start => ~FenceAt(text, i)
           \/ /\ FindFence(text, start) \in start..Len(text) /\ FenceAt(text, FindFence(text, start))
              /\ \A i \in Nat : i >= start /\ i < FindFence(text, start) => ~FenceAt(text, i)
<1> DEFINE at == {i \in start..Len(text) : FenceAt(text, i)}
<1>1. \A i \in Nat : i >= start /\ FenceAt(text, i) => i \in at
  BY DEF FenceAt
<1>2. CASE at = {}
  BY <1>1, <1>2 DEF FindFence
<1>3. CASE at # {}
  <2>1. at \in SUBSET Nat
    OBVIOUS
  <2>2. \E m \in at : \A y \in at : m <= y
    BY <1>3, <2>1, LeastNat
  <2>3. /\ FindFence(text, start) \in at
        /\ \A y \in at : FindFence(text, start) <= y
    BY <1>3, <2>2 DEF FindFence
  <2> QED BY <1>1, <2>1, <2>3
<1> QED BY <1>2, <1>3

LEMMA HasFenceMeans ==
    ASSUME NEW text \in Seq(Chars)
    PROVE  ~HasFence(text) <=> NoFence(text)
  BY FindFenceFinds DEF HasFence, NoFence

\* A fence of a prefix is a fence of the whole, and back if it lies inside.
LEMMA FenceOfPrefix ==
    ASSUME NEW text \in Seq(Chars), NEW n \in 0..Len(text), NEW i \in Nat
    PROVE  FenceAt(SubSeq(text, 1, n), i) <=> i + 3 <= n /\ FenceAt(text, i)
  BY DEF FenceAt

LEMMA FenceOfAppended ==
    ASSUME NEW text \in Seq(Chars), NEW d \in Seq(Chars), NEW i \in Nat, i + 3 <= Len(text)
    PROVE  FenceAt(text \o d, i) <=> FenceAt(text, i)
  BY DEF FenceAt

LEMMA PrefixStays ==
    ASSUME NEW text \in Seq(Chars), NEW d \in Seq(Chars), NEW n \in 0..Len(text)
    PROVE  SubSeq(text \o d, 1, n) = SubSeq(text, 1, n)
  OBVIOUS

LEMMA PrefixGrows ==
    ASSUME NEW text \in Seq(Chars), NEW n \in 0..Len(text), NEW m \in n..Len(text)
    PROVE  SubSeq(text, 1, n) \o SubSeq(text, n + 1, m) = SubSeq(text, 1, m)
  OBVIOUS

LEMMA WholePrefix ==
    ASSUME NEW text \in Seq(Chars)
    PROVE  SubSeq(text, 1, Len(text)) = text
  OBVIOUS

LEMMA EmptyText == /\ <<>> \in Seq(Chars) /\ SubSeq(<<>>, 1, 0) = <<>>
                   /\ Len(<<>>) = 0 /\ NoFence(<<>>) /\ 0 \in 0..Len(<<>>)
  BY DEF NoFence, FenceAt

LEMMA LoopStart == LoopInit => LoopInv
  BY EmptyText DEF LoopInit, LoopInv, Unknown

\* A generation that begins has nothing on the screen.
LEMMA LoopAgain ==
    ASSUME LoopInv, NextRound, path' = path
    PROVE  LoopInv'
  BY EmptyText DEF NextRound, LoopInv, Unknown

\* The text so far, undecided, goes on: it is held back, turns out to be a call, or is
\* shown from its first character.
LEMMA LoopUndecided ==
    ASSUME LoopInv, NEW d \in Seq(Chars), buf' = buf \o d, is_tool = Unknown, pc = "gen",
           Undecided, UNCHANGED <<path, pc>>
    PROVE  LoopInv'
<1>1. buf' \in Seq(Chars) /\ Len(buf') >= Len(buf) /\ flushed = 0 /\ shown = <<>> /\ 0 \in 0..Len(buf')
  BY DEF LoopInv
<1>2. CASE HasFence(buf')
  BY <1>1, <1>2, EmptyText DEF LoopInv, Undecided, Unknown
<1>3. CASE ~HasFence(buf') /\ Len(buf') >= Hold
  <2>1. is_tool' = "answer" /\ flushed' = Len(buf') /\ shown' = <<>> \o SubSeq(buf', 1, Len(buf'))
    BY <1>1, <1>3 DEF Undecided, Yield
  <2>2. shown' = buf' /\ shown' = SubSeq(buf', 1, flushed')
    BY <1>1, <2>1, WholePrefix
  <2>3. NoFence(buf')
    BY <1>1, <1>3, HasFenceMeans
  <2>4. flushed' \in 0..Len(buf')
    BY <1>1, <2>1
  <2> QED BY <1>1, <2>1, <2>2, <2>3, <2>4 DEF LoopInv, Unknown
<1>4. CASE ~HasFence(buf') /\ ~(Len(buf') >= Hold)
  <2>1. NoFence(buf')
    BY <1>1, <1>4, HasFenceMeans
  <2>2. UNCHANGED <<is_tool, flushed, shown>>
    BY <1>4 DEF Undecided
  <2> QED BY <1>1, <2>1, <2>2, EmptyText DEF LoopInv, Unknown
<1> QED BY <1>2, <1>3, <1>4

\* A fence that begins two characters before what was shown, or later, is found; one that
\* begins before lies in the text that held none.
LEMMA LoopStreaming ==
    ASSUME LoopInv, NEW d \in Seq(Chars), buf' = buf \o d, is_tool = "answer", pc = "gen",
           Streaming, UNCHANGED <<path, pc>>
    PROVE  LoopInv'
<1> DEFINE fi == FindFence(buf', SearchFrom)
<1>1. /\ buf' \in Seq(Chars) /\ Len(buf') >= Len(buf) /\ flushed = Len(buf)
      /\ flushed \in 0..Len(buf') /\ shown = SubSeq(buf', 1, flushed) /\ NoFence(buf)
  BY PrefixStays DEF LoopInv
<1>2. SearchFrom \in Nat /\ \A i \in Nat : i < SearchFrom => i + 3 <= Len(buf)
  BY <1>1 DEF SearchFrom
<1>3. \A i \in Nat : i < SearchFrom => ~FenceAt(buf', i)
  BY <1>1, <1>2, FenceOfAppended DEF LoopInv, NoFence
<1>f. \/ fi = -1 /\ \A i \in Nat : i >= SearchFrom => ~FenceAt(buf', i)
      \/ /\ fi \in SearchFrom..Len(buf')
         /\ \A i \in Nat : i >= SearchFrom /\ i < fi => ~FenceAt(buf', i)
  BY <1>1, <1>2, FindFenceFinds, Zenon
<1> HIDE DEF fi
<1>4. CASE fi < 0
  <2>1. NoFence(buf')
    BY <1>1, <1>2, <1>3, <1>4, <1>f DEF NoFence
  <2>2. is_tool' = "answer" /\ flushed' = Len(buf') /\ shown' = shown \o SubSeq(buf', flushed + 1, Len(buf'))
    BY <1>4 DEF Streaming, Yield, fi
  <2>3. Len(buf') \in flushed..Len(buf')
    BY <1>1
  <2>4. shown' = SubSeq(buf', 1, Len(buf'))
    BY <1>1, <2>2, <2>3, PrefixGrows
  <2>5. shown' = buf'
    BY <1>1, <2>4, WholePrefix
  <2>6. flushed' \in 0..Len(buf')
    BY <1>1, <2>2
  <2> QED BY <1>1, <2>1, <2>2, <2>4, <2>5, <2>6 DEF LoopInv, Unknown
<1>5. CASE ~(fi < 0)
  <2>1. /\ fi \in SearchFrom..Len(buf')
        /\ \A i \in Nat : i >= SearchFrom /\ i < fi => ~FenceAt(buf', i)
    BY <1>2, <1>5, <1>f
  <2>2. is_tool' = "late"
    BY <1>5 DEF Streaming, fi
  <2>3. CASE fi > flushed
    <3>1. flushed' = fi /\ shown' = shown \o SubSeq(buf', flushed + 1, fi)
      BY <1>5, <2>3 DEF Streaming, Yield, fi
    <3>a. fi \in flushed..Len(buf') /\ fi \in 0..Len(buf')
      BY <1>1, <1>2, <2>1, <2>3
    <3>2. shown' = SubSeq(buf', 1, fi)
      BY <1>1, <3>a, <3>1, PrefixGrows
    <3>b. \A i \in Nat : FenceAt(SubSeq(buf', 1, fi), i) => i + 3 <= fi /\ FenceAt(buf', i)
      BY <1>1, <3>a, FenceOfPrefix
    <3>3. NoFence(shown')
      BY <1>2, <1>3, <2>1, <3>a, <3>2, <3>b DEF NoFence
    <3> QED BY <1>1, <2>2, <3>1, <3>a, <3>2, <3>3 DEF LoopInv, Unknown
  <2>4. CASE ~(fi > flushed)
    <3>1. flushed' = flushed /\ shown' = shown
      BY <1>5, <2>4 DEF Streaming, fi
    <3> QED BY <1>1, <2>2, <3>1 DEF LoopInv, Unknown
  <2> QED BY <2>3, <2>4
<1> QED BY <1>4, <1>5

LEMMA LoopDelta ==
    ASSUME LoopInv, Delta
    PROVE  LoopInv'
<1>1. PICK d \in Texts(MaxDelta) \ {<<>>} : buf' = buf \o d
  BY DEF Delta
<1>2. d \in Seq(Chars)
  BY <1>1 DEF Texts, SeqOf, Chars
<1>3. UNCHANGED <<path, pc>> /\ pc = "gen"
  BY DEF Delta
<1>4. CASE is_tool = Unknown
  <2>1. Undecided
    BY <1>4 DEF Delta, Unknown
  <2> QED BY <1>1, <1>2, <1>3, <1>4, <2>1, LoopUndecided
<1>5. CASE is_tool = "answer"
  <2>1. Streaming
    BY <1>5 DEF Delta, Unknown
  <2> QED BY <1>1, <1>2, <1>3, <1>5, <2>1, LoopStreaming
<1>6. CASE is_tool \in {"tool", "late"}
  <2>1. UNCHANGED <<is_tool, flushed, shown>>
    BY <1>6 DEF Delta, Unknown
  <2>2. buf' \in Seq(Chars) /\ Len(buf') >= Len(buf) /\ flushed \in 0..Len(buf')
        /\ shown = SubSeq(buf', 1, flushed)
    BY <1>1, <1>2, PrefixStays DEF LoopInv
  <2> QED BY <1>3, <1>6, <2>1, <2>2 DEF LoopInv, Unknown
<1> QED BY <1>4, <1>5, <1>6 DEF LoopInv

\* A text that ends is sent back to her, or is the answer: then its tail is shown, and
\* the text that was taken for an answer all along had no fence to be read.
LEMMA LoopAnswer ==
    ASSUME LoopInv, ReadAsAnswer, pc = "gen", path' = path
    PROVE  LoopInv'
<1>1. CASE is_tool \in {"tool", "late"} /\ HasToolFence(buf)
  BY <1>1, LoopAgain DEF ReadAsAnswer
<1>2. CASE ~(is_tool \in {"tool", "late"} /\ HasToolFence(buf))
  <2>1. ~HasToolFence(buf)
    BY <1>2 DEF LoopInv, HasToolFence, NoFence
  <2>2. pc' = "answer" /\ UNCHANGED <<buf, is_tool>>
    BY <1>2 DEF ReadAsAnswer
  <2>3. flushed' = Len(buf) /\ shown' = SubSeq(buf, 1, Len(buf))
    <3>1. CASE is_tool = "answer"
      BY <1>2, <3>1 DEF ReadAsAnswer, LoopInv
    <3>2. CASE is_tool # "answer"
      <4>1. flushed' = Len(buf) /\ shown' = shown \o SubSeq(buf, flushed + 1, Len(buf))
        BY <1>2, <3>2 DEF ReadAsAnswer
      <4>2. buf \in Seq(Chars) /\ flushed \in 0..Len(buf) /\ Len(buf) \in flushed..Len(buf)
        BY DEF LoopInv
      <4>3. shown = SubSeq(buf, 1, flushed)
        BY DEF LoopInv
      <4> QED BY <4>1, <4>2, <4>3, PrefixGrows
    <3> QED BY <3>1, <3>2
  <2> QED BY <2>1, <2>2, <2>3, WholePrefix DEF LoopInv, HasToolFence, FenceAt
<1> QED BY <1>1, <1>2

LEMMA LoopEnd ==
    ASSUME LoopInv, EndOfText
    PROVE  LoopInv'
  BY LoopAnswer, LoopAgain DEF EndOfText

LEMMA LoopBlock ==
    ASSUME LoopInv, BlockRound
    PROVE  LoopInv'
<1>1. path = "block" /\ path' = path /\ pc = "gen"
  BY DEF BlockRound
<1>2. NextRound \/ (pc' # "gen" /\ UNCHANGED <<buf, is_tool, flushed, shown>>)
  BY DEF BlockRound
<1>3. CASE NextRound
  BY <1>1, <1>3, LoopAgain
<1>4. CASE pc' # "gen" /\ UNCHANGED <<buf, is_tool, flushed, shown>>
  BY <1>1, <1>4 DEF LoopInv
<1> QED BY <1>2, <1>3, <1>4

LEMMA LoopStep == LoopInv /\ [LoopNext]_tlvars => LoopInv'
<1> SUFFICES ASSUME LoopInv, [LoopNext]_tlvars PROVE LoopInv'
  OBVIOUS
<1>1. CASE ClientRaises
  BY <1>1 DEF ClientRaises, LoopInv
<1>2. CASE NewTurn
  BY <1>2, EmptyText DEF NewTurn, LoopInv, Unknown
<1>3. CASE UNCHANGED tlvars
  BY <1>3 DEF tlvars, LoopInv, NoFence, FenceAt, HasToolFence
<1> QED BY <1>1, <1>2, <1>3, LoopDelta, LoopEnd, LoopBlock DEF LoopNext

\* What he sees is the answer, whole, and nothing else: for texts and deltas of every
\* length, every hold and any number of rounds, wherever the three marks of a fence are
\* cut between two deltas (agent_chat_stream).
THEOREM ScreenAlwaysShowsAnswer == LoopSpec => []ScreenShowsAnswer
<1>1. ASSUME LoopInv PROVE ScreenShowsAnswer
  <2>1. shown \in Seq(Chars)
    BY <1>1 DEF LoopInv
  <2>2. FenceHeld
    BY <1>1, <2>1, HasFenceMeans DEF LoopInv, FenceHeld
  <2> QED BY <1>1, <2>2 DEF LoopInv, ScreenShowsAnswer, AnswerWhole, NoBrokenFence
<1> QED BY <1>1, LoopStart, LoopStep, PTL DEF LoopSpec

\* What ran in this turn, and the detector's count of it: the last repeat_streak + 1
\* calls are alike with their results and the one before them is another.
Outcome == Call \X Result
Runs ==
    /\ ran \in Seq(Outcome) /\ (pc = "gen" => seen = Len(ran))
    /\ path \in {"stream", "block"}
StreakCounts == path = "block" =>
    /\ repeat_streak \in 0..2 /\ (pc = "gen" => repeat_streak < 2)
    /\ prev_sig = IF ran = <<>> THEN NoSig ELSE ran[Len(ran)]
    /\ repeat_streak < Len(ran) \/ repeat_streak = 0
    /\ repeat_streak + 1 < Len(ran) => ran[Len(ran) - repeat_streak - 1] # ran[Len(ran)]
    /\ \A i \in 1..Len(ran) - 3 : \E j, k \in i..i + 3 : ran[j] # ran[k]
RutInv == Runs /\ StreakCounts

LEMMA RutNext ==
    ASSUME RutInv, ran' \in Seq(Outcome), NextRound, path' = path, path' = "block" => StreakCounts'
    PROVE  RutInv'
  BY DEF RutInv, Runs, StreakCounts, NextRound

LEMMA OneMore ==
    ASSUME NEW S, NEW s \in Seq(S), NEW t \in Seq(S), Len(t) = 1
    PROVE  s \o t \in Seq(S) /\ Len(s \o t) = Len(s) + 1
<1>1. s \o t \in Seq(S)
  OBVIOUS
<1>2. Len(s \o t) = Len(s) + Len(t)
  BY ConcatProperties
<1> QED BY <1>1, <1>2

LEMMA RutText ==
    ASSUME RutInv, EndOfText
    PROVE  RutInv' /\ OneAtATimeStep
<1>1. path = "stream" /\ path' = path /\ pc = "gen" /\ ran \in Seq(Outcome) /\ seen = Len(ran)
  BY DEF EndOfText, RutInv, Runs
<1>2. CASE ReadAsAnswer
  <2>1. ran' = ran /\ (NextRound \/ (pc' = "answer" /\ seen' = seen))
    BY <1>2 DEF ReadAsAnswer
  <2>2. RutInv'
    BY <1>1, <2>1 DEF RutInv, Runs, StreakCounts, NextRound
  <2> QED BY <2>1, <2>2 DEF OneAtATimeStep
<1>3. CASE \E calls \in ParseToolCalls(buf) : calls # <<>> /\ Execute(TakeFirst(calls)) /\ NextRound
  <2>1. PICK calls \in ParseToolCalls(buf) : calls # <<>> /\ Execute(TakeFirst(calls)) /\ NextRound
    BY <1>3
  <2>2. calls \in Seq(Call) /\ Len(calls) > 0
    <3>1. PICK m \in 0..2 : calls \in [1..m -> Call]
      BY DEF ParseToolCalls, SeqOf
    <3>2. calls \in Seq(Call)
      BY <3>1
    <3> QED BY <2>1, <3>2
  <2>3. /\ TakeFirst(calls) \in Seq(Call) /\ Len(TakeFirst(calls)) = 1 /\ TakeFirst(calls)[1] \in Call
    BY <2>2 DEF TakeFirst
  <2>4. PICK results \in [1..1 -> Result] : ran' = ran \o [i \in 1..1 |-> <<TakeFirst(calls)[i], results[i]>>]
    BY <2>1, <2>3 DEF Execute
  <2> DEFINE new == [i \in 1..1 |-> <<TakeFirst(calls)[i], results[i]>>]
  <2>5. new \in Seq(Outcome) /\ Len(new) = 1
    <3>1. new \in [1..1 -> Outcome]
      BY <2>3 DEF Outcome
    <3> QED BY <3>1
  <2>6. ran' \in Seq(Outcome) /\ Len(ran') = Len(ran) + 1
    <3>1. ran' = ran \o new
      BY <2>4
    <3> HIDE DEF new
    <3>2. ran \o new \in Seq(Outcome) /\ Len(ran \o new) = Len(ran) + 1
      BY <1>1, <2>5, OneMore
    <3> QED BY <3>1, <3>2, Zenon
  <2>7. RutInv'
    BY <1>1, <2>1, <2>6 DEF RutInv, Runs, StreakCounts, NextRound
  <2> QED BY <1>1, <2>6, <2>7 DEF OneAtATimeStep
<1> QED BY <1>2, <1>3 DEF EndOfText

LEMMA RutBlock ==
    ASSUME RutInv, BlockRound
    PROVE  RutInv' /\ OneAtATimeStep
<1>1. path = "block" /\ path' = path /\ pc = "gen" /\ ran \in Seq(Outcome) /\ seen = Len(ran)
  BY DEF BlockRound, RutInv, Runs
<1>2. CASE pc' # "gen" /\ UNCHANGED <<ran, prev_sig, repeat_streak>>
  <2>1. RutInv'
    BY <1>1, <1>2 DEF RutInv, Runs, StreakCounts
  <2> QED BY <1>2, <2>1 DEF OneAtATimeStep
<1>3. CASE NextRound /\ UNCHANGED <<ran, prev_sig, repeat_streak>>
  <2>1. RutInv'
    BY <1>1, <1>3 DEF RutInv, Runs, StreakCounts, NextRound
  <2> QED BY <1>3, <2>1 DEF OneAtATimeStep
<1>4. ASSUME NEW sig \in Outcome, ran' = Append(ran, sig), prev_sig' = sig, repeat_streak' = Streak(sig),
             IF repeat_streak' >= 2 THEN pc' = "stopped" ELSE NextRound
      PROVE  RutInv' /\ OneAtATimeStep
  <2>1. /\ ran' \in Seq(Outcome) /\ Len(ran') = Len(ran) + 1 /\ ran' # <<>> /\ ran'[Len(ran')] = sig
        /\ \A i \in 1..Len(ran) : ran'[i] = ran[i]
    BY <1>1, <1>4
  <2>2. StreakCounts
    BY DEF RutInv
  <2>3. sig # NoSig
    BY DEF Outcome, NoSig
  <2>4. Runs'
    BY <1>1, <1>4, <2>1 DEF Runs, NextRound
  <2>5. repeat_streak' \in 0..2 /\ (pc' = "gen" => repeat_streak' < 2)
    BY <1>1, <1>4, <2>2 DEF StreakCounts, Streak
  <2>6. CASE sig = prev_sig
    <3>1. repeat_streak' = repeat_streak + 1 /\ Len(ran) > 0 /\ ran[Len(ran)] = sig
      BY <1>1, <1>4, <2>2, <2>3, <2>6 DEF StreakCounts, Streak
    <3>2. repeat_streak' < Len(ran')
      BY <1>1, <2>1, <2>2, <3>1 DEF StreakCounts
    <3>3. repeat_streak' + 1 < Len(ran') => ran'[Len(ran') - repeat_streak' - 1] # ran'[Len(ran')]
      <4> SUFFICES ASSUME repeat_streak' + 1 < Len(ran')
                   PROVE  ran'[Len(ran') - repeat_streak' - 1] # ran'[Len(ran')]
        OBVIOUS
      <4>1. repeat_streak \in 0..1 /\ Len(ran) \in Nat
        BY <1>1, <2>2 DEF StreakCounts
      <4>2. /\ Len(ran') - repeat_streak' - 1 = Len(ran) - repeat_streak - 1
            /\ Len(ran) - repeat_streak - 1 \in 1..Len(ran) /\ repeat_streak + 1 < Len(ran)
        BY <2>1, <3>1, <4>1
      <4>3. ran[Len(ran) - repeat_streak - 1] # ran[Len(ran)]
        BY <1>1, <2>2, <4>2 DEF StreakCounts
      <4> QED BY <2>1, <3>1, <4>2, <4>3
    <3> DEFINE d == repeat_streak' + 1
    <3>4. \A i \in 1..Len(ran') - 3 : \E j, k \in i..i + 3 : ran'[j] # ran'[k]
      <4> SUFFICES ASSUME NEW i \in 1..Len(ran') - 3 PROVE \E j, k \in i..i + 3 : ran'[j] # ran'[k]
        OBVIOUS
      <4>0. Len(ran) \in Nat /\ i \in Nat /\ 1 <= i
        BY <1>1, <2>1
      <4>1. CASE i + 3 <= Len(ran)
        <5>1. PICK j, k \in i..i + 3 : ran[j] # ran[k]
          BY <1>1, <2>2, <4>0, <4>1 DEF StreakCounts
        <5>2. j \in 1..Len(ran) /\ k \in 1..Len(ran)
          BY <4>0, <4>1
        <5> QED BY <2>1, <5>1, <5>2
      <4>2. CASE i + 3 = Len(ran')
        <5>1. d \in 1..3 /\ d < Len(ran')
          <6>1. Len(ran') = i + 3
            BY <4>2
          <6>0. \A x \in 0..2 : x + 1 \in 1..3
            OBVIOUS
          <6>2. d \in 1..3
            BY <2>5, <6>0
          <6> HIDE DEF d
          <6> QED BY <4>0, <6>1, <6>2
        <5>2. Len(ran') - d \in i..i + 3 /\ Len(ran') \in i..i + 3
          BY <4>0, <4>2, <5>1
        <5>3. ran'[Len(ran') - d] # ran'[Len(ran')]
          BY <2>1, <2>5, <3>3, <4>0, <5>1
        <5> QED BY <5>2, <5>3
      <4> QED BY <2>1, <4>0, <4>1, <4>2
    <3>5. prev_sig' = ran'[Len(ran')] /\ ran' # <<>>
      BY <1>4, <2>1
    <3>6. StreakCounts'
      BY <2>5, <3>2, <3>3, <3>4, <3>5 DEF StreakCounts
    <3> QED BY <1>1, <2>1, <2>4, <3>6 DEF RutInv, OneAtATimeStep
  <2>7. CASE sig # prev_sig
    <3>1. repeat_streak' = 0
      BY <1>4, <2>7 DEF Streak
    <3>2. 1 < Len(ran') => ran'[Len(ran') - 1] # ran'[Len(ran')]
      <4> SUFFICES ASSUME 1 < Len(ran') PROVE ran'[Len(ran') - 1] # ran'[Len(ran')]
        OBVIOUS
      <4>1. ran # <<>> /\ Len(ran) \in 1..Len(ran) /\ Len(ran') - 1 = Len(ran)
        BY <1>1, <2>1
      <4>2. prev_sig = ran[Len(ran)]
        BY <1>1, <2>2, <4>1 DEF StreakCounts
      <4> QED BY <2>1, <2>7, <4>1, <4>2
    <3>3. \A i \in 1..Len(ran') - 3 : \E j, k \in i..i + 3 : ran'[j] # ran'[k]
      <4> SUFFICES ASSUME NEW i \in 1..Len(ran') - 3 PROVE \E j, k \in i..i + 3 : ran'[j] # ran'[k]
        OBVIOUS
      <4>0. Len(ran) \in Nat /\ i \in Nat /\ 1 <= i
        BY <1>1, <2>1
      <4>1. CASE i + 3 <= Len(ran)
        <5>1. PICK j, k \in i..i + 3 : ran[j] # ran[k]
          BY <1>1, <2>2, <4>0, <4>1 DEF StreakCounts
        <5>2. j \in 1..Len(ran) /\ k \in 1..Len(ran)
          BY <4>0, <4>1
        <5> QED BY <2>1, <5>1, <5>2
      <4>2. CASE i + 3 = Len(ran')
        <5>1. Len(ran') - 1 \in i..i + 3 /\ Len(ran') \in i..i + 3 /\ 1 < Len(ran')
          BY <2>1, <4>0, <4>2
        <5> QED BY <3>2, <5>1
      <4> QED BY <2>1, <4>0, <4>1, <4>2
    <3>4. prev_sig' = ran'[Len(ran')] /\ ran' # <<>>
      BY <1>4, <2>1
    <3>5. StreakCounts'
      BY <2>1, <3>1, <3>2, <3>3, <3>4 DEF StreakCounts
    <3> QED BY <1>1, <2>1, <2>4, <3>5 DEF RutInv, OneAtATimeStep
  <2> QED BY <2>6, <2>7
<1>5. CASE \E c \in Call, r \in Result :
              /\ ran' = Append(ran, <<c, r>>) /\ prev_sig' = <<c, r>> /\ repeat_streak' = Streak(<<c, r>>)
              /\ IF repeat_streak' >= 2 THEN pc' = "stopped" ELSE NextRound
  BY <1>4, <1>5 DEF Outcome
<1> QED BY <1>2, <1>3, <1>5 DEF BlockRound

LEMMA RutStep == RutInv /\ [LoopNext]_tlvars => RutInv' /\ [OneAtATimeStep]_tlvars
<1> SUFFICES ASSUME RutInv, [LoopNext]_tlvars PROVE RutInv' /\ [OneAtATimeStep]_tlvars
  OBVIOUS
<1>1. CASE Delta
  BY <1>1 DEF Delta, RutInv, Runs, StreakCounts, OneAtATimeStep
<1>2. CASE ClientRaises
  BY <1>2 DEF ClientRaises, RutInv, Runs, StreakCounts, OneAtATimeStep
<1>3. CASE NewTurn
  BY <1>3 DEF NewTurn, RutInv, Runs, StreakCounts, OneAtATimeStep
<1>4. CASE UNCHANGED tlvars
  BY <1>4 DEF tlvars, RutInv, Runs, StreakCounts
<1> QED BY <1>1, <1>2, <1>3, <1>4, RutText, RutBlock DEF LoopNext

LEMMA RutStart == LoopInit => RutInv
  BY DEF LoopInit, RutInv, Runs, StreakCounts

\* Two that differ among four make a set of more than one.
LEMMA FourAreTwo ==
    ASSUME NEW s \in Seq(Outcome), NEW i \in 1..Len(s) - 3, NEW j \in i..i + 3, NEW k \in i..i + 3, s[j] # s[k]
    PROVE  Cardinality(Range(SubSeq(s, i, i + 3))) > 1
<1> DEFINE four == {s[i], s[i + 1], s[i + 2], s[i + 3]}
<1>1. Range(SubSeq(s, i, i + 3)) = four
  <2> DEFINE w == SubSeq(s, i, i + 3)
  <2>1. DOMAIN w = 1..4 /\ w[1] = s[i] /\ w[2] = s[i + 1] /\ w[3] = s[i + 2] /\ w[4] = s[i + 3]
    <3>1. i \in Nat /\ 1 <= i /\ i + 3 <= Len(s) /\ Len(s) \in Nat
      OBVIOUS
    <3>2. w = [x \in 1..i + 3 - i + 1 |-> s[i + x - 1]]
      BY <3>1
    <3>3. i + 3 - i + 1 = 4
      BY <3>1
    <3>4. w = [x \in 1..4 |-> s[i + x - 1]]
      BY <3>2, <3>3
    <3>5. i + 1 - 1 = i /\ i + 2 - 1 = i + 1 /\ i + 3 - 1 = i + 2 /\ i + 4 - 1 = i + 3
      BY <3>1
    <3> HIDE DEF w
    <3> QED BY <3>4, <3>5
  <2> HIDE DEF w
  <2>2. 1..4 = {1, 2, 3, 4}
    OBVIOUS
  <2>3. Range(w) = {w[x] : x \in {1, 2, 3, 4}}
    BY <2>1, <2>2 DEF Range
  <2>4. Range(w) = {w[1], w[2], w[3], w[4]}
    BY <2>3
  <2> QED BY <2>1, <2>4 DEF w
<1>2. IsFiniteSet(four)
  <2>1. IsFiniteSet({s[i]})
    BY FS_Singleton
  <2>2. IsFiniteSet({s[i]} \cup {s[i + 1]})
    BY <2>1, FS_AddElement
  <2>3. IsFiniteSet({s[i]} \cup {s[i + 1]} \cup {s[i + 2]})
    BY <2>2, FS_AddElement
  <2>4. IsFiniteSet({s[i]} \cup {s[i + 1]} \cup {s[i + 2]} \cup {s[i + 3]})
    BY <2>3, FS_AddElement
  <2>5. four = {s[i]} \cup {s[i + 1]} \cup {s[i + 2]} \cup {s[i + 3]}
    OBVIOUS
  <2> QED BY <2>4, <2>5
<1>3. IsFiniteSet({s[j]} \cup {s[k]}) /\ Cardinality({s[j]} \cup {s[k]}) = 2
  <2>1. IsFiniteSet({s[j]}) /\ Cardinality({s[j]}) = 1 /\ s[k] \notin {s[j]}
    BY FS_Singleton
  <2>2. IsFiniteSet({s[j]} \cup {s[k]})
    BY <2>1, FS_AddElement
  <2>3. Cardinality({s[j]} \cup {s[k]}) = IF s[k] \in {s[j]} THEN Cardinality({s[j]}) ELSE Cardinality({s[j]}) + 1
    BY <2>1, FS_AddElement
  <2> DEFINE two == Cardinality({s[j]} \cup {s[k]})
             one == Cardinality({s[j]})
  <2>4. two = one + 1 /\ one = 1
    BY <2>1, <2>3
  <2> HIDE DEF two, one
  <2>5. two = 2
    BY <2>4
  <2> QED BY <2>2, <2>5 DEF two
<1>4. {s[j]} \cup {s[k]} \in SUBSET four
  <2>1. j \in {i, i + 1, i + 2, i + 3} /\ k \in {i, i + 1, i + 2, i + 3}
    OBVIOUS
  <2> QED BY <2>1
<1> HIDE DEF four
<1>5. Cardinality(four) \in Nat
  BY <1>2, FS_CardinalityType
<1>6. 2 <= Cardinality(four)
  BY <1>2, <1>3, <1>4, FS_Subset
<1> QED BY <1>1, <1>5, <1>6

\* Act, observe, decide: for any number of rounds, calls and results, a call is executed
\* only by a generation that was shown the results of all calls before it, one at a time
\* (agent_chat_stream, run_with_tools).
THEOREM CallsFollowResults == LoopSpec => OneAtATime
  BY RutStart, RutStep, PTL DEF LoopSpec, OneAtATime

\* The blocking loop never makes the same call with the same result a fourth time in a
\* row, refusals in between or not, however many rounds it may take (run_with_tools).
THEOREM NeverInARut == LoopSpec => []NoRut
<1>1. ASSUME RutInv PROVE NoRut
  <2> SUFFICES ASSUME path = "block", NEW i \in 1..Len(ran) - 3
               PROVE  Cardinality(Range(SubSeq(ran, i, i + 3))) > 1
    BY DEF NoRut
  <2>1. PICK j, k \in i..i + 3 : ran[j] # ran[k]
    BY <1>1 DEF RutInv, StreakCounts
  <2> QED BY <1>1, <2>1, FourAreTwo DEF RutInv, Runs
<1> QED BY <1>1, RutStart, RutStep, PTL DEF LoopSpec

-----------------------------------------------------------------------------
(***************************************************************************)
(* Persona.  A write under way will put the prose back and, when nothing   *)
(* fails, what she last chose: that is what makes the properties           *)
(* inductive, for they speak of the file between two writes.               *)
(***************************************************************************)
StateType == [prose : BOOLEAN, mood : Mood \cup {NoMood}, traits : SUBSET Trait]

Chosen(state) ==
    /\ state.mood = want.mood
    /\ want.traits \subseteq state.traits
    /\ state.traits \subseteq want.traits \cup stuck

PersonaInv ==
    /\ writing = NoWrite \/ writing.pc = "write"
    /\ "crash" \notin pfaults => md.prose /\ (writing # NoWrite => writing.state.prose)
    /\ pfaults = {} =>
          /\ md \in StateType
          /\ want \in [mood : Mood \cup {NoMood}, traits : SUBSET Trait]
          /\ stuck \subseteq Trait
          /\ writing # NoWrite => writing.state \in StateType /\ Chosen(writing.state)
          /\ writing = NoWrite => Chosen(md)

LEMMA PersonaStart == PersonaInit => PersonaInv
  BY DEF PersonaInit, PersonaInv, StateType, Chosen, NoWrite

LEMMA PersonaReply ==
    ASSUME PersonaInv, NEW tag \in Tag, ReplyTags(tag)
    PROVE  PersonaInv'
<1>1. writing'.pc = "write" /\ writing' # NoWrite
  BY DEF ReplyTags, StartWrite, NoWrite
<1>2. writing'.state.prose = md.prose /\ md' = md /\ pfaults' = pfaults
  BY DEF ReplyTags, StartWrite, Rewritten
<1>3. ASSUME pfaults = {}
      PROVE  (writing.state \in StateType /\ Chosen(writing.state))'
             /\ want' \in [mood : Mood \cup {NoMood}, traits : SUBSET Trait] /\ stuck' \subseteq Trait
  <2> USE <1>3 DEF PersonaInv, ReplyTags
  <2>1. writing = NoWrite /\ Chosen(md) /\ md \in StateType
    OBVIOUS
  <2>2. CASE tag.kind = "mood"
    BY <2>1, <2>2 DEF StartWrite, Rewritten, Tagged, Wanted, TraitsAfter, Tag, StateType, Chosen
  <2>3. CASE tag.kind = "+"
    BY <2>1, <2>3 DEF StartWrite, Rewritten, Tagged, Wanted, TraitsAfter, Tag, StateType, Chosen
  <2>4. CASE tag.kind = "-"
    BY <2>1, <2>4 DEF StartWrite, Rewritten, Tagged, Wanted, TraitsAfter, Tag, StateType, Chosen
  <2> QED BY <2>2, <2>3, <2>4 DEF Tag
<1> QED BY <1>1, <1>2, <1>3 DEF PersonaInv

LEMMA PersonaTool ==
    ASSUME PersonaInv, NEW tag \in Tag, ToolSets(tag)
    PROVE  PersonaInv'
<1>1. writing'.pc = "write" /\ writing' # NoWrite
  BY DEF ToolSets, StartWrite, NoWrite
<1>2. writing'.state.prose = md.prose /\ md' = md /\ pfaults' = pfaults
  BY DEF ToolSets, StartWrite, Rewritten
<1>3. ASSUME pfaults = {}
      PROVE  (writing.state \in StateType /\ Chosen(writing.state))'
             /\ want' \in [mood : Mood \cup {NoMood}, traits : SUBSET Trait] /\ stuck' \subseteq Trait
  BY <1>3 DEF PersonaInv, ToolSets, StartWrite, Rewritten, Wanted, TraitsAfter, Tag, StateType, Chosen
<1> QED BY <1>1, <1>2, <1>3 DEF PersonaInv

LEMMA PersonaNight ==
    ASSUME PersonaInv, Curate
    PROVE  PersonaInv'
<1>1. writing'.pc = "write" /\ writing' # NoWrite
  BY DEF Curate, StartWrite, NoWrite
<1>2. writing'.state.prose = md.prose /\ md' = md /\ pfaults' = pfaults
  BY DEF Curate, StartWrite, Rewritten
<1>3. ASSUME pfaults = {}
      PROVE  (writing.state \in StateType /\ Chosen(writing.state))'
             /\ want' \in [mood : Mood \cup {NoMood}, traits : SUBSET Trait] /\ stuck' \subseteq Trait
  <2>1. PICK kept \in SUBSET md.traits : /\ StartWrite([md EXCEPT !.traits = kept])
                                         /\ want' = [want EXCEPT !.traits = @ \cap kept]
    BY <1>3 DEF Curate, CappedTraits
  <2> QED BY <1>3, <2>1 DEF PersonaInv, Curate, StartWrite, Rewritten, StateType, Chosen
<1> QED BY <1>1, <1>2, <1>3 DEF PersonaInv

LEMMA PersonaStep == PersonaInv /\ [PersonaNext]_pvars => PersonaInv'
<1> SUFFICES ASSUME PersonaInv, [PersonaNext]_pvars PROVE PersonaInv'
  OBVIOUS
<1>1. CASE EndWrite
  BY <1>1 DEF EndWrite, PersonaInv, NoWrite, Chosen
<1>2. CASE DiesWriting
  BY <1>2 DEF DiesWriting, PersonaInv, NoWrite
<1>3. CASE UNCHANGED pvars
  BY <1>3 DEF pvars, PersonaInv, Chosen
<1> QED BY <1>1, <1>2, <1>3, PersonaReply, PersonaTool, PersonaNight DEF PersonaNext

\* What was chosen stands: for every set of moods and traits, every cap and any number of
\* replies, tool calls and nights, the file between two writes has the mood she last
\* expressed, the traits she took on and none she dropped but the last of her list, and
\* no writer loses the prose (apply_personality_tags, set_trait, consolidate_personality,
\* write_state).
THEOREM ChosenAlwaysStands == PersonaSpec => []WhatSheChose
<1>1. PersonaInv => WhatSheChose
  BY DEF PersonaInv, WhatSheChose, ChosenStands, VoiceKept, Settled, Chosen
<1> QED BY <1>1, PersonaStart, PersonaStep, PTL DEF PersonaSpec

-----------------------------------------------------------------------------
(***************************************************************************)
(* The gateway.  When nothing overlaps one turn is in flight, his words    *)
(* are the newest in what it reads until they are taken, and nobody else   *)
(* writes there; overlapping, what is taken is still his or a tool's, and  *)
(* a tool's is not captured.                                               *)
(***************************************************************************)
Kind == {"none", "user", "tool", "her", "joined", "part", "call", "prompt", "director"}
Noting == IF "note" \in gfaults THEN BOOLEAN ELSE {FALSE}
MsgType == [kind : Kind, n : Nat, noted : Noting]
GatePcs == {"none", "gate", "transcript", "pre", "arm", "scene", "hear", "stream", "end"}
TurnType == [pc : GatePcs, path : {"none", "console", "openai"}, s : Console \cup {"none"},
             l : Nat, human : MsgType, scene : BOOLEAN, said : BOOLEAN]

GateTypes ==
    /\ gturn \in [TurnId -> TurnType] /\ work \in [TurnId -> {"none", "on", "done", "mute", "failed"}]
    /\ lists \in [TurnId -> Seq(MsgType)] /\ client \in [Console -> Seq(MsgType)]
    /\ table \in Seq([s : Console, l : TurnId])
    /\ \A n \in TurnId : /\ gturn[n].pc # "none" => gturn[n].s \in Console /\ gturn[n].l \in TurnId
                         /\ work[n] = "on" => gturn[n].pc # "none"

\* A turn has something to read, and the scheduler knows of one that streams.
HasWords == \A n \in TurnId :
    /\ gturn[n].pc \in {"gate", "transcript"} => client[gturn[n].s] # <<>>
    /\ gturn[n].pc \in {"pre", "arm", "scene"} => lists[gturn[n].l] # <<>>
    /\ gturn[n].pc = "stream" => n \in spoke

\* What a turn took for his words is his or a tool's.
HisOrTools == \A n \in TurnId : gturn[n].human = NoMsg \/ gturn[n].human.kind \in {"user", "tool"}

EndsWith(list, n) == list # <<>> /\ list[Len(list)].kind = "user" /\ list[Len(list)].n = n
Alone == gfaults \cap {"overlap", "gone"} = {}

\* Alone, a turn in flight finds its own words where it looks for them.
OwnWords ==
    /\ \A m, n \in InFlight : m = n
    /\ \A n \in TurnId :
          /\ work[n] = "on" => gturn[n].pc = "stream"
          /\ gturn[n].pc \in {"gate", "transcript"} => EndsWith(client[gturn[n].s], n)
          /\ gturn[n].pc \in {"pre", "arm"} => EndsWith(lists[gturn[n].l], n)
          /\ gturn[n].pc \in {"scene", "hear", "stream"} => gturn[n].human.n = n

GateInv ==
    /\ GateTypes /\ HasWords /\ HisOrTools
    /\ Alone => OwnWords
    /\ NotHerOwn /\ HisTurn /\ NothingElse /\ HeardFirst

\* Without recall no message is noted.
LEMMA NotingIs == FALSE \in Noting /\ ("note" \in gfaults <=> TRUE \in Noting)
  BY DEF Noting

LEMMA PlainMsg ==
    ASSUME NEW kind \in Kind, NEW n \in Nat
    PROVE  [kind |-> kind, n |-> n, noted |-> FALSE] \in MsgType
  BY NotingIs, Zenon DEF MsgType

LEMMA NoMsgIs == NoMsg \in MsgType /\ NoMsg.kind = "none" /\ NoMsg.n = 0
<1>1. "none" \in Kind /\ 0 \in Nat
  BY DEF Kind
<1> QED BY <1>1, PlainMsg DEF NoMsg, Msg

\* The newest message in the user's role: one of the list if there is any, and the last
\* one if that is his.
LEMMA HumanTurnIs ==
    ASSUME NEW list \in Seq(MsgType)
    PROVE  /\ HumanTurn(list) \in MsgType
           /\ HumanTurn(list) = NoMsg \/ HumanTurn(list).kind \in {"user", "tool"}
           /\ \A n : EndsWith(list, n) => LastUser(list) = Len(list) /\ HumanTurn(list).n = n
<1> DEFINE I == {i \in 1..Len(list) : RoleUser(list[i])}
<1>1. LastUser(list) = IF I # {} THEN Max(I) ELSE 0
  BY DEF LastUser, SelectLastInSeq
<1>2. CASE I = {}
  <2>1. HumanTurn(list) = NoMsg
    BY <1>1, <1>2 DEF HumanTurn
  <2>2. \A n : ~EndsWith(list, n)
    BY <1>2 DEF EndsWith, RoleUser
  <2> QED BY <2>1, <2>2, NoMsgIs
<1>3. CASE I # {}
  <2>1. \E m \in I : \A y \in I : m >= y
    <3>1. I \in SUBSET (0..Len(list)) /\ Len(list) \in Nat
      OBVIOUS
    <3> QED BY <1>3, <3>1, GreatestNat
  <2>2. Max(I) \in I /\ \A y \in I : Max(I) >= y
    BY <2>1 DEF Max
  <2>3. LastUser(list) \in 1..Len(list) /\ RoleUser(list[LastUser(list)])
    BY <1>1, <1>3, <2>2
  <2>4. HumanTurn(list) = list[LastUser(list)]
    BY <2>3 DEF HumanTurn
  <2>5. \A n : EndsWith(list, n) => Len(list) \in I
    BY DEF EndsWith, RoleUser
  <2>6. \A n : EndsWith(list, n) => LastUser(list) = Len(list)
    BY <1>1, <1>3, <2>2, <2>3, <2>5
  <2> QED BY <2>3, <2>4, <2>6 DEF RoleUser, EndsWith
<1> QED BY <1>2, <1>3

LEMMA LastUserIs ==
    ASSUME NEW list \in Seq(MsgType)
    PROVE  LastUser(list) \in Nat
<1> DEFINE I == {i \in 1..Len(list) : RoleUser(list[i])}
<1>1. LastUser(list) = IF I # {} THEN Max(I) ELSE 0
  BY DEF LastUser, SelectLastInSeq
<1>2. CASE I # {}
  <2>1. \E m \in I : \A y \in I : m >= y
    <3>1. I \in SUBSET (0..Len(list)) /\ Len(list) \in Nat
      OBVIOUS
    <3> QED BY <1>2, <3>1, GreatestNat
  <2>2. Max(I) \in I
    BY <2>1 DEF Max
  <2> QED BY <1>1, <1>2, <2>2
<1> QED BY <1>1, <1>2

\* The session's entry, if it has one, is an entry of the table.
LEMMA SessionIs ==
    ASSUME NEW tab \in Seq([s : Console, l : TurnId]), NEW who
    PROVE  SessionAt(tab, who) \in 0..Len(tab)
<1> DEFINE I == {i \in 1..Len(tab) : tab[i].s = who}
<1>1. SessionAt(tab, who) = IF I # {} THEN Min(I) ELSE 0
  BY DEF SessionAt, SelectInSeq
<1>2. CASE I # {}
  <2>1. \E m \in I : \A y \in I : m <= y
    <3>1. I \in SUBSET Nat
      OBVIOUS
    <3> QED BY <1>2, <3>1, LeastNat
  <2>2. Min(I) \in I
    BY <2>1 DEF Min
  <2> QED BY <1>1, <1>2, <2>2
<1> QED BY <1>1, <1>2

LEMMA GateStart == GatewayInit => GateInv
<1> SUFFICES ASSUME GatewayInit PROVE GateInv
  OBVIOUS
<1>1. NoTurn \in TurnType /\ <<>> \in Seq(MsgType) /\ <<>> \in Seq([s : Console, l : TurnId])
  BY NoMsgIs DEF NoTurn, TurnType, GatePcs
<1>2. GateTypes
  BY <1>1 DEF GatewayInit, GateTypes, NoTurn
<1>3. HasWords /\ HisOrTools
  BY DEF GatewayInit, HasWords, HisOrTools, NoTurn
<1>4. OwnWords
  BY DEF GatewayInit, OwnWords, NoTurn, InFlight, Begun
<1>5. NotHerOwn /\ HisTurn /\ NothingElse /\ HeardFirst
  BY DEF GatewayInit, NotHerOwn, HisTurn, NothingElse, HeardFirst
<1> QED BY <1>2, <1>3, <1>4, <1>5 DEF GateInv

LEMMA MsgIs ==
    ASSUME NEW n \in TurnId, NEW kind \in {"user", "tool", "her", "joined", "part", "call", "prompt", "director"}
    PROVE  Msg(kind, n) \in MsgType /\ Msg(kind, n).kind = kind /\ Msg(kind, n).n = n
  BY GateAssumption, PlainMsg DEF Msg, Kind, TurnId

\* A step that leaves turn n at g: what it may change of the rest, what g owes, and what
\* it owes alone.
TurnStep(n, g) ==
    /\ g \in TurnType /\ g.pc # "none" /\ g.s \in Console /\ g.l \in TurnId
    /\ gturn' = [gturn EXCEPT ![n] = g] /\ gfaults' = gfaults
    /\ work' \in [TurnId -> {"none", "on", "done", "mute", "failed"}]
    /\ \A m \in TurnId : m # n => work'[m] = work[m]
    /\ lists' \in [TurnId -> Seq(MsgType)] /\ client' \in [Console -> Seq(MsgType)]
    /\ table' \in Seq([s : Console, l : TurnId])
    /\ \A l \in TurnId : lists[l] # <<>> => lists'[l] # <<>>
    /\ \A c \in Console : client[c] # <<>> => client'[c] # <<>>
    /\ spoke \subseteq spoke'

Owed(n, g) ==
    /\ g.pc \in {"gate", "transcript"} => client'[g.s] # <<>>
    /\ g.pc \in {"pre", "arm", "scene"} => lists'[g.l] # <<>>
    /\ g.pc = "stream" => n \in spoke'
    /\ g.human = NoMsg \/ g.human.kind \in {"user", "tool"}

OwedAlone(n, g) ==
    /\ \A m \in TurnId : m # n => gturn[m].pc \in {"none", "end"} /\ work[m] # "on"
    /\ work'[n] = "on" => g.pc = "stream"
    /\ g.pc \in {"gate", "transcript"} => EndsWith(client'[g.s], n)
    /\ g.pc \in {"pre", "arm"} => EndsWith(lists'[g.l], n)
    /\ g.pc \in {"scene", "hear", "stream"} => g.human.n = n

LEMMA Appended ==
    ASSUME NEW list \in Seq(MsgType), NEW m \in MsgType
    PROVE  /\ Append(list, m) \in Seq(MsgType) /\ Append(list, m) # <<>>
           /\ Append(list, m)[Len(Append(list, m))] = m
  OBVIOUS

LEMMA GateFacts ==
    ASSUME GateTypes
    PROVE  /\ gturn \in [TurnId -> TurnType] /\ work \in [TurnId -> {"none", "on", "done", "mute", "failed"}]
           /\ \A n \in TurnId : gturn[n] \in TurnType
           /\ \A n \in TurnId : gturn[n].pc # "none" => gturn[n].s \in Console /\ gturn[n].l \in TurnId
           /\ \A n \in TurnId : work[n] = "on" => gturn[n].pc # "none"
           /\ \A l \in TurnId : lists[l] \in Seq(MsgType)
           /\ \A c \in Console : client[c] \in Seq(MsgType)
           /\ table \in Seq([s : Console, l : TurnId])
<1>1. \A n \in TurnId : /\ gturn[n].pc # "none" => gturn[n].s \in Console /\ gturn[n].l \in TurnId
                        /\ work[n] = "on" => gturn[n].pc # "none"
  BY Zenon DEF GateTypes
<1>2. \A n \in TurnId : gturn[n] \in TurnType
  BY DEF GateTypes
<1>3. \A l \in TurnId : lists[l] \in Seq(MsgType)
  BY DEF GateTypes
<1>4. \A c \in Console : client[c] \in Seq(MsgType)
  BY DEF GateTypes
<1> QED BY <1>1, <1>2, <1>3, <1>4, Zenon DEF GateTypes

LEMMA GateByTurn ==
    ASSUME GateInv, NEW n \in TurnId, NEW g, TurnStep(n, g), Owed(n, g), Alone => OwedAlone(n, g),
           (NotHerOwn /\ HisTurn /\ NothingElse /\ HeardFirst)'
    PROVE  GateInv'
<1>0. /\ \A m \in TurnId : gturn[m].pc # "none" => gturn[m].s \in Console /\ gturn[m].l \in TurnId
      /\ \A m \in TurnId : work[m] = "on" => gturn[m].pc # "none"
  BY GateFacts, Zenon DEF GateInv
<1>1. \A m \in TurnId : gturn'[m] = IF m = n THEN g ELSE gturn[m]
  BY DEF GateInv, GateTypes, TurnStep
<1>2. GateTypes'
  <2>1. gturn' \in [TurnId -> TurnType]
    BY DEF GateInv, GateTypes, TurnStep
  <2>2. \A m \in TurnId : gturn'[m].pc # "none" => gturn'[m].s \in Console /\ gturn'[m].l \in TurnId
    BY <1>1, <1>0 DEF TurnStep
  <2>3. \A m \in TurnId : work'[m] = "on" => gturn'[m].pc # "none"
    BY <1>1, <1>0 DEF TurnStep
  <2>4. MsgType' = MsgType /\ TurnType' = TurnType
    BY DEF TurnStep, Noting, MsgType, TurnType
  <2> QED BY <2>1, <2>2, <2>3, <2>4 DEF TurnStep, GateTypes
<1>3. HasWords'
  <2>1. \A m \in TurnId : m # n =>
           /\ gturn[m].pc \in {"gate", "transcript"} => client'[gturn[m].s] # <<>>
           /\ gturn[m].pc \in {"pre", "arm", "scene"} => lists'[gturn[m].l] # <<>>
           /\ gturn[m].pc = "stream" => m \in spoke'
    BY <1>0 DEF GateInv, HasWords, TurnStep
  <2> QED BY <1>1, <2>1 DEF HasWords, Owed
<1>4. HisOrTools'
  BY <1>1 DEF GateInv, HisOrTools, Owed
<1>5. ASSUME Alone' PROVE OwnWords'
  <2>1. OwedAlone(n, g)
    BY <1>5 DEF Alone, TurnStep
  <2>2. \A m \in TurnId : m # n => gturn'[m].pc \in {"none", "end"} /\ work'[m] # "on"
    BY <1>1, <2>1 DEF OwedAlone, TurnStep
  <2>3. \A m \in InFlight' : m = n
    BY <2>2 DEF InFlight, Begun
  <2> QED BY <1>1, <2>1, <2>2, <2>3 DEF OwnWords, OwedAlone
<1> QED BY <1>2, <1>3, <1>4, <1>5 DEF GateInv

\* Alone, the others rest while a turn is in flight.
LEMMA OthersRest ==
    ASSUME GateInv, Alone, NEW n \in TurnId, gturn[n].pc \notin {"none", "end"} \/ work[n] = "on"
    PROVE  \A m \in TurnId : m # n => gturn[m].pc \in {"none", "end"} /\ work[m] # "on"
<1>1. \A m \in TurnId : work[m] = "on" => gturn[m].pc # "none"
  BY GateFacts, Zenon DEF GateInv
<1>2. \A m \in TurnId : gturn[m].pc \notin {"none", "end"} \/ work[m] = "on" => m \in InFlight
  BY <1>1 DEF InFlight, Begun
<1> QED BY <1>2 DEF GateInv, OwnWords

\* Steps that move one turn on and touch nothing but what the scheduler knows of it.
LEMMA GateMoves ==
    ASSUME GateInv, NEW n \in TurnId, NEW g \in TurnType, gturn[n].pc # "none",
           g.pc # "none", g.s = gturn[n].s, g.l = gturn[n].l,
           gturn' = [gturn EXCEPT ![n] = g], UNCHANGED <<lists, client, table, gfaults>>,
           work' \in [TurnId -> {"none", "on", "done", "mute", "failed"}],
           \A m \in TurnId : m # n => work'[m] = work[m], spoke \subseteq spoke'
    PROVE  TurnStep(n, g)
<1>1. gturn[n].s \in Console /\ gturn[n].l \in TurnId
  BY GateFacts, Zenon DEF GateInv
<1>2. lists' \in [TurnId -> Seq(MsgType)] /\ client' \in [Console -> Seq(MsgType)]
      /\ table' \in Seq([s : Console, l : TurnId])
  BY DEF GateInv, GateTypes
<1> QED BY <1>1, <1>2 DEF TurnStep

LEMMA GateGate == ASSUME GateInv, NEW n \in TurnId, Gate(n) PROVE GateInv'
<1> DEFINE g == [gturn[n] EXCEPT !.pc = "transcript"]
<1>1. gturn[n] \in TurnType /\ gturn[n].pc = "gate"
  BY DEF Gate, GateInv, GateTypes
<1>2. g \in TurnType /\ g.pc = "transcript" /\ g.s = gturn[n].s /\ g.l = gturn[n].l /\ g.human = gturn[n].human
  BY <1>1 DEF TurnType, GatePcs
<1>3. /\ gturn' = [gturn EXCEPT ![n] = g]
      /\ UNCHANGED <<work, lists, table, client, cache, question, captured, spoke, replied, gfaults>>
  BY DEF Gate, GateInv, GateTypes
<1> HIDE DEF g
<1>4. TurnStep(n, g)
  BY <1>1, <1>2, <1>3, GateMoves DEF GateInv, GateTypes
<1>5. Owed(n, g)
  BY <1>1, <1>2, <1>3 DEF GateInv, HasWords, HisOrTools, Owed
<1>6. Alone => OwedAlone(n, g)
  BY <1>1, <1>2, <1>3, OthersRest DEF GateInv, OwnWords, OwedAlone
<1>7. (NotHerOwn /\ HisTurn /\ NothingElse /\ HeardFirst)'
  BY <1>3 DEF GateInv, NotHerOwn, HisTurn, NothingElse, HeardFirst
<1> QED BY <1>4, <1>5, <1>6, <1>7, GateByTurn

LEMMA GateRun == ASSUME GateInv, NEW n \in TurnId, Run(n) PROVE GateInv'
<1> DEFINE g == [gturn[n] EXCEPT !.pc = "stream"]
<1>1. gturn[n] \in TurnType /\ gturn[n].pc = "hear"
  BY DEF Run, GateInv, GateTypes
<1>2. g \in TurnType /\ g.pc = "stream" /\ g.s = gturn[n].s /\ g.l = gturn[n].l /\ g.human = gturn[n].human
  BY <1>1 DEF TurnType, GatePcs
<1>3. /\ gturn' = [gturn EXCEPT ![n] = g]
      /\ work' = [work EXCEPT ![n] = "on"] /\ spoke' = spoke \union {n}
      /\ UNCHANGED <<lists, table, client, cache, question, captured, replied, gfaults>>
  BY DEF Run, Hear, GateInv, GateTypes
<1> HIDE DEF g
<1>4. TurnStep(n, g)
  BY <1>1, <1>2, <1>3, GateMoves DEF GateInv, GateTypes
<1>5. Owed(n, g)
  BY <1>1, <1>2, <1>3 DEF GateInv, HisOrTools, Owed
<1>6. Alone => OwedAlone(n, g)
  BY <1>1, <1>2, <1>3, OthersRest DEF GateInv, OwnWords, OwedAlone
<1>7. (NotHerOwn /\ HisTurn /\ NothingElse /\ HeardFirst)'
  BY <1>3 DEF GateInv, NotHerOwn, HisTurn, NothingElse, HeardFirst
<1> QED BY <1>4, <1>5, <1>6, <1>7, GateByTurn

\* _arm_turn takes the newest message in his role; alone, that is what he said.
LEMMA GateArm == ASSUME GateInv, NEW n \in TurnId, ArmTurn(n) PROVE GateInv'
<1> DEFINE human == HumanTurn(lists[gturn[n].l])
<1> DEFINE g == [gturn[n] EXCEPT !.pc = "scene", !.human = human]
<1>1. gturn[n] \in TurnType /\ gturn[n].pc = "arm" /\ lists[gturn[n].l] \in Seq(MsgType)
  <2>1. gturn[n].pc = "arm"
    BY DEF ArmTurn
  <2> QED BY <2>1, GateFacts DEF GateInv
<1>h. /\ human \in MsgType /\ (human = NoMsg \/ human.kind \in {"user", "tool"})
      /\ EndsWith(lists[gturn[n].l], n) => human.n = n
  BY <1>1, HumanTurnIs
<1>2. g \in TurnType /\ g.pc = "scene" /\ g.s = gturn[n].s /\ g.l = gturn[n].l /\ g.human = human
  BY <1>1, <1>h DEF TurnType, GatePcs
<1>3. /\ gturn' = [gturn EXCEPT ![n] = g] /\ spoke \subseteq spoke'
      /\ UNCHANGED <<work, lists, table, client, cache, captured, replied, gfaults>>
  BY DEF ArmTurn, GateInv, GateTypes
<1> HIDE DEF g, human
<1>4. TurnStep(n, g)
  BY <1>1, <1>2, <1>3, GateMoves DEF GateInv, GateTypes
<1>5. Owed(n, g)
  BY <1>1, <1>h, <1>2, <1>3 DEF GateInv, HasWords, Owed
<1>6. Alone => OwedAlone(n, g)
  BY <1>1, <1>h, <1>2, <1>3, OthersRest DEF GateInv, OwnWords, OwedAlone
<1>7. (NotHerOwn /\ HisTurn /\ NothingElse /\ HeardFirst)'
  BY <1>3 DEF GateInv, NotHerOwn, HisTurn, NothingElse, HeardFirst
<1> QED BY <1>4, <1>5, <1>6, <1>7, GateByTurn

\* The worker puts her messages into the list its turn reads.
LEMMA GatePut ==
    ASSUME GateInv, NEW n \in TurnId, NEW ms \in Seq(MsgType), gturn[n].pc # "none", Put(n, ms)
    PROVE  /\ lists' \in [TurnId -> Seq(MsgType)]
           /\ \A l \in TurnId : lists[l] # <<>> => lists'[l] # <<>>
<1>1. gturn[n].l \in TurnId /\ lists[gturn[n].l] \in Seq(MsgType) /\ lists \in [TurnId -> Seq(MsgType)]
  BY GateFacts DEF GateInv, GateTypes
<1>2. lists[gturn[n].l] \o ms \in Seq(MsgType)
      /\ (lists[gturn[n].l] # <<>> => lists[gturn[n].l] \o ms # <<>>)
  BY <1>1
<1> QED BY <1>1, <1>2 DEF Put

\* What is kept of her answer; as she wrote it, when nothing is stripped or joined.
LEMMA FinalIs ==
    ASSUME NEW n \in TurnId
    PROVE  \A final \in Final(n) : /\ final \in Seq(MsgType)
                                   /\ "rejoin" \notin gfaults => final = <<Msg("her", n)>>
<1>1. Msg("her", n) \in MsgType /\ Msg("joined", n) \in MsgType
  BY MsgIs
<1>2. /\ <<>> \in Seq(MsgType) /\ <<Msg("her", n)>> \in Seq(MsgType)
      /\ <<Msg("joined", n)>> \in Seq(MsgType)
  BY <1>1
<1> QED BY <1>2, Zenon DEF Final

LEMMA GateWorks ==
    ASSUME GateInv, NEW n \in TurnId, Round(n) \/ Answer(n) \/ Raise(n)
    PROVE  GateInv'
<1> DEFINE g == gturn'[n]
<1>1. work[n] = "on" /\ gturn[n].pc # "none" /\ gturn[n] \in TurnType
      /\ gturn[n].s \in Console /\ gturn[n].l \in TurnId
  <2>1. work[n] = "on"
    BY DEF Round, Answer, Raise
  <2> QED BY <2>1, GateFacts DEF GateInv
<1>2. /\ g \in TurnType /\ g.pc = gturn[n].pc /\ g.s = gturn[n].s /\ g.l = gturn[n].l
      /\ g.human = gturn[n].human /\ gturn' = [gturn EXCEPT ![n] = g]
  <2>1. CASE Round(n)
    BY <1>1, <2>1 DEF Round, TurnType, GateInv, GateTypes
  <2>2. CASE Answer(n) \/ Raise(n)
    BY <1>1, <2>2 DEF Answer, Raise, GateInv, GateTypes
  <2> QED BY <2>1, <2>2
<1>3. UNCHANGED <<table, client, captured, spoke, replied, gfaults>>
  BY DEF Round, Answer, Raise
<1>4. work' \in [TurnId -> {"none", "on", "done", "mute", "failed"}] /\ \A m \in TurnId : m # n => work'[m] = work[m]
  BY DEF Round, Answer, Raise, Fail, GateInv, GateTypes
<1>5. /\ lists' \in [TurnId -> Seq(MsgType)]
      /\ \A l \in TurnId : lists[l] # <<>> => lists'[l] # <<>>
  <2>1. CASE Round(n)
    <3>1. <<Msg("call", n), Msg("tool", n)>> \in Seq(MsgType)
      BY MsgIs
    <3> QED BY <1>1, <2>1, <3>1, GatePut DEF Round
  <2>2. CASE Answer(n)
    <3>1. \A final \in Final(n) : final \in Seq(MsgType)
      BY FinalIs
    <3> QED BY <1>1, <2>2, <3>1, GatePut DEF Answer
  <2>3. CASE Raise(n)
    <3>1. <<Msg("call", n)>> \in Seq(MsgType)
      BY MsgIs
    <3>2. CASE UNCHANGED lists
      BY <3>2 DEF GateInv, GateTypes
    <3>3. CASE Put(n, <<Msg("call", n)>>)
      BY <1>1, <3>1, <3>3, GatePut
    <3> QED BY <2>3, <3>2, <3>3 DEF Raise
  <2> QED BY <2>1, <2>2, <2>3
<1>t. client \in [Console -> Seq(MsgType)] /\ table \in Seq([s : Console, l : TurnId])
  BY DEF GateInv, GateTypes
<1> HIDE DEF g
<1>6. TurnStep(n, g)
  BY <1>1, <1>2, <1>3, <1>4, <1>5, <1>t DEF TurnStep
<1>7. Owed(n, g)
  BY <1>1, <1>2, <1>3, <1>5 DEF GateInv, HasWords, HisOrTools, Owed
<1>8. ASSUME Alone PROVE OwedAlone(n, g)
  <2>1. g.pc = "stream" /\ g.human.n = n
    BY <1>1, <1>2, <1>8 DEF GateInv, OwnWords
  <2> QED BY <1>1, <1>8, <2>1, OthersRest DEF OwedAlone
<1>9. (NotHerOwn /\ HisTurn /\ NothingElse /\ HeardFirst)'
  BY <1>3 DEF GateInv, NotHerOwn, HisTurn, NothingElse, HeardFirst
<1> QED BY <1>6, <1>7, <1>8, <1>9, GateByTurn

\* A turn that ends in this step, with a message to the console or without one.
LEMMA GateEnds ==
    ASSUME GateInv, NEW n \in TurnId, gturn[n].pc \notin {"none", "end"}, gturn' = Ended(n),
           Tell(n) \/ UNCHANGED client,
           lists' \in [TurnId -> Seq(MsgType)], \A l \in TurnId : lists[l] # <<>> => lists'[l] # <<>>,
           UNCHANGED <<work, table, spoke, gfaults>>,
           Alone => work[n] # "on",
           (NotHerOwn /\ HisTurn /\ NothingElse /\ HeardFirst)'
    PROVE  GateInv'
<1> DEFINE g == [gturn[n] EXCEPT !.pc = "end"]
<1>1. /\ gturn[n] \in TurnType /\ gturn[n].s \in Console /\ gturn[n].l \in TurnId
      /\ client[gturn[n].s] \in Seq(MsgType) /\ client \in [Console -> Seq(MsgType)]
      /\ work \in [TurnId -> {"none", "on", "done", "mute", "failed"}] /\ table \in Seq([s : Console, l : TurnId])
  BY GateFacts DEF GateInv, GateTypes
<1>2. g \in TurnType /\ g.pc = "end" /\ g.s = gturn[n].s /\ g.l = gturn[n].l /\ g.human = gturn[n].human
  BY <1>1 DEF TurnType, GatePcs
<1>3. gturn' = [gturn EXCEPT ![n] = g]
  BY DEF Ended, GateInv, GateTypes
<1>4. client' \in [Console -> Seq(MsgType)] /\ \A c \in Console : client[c] # <<>> => client'[c] # <<>>
  <2>1. CASE Tell(n)
    <3>1. Append(client[gturn[n].s], Msg("her", n)) \in Seq(MsgType)
          /\ Append(client[gturn[n].s], Msg("her", n)) # <<>>
      <4>1. Msg("her", n) \in MsgType
        BY MsgIs
      <4> QED BY <1>1, <4>1, Appended
    <3> QED BY <1>1, <2>1, <3>1 DEF Tell
  <2>2. CASE UNCHANGED client
    BY <1>1, <2>2
  <2> QED BY <2>1, <2>2
<1> HIDE DEF g
<1>5. TurnStep(n, g)
  BY <1>1, <1>2, <1>3, <1>4 DEF TurnStep
<1>6. Owed(n, g)
  BY <1>2 DEF GateInv, HisOrTools, Owed
<1>7. Alone => OwedAlone(n, g)
  BY <1>2, OthersRest DEF OwedAlone
<1> QED BY <1>5, <1>6, <1>7, GateByTurn

LEMMA GateGone == ASSUME GateInv, NEW n \in TurnId, Gone(n) PROVE GateInv'
<1>1. /\ gturn[n].pc = "stream" /\ gturn' = Ended(n) /\ "gone" \in gfaults
      /\ UNCHANGED <<work, lists, table, client, captured, spoke, replied, gfaults>>
  BY DEF Gone
<1>2. lists' \in [TurnId -> Seq(MsgType)] /\ \A l \in TurnId : lists[l] # <<>> => lists'[l] # <<>>
  BY <1>1 DEF GateInv, GateTypes
<1>3. (NotHerOwn /\ HisTurn /\ NothingElse /\ HeardFirst)'
  BY <1>1 DEF GateInv, NotHerOwn, HisTurn, NothingElse, HeardFirst
<1>4. ~Alone
  BY <1>1 DEF Alone
<1> QED BY <1>1, <1>2, <1>3, <1>4, GateEnds

\* What is captured is what the turn took at its top.
LEMMA GateDone == ASSUME GateInv, NEW n \in TurnId, Done(n) PROVE GateInv'
<1>1. /\ gturn[n].pc = "stream" /\ work[n] # "on" /\ gturn' = Ended(n)
      /\ UNCHANGED <<work, lists, table, spoke, gfaults>> /\ (Tell(n) \/ UNCHANGED client)
  BY DEF Done
<1>2. lists' \in [TurnId -> Seq(MsgType)] /\ \A l \in TurnId : lists[l] # <<>> => lists'[l] # <<>>
  BY <1>1 DEF GateInv, GateTypes
<1>3. \A c \in captured' : c \in captured \/ (Capturable(gturn[n].human) /\ c = [n |-> n, msg |-> gturn[n].human])
  BY DEF Done
<1>4. NotHerOwn'
  BY <1>3 DEF GateInv, NotHerOwn, HisOrTools, Capturable
<1>5. HisTurn' /\ NothingElse'
  <2>1. HisTurn'
    BY <1>1, <1>3 DEF GateInv, HisTurn, OwnWords, Alone
  <2>2. gturn[n].human.noted => "note" \in gfaults
    <3>1. gturn[n].human \in MsgType
      BY GateFacts DEF GateInv, TurnType
    <3> QED BY <3>1, NotingIs DEF MsgType
  <2> QED BY <1>1, <1>3, <2>1, <2>2 DEF GateInv, NothingElse
<1>6. HeardFirst'
  BY <1>1 DEF Done, GateInv, HeardFirst, HasWords
<1> QED BY <1>1, <1>2, <1>4, <1>5, <1>6, GateEnds

\* A note goes onto his newest message and changes neither whose it is nor its turn.
LEMMA Noted ==
    ASSUME NEW list \in Seq(MsgType), NEW u \in Nat, "note" \in gfaults
    PROVE  LET noted == [list EXCEPT ![u].noted = TRUE]
           IN  /\ noted \in Seq(MsgType) /\ Len(noted) = Len(list)
               /\ \A i \in 1..Len(list) : noted[i].kind = list[i].kind /\ noted[i].n = list[i].n
               /\ \A i \in 1..Len(list) : i # u => noted[i] = list[i]
<1> DEFINE mark(m) == [m EXCEPT !.noted = TRUE]
           noted == [i \in 1..Len(list) |-> IF i = u THEN mark(list[i]) ELSE list[i]]
<1>1. \A m \in MsgType : mark(m) \in MsgType /\ mark(m).kind = m.kind /\ mark(m).n = m.n
  BY NotingIs DEF MsgType
<1>2. \A i \in 1..Len(list) : list[i] \in MsgType
  OBVIOUS
<1>3. [list EXCEPT ![u].noted = TRUE] = noted
  <2>1. list = [i \in 1..Len(list) |-> list[i]]
    OBVIOUS
  <2> QED BY <2>1
<1> HIDE DEF mark
<1>4. \A i \in 1..Len(list) : noted[i] \in MsgType
  BY <1>1, <1>2
<1>5. noted \in Seq(MsgType) /\ Len(noted) = Len(list)
  BY <1>4
<1>6. /\ \A i \in 1..Len(list) : noted[i].kind = list[i].kind /\ noted[i].n = list[i].n
      /\ \A i \in 1..Len(list) : i # u => noted[i] = list[i]
  BY <1>1, <1>2
<1> HIDE DEF noted
<1> QED BY <1>3, <1>5, <1>6

LEMMA GatePre == ASSUME GateInv, NEW n \in TurnId, PreTurn(n) PROVE GateInv'
<1> DEFINE l == gturn[n].l
           u == LastUser(lists[l])
           g == [gturn[n] EXCEPT !.pc = "arm"]
<1>1. /\ gturn[n].pc = "pre" /\ gturn[n] \in TurnType /\ l \in TurnId /\ gturn[n].s \in Console
      /\ lists[l] \in Seq(MsgType) /\ lists \in [TurnId -> Seq(MsgType)]
  <2>1. gturn[n].pc = "pre"
    BY DEF PreTurn
  <2> QED BY <2>1, GateFacts DEF GateInv, GateTypes
<1>2. UNCHANGED <<work, table, cache, question, captured, spoke, replied, gfaults>>
  BY DEF PreTurn
<1>3. (NotHerOwn /\ HisTurn /\ NothingElse /\ HeardFirst)'
  BY <1>2 DEF GateInv, NotHerOwn, HisTurn, NothingElse, HeardFirst
<1>4. CASE gturn' = Ended(n) /\ Tell(n) /\ lists' = [lists EXCEPT ![l] = Append(@, Msg("her", n))]
  <2>1. Append(lists[l], Msg("her", n)) \in Seq(MsgType) /\ Append(lists[l], Msg("her", n)) # <<>>
    <3>1. Msg("her", n) \in MsgType
      BY MsgIs
    <3> QED BY <1>1, <3>1, Appended
  <2>2. lists' \in [TurnId -> Seq(MsgType)] /\ \A k \in TurnId : lists[k] # <<>> => lists'[k] # <<>>
    BY <1>1, <1>4, <2>1
  <2>3. Alone => work[n] # "on"
    BY <1>1 DEF GateInv, OwnWords
  <2> QED BY <1>1, <1>2, <1>3, <1>4, <2>2, <2>3, GateEnds
<1>5. CASE /\ gturn' = [gturn EXCEPT ![n].pc = "arm"] /\ UNCHANGED client
           /\ lists' = lists \/ ("note" \in gfaults /\ lists' = [lists EXCEPT ![l][u].noted = TRUE])
  <2>1. g \in TurnType /\ g.pc = "arm" /\ g.s = gturn[n].s /\ g.l = l /\ g.human = gturn[n].human
    BY <1>1 DEF TurnType, GatePcs
  <2>2. gturn' = [gturn EXCEPT ![n] = g]
    BY <1>5 DEF GateInv, GateTypes
  <2>3. /\ lists' \in [TurnId -> Seq(MsgType)] /\ \A k \in TurnId : Len(lists'[k]) = Len(lists[k])
        /\ EndsWith(lists[l], n) => EndsWith(lists'[l], n)
    <3>1. CASE lists' = lists
      BY <1>1, <3>1
    <3>2. CASE "note" \in gfaults /\ lists' = [lists EXCEPT ![l][u].noted = TRUE]
      <4> DEFINE noted == [lists[l] EXCEPT ![u].noted = TRUE]
      <4>1. lists' = [lists EXCEPT ![l] = noted]
        BY <1>1, <3>2
      <4>2. /\ noted \in Seq(MsgType) /\ Len(noted) = Len(lists[l])
            /\ \A i \in 1..Len(lists[l]) : noted[i].kind = lists[l][i].kind /\ noted[i].n = lists[l][i].n
        <5>1. u \in Nat
          BY <1>1, LastUserIs
        <5> QED BY <1>1, <3>2, <5>1, Noted
      <4> HIDE DEF noted
      <4>3. ASSUME EndsWith(lists[l], n) PROVE EndsWith(noted, n)
        <5>1. lists[l] # <<>> /\ lists[l] \in Seq(MsgType)
          BY <1>1, <4>3 DEF EndsWith
        <5>2. Len(lists[l]) \in 1..Len(lists[l])
          BY <5>1
        <5>3. noted # <<>> /\ noted[Len(noted)].kind = lists[l][Len(lists[l])].kind
              /\ noted[Len(noted)].n = lists[l][Len(lists[l])].n
          BY <4>2, <5>2
        <5> QED BY <4>3, <5>3, Zenon DEF EndsWith
      <4> QED BY <1>1, <4>1, <4>2, <4>3
    <3> QED BY <1>5, <3>1, <3>2
  <2>4. \A k \in TurnId : lists[k] # <<>> => lists'[k] # <<>>
    BY <1>1, <2>3
  <2>t. client \in [Console -> Seq(MsgType)] /\ table \in Seq([s : Console, l : TurnId])
        /\ work \in [TurnId -> {"none", "on", "done", "mute", "failed"}]
    BY DEF GateInv, GateTypes
  <2> HIDE DEF g
  <2>5. TurnStep(n, g)
    BY <1>1, <1>2, <1>5, <2>1, <2>2, <2>3, <2>4, <2>t DEF TurnStep
  <2>6. Owed(n, g)
    BY <1>1, <2>1, <2>4 DEF GateInv, HasWords, HisOrTools, Owed
  <2>7. Alone => OwedAlone(n, g)
    BY <1>1, <1>2, <2>1, <2>3, OthersRest DEF GateInv, OwnWords, OwedAlone
  <2> QED BY <1>3, <2>5, <2>6, <2>7, GateByTurn
<1> QED BY <1>4, <1>5 DEF PreTurn

LEMMA GateScene == ASSUME GateInv, NEW n \in TurnId, EnterScene(n) PROVE GateInv'
<1> DEFINE l == gturn[n].l
           last == Len(lists[l])
<1>1. /\ gturn[n].pc = "scene" /\ gturn[n] \in TurnType /\ l \in TurnId /\ gturn[n].s \in Console
      /\ lists[l] \in Seq(MsgType) /\ lists \in [TurnId -> Seq(MsgType)] /\ lists[l] # <<>>
  <2>1. gturn[n].pc = "scene"
    BY DEF EnterScene
  <2> QED BY <2>1, GateFacts DEF GateInv, GateTypes, HasWords
<1>2. UNCHANGED <<work, table, cache, question, captured, spoke, replied, gfaults>>
  BY DEF EnterScene
<1>3. (NotHerOwn /\ HisTurn /\ NothingElse /\ HeardFirst)'
  BY <1>2 DEF GateInv, NotHerOwn, HisTurn, NothingElse, HeardFirst
<1>4. CASE gturn' = Ended(n) /\ Tell(n) /\ lists' = [lists EXCEPT ![l] = Append(@, Msg("her", n))]
  <2>1. Append(lists[l], Msg("her", n)) \in Seq(MsgType) /\ Append(lists[l], Msg("her", n)) # <<>>
    <3>1. Msg("her", n) \in MsgType
      BY MsgIs
    <3> QED BY <1>1, <3>1, Appended
  <2>2. lists' \in [TurnId -> Seq(MsgType)] /\ \A k \in TurnId : lists[k] # <<>> => lists'[k] # <<>>
    BY <1>1, <1>4, <2>1
  <2>3. Alone => work[n] # "on"
    BY <1>1 DEF GateInv, OwnWords
  <2> QED BY <1>1, <1>2, <1>3, <1>4, <2>2, <2>3, GateEnds
<1>5. ASSUME NEW g, gturn' = [gturn EXCEPT ![n] = g], UNCHANGED client, g \in TurnType, g.pc = "hear",
             g.s = gturn[n].s, g.l = l, g.human = gturn[n].human,
             lists' \in [TurnId -> Seq(MsgType)], \A k \in TurnId : lists[k] # <<>> => lists'[k] # <<>>
      PROVE  GateInv'
  <2>t. client \in [Console -> Seq(MsgType)] /\ table \in Seq([s : Console, l : TurnId])
        /\ work \in [TurnId -> {"none", "on", "done", "mute", "failed"}]
    BY DEF GateInv, GateTypes
  <2>1. TurnStep(n, g)
    BY <1>1, <1>2, <1>5, <2>t DEF TurnStep
  <2>2. Owed(n, g)
    BY <1>5 DEF GateInv, HisOrTools, Owed
  <2>3. Alone => OwedAlone(n, g)
    BY <1>1, <1>2, <1>5, OthersRest DEF GateInv, OwnWords, OwedAlone
  <2> QED BY <1>3, <2>1, <2>2, <2>3, GateByTurn
<1>6. CASE gturn' = [gturn EXCEPT ![n].pc = "hear"] /\ UNCHANGED <<lists, client>>
  <2> DEFINE g == [gturn[n] EXCEPT !.pc = "hear"]
  <2>1. g \in TurnType /\ g.pc = "hear" /\ g.s = gturn[n].s /\ g.l = l /\ g.human = gturn[n].human
    BY <1>1 DEF TurnType, GatePcs
  <2>2. gturn' = [gturn EXCEPT ![n] = g]
    BY <1>6 DEF GateInv, GateTypes
  <2> QED BY <1>1, <1>5, <1>6, <2>1, <2>2
<1>7. CASE /\ gturn' = [gturn EXCEPT ![n].pc = "hear", ![n].scene = TRUE] /\ UNCHANGED client
           /\ lists' = [lists EXCEPT ![l] = <<Msg("prompt", n)>> \o SubSeq(@, 1, last - 1)
                                            \o <<Msg("director", n), @[last]>>]
  <2> DEFINE g == [gturn[n] EXCEPT !.pc = "hear", !.scene = TRUE]
             framed == <<Msg("prompt", n)>> \o SubSeq(lists[l], 1, last - 1) \o <<Msg("director", n), lists[l][last]>>
  <2>1. g \in TurnType /\ g.pc = "hear" /\ g.s = gturn[n].s /\ g.l = l /\ g.human = gturn[n].human
    BY <1>1 DEF TurnType, GatePcs
  <2>2. gturn' = [gturn EXCEPT ![n] = g]
    BY <1>7 DEF GateInv, GateTypes
  <2>3. framed \in Seq(MsgType) /\ framed # <<>>
    <3>1. Msg("prompt", n) \in MsgType /\ Msg("director", n) \in MsgType
      BY MsgIs
    <3>2. last \in 1..Len(lists[l]) /\ lists[l][last] \in MsgType
      BY <1>1
    <3>3. SubSeq(lists[l], 1, last - 1) \in Seq(MsgType)
      BY <1>1, <3>2
    <3> QED BY <3>1, <3>2, <3>3
  <2>4. lists' \in [TurnId -> Seq(MsgType)] /\ \A k \in TurnId : lists[k] # <<>> => lists'[k] # <<>>
    <3>1. lists' = [lists EXCEPT ![l] = framed]
      BY <1>7
    <3> HIDE DEF framed
    <3> QED BY <1>1, <2>3, <3>1
  <2> QED BY <1>5, <1>7, <2>1, <2>2, <2>4
<1> QED BY <1>4, <1>6, <1>7 DEF EnterScene

\* His words go to the end of the session's list, or the list is seeded with what the
\* console holds, which ends with them.
LEMMA GateTranscript == ASSUME GateInv, NEW n \in TurnId, Transcript(n) PROVE GateInv'
<1> DEFINE who == gturn[n].s
           at == SessionAt(table, who)
<1>1. /\ gturn[n].pc = "transcript" /\ gturn[n] \in TurnType /\ who \in Console
      /\ client[who] \in Seq(MsgType) /\ lists \in [TurnId -> Seq(MsgType)]
      /\ client \in [Console -> Seq(MsgType)] /\ table \in Seq([s : Console, l : TurnId])
      /\ work \in [TurnId -> {"none", "on", "done", "mute", "failed"}]
  <2>1. gturn[n].pc = "transcript"
    BY DEF Transcript
  <2> QED BY <2>1, GateFacts DEF GateInv, GateTypes
<1>2. UNCHANGED <<work, client, cache, question, captured, spoke, replied, gfaults>>
  BY DEF Transcript
<1>3. (NotHerOwn /\ HisTurn /\ NothingElse /\ HeardFirst)'
  BY <1>2 DEF GateInv, NotHerOwn, HisTurn, NothingElse, HeardFirst
<1>4. client[who] # <<>> /\ (Alone => EndsWith(client[who], n))
  BY <1>1 DEF GateInv, HasWords, OwnWords
<1>5. ASSUME NEW l \in TurnId, gturn' = [gturn EXCEPT ![n].pc = "pre", ![n].l = l],
             NEW list \in Seq(MsgType), lists' = [lists EXCEPT ![l] = list], list # <<>>,
             Alone => EndsWith(list, n), table' \in Seq([s : Console, l : TurnId])
      PROVE  GateInv'
  <2> DEFINE g == [gturn[n] EXCEPT !.pc = "pre", !.l = l]
  <2>1. g \in TurnType /\ g.pc = "pre" /\ g.s = who /\ g.l = l /\ g.human = gturn[n].human
    <3>1. l \in Nat
      BY GateAssumption DEF TurnId
    <3> QED BY <1>1, <3>1 DEF TurnType, GatePcs
  <2>2. gturn' = [gturn EXCEPT ![n] = g]
    BY <1>5 DEF GateInv, GateTypes
  <2>3. lists' \in [TurnId -> Seq(MsgType)] /\ lists'[l] = list
        /\ \A k \in TurnId : lists[k] # <<>> => lists'[k] # <<>>
    BY <1>1, <1>5
  <2> HIDE DEF g
  <2>4. TurnStep(n, g)
    BY <1>1, <1>2, <1>5, <2>1, <2>2, <2>3 DEF TurnStep
  <2>5. Owed(n, g)
    BY <1>5, <2>1, <2>3 DEF GateInv, HisOrTools, Owed
  <2>6. Alone => OwedAlone(n, g)
    BY <1>1, <1>2, <1>5, <2>1, <2>3, OthersRest DEF GateInv, OwnWords, OwedAlone
  <2> QED BY <1>3, <2>4, <2>5, <2>6, GateByTurn
<1>6. at \in 0..Len(table)
  BY <1>1, SessionIs
<1>7. CASE at # 0
  <2> DEFINE l == table[at].l
             list == Append(lists[l], Msg("user", n))
  <2>1. l \in TurnId
    <3> HIDE DEF at
    <3>1. at \in 1..Len(table)
      BY <1>1, <1>6, <1>7
    <3>2. table[at] \in [s : Console, l : TurnId]
      <4> DEFINE Entry == [s : Console, l : TurnId]
      <4>1. table \in Seq(Entry)
        BY <1>1
      <4> HIDE DEF Entry
      <4>2. table[at] \in Entry
        BY <3>1, <4>1
      <4> QED BY <4>2 DEF Entry
    <3> QED BY <3>2
  <2>2. /\ lists' = [lists EXCEPT ![l] = list] /\ table' = table
        /\ gturn' = [gturn EXCEPT ![n].pc = "pre", ![n].l = l]
    BY <1>7 DEF Transcript, Canon
  <2>3. /\ Msg("user", n) \in MsgType /\ Msg("user", n).kind = "user" /\ Msg("user", n).n = n
        /\ lists[l] \in Seq(MsgType)
    BY <1>1, <2>1, MsgIs
  <2>4. list \in Seq(MsgType) /\ list # <<>> /\ list[Len(list)] = Msg("user", n)
    BY <2>3, Appended
  <2>5. EndsWith(list, n)
    BY <2>3, <2>4 DEF EndsWith
  <2> HIDE DEF l, list
  <2> QED BY <1>1, <1>5, <2>1, <2>2, <2>4, <2>5
<1>8. CASE at = 0
  <2> DEFINE room == IF Len(table) < MaxSessions THEN table ELSE Tail(table)
  <2>1. /\ lists' = [lists EXCEPT ![n] = client[who]]
        /\ table' = Append(room, [s |-> who, l |-> n])
        /\ gturn' = [gturn EXCEPT ![n].pc = "pre", ![n].l = n]
    BY <1>8 DEF Transcript, Canon
  <2>2. room \in Seq([s : Console, l : TurnId])
    BY <1>1, GateAssumption
  <2>3. [s |-> who, l |-> n] \in [s : Console, l : TurnId]
    BY <1>1
  <2>4. table' \in Seq([s : Console, l : TurnId])
    BY <2>1, <2>2, <2>3
  <2> QED BY <1>1, <1>4, <1>5, <2>1, <2>4
<1> QED BY <1>7, <1>8

\* Alone, a turn arrives when no other is in flight.
LEMMA GateArrive ==
    ASSUME GateInv, NEW n \in TurnId, NEW who \in Console, NEW door \in {"console", "openai"},
           Arrive(n, who, door)
    PROVE  GateInv'
<1> DEFINE words == Append(client[who], Msg("user", n))
           g == [NoTurn EXCEPT !.pc = IF door = "console" THEN "gate" ELSE "arm",
                               !.path = door, !.s = who, !.l = n]
<1>1. /\ client \in [Console -> Seq(MsgType)] /\ client[who] \in Seq(MsgType)
      /\ lists \in [TurnId -> Seq(MsgType)] /\ table \in Seq([s : Console, l : TurnId])
      /\ work \in [TurnId -> {"none", "on", "done", "mute", "failed"}]
  BY DEF GateInv, GateTypes
<1>2. /\ client' = [client EXCEPT ![who] = words] /\ gturn' = [gturn EXCEPT ![n] = g]
      /\ lists' = IF door = "console" THEN lists ELSE [lists EXCEPT ![n] = client'[who]]
      /\ UNCHANGED <<work, table, cache, question, captured, spoke, replied, gfaults>>
  BY DEF Arrive
<1>3. /\ Msg("user", n) \in MsgType /\ Msg("user", n).kind = "user" /\ Msg("user", n).n = n
  BY MsgIs
<1>4. words \in Seq(MsgType) /\ words # <<>> /\ EndsWith(words, n)
  BY <1>1, <1>3, Appended DEF EndsWith
<1>5. /\ g \in TurnType /\ g.pc = (IF door = "console" THEN "gate" ELSE "arm")
      /\ g.s = who /\ g.l = n /\ g.human = NoMsg
  <2>1. n \in Nat
    BY GateAssumption DEF TurnId
  <2> QED BY <2>1, NoMsgIs DEF NoTurn, TurnType, GatePcs
<1> HIDE DEF g, words
<1>6. client' \in [Console -> Seq(MsgType)] /\ client'[who] = words
      /\ \A c \in Console : client[c] # <<>> => client'[c] # <<>>
  BY <1>1, <1>2, <1>4
<1>7. lists' \in [TurnId -> Seq(MsgType)] /\ (door # "console" => lists'[n] = words)
      /\ \A k \in TurnId : lists[k] # <<>> => lists'[k] # <<>>
  BY <1>1, <1>2, <1>4, <1>6
<1>8. TurnStep(n, g)
  BY <1>1, <1>2, <1>5, <1>6, <1>7 DEF TurnStep
<1>9. Owed(n, g)
  BY <1>4, <1>5, <1>6, <1>7 DEF Owed
<1>10. ASSUME Alone PROVE OwedAlone(n, g)
  <2>1. InFlight = {}
    BY <1>10 DEF Arrive, Alone
  <2>2. \A m \in TurnId : work[m] = "on" => gturn[m].pc # "none"
    BY GateFacts, Zenon DEF GateInv
  <2>3. \A m \in TurnId : gturn[m].pc \in {"none", "end"} /\ work[m] # "on"
    BY <2>1, <2>2 DEF InFlight, Begun
  <2> QED BY <1>2, <1>4, <1>5, <1>6, <1>7, <2>3 DEF OwedAlone
<1>11. (NotHerOwn /\ HisTurn /\ NothingElse /\ HeardFirst)'
  BY <1>2 DEF GateInv, NotHerOwn, HisTurn, NothingElse, HeardFirst
<1> QED BY <1>8, <1>9, <1>10, <1>11, GateByTurn

LEMMA GateStep == GateInv /\ [GatewayNext]_gvars => GateInv'
<1> SUFFICES ASSUME GateInv, [GatewayNext]_gvars PROVE GateInv'
  OBVIOUS
<1>1. CASE UNCHANGED gvars
  <2>0. MsgType' = MsgType /\ TurnType' = TurnType
    BY <1>1 DEF gvars, Noting, MsgType, TurnType
  <2>1. GateTypes' /\ HasWords' /\ HisOrTools'
    BY <1>1, <2>0 DEF gvars, GateInv, GateTypes, HasWords, HisOrTools
  <2>2. Alone' => OwnWords'
    BY <1>1 DEF gvars, GateInv, Alone, OwnWords, InFlight, Begun
  <2>3. (NotHerOwn /\ HisTurn /\ NothingElse /\ HeardFirst)'
    BY <1>1 DEF gvars, GateInv, NotHerOwn, HisTurn, NothingElse, HeardFirst
  <2> QED BY <2>1, <2>2, <2>3 DEF GateInv
<1>2. CASE GatewayNext
  <2>1. PICK n \in TurnId :
           \/ \E s \in Console, door \in {"console", "openai"} : Arrive(n, s, door)
           \/ Gate(n) \/ Transcript(n) \/ PreTurn(n) \/ ArmTurn(n) \/ EnterScene(n) \/ Run(n)
           \/ Round(n) \/ Answer(n) \/ Raise(n) \/ Done(n) \/ Gone(n)
    BY <1>2 DEF GatewayNext
  <2> QED BY <2>1, GateArrive, GateGate, GateTranscript, GatePre, GateArm, GateScene, GateRun,
             GateWorks, GateDone, GateGone
<1> QED BY <1>1, <1>2

\* What he says is what is heard, for any number of consoles, sessions and turns, with
\* scenes, tools and failures in between.  Never a tool's output, whatever overlaps or
\* loses its client; his words of that turn when neither happens; with nothing added
\* unless recall spoke, whose note is part of his message by then (_session_transcript,
\* _arm_turn, _capture_after_turn, on_user_turn).
THEOREM AlwaysHearsHim == GatewaySpec => []HearsHim
<1>1. GateInv => HearsHim
  BY DEF GateInv, HearsHim
<1> QED BY <1>1, GateStart, GateStep, PTL DEF GatewaySpec

\* What a prompt has to keep of what the daemon holds is a prefix of the list, nothing yet
\* for a list no turn has come to, and lacks at least his newest words while a note may
\* still be put on them.
Early == {"none", "gate", "transcript"}
Plain == gfaults \intersect {"overlap", "gone", "scene"} = {}

Fresh == \E k \in 0..MaxGateTurns : Begun = 1..k

Kept == [l \in TurnId |-> ToKeep(cache[l])]

Holds ==
    /\ cache \in [TurnId -> Seq(MsgType)] /\ Kept \in [TurnId -> Seq(MsgType)]
    /\ \A l \in TurnId : IsPrefix(Kept[l], lists[l])
    /\ \A n \in TurnId : gturn[n].pc \in Early => Kept[n] = <<>>
    /\ \A i \in 1..Len(table) : gturn[table[i].l].pc \notin Early
    /\ \A n \in TurnId : gturn[n].pc \notin Early => gturn[gturn[n].l].pc \notin Early
    /\ \A n \in TurnId : gturn[n].pc = "pre" => Len(Kept[gturn[n].l]) < Len(lists[gturn[n].l])

ExtendInv == GateInv /\ Fresh /\ (Plain => Holds)

LEMMA PrefixOfLonger ==
    ASSUME NEW s \in Seq(MsgType), NEW list \in Seq(MsgType), NEW ms \in Seq(MsgType), IsPrefix(s, list)
    PROVE  IsPrefix(s, list \o ms)
  BY DEF IsPrefix

LEMMA PrefixOfAppended ==
    ASSUME NEW s \in Seq(MsgType), NEW list \in Seq(MsgType), NEW m \in MsgType, IsPrefix(s, list)
    PROVE  IsPrefix(s, Append(list, m)) /\ Len(s) < Len(Append(list, m))
  BY DEF IsPrefix

LEMMA PrefixOfPut ==
    ASSUME NEW list \in Seq(MsgType), NEW m \in MsgType, NEW ms \in Seq(MsgType), Len(ms) > 0, ms[1] = m
    PROVE  Append(list, m) \in Seq(MsgType) /\ IsPrefix(Append(list, m), list \o ms)
  BY DEF IsPrefix

\* Her row, as the daemon wrote it or in other words, leaves what has to be kept.
LEMMA KeepOfPut ==
    ASSUME NEW list \in Seq(MsgType), NEW m \in MsgType, NEW ms \in Seq(MsgType),
           gfaults \cap {"rejoin", "raise"} = {} => Len(ms) > 0 /\ ms[1] = m
    PROVE  /\ Append(list, m) \in Seq(MsgType)
           /\ ToKeep(Append(list, m)) \in Seq(MsgType)
           /\ IsPrefix(ToKeep(Append(list, m)), list \o ms)
<1>1. CASE gfaults \cap {"rejoin", "raise"} = {}
  BY <1>1, PrefixOfPut DEF ToKeep
<1>2. CASE gfaults \cap {"rejoin", "raise"} # {}
  <2>1. Front(Append(list, m)) = list
    BY DEF Front
  <2>2. ToKeep(Append(list, m)) = list
    BY <1>2, <2>1 DEF ToKeep
  <2>3. IsPrefix(list, list \o ms)
    BY DEF IsPrefix
  <2> QED BY <2>2, <2>3
<1> QED BY <1>1, <1>2

\* A step that leaves the cache leaves what has to be kept of it.
LEMMA KeptStays ==
    ASSUME cache' = cache, gfaults' = gfaults
    PROVE  Kept' = Kept /\ MsgType' = MsgType
  BY DEF Kept, ToKeep, MsgType, Noting

\* A turn that arrives is a new one.
LEMMA NewTurnIsNew ==
    ASSUME Fresh, NEW n \in TurnId, n = Cardinality(Begun) + 1
    PROVE  n \notin Begun /\ Begun \cup {n} = 1..n
<1>1. PICK k \in 0..MaxGateTurns : Begun = 1..k
  BY DEF Fresh
<1>2. k \in Nat
  BY GateAssumption
<1>3. Cardinality(1..k) = k
  <2>1. Cardinality(1..k) = IF 1 > k THEN 0 ELSE k - 1 + 1
    BY <1>2, FS_Interval
  <2> QED BY <1>2, <2>1
<1> QED BY <1>1, <1>2, <1>3

LEMMA FreshStep == ASSUME GateInv, Fresh, [GatewayNext]_gvars PROVE Fresh'
<1>0. gturn \in [TurnId -> TurnType] /\ \A m \in TurnId : work[m] = "on" => gturn[m].pc # "none"
  BY GateFacts DEF GateInv
<1>1. ASSUME NEW n \in TurnId, NEW s \in Console, NEW door \in {"console", "openai"}, Arrive(n, s, door)
      PROVE  Fresh'
  <2>1. Begun \cup {n} = 1..n
    BY <1>1, NewTurnIsNew DEF Arrive
  <2>2. gturn'[n].pc # "none" /\ \A m \in TurnId : m # n => gturn'[m] = gturn[m]
    BY <1>0, <1>1 DEF Arrive, NoTurn
  <2>3. Begun' = 1..n
    BY <2>1, <2>2 DEF Begun
  <2>4. n \in 0..MaxGateTurns
    BY GateAssumption DEF TurnId
  <2> QED BY <2>3, <2>4 DEF Fresh
<1>2. ASSUME \A m \in TurnId : gturn'[m].pc = "none" <=> gturn[m].pc = "none"
      PROVE  Fresh'
  BY <1>2 DEF Fresh, Begun
<1>4. CASE UNCHANGED gvars
  BY <1>2, <1>4 DEF gvars
<1>5. ASSUME NEW n \in TurnId,
             \/ Gate(n) \/ Transcript(n) \/ PreTurn(n) \/ ArmTurn(n) \/ EnterScene(n) \/ Run(n)
             \/ Round(n) \/ Answer(n) \/ Raise(n) \/ Done(n) \/ Gone(n)
      PROVE  Fresh'
  <2>1. gturn[n] \in TurnType
    BY <1>0
  <2>2. CASE Gate(n)
    BY <1>0, <1>2, <2>1, <2>2 DEF Gate, TurnType
  <2>3. CASE Transcript(n)
    <3>1. \E l : gturn' = [gturn EXCEPT ![n].pc = "pre", ![n].l = l]
      BY <2>3 DEF Transcript, Canon
    <3>2. gturn[n].pc = "transcript"
      BY <2>3 DEF Transcript
    <3> QED BY <1>0, <1>2, <2>1, <3>1, <3>2 DEF TurnType
  <2>4. CASE PreTurn(n)
    BY <1>0, <1>2, <2>1, <2>4 DEF PreTurn, Ended, TurnType
  <2>5. CASE ArmTurn(n)
    BY <1>0, <1>2, <2>1, <2>5 DEF ArmTurn, TurnType
  <2>6. CASE EnterScene(n)
    <3>1. /\ gturn[n].pc = "scene"
          /\ \/ gturn' = [gturn EXCEPT ![n].pc = "hear"]
             \/ gturn' = [gturn EXCEPT ![n].pc = "end"]
             \/ gturn' = [gturn EXCEPT ![n].pc = "hear", ![n].scene = TRUE]
      BY <2>6 DEF EnterScene, Ended
    <3>2. gturn'[n].pc \in {"hear", "end"} /\ \A m \in TurnId : m # n => gturn'[m] = gturn[m]
      BY <1>0, <2>1, <3>1 DEF TurnType
    <3> QED BY <1>2, <3>1, <3>2
  <2>7. CASE Run(n)
    BY <1>0, <1>2, <2>1, <2>7 DEF Run, TurnType
  <2>8. CASE Round(n)
    BY <1>0, <1>2, <2>1, <2>8 DEF Round, TurnType
  <2>9. CASE Answer(n) \/ Raise(n)
    BY <1>2, <2>9 DEF Answer, Raise
  <2>10. CASE Done(n) \/ Gone(n)
    BY <1>0, <1>2, <2>1, <2>10 DEF Done, Gone, Ended, TurnType
  <2> QED BY <1>5, <2>2, <2>3, <2>4, <2>5, <2>6, <2>7, <2>8, <2>9, <2>10
<1> QED BY <1>1, <1>4, <1>5 DEF GatewayNext

\* A step that changes neither what the daemon holds nor any list, and moves turn n on.
LEMMA HoldsMoves ==
    ASSUME GateInv, Holds, NEW n \in TurnId, NEW g, gturn' = [gturn EXCEPT ![n] = g],
           UNCHANGED <<cache, lists, table, gfaults>>,
           \/ g.l = gturn[n].l /\ g.pc \notin Early \cup {"pre"} /\ gturn[n].pc \notin Early
           \/ g.pc \in Early /\ gturn[n].pc \in Early
    PROVE  Holds'
<1>1. \A m \in TurnId : gturn'[m] = IF m = n THEN g ELSE gturn[m]
  BY DEF GateInv, GateTypes
<1>2. \A m \in TurnId : /\ gturn'[m].pc \in Early <=> gturn[m].pc \in Early
                        /\ gturn'[m].pc \notin Early => gturn'[m].l = gturn[m].l
                        /\ gturn'[m].pc = "pre" => gturn[m].pc = "pre"
  BY <1>1 DEF Early
<1>3. \A i \in 1..Len(table) : table[i].l \in TurnId
  <2> DEFINE Entry == [s : Console, l : TurnId]
  <2>1. table \in Seq(Entry)
    BY DEF GateInv, GateTypes
  <2>2. \A e \in Entry : e.l \in TurnId
    OBVIOUS
  <2> HIDE DEF Entry
  <2> QED BY <2>1, <2>2
<1>4. \A m \in TurnId : gturn[m].pc \notin Early => gturn[m].l \in TurnId
  BY GateFacts DEF GateInv, Early
<1>5. \A m \in TurnId : gturn'[m].pc = "pre" => Len(Kept[gturn'[m].l]) < Len(lists[gturn'[m].l])
  BY <1>2 DEF Holds, Early
<1> QED BY <1>2, <1>3, <1>4, <1>5, KeptStays DEF Holds

\* A step that writes the list k, which turn n works on from here.
LEMMA HoldsList ==
    ASSUME GateInv, Holds, NEW n \in TurnId, NEW g, gturn' = [gturn EXCEPT ![n] = g], cache' = cache, gfaults' = gfaults,
           NEW k \in TurnId, NEW list, lists' = [lists EXCEPT ![k] = list], IsPrefix(Kept[k], list),
           g.pc \notin Early, g.l = k, k = n \/ gturn[k].pc \notin Early,
           \A i \in 1..Len(table') : table'[i].l \in TurnId /\ (table'[i].l = n \/ gturn[table'[i].l].pc \notin Early),
           g.pc = "pre" => Len(Kept[k]) < Len(list),
           \A m \in TurnId : m # n => gturn[m].pc # "pre"
    PROVE  Holds'
<1>1. \A m \in TurnId : gturn'[m] = IF m = n THEN g ELSE gturn[m]
  BY DEF GateInv, GateTypes
<1>2. \A m \in TurnId : gturn'[m].pc \in Early => gturn[m].pc \in Early
  BY <1>1
<1>3. \A m \in TurnId : lists'[m] = IF m = k THEN list ELSE lists[m]
  BY DEF GateInv, GateTypes
<1>0. Kept' = Kept /\ MsgType' = MsgType
  BY KeptStays
<1>4. /\ cache' \in [TurnId -> Seq(MsgType)'] /\ Kept' \in [TurnId -> Seq(MsgType)']
      /\ \A l \in TurnId : IsPrefix(Kept'[l], lists'[l])
      /\ \A m \in TurnId : gturn'[m].pc \in Early => Kept'[m] = <<>>
  BY <1>0, <1>2, <1>3 DEF Holds
<1>5. \A i \in 1..Len(table') : gturn'[table'[i].l].pc \notin Early
  BY <1>1
<1>6. \A m \in TurnId : gturn[m].pc \notin Early => gturn[m].l \in TurnId
  BY GateFacts DEF GateInv, Early
<1>7. \A m \in TurnId : gturn'[m].pc \notin Early => gturn'[gturn'[m].l].pc \notin Early
  BY <1>1, <1>6 DEF Holds
<1>8. \A m \in TurnId : gturn'[m].pc = "pre" => Len(Kept'[gturn'[m].l]) < Len(lists'[gturn'[m].l])
  BY <1>0, <1>1, <1>3
<1> QED BY <1>4, <1>5, <1>7, <1>8 DEF Holds

\* The entries of the table are lists of turns that have come to theirs.
LEMMA TableIs ==
    ASSUME GateInv, Holds
    PROVE  \A i \in 1..Len(table) : table[i].l \in TurnId /\ gturn[table[i].l].pc \notin Early
<1> DEFINE Entry == [s : Console, l : TurnId]
<1>1. table \in Seq(Entry)
  BY DEF GateInv, GateTypes
<1>2. \A e \in Entry : e.l \in TurnId
  OBVIOUS
<1> HIDE DEF Entry
<1> QED BY <1>1, <1>2 DEF Holds

LEMMA EmptyIsPrefix ==
    ASSUME NEW list \in Seq(MsgType), list # <<>>
    PROVE  IsPrefix(<<>>, list) /\ Len(<<>>) < Len(list)
  BY DEF IsPrefix

LEMMA HoldsArrive ==
    ASSUME GateInv, Fresh, Holds, Plain, NEW n \in TurnId, NEW who \in Console,
           NEW door \in {"console", "openai"}, Arrive(n, who, door)
    PROVE  Holds'
<1> DEFINE words == Append(client[who], Msg("user", n))
           g == [NoTurn EXCEPT !.pc = IF door = "console" THEN "gate" ELSE "arm",
                               !.path = door, !.s = who, !.l = n]
<1>1. client[who] \in Seq(MsgType) /\ client \in [Console -> Seq(MsgType)]
  BY DEF GateInv, GateTypes
<1>2. /\ client' = [client EXCEPT ![who] = words] /\ gturn' = [gturn EXCEPT ![n] = g]
      /\ lists' = IF door = "console" THEN lists ELSE [lists EXCEPT ![n] = client'[who]]
      /\ UNCHANGED <<table, cache, gfaults>>
  BY DEF Arrive
<1>3. words \in Seq(MsgType) /\ words # <<>>
  BY <1>1, MsgIs, Appended
<1>4. g.pc = (IF door = "console" THEN "gate" ELSE "arm") /\ g.l = n
  BY DEF NoTurn
<1>5. gturn[n].pc = "none" /\ Kept[n] = <<>>
  BY NewTurnIsNew DEF Arrive, Begun, Holds, Early
<1> HIDE DEF g, words
<1>6. CASE door = "console"
  BY <1>2, <1>4, <1>5, <1>6, HoldsMoves DEF Early
<1>7. CASE door # "console"
  <2>1. lists' = [lists EXCEPT ![n] = words]
    BY <1>1, <1>2, <1>7
  <2>2. IsPrefix(Kept[n], words)
    BY <1>3, <1>5, EmptyIsPrefix
  <2>3. g.pc = "arm" /\ g.pc \notin Early
    BY <1>4, <1>7 DEF Early
  <2>4. \A i \in 1..Len(table') : table'[i].l \in TurnId /\ gturn[table'[i].l].pc \notin Early
    BY <1>2, TableIs
  <2>5. \A m \in TurnId : m # n => gturn[m].pc # "pre"
    <3>1. InFlight = {}
      BY DEF Arrive, Plain
    <3> QED BY <3>1 DEF InFlight, Begun
  <2> QED BY <1>2, <1>4, <2>1, <2>2, <2>3, <2>4, <2>5, HoldsList
<1> QED BY <1>6, <1>7

LEMMA HoldsTranscript ==
    ASSUME GateInv, Holds, Plain, NEW n \in TurnId, Transcript(n)
    PROVE  Holds'
<1> DEFINE who == gturn[n].s
           at == SessionAt(table, who)
<1>1. /\ gturn[n].pc = "transcript" /\ gturn \in [TurnId -> TurnType] /\ gturn[n] \in TurnType
      /\ client[who] \in Seq(MsgType) /\ client[who] # <<>>
      /\ lists \in [TurnId -> Seq(MsgType)] /\ Kept \in [TurnId -> Seq(MsgType)]
      /\ table \in Seq([s : Console, l : TurnId]) /\ who \in Console
  <2>1. gturn[n].pc = "transcript"
    BY DEF Transcript
  <2> QED BY <2>1, GateFacts DEF GateInv, GateTypes, HasWords, Holds
<1>2. cache' = cache /\ gfaults' = gfaults
  BY DEF Transcript
<1>3. \A m \in TurnId : m # n => gturn[m].pc # "pre"
  BY <1>1, OthersRest DEF Plain, Alone
<1>4. at \in 0..Len(table)
  BY <1>1, SessionIs
<1>5. ASSUME NEW l \in TurnId, gturn' = [gturn EXCEPT ![n].pc = "pre", ![n].l = l]
      PROVE  \E g : gturn' = [gturn EXCEPT ![n] = g] /\ g.pc = "pre" /\ g.l = l
  <2> DEFINE g == [gturn[n] EXCEPT !.pc = "pre", !.l = l]
  <2>1. g.pc = "pre" /\ g.l = l
    BY <1>1 DEF TurnType
  <2>2. gturn' = [gturn EXCEPT ![n] = g]
    BY <1>1, <1>5
  <2> QED BY <2>1, <2>2
<1> HIDE DEF at
<1>6. CASE at # 0
  <2> DEFINE l == table[at].l
             list == Append(lists[l], Msg("user", n))
  <2>1. l \in TurnId /\ gturn[l].pc \notin Early
    <3>1. at \in 1..Len(table)
      BY <1>1, <1>4, <1>6
    <3> QED BY <3>1, TableIs
  <2>2. /\ lists' = [lists EXCEPT ![l] = list] /\ table' = table
        /\ gturn' = [gturn EXCEPT ![n].pc = "pre", ![n].l = l]
    BY <1>6 DEF Transcript, Canon, at
  <2>3. Msg("user", n) \in MsgType /\ lists[l] \in Seq(MsgType) /\ Kept[l] \in Seq(MsgType)
    BY <1>1, <2>1, MsgIs
  <2>4. IsPrefix(Kept[l], list) /\ Len(Kept[l]) < Len(list)
    BY <2>1, <2>3, PrefixOfAppended DEF Holds
  <2> HIDE DEF l, list
  <2>5. PICK g : gturn' = [gturn EXCEPT ![n] = g] /\ g.pc = "pre" /\ g.l = l
    BY <1>5, <2>1, <2>2
  <2>6. \A i \in 1..Len(table') : table'[i].l \in TurnId /\ gturn[table'[i].l].pc \notin Early
    BY <2>2, TableIs
  <2>7. g.pc \notin Early
    BY <2>5 DEF Early
  <2> QED BY <1>2, <1>3, <2>1, <2>2, <2>4, <2>5, <2>6, <2>7, HoldsList
<1>7. CASE at = 0
  <2> DEFINE room == IF Len(table) < MaxSessions THEN table ELSE Tail(table)
             list == client[who]
  <2>1. /\ lists' = [lists EXCEPT ![n] = list]
        /\ table' = Append(room, [s |-> who, l |-> n])
        /\ gturn' = [gturn EXCEPT ![n].pc = "pre", ![n].l = n]
    BY <1>7 DEF Transcript, Canon, at
  <2>2. Kept[n] = <<>>
    BY <1>1 DEF Holds, Early
  <2>3. IsPrefix(Kept[n], list) /\ Len(Kept[n]) < Len(list)
    BY <1>1, <2>2, EmptyIsPrefix
  <2>4. PICK g : gturn' = [gturn EXCEPT ![n] = g] /\ g.pc = "pre" /\ g.l = n
    BY <1>5, <2>1
  <2>5. \A i \in 1..Len(table') : table'[i].l \in TurnId /\ (table'[i].l = n \/ gturn[table'[i].l].pc \notin Early)
    <3>1. /\ room \in Seq([s : Console, l : TurnId]) /\ Len(room) \in Nat
          /\ \A i \in 1..Len(room) : \E j \in 1..Len(table) : room[i] = table[j]
      <4>1. CASE Len(table) < MaxSessions
        BY <1>1, <4>1
      <4>2. CASE ~(Len(table) < MaxSessions)
        <5>1. Len(table) > 0 /\ room = Tail(table)
          BY <1>1, <4>2, GateAssumption
        <5>2. Len(room) = Len(table) - 1 /\ \A i \in 1..Len(room) : room[i] = table[i + 1] /\ i + 1 \in 1..Len(table)
          BY <1>1, <5>1
        <5> QED BY <1>1, <5>1, <5>2
      <4> QED BY <4>1, <4>2
    <3>2. \A i \in 1..Len(room) : room[i].l \in TurnId /\ gturn[room[i].l].pc \notin Early
      BY <3>1, TableIs
    <3> HIDE DEF room
    <3> DEFINE e == [s |-> who, l |-> n]
    <3>3. e.l = n /\ e \in [s : Console, l : TurnId]
      BY <1>1
    <3> HIDE DEF e
    <3>4. /\ Len(table') = Len(room) + 1 /\ table'[Len(room) + 1] = e
          /\ \A i \in 1..Len(room) : table'[i] = room[i]
      BY <2>1, <3>1, <3>3 DEF e
    <3>5. \A i \in 1..Len(table') : i \in 1..Len(room) \/ i = Len(room) + 1
      BY <3>1, <3>4
    <3> QED BY <3>2, <3>3, <3>4, <3>5
  <2>6. g.pc \notin Early
    BY <2>4 DEF Early
  <2> HIDE DEF list, room
  <2> QED BY <1>2, <1>3, <2>1, <2>3, <2>4, <2>5, <2>6, HoldsList
<1> QED BY <1>6, <1>7

\* The worker's call: the daemon reads the list and writes the first of the messages that
\* are put behind it, or what is kept in other words.
LEMMA HoldsPut ==
    ASSUME GateInv, Holds, Plain, NEW n \in TurnId, NEW m \in MsgType, NEW ms \in Seq(MsgType),
           gfaults \cap {"rejoin", "raise"} = {} => Len(ms) > 0 /\ ms[1] = m, gfaults' = gfaults, work[n] = "on", Generate(n, m), Put(n, ms), table' = table,
           \A k \in TurnId : gturn'[k].pc = gturn[k].pc /\ gturn'[k].l = gturn[k].l
    PROVE  Holds' /\ \A l \in TurnId : cache'[l] # cache[l] => IsPrefix(Kept[l], cache'[l])
<1> DEFINE l == gturn[n].l
<1>1. gturn[n].pc = "stream" /\ l \in TurnId
  <2>1. Alone
    BY DEF Plain, Alone
  <2>2. gturn[n].pc = "stream"
    BY <2>1 DEF GateInv, OwnWords
  <2> QED BY <2>2, GateFacts DEF GateInv
<1>2. /\ lists \in [TurnId -> Seq(MsgType)] /\ lists[l] \in Seq(MsgType)
      /\ cache \in [TurnId -> Seq(MsgType)] /\ Kept \in [TurnId -> Seq(MsgType)] /\ Kept[l] \in Seq(MsgType)
  BY <1>1 DEF GateInv, GateTypes, Holds
<1>3. cache' = [cache EXCEPT ![l] = Append(lists[l], m)] /\ lists' = [lists EXCEPT ![l] = lists[l] \o ms]
  BY DEF Generate, Put
<1>4. /\ Append(lists[l], m) \in Seq(MsgType) /\ ToKeep(Append(lists[l], m)) \in Seq(MsgType)
      /\ IsPrefix(ToKeep(Append(lists[l], m)), lists[l] \o ms)
  BY <1>2, KeepOfPut
<1>k. /\ MsgType' = MsgType
      /\ Kept' = [Kept EXCEPT ![l] = ToKeep(Append(lists[l], m))]
  <2>1. MsgType' = MsgType
    BY DEF MsgType, Noting
  <2> QED BY <1>1, <1>2, <1>3, <2>1 DEF Kept, ToKeep
<1>5. IsPrefix(Kept[l], Append(lists[l], m))
  BY <1>1, <1>2, PrefixOfAppended DEF Holds
<1>6. gturn[l].pc \notin Early
  BY <1>1 DEF Holds, Early
<1> HIDE DEF l
<1>7. /\ cache' \in [TurnId -> Seq(MsgType)] /\ Kept' \in [TurnId -> Seq(MsgType)]
      /\ \A k \in TurnId : IsPrefix(Kept'[k], lists'[k])
  BY <1>1, <1>2, <1>3, <1>4, <1>k DEF Holds
<1>8. \A k \in TurnId : gturn'[k].pc \in Early => Kept'[k] = <<>>
  BY <1>1, <1>2, <1>k, <1>6 DEF Holds
<1>9. \A k \in TurnId : gturn'[k].pc # "pre"
  <2>1. \A k \in TurnId : k # n => gturn[k].pc \in {"none", "end"}
    BY <1>1, OthersRest DEF Plain, Alone
  <2> QED BY <1>1, <2>1
<1>10. \A i \in 1..Len(table) : table[i].l \in TurnId
  <2> DEFINE Entry == [s : Console, l : TurnId]
  <2>1. table \in Seq(Entry)
    BY DEF GateInv, GateTypes
  <2>2. \A e \in Entry : e.l \in TurnId
    OBVIOUS
  <2> HIDE DEF Entry
  <2> QED BY <2>1, <2>2
<1>11. \A k \in TurnId : gturn[k].pc \notin Early => gturn[k].l \in TurnId
  BY GateFacts DEF GateInv, Early
<1>12. Holds'
  BY <1>7, <1>8, <1>9, <1>10, <1>11, <1>k DEF Holds
<1> QED BY <1>1, <1>2, <1>3, <1>5, <1>12

\* A note goes on the last message of the list, which the daemon has not read.
LEMMA PrefixOfNoted ==
    ASSUME NEW s \in Seq(MsgType), NEW list \in Seq(MsgType), NEW noted \in Seq(MsgType), IsPrefix(s, list),
           Len(s) < Len(list), Len(noted) = Len(list), \A i \in 1..Len(list) : i # Len(list) => noted[i] = list[i]
    PROVE  IsPrefix(s, noted)
<1>1. \A i \in 1..Len(s) : s[i] = list[i]
  BY DEF IsPrefix
<1>2. \A i \in 1..Len(s) : i \in 1..Len(list) /\ i # Len(list)
  OBVIOUS
<1>3. \A i \in 1..Len(s) : s[i] = noted[i]
  BY <1>1, <1>2
<1> QED BY <1>3 DEF IsPrefix

LEMMA HoldsPre ==
    ASSUME GateInv, Holds, Plain, NEW n \in TurnId, PreTurn(n)
    PROVE  Holds'
<1> DEFINE l == gturn[n].l
           u == LastUser(lists[l])
<1>1. /\ gturn[n].pc = "pre" /\ gturn[n] \in TurnType /\ gturn \in [TurnId -> TurnType] /\ l \in TurnId
      /\ lists[l] \in Seq(MsgType) /\ lists \in [TurnId -> Seq(MsgType)] /\ Kept[l] \in Seq(MsgType)
  <2>1. gturn[n].pc = "pre"
    BY DEF PreTurn
  <2> QED BY <2>1, GateFacts DEF GateInv, GateTypes, Holds
<1>2. UNCHANGED <<table, cache, gfaults>>
  BY DEF PreTurn
<1>3. Alone
  BY DEF Plain, Alone
<1>4. \A m \in TurnId : m # n => gturn[m].pc # "pre"
  BY <1>1, <1>3, OthersRest
<1>5. IsPrefix(Kept[l], lists[l]) /\ Len(Kept[l]) < Len(lists[l]) /\ gturn[l].pc \notin Early
  BY <1>1 DEF Holds, Early
<1>6. \A i \in 1..Len(table') : table'[i].l \in TurnId /\ gturn[table'[i].l].pc \notin Early
  BY <1>2, TableIs
<1>7. ASSUME NEW p \in {"arm", "end"}, gturn' = [gturn EXCEPT ![n].pc = p]
      PROVE  \E g : gturn' = [gturn EXCEPT ![n] = g] /\ g.pc = p /\ g.l = l
  <2> DEFINE g == [gturn[n] EXCEPT !.pc = p]
  <2>1. g.pc = p /\ g.l = l
    BY <1>1 DEF TurnType
  <2>2. gturn' = [gturn EXCEPT ![n] = g]
    BY <1>1, <1>7
  <2> QED BY <2>1, <2>2
<1>8. ASSUME NEW list, lists' = [lists EXCEPT ![l] = list], IsPrefix(Kept[l], list),
             NEW p \in {"arm", "end"}, gturn' = [gturn EXCEPT ![n].pc = p]
      PROVE  Holds'
  <2>1. PICK g : gturn' = [gturn EXCEPT ![n] = g] /\ g.pc = p /\ g.l = l
    BY <1>7, <1>8
  <2>2. g.pc \notin Early /\ g.pc # "pre"
    BY <2>1 DEF Early
  <2> HIDE DEF l
  <2> QED BY <1>1, <1>2, <1>4, <1>5, <1>6, <1>8, <2>1, <2>2, HoldsList
<1>9. CASE gturn' = [gturn EXCEPT ![n].pc = "arm"] /\ lists' = lists
  <2>1. lists' = [lists EXCEPT ![l] = lists[l]]
    BY <1>1, <1>9
  <2> QED BY <1>5, <1>8, <1>9, <2>1
<1>10. CASE "note" \in gfaults /\ gturn' = [gturn EXCEPT ![n].pc = "arm"] /\ lists' = [lists EXCEPT ![l][u].noted = TRUE]
  <2> DEFINE noted == [lists[l] EXCEPT ![u].noted = TRUE]
  <2>1. lists' = [lists EXCEPT ![l] = noted]
    BY <1>1, <1>10
  <2>2. EndsWith(lists[l], n)
    BY <1>1, <1>3 DEF GateInv, OwnWords
  <2>3. u = Len(lists[l]) /\ u \in Nat
    BY <1>1, <2>2, HumanTurnIs, LastUserIs
  <2>4. /\ noted \in Seq(MsgType) /\ Len(noted) = Len(lists[l])
        /\ \A i \in 1..Len(lists[l]) : i # Len(lists[l]) => noted[i] = lists[l][i]
    <3> HIDE DEF u
    <3>1. /\ noted \in Seq(MsgType) /\ Len(noted) = Len(lists[l])
          /\ \A i \in 1..Len(lists[l]) : i # u => noted[i] = lists[l][i]
      <4>1. \A list \in Seq(MsgType), i \in Nat : LET marked == [list EXCEPT ![i].noted = TRUE]
               IN  /\ marked \in Seq(MsgType) /\ Len(marked) = Len(list)
                   /\ \A j \in 1..Len(list) : j # i => marked[j] = list[j]
        BY <1>10, Noted, Zenon
      <4>2. lists[l] \in Seq(MsgType) /\ u \in Nat
        BY <1>1, <2>3
      <4> QED BY <4>1, <4>2, Zenon
    <3> HIDE DEF noted
    <3> QED BY <2>3, <3>1
  <2> HIDE DEF noted
  <2>5. IsPrefix(Kept[l], noted)
    BY <1>1, <1>5, <2>4, PrefixOfNoted
  <2> QED BY <1>8, <1>10, <2>1, <2>5
<1>11. CASE gturn' = Ended(n) /\ lists' = [lists EXCEPT ![l] = Append(@, Msg("her", n))]
  <2>1. Msg("her", n) \in MsgType
    BY MsgIs
  <2>2. IsPrefix(Kept[l], Append(lists[l], Msg("her", n)))
    BY <1>1, <1>5, <2>1, PrefixOfAppended
  <2>3. lists' = [lists EXCEPT ![l] = Append(lists[l], Msg("her", n))]
    BY <1>11
  <2> QED BY <1>8, <1>11, <2>2, <2>3 DEF Ended
<1> QED BY <1>9, <1>10, <1>11 DEF PreTurn

\* The steps that leave the lists and what the daemon holds alone.
LEMMA HoldsWaits ==
    ASSUME GateInv, Holds, Plain, NEW n \in TurnId,
           Gate(n) \/ ArmTurn(n) \/ EnterScene(n) \/ Run(n) \/ Done(n) \/ Gone(n)
    PROVE  Holds' /\ cache' = cache
<1>1. gturn \in [TurnId -> TurnType] /\ gturn[n] \in TurnType
  BY DEF GateInv, GateTypes
<1>2. ASSUME NEW p, NEW h, gturn' = [gturn EXCEPT ![n].pc = p, ![n].human = h], UNCHANGED <<cache, lists, table, gfaults>>,
             \/ p \notin Early \cup {"pre"} /\ gturn[n].pc \notin Early
             \/ p \in Early /\ gturn[n].pc \in Early
      PROVE  Holds' /\ cache' = cache
  <2> DEFINE g == [gturn[n] EXCEPT !.pc = p, !.human = h]
  <2>1. g.pc = p /\ g.l = gturn[n].l
    BY <1>1 DEF TurnType
  <2>2. gturn' = [gturn EXCEPT ![n] = g]
    BY <1>1, <1>2
  <2> HIDE DEF g
  <2> QED BY <1>2, <2>1, <2>2, HoldsMoves
<1>3. ASSUME NEW p, gturn' = [gturn EXCEPT ![n].pc = p], UNCHANGED <<cache, lists, table, gfaults>>,
             \/ p \notin Early \cup {"pre"} /\ gturn[n].pc \notin Early
             \/ p \in Early /\ gturn[n].pc \in Early
      PROVE  Holds' /\ cache' = cache
  <2>1. [gturn EXCEPT ![n].pc = p] = [gturn EXCEPT ![n].pc = p, ![n].human = gturn[n].human]
    BY <1>1 DEF TurnType
  <2> QED BY <1>2, <1>3, <2>1
<1>4. CASE Gate(n)
  BY <1>3, <1>4 DEF Gate, Early
<1>5. CASE ArmTurn(n)
  BY <1>2, <1>5 DEF ArmTurn, Early
<1>6. CASE EnterScene(n)
  <2>1. gturn[n].pc = "scene" /\ gturn' = [gturn EXCEPT ![n].pc = "hear"] /\ UNCHANGED <<cache, lists, table, gfaults>>
    BY <1>6 DEF EnterScene, Plain
  <2> QED BY <1>3, <2>1 DEF Early
<1>7. CASE Run(n)
  BY <1>3, <1>7 DEF Run, Early
<1>9. CASE Done(n)
  BY <1>3, <1>9 DEF Done, Ended, Early
<1>10. CASE Gone(n)
  BY <1>10 DEF Gone, Plain
<1> QED BY <1>4, <1>5, <1>6, <1>7, <1>9, <1>10

LEMMA HoldsWorks ==
    ASSUME GateInv, Holds, Plain, NEW n \in TurnId, Round(n) \/ Answer(n) \/ Raise(n)
    PROVE  Holds' /\ \A l \in TurnId : cache'[l] # cache[l] => IsPrefix(Kept[l], cache'[l])
<1>1. gturn \in [TurnId -> TurnType] /\ gturn[n] \in TurnType
  BY DEF GateInv, GateTypes
<1>2. Msg("her", n) \in MsgType /\ Msg("call", n) \in MsgType /\ Msg("tool", n) \in MsgType /\ Msg("part", n) \in MsgType
  BY MsgIs
<1>3. CASE Round(n)
  <2> DEFINE ms == <<Msg("call", n), Msg("tool", n)>>
  <2>1. ms \in Seq(MsgType) /\ Len(ms) > 0 /\ ms[1] = Msg("call", n)
    BY <1>2
  <2>2. \A k \in TurnId : gturn'[k].pc = gturn[k].pc /\ gturn'[k].l = gturn[k].l
    BY <1>1, <1>3 DEF Round, TurnType
  <2>3. work[n] = "on" /\ Generate(n, Msg("call", n)) /\ Put(n, ms) /\ table' = table /\ gfaults' = gfaults
    BY <1>3 DEF Round
  <2> HIDE DEF ms
  <2> QED BY <1>2, <2>1, <2>2, <2>3, HoldsPut
<1>4. CASE Answer(n)
  <2>1. PICK final \in Final(n) : Put(n, final)
    BY <1>4 DEF Answer
  <2>2. final \in Seq(MsgType) /\ ("rejoin" \notin gfaults => final = <<Msg("her", n)>>)
    BY <2>1, FinalIs
  <2>3. gfaults \cap {"rejoin", "raise"} = {} => Len(final) > 0 /\ final[1] = Msg("her", n)
    BY <2>2
  <2>4. gturn' = gturn /\ work[n] = "on" /\ Generate(n, Msg("her", n)) /\ table' = table /\ gfaults' = gfaults
    BY <1>4 DEF Answer
  <2> QED BY <1>2, <2>1, <2>2, <2>3, <2>4, HoldsPut
<1>5. CASE Raise(n)
  <2>1. /\ gturn' = gturn /\ work[n] = "on" /\ table' = table /\ gfaults' = gfaults /\ "raise" \in gfaults
    BY <1>5 DEF Raise
  <2>2. CASE UNCHANGED <<lists, cache>>
    BY <2>1, <2>2, KeptStays DEF Holds
  <2>3. CASE Generate(n, Msg("part", n)) /\ UNCHANGED lists
    <3>1. <<>> \in Seq(MsgType) /\ Put(n, <<>>)
      <4>1. gturn[n].l \in TurnId /\ lists[gturn[n].l] \in Seq(MsgType) /\ lists \in [TurnId -> Seq(MsgType)]
        <5>1. gturn[n].pc # "none"
          BY <2>1, GateFacts, Zenon DEF GateInv
        <5> QED BY <5>1, GateFacts DEF GateInv, GateTypes
      <4> QED BY <2>3, <4>1 DEF Put
    <3> QED BY <1>2, <2>1, <2>3, <3>1, HoldsPut
  <2>4. CASE Generate(n, Msg("call", n)) /\ Put(n, <<Msg("call", n)>>)
    <3>1. <<Msg("call", n)>> \in Seq(MsgType)
      BY <1>2
    <3> QED BY <1>2, <2>1, <2>4, <3>1, HoldsPut
  <2> QED BY <1>5, <2>2, <2>3, <2>4 DEF Raise
<1> QED BY <1>3, <1>4, <1>5

LEMMA ExtendStep == ExtendInv /\ [GatewayNext]_gvars => ExtendInv' /\ [ExtendsStep]_gvars
<1> SUFFICES ASSUME ExtendInv, [GatewayNext]_gvars PROVE ExtendInv' /\ [ExtendsStep]_gvars
  OBVIOUS
<1>1. GateInv' /\ Fresh'
  BY GateStep, FreshStep DEF ExtendInv
<1>2. gfaults' = gfaults
  BY DEF GatewayNext, gvars, Arrive, Gate, Transcript, PreTurn, ArmTurn, EnterScene, Run, Round, Answer, Raise,
         Done, Gone
<1>3. ASSUME Plain PROVE Holds' /\ \A l \in TurnId : cache'[l] # cache[l] => IsPrefix(Kept[l], cache'[l])
  <2>1. GateInv /\ Fresh /\ Holds
    BY <1>3 DEF ExtendInv
  <2>2. CASE UNCHANGED gvars
    <3>1. UNCHANGED <<cache, lists, gturn, table, gfaults>>
      BY <2>2 DEF gvars
    <3> QED BY <2>1, <3>1, KeptStays DEF Holds
  <2>3. CASE GatewayNext
    <3>1. PICK n \in TurnId :
             \/ \E s \in Console, door \in {"console", "openai"} : Arrive(n, s, door)
             \/ Gate(n) \/ Transcript(n) \/ PreTurn(n) \/ ArmTurn(n) \/ EnterScene(n) \/ Run(n)
             \/ Round(n) \/ Answer(n) \/ Raise(n) \/ Done(n) \/ Gone(n)
      BY <2>3 DEF GatewayNext
    <3>2. CASE \E s \in Console, door \in {"console", "openai"} : Arrive(n, s, door)
      <4>1. cache' = cache
        BY <3>2 DEF Arrive
      <4> QED BY <1>3, <2>1, <3>2, <4>1, HoldsArrive
    <3>3. CASE Transcript(n)
      <4>1. cache' = cache
        BY <3>3 DEF Transcript
      <4> QED BY <1>3, <2>1, <3>3, <4>1, HoldsTranscript
    <3>4. CASE PreTurn(n)
      <4>1. cache' = cache
        BY <3>4 DEF PreTurn
      <4> QED BY <1>3, <2>1, <3>4, <4>1, HoldsPre
    <3>5. CASE Gate(n) \/ ArmTurn(n) \/ EnterScene(n) \/ Run(n) \/ Done(n) \/ Gone(n)
      BY <1>3, <2>1, <3>5, HoldsWaits
    <3>6. CASE Round(n) \/ Answer(n) \/ Raise(n)
      BY <1>3, <2>1, <3>6, HoldsWorks
    <3> QED BY <3>1, <3>2, <3>3, <3>4, <3>5, <3>6
  <2> QED BY <2>2, <2>3
<1>4. Plain' <=> Plain
  BY <1>2 DEF Plain
<1>5. ExtendsStep
  BY <1>3 DEF ExtendsStep, Plain, Kept
<1> QED BY <1>1, <1>3, <1>4, <1>5 DEF ExtendInv

LEMMA ExtendStart == GatewayInit => ExtendInv
<1> SUFFICES ASSUME GatewayInit PROVE ExtendInv
  OBVIOUS
<1>1. Fresh
  <2>1. Begun = 1..0 /\ 0 \in 0..MaxGateTurns
    BY GateAssumption DEF GatewayInit, Begun, NoTurn
  <2> QED BY <2>1 DEF Fresh
<1>2. <<>> \in Seq(MsgType) /\ IsPrefix(<<>>, <<>>)
  BY DEF IsPrefix
<1>4. ToKeep(<<>>) = <<>>
  BY DEF ToKeep, Front
<1>5. Kept = [l \in TurnId |-> <<>>]
  BY <1>4 DEF GatewayInit, Kept
<1>3. Holds
  BY <1>2, <1>5 DEF GatewayInit, Holds, NoTurn, Early
<1> QED BY <1>1, <1>3, GateStart DEF ExtendInv

\* Every prompt of a session extends what the daemon holds for it, for any number of
\* consoles, sessions and turns, notes, declines and tool rounds included.  Where her
\* answer is stripped or joined to an earlier round's prose, or a call breaks off, it
\* extends all but the last thing the daemon wrote (_session_transcript,
\* mutate_messages, reply_parts).
THEOREM PromptsAlwaysExtend == GatewaySpec => Extends
  BY ExtendStart, ExtendStep, PTL DEF GatewaySpec, Extends

-----------------------------------------------------------------------------
(***************************************************************************)
(* The router.  Whatever overlaps, the thread that raised the flag spawns  *)
(* a worker, and a stream knows its own turn's impulse only.  Calm, one    *)
(* caller at a time is inside start(), and finds no worker there if it is  *)
(* going to spawn one.                                                     *)
(***************************************************************************)
InStart == {"check", "set", "spawn"}
CallType == [pc : {"out", "number", "put", "wait"} \cup InStart, prio : Nat, seq : Nat, on_delta : BOOLEAN]
Request == [prio : Nat, seq : Nat \ {0}, on_delta : BOOLEAN]
WireType == [name : {"message", "kairos"}, text : Nat, kairos : Nat, sent : Nat, spoke : Nat, on_delta : BOOLEAN]
FutureType == [state : {"pending", "raised", "none", "done"}, text : Nat, kairos : Nat]

RouterTypes ==
    /\ running \in BOOLEAN /\ seq \in Nat
    /\ worker \in [Worker -> Nat \cup {NoThread}]
    /\ queue \subseteq Request
    /\ call \in [Caller -> CallType]
    /\ \A c \in Caller : At(c, "put") => call[c].seq # 0
    /\ wire \in [Worker -> WireType]
    /\ future \in [1..MaxSeq -> FutureType]

OwnWire == \A w \in Worker : Serving(w) => wire[w].kairos \in {NoImpulse, worker[w]}

\* Calm, start() is entered by one caller at a time and finds the worker it left.
OneStart == faults = {} =>
    /\ \A c, d \in Caller : call[c].pc \in InStart /\ call[d].pc \in InStart => c = d
    /\ \A v, w \in Worker : Live(v) /\ Live(w) => v = w
    /\ \A w \in Worker : Live(w) => running
    /\ \A c \in Caller : At(c, "set") => ~running
    /\ \A c \in Caller : At(c, "spawn") => running /\ \A w \in Worker : ~Live(w)

RouterInv == RouterTypes /\ OwnWire /\ OwnReply /\ WorkerThere /\ OneStart

LEMMA RouterStart == RouterInit => RouterInv
<1> SUFFICES ASSUME RouterInit PROVE RouterInv
  OBVIOUS
<1>1. RouterTypes
  BY DEF RouterInit, RouterTypes, CallType, WireType, FutureType, Outside, Quiet, Pending, NoImpulse, At, InStart
<1>2. OwnWire /\ OwnReply
  BY DEF RouterInit, OwnWire, OwnReply, Serving, NoThread, Pending
<1>3. WorkerThere /\ OneStart
  BY DEF RouterInit, WorkerThere, OneStart, Live, Outside, InStart, At
<1> QED BY <1>1, <1>2, <1>3 DEF RouterInv

\* PriorityQueue.get() returns one of the requests that wait.
LEMMA LeastIsThere ==
    ASSUME NEW q \in SUBSET Request, q # {}
    PROVE  Least(q) \in q
<1> DEFINE P == {s.prio : s \in q}
<1>1. P \in SUBSET Nat /\ P # {}
  BY Zenon DEF Request
<1>2. PICK p \in P : \A y \in P : p <= y
  BY <1>1, LeastNat
<1> DEFINE S == {s.seq : s \in {t \in q : t.prio = p}}
<1>3. S \in SUBSET Nat /\ S # {}
  BY <1>2, Zenon DEF Request
<1>4. PICK n \in S : \A y \in S : n <= y
  BY <1>3, LeastNat
<1>5. PICK least \in q : least.prio = p /\ least.seq = n
  BY <1>4, Zenon
<1>6. \A s \in q : s.prio \in P /\ (s.prio = p => s.seq \in S)
  BY Zenon
<1>7. \A s \in q : least.prio < s.prio \/ (least.prio = s.prio /\ least.seq <= s.seq)
  <2> TAKE s \in q
  <2>1. p <= s.prio /\ p \in Nat /\ s.prio \in Nat
    BY <1>1, <1>2, <1>6
  <2>2. s.prio = p => n <= s.seq
    BY <1>4, <1>6
  <2> QED BY <1>5, <2>1, <2>2
<1> QED BY <1>5, <1>7 DEF Least

\* Steps of a caller.
LEMMA RouterCaller ==
    ASSUME RouterInv, NEW c \in Caller,
           \/ \E p \in Priority, on \in BOOLEAN : Infer(c, p, on)
           \/ Submitting(c) \/ Return(c)
    PROVE  RouterInv'
<1> USE RouterAssumption
<1>1. ASSUME NEW p \in Priority, NEW on \in BOOLEAN, Infer(c, p, on)
      PROVE  RouterInv'
  <2>1. RouterTypes'
    BY <1>1 DEF RouterInv, RouterTypes, Infer, At, CallType, InStart
  <2>2. OwnWire' /\ OwnReply'
    BY <1>1 DEF RouterInv, OwnWire, OwnReply, Serving, Infer
  <2>3. WorkerThere'
    BY <1>1 DEF RouterInv, RouterTypes, WorkerThere, Live, Infer, At
  <2>4. OneStart'
    BY <1>1 DEF RouterInv, RouterTypes, OneStart, Live, Infer, At, InStart
  <2> QED BY <2>1, <2>2, <2>3, <2>4 DEF RouterInv
<1>2. ASSUME Check(c)
      PROVE  RouterInv'
  <2>1. RouterTypes'
    BY <1>2 DEF RouterInv, RouterTypes, Check, StartChecks, Goto, At, CallType, InStart
  <2>2. OwnWire' /\ OwnReply'
    BY <1>2 DEF RouterInv, OwnWire, OwnReply, Serving, Check, StartChecks
  <2>3. WorkerThere'
    BY <1>2 DEF RouterInv, RouterTypes, WorkerThere, Live, Check, StartChecks, Goto, At
  <2>4. OneStart'
    BY <1>2 DEF RouterInv, RouterTypes, OneStart, Live, Check, StartChecks, Goto, At, InStart
  <2> QED BY <2>1, <2>2, <2>3, <2>4 DEF RouterInv
<1>3. ASSUME SetRunning(c)
      PROVE  RouterInv'
  <2>1. RouterTypes'
    BY <1>3 DEF RouterInv, RouterTypes, SetRunning, Goto, At, CallType, InStart
  <2>2. OwnWire' /\ OwnReply'
    BY <1>3 DEF RouterInv, OwnWire, OwnReply, Serving, SetRunning
  <2>3. WorkerThere'
    BY <1>3 DEF RouterInv, RouterTypes, WorkerThere, Live, SetRunning, Goto, At
  <2>4. OneStart'
    BY <1>3 DEF RouterInv, RouterTypes, OneStart, Live, SetRunning, Goto, At, InStart
  <2> QED BY <2>1, <2>2, <2>3, <2>4 DEF RouterInv
<1>4. ASSUME Spawn(c)
      PROVE  RouterInv'
  <2>w. PICK w \in Worker : ~Live(w) /\ worker' = [worker EXCEPT ![w] = Idle]
    BY <1>4 DEF Spawn
  <2>c. /\ call' = [call EXCEPT ![c].pc = "number"] /\ call[c].pc = "spawn"
        /\ UNCHANGED <<running, queue, seq, wire, future, last_kairos, faults>>
    BY <1>4 DEF Spawn, Goto, At
  <2>t. call' \in [Caller -> CallType]
    BY <2>c DEF RouterInv, RouterTypes, CallType
  <2>1. RouterTypes'
    BY <2>w, <2>c, <2>t DEF RouterInv, RouterTypes, At, Idle
  <2>2. OwnWire' /\ OwnReply'
    BY <1>4 DEF RouterInv, RouterTypes, OwnWire, OwnReply, Serving, Spawn, Idle
  <2>3. WorkerThere'
    BY <1>4 DEF RouterInv, RouterTypes, WorkerThere, Live, Spawn, Goto, At, Idle, NoThread
  <2>4. OneStart'
    <3>1. ASSUME faults' = {} PROVE \A v \in Worker : ~Live(v)
      BY <2>c, <3>1 DEF RouterInv, OneStart, At
    <3>2. \A v \in Worker : Live(v)' => v = w \/ Live(v)
      BY <2>w DEF RouterInv, RouterTypes, Live
    <3>3. ASSUME faults' = {} PROVE \A d \in Caller : d # c => call[d].pc \notin InStart
      BY <2>c, <3>3 DEF RouterInv, OneStart, InStart
    <3>4. \A d \in Caller : call'[d].pc = IF d = c THEN "number" ELSE call[d].pc
      BY <2>c DEF RouterInv, RouterTypes, CallType
    <3>5. ASSUME faults' = {} PROVE running'
      BY <2>c, <3>5 DEF RouterInv, OneStart, At
    <3> QED BY <2>c, <3>1, <3>2, <3>3, <3>4, <3>5 DEF OneStart, At, InStart
  <2> QED BY <2>1, <2>2, <2>3, <2>4 DEF RouterInv
<1>5. ASSUME Number(c)
      PROVE  RouterInv'
  <2>1. RouterTypes'
    <3>1. call' = [call EXCEPT ![c] = [call[c] EXCEPT !.pc = "put", !.seq = seq + 1]] /\ seq' = seq + 1
          /\ UNCHANGED <<running, worker, queue, wire, future>>
      BY <1>5 DEF Number, RouterInv, RouterTypes
    <3>2. [call[c] EXCEPT !.pc = "put", !.seq = seq + 1] \in CallType
      <4>1. call[c] \in CallType /\ seq + 1 \in Nat
        BY DEF RouterInv, RouterTypes
      <4> QED BY <4>1 DEF CallType
    <3> QED BY <3>1, <3>2 DEF RouterInv, RouterTypes, At, CallType
  <2>2. OwnWire' /\ OwnReply'
    BY <1>5 DEF RouterInv, OwnWire, OwnReply, Serving, Number
  <2>3. WorkerThere'
    BY <1>5 DEF RouterInv, RouterTypes, WorkerThere, Live, Number, At
  <2>4. OneStart'
    BY <1>5 DEF RouterInv, RouterTypes, OneStart, Live, Number, At, InStart
  <2> QED BY <2>1, <2>2, <2>3, <2>4 DEF RouterInv
<1>6. ASSUME Enqueue(c)
      PROVE  RouterInv'
  <2>1. RouterTypes'
    BY <1>6 DEF RouterInv, RouterTypes, Enqueue, Goto, At, CallType, InStart, Request
  <2>2. OwnWire' /\ OwnReply'
    BY <1>6 DEF RouterInv, OwnWire, OwnReply, Serving, Enqueue
  <2>3. WorkerThere'
    BY <1>6 DEF RouterInv, RouterTypes, WorkerThere, Live, Enqueue, Goto, At
  <2>4. OneStart'
    BY <1>6 DEF RouterInv, RouterTypes, OneStart, Live, Enqueue, Goto, At, InStart
  <2> QED BY <2>1, <2>2, <2>3, <2>4 DEF RouterInv
<1>7. ASSUME Return(c)
      PROVE  RouterInv'
  <2>1. RouterTypes'
    BY <1>7 DEF RouterInv, RouterTypes, Return, At, CallType, InStart, Outside
  <2>2. OwnWire' /\ OwnReply'
    BY <1>7 DEF RouterInv, OwnWire, OwnReply, Serving, Return
  <2>3. WorkerThere'
    BY <1>7 DEF RouterInv, RouterTypes, WorkerThere, Live, Return, At
  <2>4. OneStart'
    BY <1>7 DEF RouterInv, RouterTypes, OneStart, Live, Return, At, InStart, Outside
  <2> QED BY <2>1, <2>2, <2>3, <2>4 DEF RouterInv
<1> QED BY <1>1, <1>2, <1>3, <1>4, <1>5, <1>6, <1>7 DEF Submitting

\* Steps of a worker.
LEMMA RouterWorker ==
    ASSUME RouterInv, NEW w \in Worker, Reading(w) \/ Ending(w)
    PROVE  RouterInv'
<1>1. ASSUME Leave(w)
      PROVE  RouterInv'
  <2>1. RouterTypes'
    BY <1>1 DEF RouterInv, RouterTypes, Leave, At
  <2>2. OwnWire' /\ OwnReply'
    BY <1>1 DEF RouterInv, RouterTypes, OwnWire, OwnReply, Serving, Leave, NoThread
  <2>3. WorkerThere' /\ OneStart'
    BY <1>1 DEF RouterInv, RouterTypes, WorkerThere, OneStart, Live, Leave, At
  <2> QED BY <2>1, <2>2, <2>3 DEF RouterInv
<1>2. ASSUME Take(w)
      PROVE  RouterInv'
  <2>1. PICK r \in queue : /\ queue' = queue \ {r}
                            /\ worker' = [worker EXCEPT ![w] = r.seq]
                            /\ wire' = [wire EXCEPT ![w] = [Quiet EXCEPT !.on_delta = r.on_delta]]
    BY <1>2, LeastIsThere DEF Take, RouterInv, RouterTypes
  <2>2. r.seq \in Nat \ {0} /\ r.on_delta \in BOOLEAN
    BY <2>1 DEF RouterInv, RouterTypes, Request
  <2>3. UNCHANGED <<running, seq, call, future, last_kairos, faults>> /\ worker[w] = Idle
    BY <1>2 DEF Take
  <2>4. RouterTypes'
    BY <2>1, <2>2, <2>3 DEF RouterInv, RouterTypes, At, Quiet, WireType, NoImpulse
  <2>5. OwnWire' /\ OwnReply'
    BY <2>1, <2>2, <2>3 DEF RouterInv, RouterTypes, OwnWire, OwnReply, Serving, Quiet
  <2>6. \A v \in Worker : Live(v)' <=> Live(v)
    BY <2>1, <2>2, <2>3 DEF RouterInv, RouterTypes, Live, NoThread, Idle
  <2>7. WorkerThere' /\ OneStart'
    BY <2>3, <2>6 DEF RouterInv, WorkerThere, OneStart, At
  <2> QED BY <2>4, <2>5, <2>7 DEF RouterInv
<1>3. ASSUME wire' \in [Worker -> WireType], OwnWire', UNCHANGED <<running, worker, queue, seq, call, future, faults>>
      PROVE  RouterInv'
  <2>1. RouterTypes'
    BY <1>3 DEF RouterInv, RouterTypes, At
  <2>2. OwnReply'
    BY <1>3 DEF RouterInv, OwnReply
  <2>3. WorkerThere' /\ OneStart'
    BY <1>3 DEF RouterInv, WorkerThere, OneStart, Live, At
  <2> QED BY <1>3, <2>1, <2>2, <2>3 DEF RouterInv
<1>4. ASSUME DataDelta(w)
      PROVE  RouterInv'
  <2>1. wire' \in [Worker -> WireType]
    <3>1. wire[w] \in WireType /\ worker[w] \in Nat
      BY <1>4, RouterAssumption DEF RouterInv, RouterTypes, DataDelta, Serving
    <3> QED BY <1>4, <3>1 DEF RouterInv, RouterTypes, DataDelta, WireType
  <2>2. OwnWire'
    BY <1>4 DEF RouterInv, RouterTypes, OwnWire, DataDelta, WireType, Serving
  <2> QED BY <1>3, <1>4, <2>1, <2>2 DEF DataDelta
<1>5. ASSUME EventLine(w)
      PROVE  RouterInv'
  <2>1. wire' \in [Worker -> WireType]
    <3>1. wire[w] \in WireType /\ worker[w] \in Nat
      BY <1>5, RouterAssumption DEF RouterInv, RouterTypes, EventLine, Serving
    <3> QED BY <1>5, <3>1 DEF RouterInv, RouterTypes, EventLine, WireType
  <2>2. OwnWire'
    BY <1>5 DEF RouterInv, RouterTypes, OwnWire, EventLine, WireType, Serving
  <2> QED BY <1>3, <1>5, <2>1, <2>2 DEF EventLine
<1>6. ASSUME NEW good \in BOOLEAN, DataKairos(w, good)
      PROVE  RouterInv'
  <2>1. wire' \in [Worker -> WireType]
    <3>1. wire[w] \in WireType /\ worker[w] \in Nat
      BY <1>6, RouterAssumption DEF RouterInv, RouterTypes, DataKairos, Serving
    <3> QED BY <1>6, <3>1 DEF RouterInv, RouterTypes, DataKairos, WireType
  <2>2. OwnWire'
    BY <1>6 DEF RouterInv, RouterTypes, OwnWire, DataKairos, WireType, Serving
  <2> QED BY <1>3, <1>6, <2>1, <2>2 DEF DataKairos
<1>7. ASSUME NEW how \in {"ends", "raise"}, Finish(w, how)
      PROVE  RouterInv'
  <2>1. UNCHANGED <<running, queue, seq, call, wire, last_kairos, faults>> /\ Serving(w)
    BY <1>7 DEF Finish
  <2>2. worker' = [worker EXCEPT ![w] = Idle]
    BY <1>7 DEF Finish
  <2>3. PICK f : /\ future' = [future EXCEPT ![worker[w]] = f]
                 /\ \/ f = [Pending EXCEPT !.state = "raised"]
                    \/ f = [Pending EXCEPT !.state = "none"]
                    \/ f = Reply(w)
    BY <1>7 DEF Finish
  <2>4. f \in FutureType /\ f.kairos \in {NoImpulse, worker[w]}
    BY <2>1, <2>3 DEF RouterInv, RouterTypes, OwnWire, Reply, Pending, FutureType, WireType, NoImpulse
  <2>5. RouterTypes'
    BY <2>1, <2>2, <2>3, <2>4 DEF RouterInv, RouterTypes, At, Idle, Serving
  <2>6. OwnWire'
    BY <2>1, <2>2 DEF RouterInv, RouterTypes, OwnWire, Serving, Idle
  <2>7. OwnReply'
    BY <2>1, <2>3, <2>4 DEF RouterInv, RouterTypes, OwnReply, Serving
  <2>8. \A v \in Worker : Live(v)' <=> Live(v)
    BY <2>1, <2>2 DEF RouterInv, RouterTypes, Live, NoThread, Idle, Serving
  <2>9. WorkerThere' /\ OneStart'
    BY <2>1, <2>8 DEF RouterInv, WorkerThere, OneStart, At
  <2> QED BY <2>5, <2>6, <2>7, <2>9 DEF RouterInv
<1> QED BY <1>1, <1>2, <1>4, <1>5, <1>6, <1>7 DEF Reading, Ending

LEMMA RouterStep == RouterInv /\ [RouterNext]_rvars => RouterInv'
<1> SUFFICES ASSUME RouterInv, [RouterNext]_rvars PROVE RouterInv'
  OBVIOUS
<1>1. ASSUME Stop PROVE RouterInv'
  BY <1>1 DEF Stop, RouterInv, RouterTypes, OwnWire, OwnReply, WorkerThere, OneStart, Serving, Live, At
<1>2. CASE UNCHANGED rvars
  BY <1>2 DEF rvars, RouterInv, RouterTypes, OwnWire, OwnReply, WorkerThere, OneStart, Serving, Live, At
<1> QED BY <1>1, <1>2, RouterCaller, RouterWorker DEF RouterNext

\* Requests that overlap come out as if they had not: for any number of callers, workers,
\* priorities and requests, however start() and stop() race (start, submit, _worker,
\* chat_stream).
THEOREM OverlapsAlwaysHarmless == RouterSpec => []OverlapsHarmless
<1>1. RouterInv => OverlapsHarmless
  <2> SUFFICES ASSUME RouterInv PROVE OneRequest
    BY DEF RouterInv, OverlapsHarmless
  <2>1. \A w \in Worker : Serving(w) => Live(w)
    BY DEF Serving, Live, NoThread
  <2> QED BY <2>1 DEF RouterInv, OneStart, OneRequest
<1> QED BY <1>1, RouterStart, RouterStep, PTL DEF RouterSpec
=============================================================================
