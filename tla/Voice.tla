------------------------------- MODULE Voice -------------------------------
(***************************************************************************)
(* The voice turn (harness/voice/service.py): guard, encode by the native  *)
(* path or the CTC ear, then a chat with injected frames, on the session's *)
(* canonical transcript.  A clip is a number of samples and the set of its *)
(* energy windows that are loud; the ear's frames are CTC labels.          *)
(***************************************************************************)
EXTENDS Integers, Sequences, FiniteSets

CONSTANTS Win, Token, Pad,   \* native.py: 320, 640 and 1600 samples
          MaxSamples,        \* service.MAX_SECONDS * SR
          MaxTokens,         \* native.MAX_TOKENS
          MaxLabels,         \* bound: CTC steps
          MaxRows            \* bound: rows of the transcript

VARIABLES artifacts,   \* the files the ear needs that are there
          loaded,      \* ear._state: "empty", "partial" or "full"
          clip,        \* the utterance: [len, loud, labels]
          vturn,       \* where voice_turn is
          frames,      \* of the native path: [from, to, count], in samples and tokens
          kept,        \* of the ear: the kept CTC steps
          transcript   \* the session's rows

vvars == <<artifacts, loaded, clip, vturn, frames, kept, transcript>>

Blank == 0
File == {"proj", "wsub", "ir"}
Windows(len) == 0..((len \div Win) - 1)
Silence == [len |-> 0, loud |-> {}, labels |-> <<>>]
NoFrames == [from |-> 0, to |-> 0, count |-> 0]
Smallest(a, b) == IF a < b THEN a ELSE b
Largest(a, b) == IF a > b THEN a ELSE b
First(S) == CHOOSE x \in S : \A y \in S : x <= y
Final(S) == CHOOSE x \in S : \A y \in S : x >= y

VoiceInit ==
    /\ artifacts \in SUBSET File /\ loaded = "empty"
    /\ clip = Silence /\ vturn = "idle" /\ frames = NoFrames /\ kept = {}
    /\ transcript = <<>>

\* voice_turn ends, always with [DONE]: its locals are gone.
Ends == vturn' = "idle" /\ clip' = Silence /\ frames' = NoFrames /\ kept' = {}
Labels == UNION {[1..n -> 0..2] : n \in 0..MaxLabels}

\* A text turn of the same session, and the operator copying a missing file in.
TextTurn ==
    /\ vturn = "idle" /\ Len(transcript) < MaxRows
    /\ transcript' = transcript \o <<"user", "assistant">>
    /\ UNCHANGED <<artifacts, loaded, clip, vturn, frames, kept>>

Install(f) ==
    /\ vturn = "idle" /\ f \notin artifacts /\ artifacts' = artifacts \cup {f}
    /\ UNCHANGED <<loaded, clip, vturn, frames, kept, transcript>>

\* The request; labels matter to the ear alone and are drawn there.
Utter(len, loud) ==
    /\ vturn = "idle" /\ Len(transcript) < MaxRows
    /\ clip' = [len |-> len, loud |-> loud, labels |-> <<>>]
    /\ vturn' = "guard"
    /\ UNCHANGED <<artifacts, loaded, frames, kept, transcript>>

\* bad base64, nothing in it, too long, or no window above the threshold.
Refuse ==
    /\ vturn = "guard" /\ (clip.len = 0 \/ clip.len > MaxSamples \/ clip.loud = {})
    /\ Ends /\ UNCHANGED <<artifacts, loaded, transcript>>

Accepted == vturn = "guard" /\ clip.len \in 1..MaxSamples /\ clip.loud # {}

-----------------------------------------------------------------------------
(* native.encode *)

\* The samples left when leading and trailing quiet is trimmed.
Trimmed == IF clip.len > 2 * Token
           THEN [from |-> Largest(Pad, First(clip.loud) * Win) - Pad,
                 to   |-> Smallest(clip.len, (Final(clip.loud) + 1) * Win + Pad)]
           ELSE [from |-> 0, to |-> clip.len]

\* ceil(n / 640): the last frame is padded with zeros.
Tokens(n) == (n + Token - 1) \div Token

NativeEncode ==
    /\ Accepted /\ "proj" \in artifacts
    /\ LET n == Smallest(Tokens(Trimmed.to - Trimmed.from), MaxTokens)
       IN  frames' = [from |-> Trimmed.from, to |-> Trimmed.from + n * Token, count |-> n]
    /\ vturn' = "encoded"
    /\ UNCHANGED <<artifacts, loaded, clip, kept, transcript>>

-----------------------------------------------------------------------------
(* ear._load and ear.hear *)

\* What _load leaves in _state: the first check comes before anything is kept.
Load == CASE loaded # "empty" -> loaded
          [] "wsub" \notin artifacts -> "empty"
          [] "ir" \notin artifacts -> "partial"
          [] OTHER -> "full"

\* The loop over argmax, with the label before it.
Collapse(ids) ==
    LET step[t \in 0..Len(ids)] ==
          IF t = 0 THEN [kept |-> {}, prev |-> -1]
          ELSE [kept |-> step[t-1].kept \cup (IF ids[t] # Blank /\ ids[t] # step[t-1].prev THEN {t} ELSE {}),
                prev |-> ids[t]]
    IN  step[Len(ids)].kept

Hear ==
    /\ Accepted /\ "proj" \notin artifacts
    /\ loaded' = Load
    /\ \/ /\ Load = "full"
          /\ \E ids \in Labels : clip' = [clip EXCEPT !.labels = ids] /\ kept' = Collapse(ids)
          /\ vturn' = "encoded" /\ UNCHANGED frames
       \/ Load # "full" /\ Ends      \* EarUnavailable; or a KeyError, from a partial _state, that
                                     \* the route catches
    /\ UNCHANGED <<artifacts, transcript>>

-----------------------------------------------------------------------------
(* The chat *)

\* list(transcript): the instruction goes into a copy.
RowsAfter(rows) == rows

Count == IF frames.count > 0 THEN frames.count ELSE Cardinality(kept)

Ask ==
    /\ vturn = "encoded" /\ Count > 0
    /\ transcript' = Append(RowsAfter(transcript), "user")
    /\ vturn' = "chat"
    /\ UNCHANGED <<artifacts, loaded, clip, frames, kept>>

NothingHeard ==
    /\ vturn = "encoded" /\ Count = 0
    /\ Ends /\ UNCHANGED <<artifacts, loaded, transcript>>

\* The stream ends or raises, with or without text; an empty reply leaves no row.
Answer ==
    /\ vturn = "chat"
    /\ transcript' = Append(transcript, "assistant") \/ UNCHANGED transcript
    /\ Ends /\ UNCHANGED <<artifacts, loaded>>

VoiceNext ==
    \/ TextTurn \/ \E f \in File : Install(f)
    \/ \E len \in 0..(MaxSamples + 1) : \E loud \in SUBSET Windows(len) : Utter(len, loud)
    \/ Refuse \/ NativeEncode \/ Hear \/ Ask \/ NothingHeard \/ Answer
VoiceSpec == VoiceInit /\ [][VoiceNext]_vvars

-----------------------------------------------------------------------------
\* Every loud window of an accepted clip is in the injected frames, in whole: neither
\* the trim, nor the division into tokens, nor the cap on tokens cuts what he said.
NothingSpokenCut == vturn = "chat" /\ frames.count > 0 =>
    \A w \in clip.loud : frames.from <= w * Win /\ (w + 1) * Win <= frames.to

\* The ear keeps the first step of every run of one label, so that a word said twice
\* with a pause is heard twice, and a drawn-out one once.
HeardAsSaid == vturn \in {"encoded", "chat"} =>
    kept = {t \in DOMAIN clip.labels : /\ clip.labels[t] # Blank
                                       /\ t > 1 => clip.labels[t-1] # clip.labels[t]}

\* The instruction that introduces the frames, the last row of the copy the daemon is
\* sent, is in no row a later turn sends.
InstructionStaysOut == "instruction" \notin {transcript[i] : i \in DOMAIN transcript}
=============================================================================
