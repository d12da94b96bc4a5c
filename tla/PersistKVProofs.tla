-------------------------- MODULE PersistKVProofs --------------------------
(***************************************************************************)
(* For every set of prompts, every cache and journal size: while no turn   *)
(* is cut short the daemon's belief about the cache is right and every     *)
(* reply attends its own prompt; a turn that rewound nothing does so even  *)
(* after turns that were cut short; and whatever happens, a turn asks of   *)
(* the session only what KVCache gives.                                    *)
(***************************************************************************)
EXTENDS PersistKV, SequenceTheorems, TLAPS

-----------------------------------------------------------------------------
(* Prefixes. *)

LEMMA PrefixFacts ==
    ASSUME NEW S, NEW s \in Seq(S), NEW n \in 0..Len(s)
    PROVE  /\ Prefix(s, n) \in Seq(S)
           /\ Len(Prefix(s, n)) = n
           /\ \A i \in 1..n : Prefix(s, n)[i] = s[i]
<1>1. \A i \in 1..n : s[i] \in S
  BY ElementOfSeq
<1> QED
  BY <1>1, SubSeqProperties DEF Prefix

LEMMA PrefixZero ==
    ASSUME NEW s
    PROVE  Prefix(s, 0) = << >>
  BY SubSeqEmpty DEF Prefix

LEMMA FrontLast ==
    ASSUME NEW S, NEW s \in Seq(S), s # << >>
    PROVE  /\ Front(s) \in Seq(S)
           /\ Len(s) \in Nat \ {0}
           /\ Len(Front(s)) = Len(s) - 1
           /\ Last(s) \in S
           /\ Append(Front(s), Last(s)) = s
<1>1. Len(s) \in Nat \ {0}
  BY EmptySeq
<1>2. Len(s) - 1 \in 0..Len(s)
  BY <1>1
<1>3. /\ Front(s) \in Seq(S)
      /\ Len(Front(s)) = Len(s) - 1
      /\ \A i \in 1..(Len(s) - 1) : Front(s)[i] = s[i]
  BY <1>2, PrefixFacts DEF Front
<1>4. Last(s) \in S
  BY <1>1, ElementOfSeq DEF Last
<1>5. /\ Append(Front(s), Last(s)) \in Seq(S)
      /\ Len(Append(Front(s), Last(s))) = Len(s)
      /\ \A i \in 1..(Len(s) - 1) : Append(Front(s), Last(s))[i] = Front(s)[i]
      /\ Append(Front(s), Last(s))[Len(s)] = s[Len(s)]
  BY <1>1, <1>3, <1>4, AppendProperties DEF Last
<1>6. \A i \in 1..Len(s) : Append(Front(s), Last(s))[i] = s[i]
  BY <1>1, <1>3, <1>5
<1>7. Append(Front(s), Last(s)) = s
  BY <1>5, <1>6, SeqEqual
<1> QED
  BY <1>1, <1>3, <1>4, <1>7

(* The part of the prompt that Prefill adds completes its front. *)
LEMMA PrefixRest ==
    ASSUME NEW S, NEW s \in Seq(S), NEW n \in Nat, n < Len(s)
    PROVE  /\ Prefix(s, n) \o SubSeq(s, n + 1, Len(s) - 1) = Front(s)
           /\ SubSeq(s, n + 1, Len(s) - 1) \in Seq(S)
<1>0. Len(s) \in Nat
  BY LenProperties
<1>1. /\ 1 \in 1..(Len(s) + 1)
      /\ n \in (1 - 1)..Len(s)
      /\ Len(s) - 1 \in n..Len(s)
  BY <1>0
<1>2. SubSeq(s, 1, n) \o SubSeq(s, n + 1, Len(s) - 1) = SubSeq(s, 1, Len(s) - 1)
  BY <1>1, ConcatAdjacentSubSeq
<1>3. \A i \in (n + 1)..(Len(s) - 1) : s[i] \in S
  BY <1>0, ElementOfSeq
<1>4. SubSeq(s, n + 1, Len(s) - 1) \in Seq(S)
  BY <1>0, <1>3, SubSeqProperties
<1> QED
  BY <1>2, <1>4 DEF Prefix, Front

(* Two sequences that agree up to n have the same prefix. *)
LEMMA SamePrefix ==
    ASSUME NEW S, NEW s \in Seq(S), NEW u \in Seq(S), NEW n \in Nat,
           n <= Len(s), n <= Len(u), \A i \in 1..n : s[i] = u[i]
    PROVE  Prefix(s, n) = Prefix(u, n)
<1>0. Len(s) \in Nat /\ Len(u) \in Nat
  BY LenProperties
<1>1. /\ Prefix(s, n) \in Seq(S) /\ Len(Prefix(s, n)) = n
      /\ \A i \in 1..n : Prefix(s, n)[i] = s[i]
  BY <1>0, PrefixFacts
<1>2. /\ Prefix(u, n) \in Seq(S) /\ Len(Prefix(u, n)) = n
      /\ \A i \in 1..n : Prefix(u, n)[i] = u[i]
  BY <1>0, PrefixFacts
<1> QED
  BY <1>1, <1>2, SeqEqual

-----------------------------------------------------------------------------
(* What the verbs do to the cache's type. *)

CacheOK ==
    /\ cache \in Seq(Held) /\ Len(cache) <= Pmax
    /\ floor \in 0..Len(cache) /\ Len(cache) - floor <= Jmax

LEMMA TokHeld ==
    ASSUME NEW s \in Seq(Tok)
    PROVE  s \in Seq(Held)
  BY SeqMonotonic DEF Held

LEMMA FeedKeeps ==
    ASSUME CacheOK, NEW s \in Seq(Held), Fits(s), Feed(s)
    PROVE  CacheOK' /\ Len(cache') = Len(cache) + Len(s)
<1>1. /\ Len(cache) \in Nat /\ Len(s) \in Nat
      /\ Pmax \in Nat /\ Jmax \in Nat /\ Jmax > 0
  BY LenProperties, DaemonShape DEF CacheOK
<1>2. /\ cache' \in Seq(Held)
      /\ Len(cache') = Len(cache) + Len(s)
  BY ConcatProperties DEF CacheOK, Feed
<1>3. /\ floor' \in Nat /\ floor' <= Len(cache') /\ Len(cache') - floor' <= Jmax
  BY <1>1, <1>2 DEF CacheOK, Feed
<1> QED
  BY <1>1, <1>2, <1>3 DEF CacheOK, Fits

(* Where one more token may be decoded, it fits. *)
LEMMA RoomFits ==
    ASSUME CacheOK, NEW x, Room
    PROVE  Fits(<<x>>)
<1>1. Len(cache) \in Nat /\ Pmax \in Nat /\ Len(<<x>>) = 1
  BY LenProperties, DaemonShape DEF CacheOK
<1> QED
  BY <1>1 DEF Room, Fits

(* A part of what fits, fits. *)
LEMMA PartFits ==
    ASSUME CacheOK, NEW s \in Seq(Held), NEW k \in 0..Len(s), Fits(s)
    PROVE  Prefix(s, k) \in Seq(Held) /\ Fits(Prefix(s, k))
<1>1. /\ Len(cache) \in Nat /\ Len(s) \in Nat /\ Pmax \in Nat
      /\ Prefix(s, k) \in Seq(Held) /\ Len(Prefix(s, k)) = k
  BY LenProperties, PrefixFacts, DaemonShape DEF CacheOK
<1> QED
  BY <1>1 DEF Fits

(* A verb that fails changes nothing or leaves a part that fits. *)
LEMMA FeedFailsParts ==
    ASSUME CacheOK, NEW s \in Seq(Held), NEW room, NEW path,
           room => Fits(s), FeedFails(s, room, path)
    PROVE  \/ UNCHANGED <<cache, floor>>
           \/ /\ path \in Armed
              /\ \E k \in 0..Len(s) : /\ Prefix(s, k) \in Seq(Held)
                                     /\ Fits(Prefix(s, k)) /\ Feed(Prefix(s, k))
  BY PartFits DEF FeedFails

LEMMA FeedFailsKeeps ==
    ASSUME CacheOK, NEW s \in Seq(Held), NEW room, NEW path,
           room => Fits(s), FeedFails(s, room, path)
    PROVE  CacheOK'
<1>1. CASE UNCHANGED <<cache, floor>>
  BY <1>1 DEF CacheOK
<1>2. ASSUME NEW k \in 0..Len(s), Prefix(s, k) \in Seq(Held),
             Fits(Prefix(s, k)), Feed(Prefix(s, k))
      PROVE  CacheOK'
  BY <1>2, FeedKeeps
<1> QED
  BY <1>1, <1>2, FeedFailsParts

LEMMA EmptyKeeps ==
    ASSUME Empty
    PROVE  CacheOK' /\ Len(cache') = 0
<1>1. << >> \in Seq(Held) /\ Len(<< >>) = 0
  BY EmptySeq
<1> QED
  BY <1>1, DaemonShape DEF Empty, CacheOK

LEMMA Unfold ==
    ASSUME IInv
    PROVE  /\ CacheOK /\ committed \in Seq(Tok)
           /\ t.prompt \in Seq(Tok) /\ t.aug \in Seq(Tok) /\ t.gen \in Seq(Tok)
           /\ t.from \in Nat
           /\ t.persist \in BOOLEAN /\ t.recalled \in BOOLEAN
           /\ t.injected \in BOOLEAN /\ t.side \in BOOLEAN
           /\ Len(cache) \in Nat /\ Len(committed) \in Nat
           /\ Len(t.prompt) \in Nat
           /\ t.prompt \in Prompts => t.prompt # << >>
<1>1. /\ CacheOK /\ committed \in Seq(Tok)
      /\ t.prompt \in Seq(Tok) /\ t.aug \in Seq(Tok) /\ t.gen \in Seq(Tok)
      /\ t.from \in Nat
      /\ t.persist \in BOOLEAN /\ t.recalled \in BOOLEAN
      /\ t.injected \in BOOLEAN /\ t.side \in BOOLEAN
  BY DEF IInv, TypeOK, TurnType, CacheOK
<1>2. /\ Len(cache) \in Nat /\ Len(committed) \in Nat /\ Len(t.prompt) \in Nat
  BY <1>1, LenProperties DEF CacheOK
<1>3. t.prompt \in Prompts => t.prompt # << >>
  BY DaemonShape
<1> QED
  BY <1>1, <1>2, <1>3
-----------------------------------------------------------------------------
(* Each action keeps the invariant. *)

(* A turn record as Begin makes it. *)
LEMMA TurnFacts ==
    ASSUME NEW p \in Prompts, NEW persist \in BOOLEAN, NEW from \in Nat,
           NEW how \in {"cold", "rewind", "restore", "capture"},
           from < Len(p), t' = Turn(p, persist, from, how)
    PROVE  /\ t' \in TurnType
           /\ t'.prompt = p /\ t'.persist = persist /\ t'.from = from /\ t'.how = how
           /\ t'.side = FALSE /\ t'.aug = << >> /\ t'.recalled = FALSE
           /\ t'.injected = FALSE /\ t'.gen = << >>
<1>1. p \in Seq(Tok) /\ << >> \in Seq(Tok)
  BY DaemonShape, EmptySeq
<1>2. t' = [prompt |-> p, persist |-> persist, from |-> from, how |-> how,
            side |-> FALSE, aug |-> << >>, recalled |-> FALSE,
            injected |-> FALSE, gen |-> << >>]
  BY DEF Turn, NoTurn
<1> QED
  BY <1>1, <1>2 DEF TurnType

(* Any start of a turn that leaves the cache with the first from tokens    *)
(* of the prompt, or with nothing before it captures or drops.             *)
LEMMA BeginFacts ==
    ASSUME IInv, NEW p \in Prompts, NEW persist \in BOOLEAN, NEW from \in Nat,
           NEW how \in {"cold", "rewind", "restore", "capture"},
           from < Len(p), t' = Turn(p, persist, from, how),
           pc' \in {"drop", "capture", "prefill"},
           persist \/ "excluded" \in Armed,
           pc' = "drop" => from = 0,
           pc' \in {"drop", "capture"} => cache' = << >>,
           (pc' = "prefill" /\ (how = "rewind" => Calm)) => cache' = Prefix(p, from),
           CacheOK', UNCHANGED <<committed, snap>>
    PROVE  IInv'
<1>1. /\ t' \in TurnType
      /\ t'.prompt = p /\ t'.persist = persist /\ t'.from = from /\ t'.how = how
      /\ t'.side = FALSE /\ t'.aug = << >> /\ t'.recalled = FALSE
      /\ t'.injected = FALSE /\ t'.gen = << >>
  BY TurnFacts
<1>2. TypeOK'
  BY <1>1 DEF IInv, TypeOK, CacheOK, Stages
<1>3. SnapExact' /\ Belief'
  BY DEF IInv, SnapExact, Belief
<1>4. Locals'
  BY <1>1 DEF Locals
<1>5. Contents'
  BY <1>1 DEF Contents, Trusted
<1> QED
  BY <1>2, <1>3, <1>4, <1>5 DEF IInv

LEMMA BeginRewindKeeps ==
    ASSUME IInv, NEW p \in Prompts, NEW n \in 0..Len(p), IsLcp(p, n),
           BeginRewind(p, n)
    PROVE  IInv'
<1> USE DEF IInv
<1>1. /\ p \in Seq(Tok) /\ p # << >>
      /\ Len(p) \in Nat \ {0}
      /\ Len(cache) \in Nat /\ Len(committed) \in Nat
      /\ cache \in Seq(Held) /\ committed \in Seq(Tok)
      /\ CacheOK
  BY DaemonShape, EmptySeq, Unfold DEF CacheOK
<1>2. n \in Nat /\ n <= Len(committed) /\ n < Len(p)
  BY <1>1 DEF IsLcp, MaxPrefix
<1>3. /\ Len(cache) = Len(committed)
      /\ Drop(n) = Len(committed) - n
      /\ Drop(n) <= Len(cache) - floor
  BY <1>1, <1>2 DEF BeginRewind, CanRewind, Refused, Guard, Drop, CacheOK
<1>4. cache' = Prefix(cache, n) /\ Len(cache) - Drop(n) = n
  BY <1>1, <1>2, <1>3 DEF BeginRewind
<1>5. cache' \in Seq(Held) /\ Len(cache') = n
  BY <1>1, <1>2, <1>3, <1>4, PrefixFacts
<1>6. CacheOK'
  BY <1>1, <1>2, <1>3, <1>5, DaemonShape DEF CacheOK, BeginRewind
<1>7. ASSUME Calm PROVE cache' = Prefix(p, n)
  <2>1. committed = cache
    BY <1>7 DEF Belief, BeginRewind, CanRewind
  <2>2. \A i \in 1..n : committed[i] = p[i]
    BY DEF IsLcp
  <2>3. Prefix(committed, n) = Prefix(p, n)
    BY <1>1, <1>2, <2>2, SamePrefix
  <2> QED
    BY <1>4, <2>1, <2>3
<1> QED
  BY <1>2, <1>6, <1>7, BeginFacts DEF BeginRewind

LEMMA BeginOtherKeeps ==
    ASSUME IInv, NEW p \in Prompts, NEW n \in 0..Len(p), IsLcp(p, n),
           \/ BeginRestore(p, n) \/ RestoreFails(p, n) \/ BeginCapture(p, n)
           \/ BeginCold(p, n) \/ BeginExcluded(p)
    PROVE  IInv'
<1>1. /\ p \in Seq(Tok) /\ p # << >>
      /\ Len(p) \in Nat \ {0}
      /\ Len(committed) \in Nat
      /\ CacheOK
  BY DaemonShape, EmptySeq, Unfold
<1>2. n \in Nat /\ n < Len(p)
  BY <1>1 DEF IsLcp, MaxPrefix
<1>3. CASE BeginRestore(p, n)
  <2>1. /\ snap.toks \in Seq(Tok) /\ snap.blob = snap.toks
        /\ Len(snap.toks) \in Nat
        /\ Len(snap.toks) <= n
        /\ Prefix(p, Len(snap.toks)) = snap.toks
    BY <1>3, LenProperties DEF BeginRestore, SnapHit, IInv, TypeOK, SnapExact
  <2>2. cache' = snap.toks /\ floor' = Len(snap.toks)
    BY <1>3, <2>1 DEF BeginRestore
  <2>3. n <= Len(committed) /\ Len(committed) = Len(cache)
    BY <1>1, <1>2, <1>3 DEF IsLcp, MaxPrefix, BeginRestore, CanSnapshot, Guard
  <2>4. CacheOK'
    BY <1>1, <1>2, <2>1, <2>2, <2>3, TokHeld, DaemonShape DEF CacheOK
  <2>5. Len(snap.toks) < Len(p) /\ "restore" # "rewind"
    BY <1>1, <1>2, <2>1
  <2>6. /\ t' = Turn(p, TRUE, Len(snap.toks), "restore") /\ pc' = "prefill"
        /\ UNCHANGED <<committed, snap>> /\ cache' = Prefix(p, Len(snap.toks))
    BY <1>3, <2>1, <2>2 DEF BeginRestore
  <2> QED
    BY <2>1, <2>4, <2>5, <2>6, BeginFacts
<1>4. CASE RestoreFails(p, n)
  <2>1. Empty /\ t' = Turn(p, TRUE, 0, "cold") /\ pc' = "drop" /\ UNCHANGED <<committed, snap>>
    BY <1>4 DEF RestoreFails
  <2>2. CacheOK' /\ cache' = << >>
    BY <2>1, EmptyKeeps DEF Empty
  <2>3. 0 \in Nat /\ 0 < Len(p) /\ TRUE \in BOOLEAN /\ FALSE \in BOOLEAN
    BY <1>1
  <2> QED
    BY <2>1, <2>2, <2>3, BeginFacts
<1>5. CASE BeginCapture(p, n)
  <2>1. Empty /\ t' = Turn(p, TRUE, n, "capture") /\ pc' = "capture" /\ UNCHANGED <<committed, snap>>
    BY <1>5 DEF BeginCapture
  <2>2. CacheOK' /\ cache' = << >>
    BY <2>1, EmptyKeeps DEF Empty
  <2> QED
    BY <1>1, <1>2, <2>1, <2>2, BeginFacts
<1>6. CASE BeginCold(p, n)
  <2>1. Empty /\ t' = Turn(p, TRUE, 0, "cold") /\ pc' = "prefill" /\ UNCHANGED <<committed, snap>>
    BY <1>6 DEF BeginCold
  <2>2. CacheOK' /\ cache' = Prefix(p, 0)
    BY <2>1, EmptyKeeps, PrefixZero DEF Empty
  <2>3. 0 \in Nat /\ 0 < Len(p) /\ TRUE \in BOOLEAN /\ FALSE \in BOOLEAN
    BY <1>1
  <2> QED
    BY <2>1, <2>2, <2>3, BeginFacts
<1>7. CASE BeginExcluded(p)
  <2>1. /\ Empty /\ t' = Turn(p, FALSE, 0, "cold") /\ pc' = "prefill"
        /\ UNCHANGED <<committed, snap>> /\ "excluded" \in Armed
    BY <1>7 DEF BeginExcluded
  <2>2. CacheOK' /\ cache' = Prefix(p, 0)
    BY <2>1, EmptyKeeps, PrefixZero DEF Empty
  <2>3. 0 \in Nat /\ 0 < Len(p) /\ TRUE \in BOOLEAN /\ FALSE \in BOOLEAN
    BY <1>1
  <2> QED
    BY <2>1, <2>2, <2>3, BeginFacts
<1> QED
  BY <1>3, <1>4, <1>5, <1>6, <1>7

(* A step inside a turn that leaves KV_COMMITTED, the snapshot and the     *)
(* turn's record alone changes only what the stage says of the cache.      *)
LEMMA StageFacts ==
    ASSUME IInv, CacheOK', pc # "idle", pc' \in Stages \ {"idle"},
           UNCHANGED <<committed, t>>,
           snap' \in [toks : Seq(Tok), blob : Seq(Held)], SnapExact',
           Locals', Contents'
    PROVE  IInv'
<1>1. TypeOK'
  BY DEF IInv, TypeOK, CacheOK
<1>2. Belief'
  BY DEF Belief
<1> QED
  BY <1>1, <1>2 DEF IInv

LEMMA CaptureKeeps ==
    ASSUME IInv, \/ DropSnapshot \/ Capture \/ SnapshotPrefix
    PROVE  IInv'
<1>0. /\ CacheOK /\ t.prompt \in Seq(Tok) /\ t.from \in Nat /\ Len(t.prompt) \in Nat
      /\ snap \in [toks : Seq(Tok), blob : Seq(Held)] /\ SnapExact
      /\ Locals /\ Contents
  BY Unfold DEF IInv, TypeOK
<1>1. CASE DropSnapshot
  <2>1. << >> \in Seq(Tok) /\ << >> \in Seq(Held)
    BY EmptySeq
  <2>2. snap' \in [toks : Seq(Tok), blob : Seq(Held)] /\ SnapExact'
    BY <1>1, <2>1 DEF DropSnapshot, NoSnap, SnapExact
  <2>3. Locals'
    BY <1>0, <1>1 DEF DropSnapshot, Locals
  <2>4. cache = << >> /\ t.from = 0
    BY <1>0, <1>1 DEF DropSnapshot, Locals, Contents
  <2>5. Contents'
    BY <1>1, <2>4, PrefixZero DEF DropSnapshot, Contents
  <2> QED
    BY <1>0, <1>1, <2>2, <2>3, <2>5, StageFacts DEF DropSnapshot, Stages, CacheOK
<1>2. CASE Capture
  <2>1. t.from < Len(t.prompt) /\ cache = << >>
    BY <1>0, <1>2 DEF Capture, Locals, Contents
  <2>2. Prefix(t.prompt, t.from) \in Seq(Tok)
    BY <1>0, <2>1, PrefixFacts
  <2>3. CacheOK'
    BY <1>0, <1>2, <2>2, TokHeld, FeedKeeps DEF Capture
  <2>4. cache' = Prefix(t.prompt, t.from)
    BY <1>2, <2>1, <2>2, ConcatEmptySeq DEF Capture, Feed
  <2>5. Locals'
    BY <1>0, <1>2 DEF Capture, Locals
  <2>6. Contents'
    BY <1>2, <2>4 DEF Capture, Contents
  <2> QED
    BY <1>0, <1>2, <2>3, <2>5, <2>6, StageFacts DEF Capture, Stages, SnapExact
<1>3. CASE SnapshotPrefix
  <2>1. t.from < Len(t.prompt) /\ cache = Prefix(t.prompt, t.from)
    BY <1>0, <1>3 DEF SnapshotPrefix, Locals, Contents
  <2>2. Prefix(t.prompt, t.from) \in Seq(Tok)
    BY <1>0, <2>1, PrefixFacts
  <2>3. snap' \in [toks : Seq(Tok), blob : Seq(Held)] /\ SnapExact'
    BY <1>0, <1>3, <2>1, <2>2 DEF SnapshotPrefix, SnapExact, CacheOK
  <2>4. Locals'
    BY <1>0, <1>3 DEF SnapshotPrefix, Locals
  <2>5. Contents'
    BY <1>3, <2>1 DEF SnapshotPrefix, Contents
  <2> QED
    BY <1>0, <1>3, <2>3, <2>4, <2>5, StageFacts DEF SnapshotPrefix, Stages, CacheOK
<1> QED
  BY <1>1, <1>2, <1>3

(* The turn's record changes too, but stays a record. *)
LEMMA RecordFacts ==
    ASSUME IInv, CacheOK', pc' \in Stages \ {"idle"}, t' \in TurnType,
           UNCHANGED <<committed, snap>>, Locals', Contents'
    PROVE  IInv'
<1>1. TypeOK'
  BY DEF IInv, TypeOK, CacheOK, TurnType
<1>2. Belief' /\ SnapExact'
  BY DEF Belief, IInv, SnapExact
<1> QED
  BY <1>1, <1>2 DEF IInv

LEMMA CaptureFailsKeeps ==
    ASSUME IInv, CaptureFails
    PROVE  IInv'
<1>1. /\ t \in TurnType /\ Locals
      /\ t' = [t EXCEPT !.from = 0, !.how = "cold"]
      /\ pc \in {"capture", "snapshot"} /\ pc' = "prefill"
      /\ Empty /\ UNCHANGED <<committed, snap>>
  BY DEF IInv, TypeOK, TurnType, CaptureFails
<1>2. /\ t' \in TurnType /\ t'.from = 0 /\ t'.how = "cold"
      /\ t'.prompt = t.prompt /\ t'.persist = t.persist /\ t'.aug = t.aug
      /\ t'.recalled = t.recalled /\ t'.injected = t.injected /\ t'.gen = t.gen
  BY <1>1 DEF TurnType
<1>3. CacheOK' /\ cache' = << >>
  BY <1>1, EmptyKeeps DEF Empty
<1>4. t.prompt \in Prompts /\ 0 < Len(t.prompt)
  BY <1>1, Unfold DEF Locals
<1>5. Locals'
  BY <1>1, <1>2, <1>4 DEF Locals
<1>6. cache' = Prefix(t'.prompt, t'.from)
  BY <1>2, <1>3, PrefixZero
<1>7. Contents'
  BY <1>1, <1>6 DEF Contents
<1> QED
  BY <1>1, <1>2, <1>3, <1>5, <1>7, RecordFacts DEF Stages

LEMMA PrefillKeeps ==
    ASSUME IInv, Prefill
    PROVE  IInv'
<1>1. /\ CacheOK /\ t.prompt \in Seq(Tok) /\ t.from \in Nat /\ Locals /\ Contents
      /\ pc = "prefill" /\ pc' = "recall" /\ Fits(Rest) /\ Feed(Rest)
      /\ UNCHANGED <<committed, snap, t>>
  BY Unfold DEF IInv, Prefill
<1>2. t.from < Len(t.prompt) /\ ~t.recalled /\ ~t.injected
  BY <1>1, Unfold DEF Locals
<1>3. Prefix(t.prompt, t.from) \o Rest = Front(t.prompt) /\ Rest \in Seq(Tok)
  BY <1>1, <1>2, PrefixRest DEF Rest
<1>4. CacheOK'
  BY <1>1, <1>3, TokHeld, FeedKeeps
<1>5. Locals'
  BY <1>1 DEF Locals
<1>6. Trusted => cache' = Front(t.prompt)
  BY <1>1, <1>3 DEF Contents, Feed
<1>7. Trusted' = Trusted /\ Before' = Front(t.prompt)
  BY <1>1, <1>2 DEF Trusted, Before
<1>8. Contents'
  BY <1>1, <1>6, <1>7 DEF Contents
<1>9. snap' \in [toks : Seq(Tok), blob : Seq(Held)] /\ SnapExact'
  BY <1>1 DEF IInv, TypeOK, SnapExact
<1> QED
  BY <1>1, <1>4, <1>5, <1>8, <1>9, StageFacts DEF Stages

LEMMA InjectKeeps ==
    ASSUME IInv, Inject
    PROVE  IInv'
<1>1. /\ CacheOK /\ t \in TurnType /\ Locals /\ Contents
      /\ t' = [t EXCEPT !.injected = TRUE]
      /\ pc = "recall" /\ pc' = "recall" /\ ~t.side /\ ~t.persist /\ ~t.injected
      /\ Fits(<<Foreign>>) /\ Feed(<<Foreign>>)
      /\ UNCHANGED <<committed, snap>>
  BY Unfold DEF IInv, TypeOK, TurnType, Inject
<1>2. /\ t' \in TurnType /\ t'.from = t.from /\ t'.how = t.how /\ t'.side = t.side
      /\ t'.prompt = t.prompt /\ t'.persist = t.persist /\ t'.aug = t.aug
      /\ t'.recalled = t.recalled /\ t'.injected = TRUE /\ t'.gen = t.gen
  BY <1>1 DEF TurnType
<1>3. <<Foreign>> \in Seq(Held) /\ Foreign \in Held
  BY DEF Held
<1>4. CacheOK'
  BY <1>1, <1>3, FeedKeeps
<1>5. Locals'
  BY <1>1, <1>2 DEF Locals
<1>6. t.prompt \in Seq(Tok) /\ t.prompt # << >> /\ ~t.recalled
  BY <1>1, Unfold DEF Locals
<1>7. Front(t.prompt) \in Seq(Held)
  BY <1>6, FrontLast, TokHeld
<1>8. Append(Front(t.prompt), Foreign) = Front(t.prompt) \o <<Foreign>>
  BY <1>3, <1>7, AppendIsConcat
<1>9. Trusted => cache' = Append(Front(t.prompt), Foreign)
  BY <1>1, <1>6, <1>8 DEF Contents, Before, Feed
<1>10. Trusted' = Trusted /\ Before' = Append(Front(t.prompt), Foreign)
  BY <1>2, <1>6 DEF Trusted, Before
<1>11. Contents'
  BY <1>1, <1>9, <1>10 DEF Contents
<1> QED
  BY <1>1, <1>2, <1>4, <1>5, <1>11, RecordFacts DEF Stages

LEMMA SideResetKeeps ==
    ASSUME IInv, SideReset
    PROVE  IInv'
<1>1. /\ t \in TurnType /\ Locals
      /\ pc = "recall" /\ pc' = "side" /\ Empty
      /\ t' = [t EXCEPT !.side = TRUE] /\ UNCHANGED <<committed, snap>>
  BY DEF IInv, TypeOK, SideReset
<1>2. /\ t' \in TurnType /\ t'.from = t.from /\ t'.how = t.how /\ t'.side = TRUE
      /\ t'.prompt = t.prompt /\ t'.persist = t.persist /\ t'.aug = t.aug
      /\ t'.recalled = t.recalled /\ t'.injected = t.injected /\ t'.gen = t.gen
  BY <1>1 DEF TurnType
<1>3. CacheOK' /\ cache' = << >>
  BY <1>1, EmptyKeeps DEF Empty
<1>4. Locals'
  BY <1>1, <1>2 DEF Locals
<1>5. Contents'
  BY <1>1, <1>3 DEF Contents
<1> QED
  BY <1>1, <1>2, <1>3, <1>4, <1>5, RecordFacts DEF Stages

LEMMA SideKeeps ==
    ASSUME IInv, NEW q \in Inner, SideRun(q)
    PROVE  IInv'
<1>1. /\ CacheOK /\ t \in TurnType /\ Locals /\ q \in Seq(Tok) /\ t.side
      /\ pc = "side" /\ pc' = "recall" /\ UNCHANGED <<committed, snap, t>>
  BY Unfold, DaemonShape DEF IInv, TypeOK, Locals, SideRun
<1>2. CacheOK'
  <2>1. PICK k \in 0..Len(q) : Fits(Prefix(q, k)) /\ Feed(Prefix(q, k))
    BY DEF SideRun
  <2>2. Prefix(q, k) \in Seq(Held)
    BY <1>1, PrefixFacts, TokHeld
  <2> QED
    BY <1>1, <2>1, <2>2, FeedKeeps
<1>3. Locals'
  BY <1>1 DEF Locals
<1>4. Contents'
  BY <1>1 DEF Contents
<1> QED
  BY <1>1, <1>2, <1>3, <1>4, RecordFacts DEF Stages

LEMMA PassRecallKeeps ==
    ASSUME IInv, Steady, PassRecall
    PROVE  IInv'
<1>1. /\ CacheOK /\ t \in TurnType /\ Locals /\ Contents
      /\ pc = "recall" /\ pc' = "tail" /\ ~t.side
      /\ UNCHANGED <<cache, floor, committed, snap, t>>
  BY Unfold DEF IInv, TypeOK, PassRecall, Steady
<1>2. CacheOK'
  BY <1>1 DEF CacheOK
<1>3. Locals'
  BY <1>1 DEF Locals
<1>4. Trusted' = Trusted /\ Before' = Before
  BY <1>1 DEF Trusted, Before
<1>5. Contents'
  BY <1>1, <1>4 DEF Contents
<1> QED
  BY <1>1, <1>2, <1>3, <1>5, RecordFacts DEF Stages

LEMMA DeliverKeeps ==
    ASSUME IInv, NEW q \in Inner, Deliver(q)
    PROVE  IInv'
<1>1. /\ t \in TurnType /\ Locals /\ q \in Seq(Tok)
      /\ pc = "recall" /\ pc' = "deliver" /\ Empty
      /\ t' = [t EXCEPT !.aug = q] /\ UNCHANGED <<committed, snap>>
  BY DaemonShape DEF IInv, TypeOK, Deliver
<1>2. /\ t' \in TurnType /\ t'.from = t.from /\ t'.how = t.how
      /\ t'.prompt = t.prompt /\ t'.persist = t.persist /\ t'.aug = q
      /\ t'.recalled = t.recalled /\ t'.injected = t.injected /\ t'.gen = t.gen
  BY <1>1 DEF TurnType
<1>3. q # << >>
  BY DaemonShape, EmptySeq
<1>4. CacheOK' /\ cache' = << >>
  BY <1>1, EmptyKeeps DEF Empty
<1>5. Locals'
  BY <1>1, <1>2, <1>3 DEF Locals
<1>6. Contents'
  BY <1>1, <1>4 DEF Contents
<1> QED
  BY <1>1, <1>2, <1>4, <1>5, <1>6, RecordFacts DEF Stages

LEMMA DeliverPrefillKeeps ==
    ASSUME IInv, Steady, DeliverPrefill
    PROVE  IInv'
<1>1. /\ CacheOK /\ t \in TurnType /\ Locals /\ Contents
      /\ pc = "deliver" /\ pc' = "tail" /\ UNCHANGED <<committed, snap>>
      /\ cache = << >> /\ t.aug \in Inner /\ t.aug \in Seq(Tok) /\ t.aug # << >>
  BY Unfold DEF IInv, TypeOK, DeliverPrefill, Locals, Contents
<1>2. /\ Front(t.aug) \in Seq(Tok) /\ Len(Front(t.aug)) = Len(t.aug) - 1
      /\ Len(t.aug) \in Nat
  BY <1>1, FrontLast
<1>3. Fits(Front(t.aug))
  <2>1. Len(cache) = 0 /\ Len(t.aug) < Pmax /\ Pmax \in Nat
    BY <1>1, EmptySeq, DaemonShape DEF Steady
  <2> QED
    BY <1>2, <2>1 DEF Fits
<1>4. Feed(Front(t.aug)) /\ t' = [t EXCEPT !.recalled = TRUE]
  BY <1>3 DEF DeliverPrefill, FeedFails, Steady
<1>5. /\ t' \in TurnType /\ t'.from = t.from /\ t'.how = t.how
      /\ t'.prompt = t.prompt /\ t'.persist = t.persist /\ t'.aug = t.aug
      /\ t'.recalled = TRUE /\ t'.injected = t.injected /\ t'.gen = t.gen
  BY <1>1, <1>4 DEF TurnType
<1>6. CacheOK'
  BY <1>1, <1>2, <1>3, <1>4, TokHeld, FeedKeeps
<1>7. Locals'
  BY <1>1, <1>5 DEF Locals
<1>8. cache' = Before'
  BY <1>1, <1>2, <1>4, <1>5, ConcatEmptySeq DEF Feed, Before
<1>9. Contents'
  BY <1>1, <1>8 DEF Contents
<1> QED
  BY <1>1, <1>5, <1>6, <1>7, <1>9, RecordFacts DEF Stages

(* Before and syn_last are of the right kind in every turn that decodes. *)
LEMMA BeforeFacts ==
    ASSUME IInv, pc \in {"tail", "decode", "broken"}
    PROVE  /\ Before \in Seq(Held) /\ SynLast \in Held
           /\ <<SynLast>> \in Seq(Held)
           /\ Context = Before \o <<SynLast>> /\ Context \in Seq(Held)
           /\ (~t.recalled /\ ~t.injected) => Context = t.prompt
<1>1. /\ t.prompt \in Seq(Tok) /\ t.prompt # << >> /\ t.aug \in Seq(Tok)
      /\ t.recalled => t.aug # << >>
      /\ t.recalled \in BOOLEAN /\ t.injected \in BOOLEAN
      /\ Tok \subseteq Held /\ Foreign \in Held
  BY Unfold DEF IInv, Locals, Held
<1>2. /\ Front(t.prompt) \in Seq(Tok) /\ Last(t.prompt) \in Tok
      /\ Append(Front(t.prompt), Last(t.prompt)) = t.prompt
  BY <1>1, FrontLast
<1>3. t.recalled => Front(t.aug) \in Seq(Tok) /\ Last(t.aug) \in Tok
  BY <1>1, FrontLast
<1>4. SynLast \in Held /\ <<SynLast>> \in Seq(Held)
  BY <1>1, <1>2, <1>3 DEF SynLast
<1>5. Before \in Seq(Held)
  <2>1. CASE t.recalled
    BY <1>3, <2>1, TokHeld DEF Before
  <2>2. CASE ~t.recalled /\ t.injected
    BY <1>1, <1>2, <2>2, TokHeld, AppendProperties DEF Before
  <2>3. CASE ~t.recalled /\ ~t.injected
    BY <1>2, <2>3, TokHeld DEF Before
  <2> QED
    BY <1>1, <2>1, <2>2, <2>3
<1>6. Context = Before \o <<SynLast>> /\ Context \in Seq(Held)
  BY <1>4, <1>5, AppendIsConcat, AppendProperties DEF Context
<1>7. (~t.recalled /\ ~t.injected) => Context = t.prompt
  BY <1>2 DEF Context, Before, SynLast
<1> QED
  BY <1>4, <1>5, <1>6, <1>7

LEMMA DecodeTailKeeps ==
    ASSUME IInv, DecodeTail
    PROVE  IInv'
<1>1. /\ CacheOK /\ t \in TurnType /\ Locals /\ Contents
      /\ pc = "tail" /\ pc' = "decode" /\ Fits(<<SynLast>>) /\ Feed(<<SynLast>>)
      /\ UNCHANGED <<committed, snap, t>>
  BY Unfold, RoomFits DEF IInv, TypeOK, DecodeTail
<1>2. /\ <<SynLast>> \in Seq(Held) /\ Context = Before \o <<SynLast>>
      /\ Context \in Seq(Held)
  BY <1>1, BeforeFacts
<1>3. CacheOK'
  BY <1>1, <1>2, FeedKeeps
<1>4. Locals'
  BY <1>1 DEF Locals
<1>5. t.gen = << >>
  BY <1>1 DEF Locals
<1>6. Trusted => cache' = Context \o t.gen
  BY <1>1, <1>2, <1>5, ConcatEmptySeq DEF Contents, Feed
<1>7. Trusted' = Trusted /\ Context' = Context
  BY <1>1 DEF Trusted, Context, Before, SynLast
<1>8. Contents'
  BY <1>1, <1>6, <1>7 DEF Contents
<1> QED
  BY <1>1, <1>3, <1>4, <1>8, RecordFacts DEF Stages

LEMMA GenerateKeeps ==
    ASSUME IInv, NEW x \in Tok, Generate(x)
    PROVE  IInv'
<1>1. /\ CacheOK /\ t \in TurnType /\ Locals /\ Contents /\ t.gen \in Seq(Tok)
      /\ pc = "decode" /\ t' = [t EXCEPT !.gen = Append(t.gen, x)]
      /\ UNCHANGED <<committed, snap>>
  BY Unfold DEF IInv, TypeOK, Generate
<1>2. /\ Append(t.gen, x) \in Seq(Tok) /\ Append(t.gen, x) # << >>
      /\ Len(Append(t.gen, x)) = Len(t.gen) + 1 /\ Len(t.gen) \in Nat
      /\ \A i \in 1..Len(t.gen) : Append(t.gen, x)[i] = t.gen[i]
  BY <1>1, AppendProperties, LenProperties
<1>3. /\ t' \in TurnType /\ t'.from = t.from /\ t'.how = t.how
      /\ t'.prompt = t.prompt /\ t'.persist = t.persist /\ t'.aug = t.aug
      /\ t'.recalled = t.recalled /\ t'.injected = t.injected
      /\ t'.gen = Append(t.gen, x)
  BY <1>1, <1>2 DEF TurnType
<1>4. /\ Trusted' = Trusted /\ Context' = Context
  BY <1>3 DEF Trusted, Context, Before, SynLast
<1>5. Context \in Seq(Held) /\ t.gen \in Seq(Held) /\ x \in Held /\ <<x>> \in Seq(Held)
  BY <1>1, BeforeFacts, TokHeld DEF Held
<1>10. \/ Room /\ Feed(<<x>>) /\ pc' = "decode"
       \/ FeedFails(<<x>>, Room, "device_error") /\ pc' = "broken"
  BY <1>1 DEF Generate
<1>11. ASSUME Feed(<<x>>)
       PROVE  Trusted => cache' = Context \o Append(t.gen, x)
  <2>4. Trusted => cache' = (Context \o t.gen) \o <<x>>
    BY <1>1, <1>11 DEF Contents, Feed
  <2>5. (Context \o t.gen) \o <<x>> = Context \o Append(t.gen, x)
    <3> DEFINE w == <<x>>
    <3>1. Append(t.gen, x) = t.gen \o w
      BY <1>5, AppendIsConcat
    <3>2. w \in Seq(Held)
      BY <1>5
    <3> HIDE DEF w
    <3>3. (Context \o t.gen) \o w = Context \o (t.gen \o w)
      <4>1. \A u, g, v \in Seq(Held) : (u \o g) \o v = u \o (g \o v)
        BY ConcatAssociative
      <4> QED
        BY <1>5, <3>2, <4>1, Zenon
    <3>4. (Context \o t.gen) \o w = Context \o Append(t.gen, x)
      BY <3>1, <3>3
    <3> QED
      BY <3>4 DEF w
  <2> QED
    BY <2>4, <2>5
<1>6. CASE Room /\ Feed(<<x>>) /\ pc' = "decode"
  <2>1. Feed(<<x>>) /\ pc' = "decode" /\ Fits(<<x>>)
    BY <1>1, <1>6, RoomFits
  <2>2. CacheOK'
    BY <1>1, <1>5, <2>1, FeedKeeps
  <2>3. Locals'
    BY <1>1, <1>3, <2>1 DEF Locals
  <2>6. Contents'
    BY <1>3, <1>4, <1>11, <2>1 DEF Contents
  <2> QED
    BY <1>1, <1>3, <2>1, <2>2, <2>3, <2>6, RecordFacts DEF Stages
<1>7. CASE FeedFails(<<x>>, Room, "device_error") /\ pc' = "broken"
  <2>1. pc' = "broken" /\ FeedFails(<<x>>, Room, "device_error")
    BY <1>7
  <2>0. UNCHANGED cache \/ Feed(<<x>>)
    <3>1. CASE ~Room
      BY <2>1, <3>1 DEF FeedFails
    <3>2. CASE Room
      <4>1. PICK k \in 0..Len(<<x>>) : Feed(Prefix(<<x>>, k))
        BY <2>1, <3>2 DEF FeedFails
      <4>2. CASE k = 0
        BY <1>1, <4>1, <4>2, PrefixZero, ConcatEmptySeq DEF Feed, CacheOK
      <4>3. CASE k = 1
        <5>1. Prefix(<<x>>, 1) = <<x>>
          <6> DEFINE w == <<x>>
          <6>1. w \in Seq(Held) /\ Len(w) = 1
            BY <1>5
          <6> HIDE DEF w
          <6>2. SubSeq(w, 1, Len(w)) = w
            BY <6>1, SubSeqFull
          <6> QED
            BY <6>1, <6>2 DEF Prefix, w
        <5> QED
          BY <4>1, <4>3, <5>1
      <4> QED
        BY <4>2, <4>3
    <3> QED
      BY <3>1, <3>2
  <2>2. CacheOK'
    BY <1>1, <1>5, <2>1, RoomFits, FeedFailsKeeps
  <2>3. Locals'
    BY <1>1, <1>2, <1>3, <2>1 DEF Locals
  <2>4. Front(Append(t.gen, x)) = t.gen
    <3> DEFINE g == Append(t.gen, x)
    <3>1. /\ g \in Seq(Tok) /\ Len(g) - 1 \in 0..Len(g) /\ Len(g) - 1 = Len(t.gen)
          /\ \A i \in 1..Len(t.gen) : g[i] = t.gen[i]
      BY <1>2
    <3> HIDE DEF g
    <3>2. /\ Front(g) \in Seq(Tok)
          /\ Len(Front(g)) = Len(t.gen)
          /\ \A i \in 1..Len(t.gen) : Front(g)[i] = g[i]
      BY <3>1, PrefixFacts DEF Front
    <3>3. Front(g) = t.gen
      BY <1>1, <3>1, <3>2, SeqEqual
    <3> QED
      BY <3>3 DEF g
  <2>5. Contents'
    BY <1>1, <1>3, <1>4, <1>11, <2>0, <2>1, <2>4 DEF Contents
  <2> QED
    BY <1>1, <1>3, <2>1, <2>2, <2>3, <2>5, RecordFacts DEF Stages
<1> QED
  BY <1>6, <1>7, <1>10

(* A turn is over: only the belief is at stake. *)
LEMMA IdleFacts ==
    ASSUME IInv, CacheOK', pc' = "idle", t' = NoTurn, UNCHANGED snap,
           committed' \in Seq(Tok), Belief'
    PROVE  IInv'
<1>1. << >> \in Seq(Tok)
  BY EmptySeq
<1>2. TypeOK'
  BY <1>1 DEF IInv, TypeOK, CacheOK, TurnType, NoTurn, Stages
<1>3. SnapExact'
  BY DEF IInv, SnapExact
<1>4. Locals'
  BY DEF Locals, NoTurn
<1>5. Contents'
  BY DEF Contents
<1> QED
  BY <1>2, <1>3, <1>4, <1>5 DEF IInv

(* Under Calm the errors that need a prompt too long cannot happen. *)
LEMMA CalmFits ==
    ASSUME IInv, Calm, Steady
    PROVE  /\ pc = "prefill" => Fits(Rest)
           /\ pc = "tail" => Room
<1>1. /\ CacheOK /\ t.prompt \in Seq(Tok) /\ t.from \in Nat /\ Locals /\ Contents
      /\ Pmax \in Nat /\ Trusted
  BY Unfold, DaemonShape DEF IInv, Trusted
<1>2. ASSUME pc = "prefill" PROVE Fits(Rest)
  <2>1. /\ t.from < Len(t.prompt) /\ t.prompt # << >> /\ t.prompt \in Prompts
        /\ cache = Prefix(t.prompt, t.from)
    BY <1>1, <1>2, Unfold DEF Locals, Contents
  <2>2. cache \o Rest = Front(t.prompt) /\ Rest \in Seq(Held) /\ cache \in Seq(Held)
    BY <1>1, <2>1, PrefixRest, TokHeld DEF Rest, CacheOK
  <2>3. Len(cache \o Rest) = Len(cache) + Len(Rest)
    BY <2>2, ConcatProperties
  <2>4. Len(Front(t.prompt)) = Len(t.prompt) - 1 /\ Len(t.prompt) \in Nat
    BY <1>1, <2>1, FrontLast
  <2>5. Len(t.prompt) < Pmax
    BY <2>1 DEF Calm
  <2> QED
    BY <1>1, <2>2, <2>3, <2>4, <2>5 DEF Fits
<1>3. ASSUME pc = "tail" PROVE Room
  <2>1. cache = Before /\ t.prompt # << >> /\ t.prompt \in Prompts /\ ~t.injected
    BY <1>1, <1>3, Unfold DEF Locals, Contents, Calm
  <2>3. CASE t.recalled
    <3>1. t.aug \in Inner /\ t.aug \in Seq(Tok) /\ t.aug # << >>
      BY <1>1, <2>3, Unfold DEF Locals
    <3>2. Len(Front(t.aug)) = Len(t.aug) - 1 /\ Len(t.aug) \in Nat /\ Len(t.aug) < Pmax
      BY <3>1, FrontLast DEF Steady
    <3> QED
      BY <1>1, <2>1, <2>3, <3>2 DEF Room, Before
  <2>4. CASE ~t.recalled
    <3>1. Len(Front(t.prompt)) = Len(t.prompt) - 1 /\ Len(t.prompt) \in Nat /\ Len(t.prompt) < Pmax
      BY <1>1, <2>1, FrontLast DEF Calm
    <3> QED
      BY <1>1, <2>1, <2>4, <3>1 DEF Room, Before
  <2> QED
    BY <2>3, <2>4
<1> QED
  BY <1>2, <1>3

LEMMA ReturnKeeps ==
    ASSUME IInv, Steady, \/ PrefillFails \/ TailFails \/ ClientGone \/ Decline \/ DebugKdiff
    PROVE  IInv'
<1>0. CacheOK /\ committed \in Seq(Tok) /\ Len(committed) \in Nat /\ (pc = "idle" => t = NoTurn)
  BY Unfold DEF IInv, TypeOK
<1>1. ASSUME PrefillFails \/ TailFails \/ ClientGone PROVE IInv'
  <2>1. /\ pc' = "idle" /\ t' = NoTurn /\ UNCHANGED <<committed, snap>> /\ ~Calm
    <3>1. CASE PrefillFails
      BY <3>1, CalmFits DEF PrefillFails, FeedFails, Return, Calm
    <3>2. CASE TailFails
      BY <3>2, CalmFits DEF TailFails, FeedFails, Return, Calm
    <3>3. CASE ClientGone
      BY <3>3 DEF ClientGone, Return, Calm
    <3> QED
      BY <1>1, <3>1, <3>2, <3>3
  <2>2. CacheOK'
    <3>1. CASE PrefillFails
      <4>1. pc = "prefill" /\ t.from < Len(t.prompt) /\ t.prompt \in Seq(Tok) /\ t.from \in Nat
        BY <3>1, Unfold DEF PrefillFails, IInv, Locals
      <4>2. Rest \in Seq(Held)
        BY <4>1, PrefixRest, TokHeld DEF Rest
      <4> QED
        BY <1>0, <3>1, <4>2, FeedFailsKeeps DEF PrefillFails
    <3>2. CASE TailFails
      <4>1. <<SynLast>> \in Seq(Held)
        BY <3>2, BeforeFacts DEF TailFails
      <4> QED
        BY <1>0, <3>2, <4>1, RoomFits, FeedFailsKeeps DEF TailFails
    <3>3. CASE ClientGone
      BY <1>0, <3>3 DEF ClientGone, CacheOK
    <3> QED
      BY <1>1, <3>1, <3>2, <3>3
  <2>3. Belief'
    BY <2>1 DEF Belief, Calm
  <2> QED
    BY <1>0, <2>1, <2>2, <2>3, IdleFacts
<1>2. ASSUME Decline \/ DebugKdiff PROVE IInv'
  <2>1. /\ pc' = "idle" /\ t' = NoTurn /\ Empty /\ UNCHANGED <<committed, snap>>
    BY <1>0, <1>2 DEF Decline, DebugKdiff, Return
  <2>2. CacheOK' /\ Len(cache') = 0
    BY <2>1, EmptyKeeps
  <2>3. Belief'
    BY <1>0, <2>1, <2>2 DEF Belief, Guard
  <2> QED
    BY <1>0, <2>1, <2>2, <2>3, IdleFacts
<1> QED
  BY <1>1, <1>2

LEMMA DebugLeavesKeeps ==
    ASSUME IInv, NEW q \in Inner, DebugLeaves(q)
    PROVE  IInv'
<1>1. /\ CacheOK /\ committed \in Seq(Tok) /\ q \in Seq(Held) /\ t = NoTurn
      /\ pc = "idle" /\ FeedFails(q, Fits(q), "device_error")
      /\ UNCHANGED <<committed, snap, pc, t>>
  BY Unfold, DaemonShape, TokHeld DEF IInv, TypeOK, DebugLeaves
<1>2. CacheOK'
  BY <1>1, FeedFailsKeeps
<1>3. Belief'
  BY <1>1 DEF IInv, Belief, Guard, FeedFails, Calm
<1> QED
  BY <1>1, <1>2, <1>3, IdleFacts

LEMMA FinishKeeps ==
    ASSUME IInv, Finish
    PROVE  IInv'
<1>1. /\ CacheOK /\ committed \in Seq(Tok) /\ Locals /\ Contents
      /\ t.prompt \in Seq(Tok) /\ t.gen \in Seq(Tok) /\ t.prompt # << >>
      /\ t.persist \in BOOLEAN /\ t.recalled \in BOOLEAN
      /\ pc \in {"decode", "broken"} /\ pc' = "idle" /\ t' = NoTurn
      /\ UNCHANGED <<cache, floor, snap>>
  BY Unfold DEF IInv, Finish, Locals
<1>2. CacheOK'
  BY <1>1 DEF CacheOK
<1>3. /\ t.prompt \o t.gen \in Seq(Tok)
      /\ Len(t.prompt \o t.gen) = Len(t.prompt) + Len(t.gen)
      /\ Len(t.prompt) \in Nat /\ Len(t.gen) \in Nat
  BY <1>1, ConcatProperties, LenProperties
<1>4. committed' = IF ~t.persist THEN committed
                   ELSE IF t.recalled THEN << >> ELSE t.prompt \o t.gen
  BY DEF Finish
<1>5. committed' \in Seq(Tok)
  BY <1>1, <1>3, <1>4, EmptySeq
<1>6. ASSUME Calm PROVE Guard' => committed' = cache'
  <2>1. t.persist /\ ~t.injected /\ Trusted
    BY <1>1, <1>6 DEF Locals, Calm, Trusted
  <2>2. CASE t.recalled
    <3>1. Len(committed') = 0
      BY <1>4, <2>1, <2>2, EmptySeq
    <3> QED
      BY <3>1 DEF Guard
  <2>3. CASE ~t.recalled
    <3>1. committed' = t.prompt \o t.gen
      BY <1>4, <2>1, <2>3
    <3>2. Context = t.prompt
      BY <1>1, <2>1, <2>3, BeforeFacts
    <3>3. CASE pc = "decode"
      BY <1>1, <2>1, <3>1, <3>2, <3>3 DEF Contents
    <3>4. CASE pc = "broken"
      <4>0. SUFFICES ASSUME cache # t.prompt \o t.gen PROVE ~Guard'
        BY <1>1, <3>1
      <4>1. /\ cache' = t.prompt \o Front(t.gen)
            /\ t.gen # << >>
        BY <1>1, <2>1, <3>2, <3>4, <4>0 DEF Contents, Locals
      <4>2. Front(t.gen) \in Seq(Tok) /\ Len(Front(t.gen)) = Len(t.gen) - 1
        BY <1>1, <4>1, FrontLast
      <4>3. Len(t.prompt \o Front(t.gen)) = Len(t.prompt) + Len(Front(t.gen))
        BY <1>1, <4>2, ConcatProperties
      <4>4. Len(cache') = Len(t.prompt) + Len(Front(t.gen))
        BY <4>1, <4>3
      <4>5. Len(committed') = Len(t.prompt) + Len(t.gen)
        BY <1>3, <3>1
      <4>6. Len(cache') # Len(committed')
        <5> DEFINE a == Len(t.prompt)
                   b == Len(t.gen)
                   c == Len(Front(t.gen))
        <5>1. /\ a \in Nat /\ b \in Nat /\ c = b - 1
              /\ Len(cache') = a + c /\ Len(committed') = a + b
          BY <1>3, <4>2, <4>4, <4>5
        <5> HIDE DEF a, b, c
        <5> QED
          BY <5>1
      <4> QED
        BY <4>6 DEF Guard
    <3> QED
      BY <1>1, <3>3, <3>4
  <2> QED
    BY <1>1, <2>2, <2>3
<1>7. Belief'
  BY <1>6 DEF Belief, Calm
<1> QED
  BY <1>1, <1>2, <1>5, <1>7, IdleFacts

-----------------------------------------------------------------------------
(* The theorems. *)

LEMMA InitIInv ==
    ASSUME Init
    PROVE  IInv
<1>1. << >> \in Seq(Tok) /\ << >> \in Seq(Held) /\ Len(<< >>) = 0
  BY EmptySeq
<1>2. TypeOK
  BY <1>1, DaemonShape DEF Init, TypeOK, TurnType, NoTurn, NoSnap, Stages
<1>3. SnapExact /\ Belief
  BY <1>1 DEF Init, SnapExact, Belief, NoSnap, Guard
<1>4. Locals /\ Contents
  BY DEF Init, Locals, Contents, NoTurn
<1> QED
  BY <1>2, <1>3, <1>4 DEF IInv

LEMMA NextKeeps ==
    ASSUME IInv, Steady, [Next]_vars
    PROVE  IInv'
<1>1. ASSUME NEW p \in Prompts, NEW n \in 0..Len(p), IsLcp(p, n), Begin(p, n) PROVE IInv'
  BY <1>1, BeginRewindKeeps, BeginOtherKeeps DEF Begin
<1>2. ASSUME DropSnapshot \/ Capture \/ SnapshotPrefix PROVE IInv'
  BY <1>2, CaptureKeeps
<1>3. ASSUME CaptureFails PROVE IInv'
  BY <1>3, CaptureFailsKeeps
<1>4. ASSUME Prefill PROVE IInv'
  BY <1>4, PrefillKeeps
<1>5. ASSUME Inject PROVE IInv'
  BY <1>5, InjectKeeps
<1>6. ASSUME PrefillFails \/ TailFails \/ ClientGone \/ Decline \/ DebugKdiff PROVE IInv'
  BY <1>6, ReturnKeeps
<1>7. ASSUME PassRecall PROVE IInv'
  BY <1>7, PassRecallKeeps
<1>8. ASSUME NEW q \in Inner, SideRun(q) \/ Deliver(q) \/ DebugLeaves(q) PROVE IInv'
  BY <1>8, SideKeeps, DeliverKeeps, DebugLeavesKeeps
<1>9. ASSUME SideReset PROVE IInv'
  BY <1>9, SideResetKeeps
<1>10. ASSUME DeliverPrefill PROVE IInv'
  BY <1>10, DeliverPrefillKeeps
<1>11. ASSUME DecodeTail PROVE IInv'
  BY <1>11, DecodeTailKeeps
<1>12. ASSUME NEW x \in Tok, Generate(x) PROVE IInv'
  BY <1>12, GenerateKeeps
<1>13. ASSUME Finish PROVE IInv'
  BY <1>13, FinishKeeps
<1>14. CASE UNCHANGED vars
  <2>1. /\ cache' = cache /\ floor' = floor /\ committed' = committed
        /\ snap' = snap /\ pc' = pc /\ t' = t
    BY <1>14 DEF vars
  <2>2. TypeOK' /\ SnapExact'
    BY <2>1 DEF IInv, TypeOK, SnapExact
  <2>3. Belief' /\ Locals'
    BY <2>1 DEF IInv, Belief, Locals, Guard
  <2>4. Contents'
    BY <2>1 DEF IInv, Contents, Trusted, Context, Before, SynLast
  <2> QED
    BY <2>2, <2>3, <2>4 DEF IInv
<1> QED
  BY <1>1, <1>2, <1>3, <1>4, <1>5, <1>6, <1>7, <1>8, <1>9, <1>10, <1>11, <1>12,
     <1>13, <1>14 DEF Next

(* The inductive invariant of the turn holds in every reachable state, for *)
(* every set of prompts and every size, cut-short turns included, provided *)
(* the recall stage never falls back on a prompt it has already wiped.     *)
THEOREM TurnInvariant == ASSUME Steady PROVE Spec => []IInv
<1>1. Init => IInv
  BY InitIInv
<1>2. IInv /\ [Next]_vars => IInv'
  BY NextKeeps
<1> QED
  BY <1>1, <1>2, PTL DEF Spec

(* run_kvdecode_chat: whenever the reuse guard passes, KV_COMMITTED is     *)
(* what the cache holds, as long as no turn returns early: no client dies, *)
(* no verb fails on the device, and every prompt (with the memory recalled *)
(* into it) is shorter than the cache, which decoding its last token asks. *)
THEOREM CommittedMirrorsCache == ASSUME Steady, Calm PROVE Spec => []Mirror
<1>1. IInv => Mirror
  BY DEF IInv, Belief, Mirror
<1> QED
  BY <1>1, TurnInvariant, PTL

(* run_kvdecode_chat: a reply attends its own prompt and nothing else, as  *)
(* long as no turn returns early (the same conditions).                    *)
THEOREM ReplyAttendsPrompt == ASSUME Steady, Calm PROVE Spec => []AttendsContext
<1>1. IInv => AttendsContext
  BY DEF IInv, Contents, Trusted, AttendsContext
<1> QED
  BY <1>1, TurnInvariant, PTL

(* run_kvdecode_chat: a turn that rewound nothing attends its own prompt,  *)
(* whatever the turns before it left behind.                               *)
THEOREM ColdTurnsAreExact == ASSUME Steady PROVE Spec => []NullFloor
<1>1. IInv => NullFloor
  BY DEF IInv, Contents, Trusted, NullFloor
<1> QED
  BY <1>1, TurnInvariant, PTL

-----------------------------------------------------------------------------
(* The turn implements KVCache, and for that recall need not be steady:    *)
(* the snapshot's bytes are right and what is fed to the cache fits in it, *)
(* whatever the turn believes of it.                                       *)

TurnOK ==
    /\ pc # "idle" => t.prompt \in Prompts /\ t.from < Len(t.prompt)
    /\ (pc = "deliver" \/ t.recalled) => t.aug # << >>
    /\ pc = "capture" => cache = << >>
    /\ pc = "snapshot" => cache = Prefix(t.prompt, t.from)

UseInv == TypeOK /\ SnapExact /\ TurnOK

LEMMA UseUnfold ==
    ASSUME UseInv
    PROVE  /\ CacheOK /\ committed \in Seq(Tok) /\ t \in TurnType
           /\ t.prompt \in Seq(Tok) /\ t.aug \in Seq(Tok) /\ t.gen \in Seq(Tok)
           /\ t.from \in Nat /\ t.recalled \in BOOLEAN
           /\ snap \in [toks : Seq(Tok), blob : Seq(Held)] /\ snap.blob = snap.toks
           /\ snap.toks \in Seq(Tok)
           /\ pc # "idle" => t.prompt # << >>
  BY DaemonShape DEF UseInv, TypeOK, TurnType, CacheOK, SnapExact, TurnOK

(* What a step may do to the cache, its floor and the snapshot. *)
Feeds(s) == s \in Seq(Held) /\ Fits(s) /\ Feed(s) /\ UNCHANGED snap
Empties == Empty /\ UNCHANGED snap
Leaves == UNCHANGED <<cache, floor, snap>>
Drops == UNCHANGED <<cache, floor>> /\ snap' = NoSnap
Copies == UNCHANGED <<cache, floor>> /\ snap'.blob = cache
Rewinds(d) ==
    /\ d \in 0..(Len(cache) - floor)
    /\ cache' = Prefix(cache, Len(cache) - d) /\ UNCHANGED <<floor, snap>>
Restores ==
    /\ snap.blob # << >> /\ cache' = snap.blob /\ floor' = Len(snap.blob) /\ UNCHANGED snap

LEMMA FeedsUses ==
    ASSUME CacheOK, NEW s, Feeds(s)
    PROVE  [Session!CNext]_(Session!cvars)
<1>1. /\ Len(cache) \in Nat /\ Len(s) \in Nat /\ cache \in Seq(Held) /\ s \in Seq(Held)
      /\ floor \in 0..Len(cache) /\ Len(cache) - floor <= Jmax
      /\ Pmax \in Nat /\ Jmax \in Nat
      /\ cache' = cache \o s /\ snap' = snap
  BY LenProperties, DaemonShape DEF CacheOK, Feeds, Feed
<1>2. CacheOK' /\ Len(cache') = Len(cache) + Len(s)
  BY FeedKeeps DEF Feeds
<1>3. CASE s = << >>
  <2>1. cache' = cache /\ Len(s) = 0
    BY <1>1, <1>3, ConcatEmptySeq, EmptySeq
  <2>2. floor' = floor
    BY <1>1, <2>1 DEF Feeds, Feed
  <2> QED
    BY <1>1, <2>1, <2>2 DEF Session!cvars
<1>4. CASE s # << >>
  <2>1. Len(s) > 0
    BY <1>1, <1>4, EmptySeq
  <2>2. /\ \A i \in 1..Len(cache) : cache'[i] = cache[i]
        /\ cache' \in Seq(Held)
    BY <1>1, ConcatProperties
  <2>3. SubSeq(cache', 1, Len(cache)) = cache
    <3>0. Len(cache) \in 0..Len(cache')
      BY <1>1, <1>2
    <3>1. /\ Prefix(cache', Len(cache)) \in Seq(Held)
          /\ Len(Prefix(cache', Len(cache))) = Len(cache)
          /\ \A i \in 1..Len(cache) : Prefix(cache', Len(cache))[i] = cache'[i]
      BY <2>2, <3>0, PrefixFacts
    <3> QED
      BY <1>1, <2>2, <3>1, SeqEqual DEF Prefix
  <2>4. \A i \in (Len(cache) + 1)..Len(cache') : cache'[i] \in Held
    BY <1>1, <1>2, <2>2, ElementOfSeq
  <2>5. floor <= floor'
    BY <1>1 DEF Feeds, Feed
  <2>6. Session!Extend
    BY <1>1, <1>2, <2>1, <2>3, <2>4, <2>5 DEF Session!Extend, CacheOK
  <2> QED
    BY <2>6 DEF Session!CNext
<1> QED
  BY <1>3, <1>4

LEMMA OthersUse ==
    ASSUME CacheOK, \/ Empties \/ Leaves \/ Drops \/ Copies \/ Restores
                    \/ \E d \in Nat : Rewinds(d)
    PROVE  [Session!CNext]_(Session!cvars)
<1>0. Len(cache) \in Nat /\ floor \in 0..Len(cache)
  BY LenProperties DEF CacheOK
<1>1. CASE Empties
  <2>1. SubSeq(cache, 1, 0) = << >>
    BY PrefixZero DEF Prefix
  <2>2. Session!CutTo(0) /\ 0 \in 0..Len(cache)
    BY <1>0, <1>1, <2>1 DEF Empties, Empty, Session!CutTo
  <2> QED
    BY <2>2 DEF Session!CNext
<1>2. CASE Leaves
  BY <1>2 DEF Leaves, Session!cvars
<1>3. CASE Drops
  BY <1>3 DEF Drops, NoSnap, Session!CNext, Session!Discard
<1>4. CASE Copies
  BY <1>4 DEF Copies, Session!CNext, Session!Save
<1>5. CASE Restores
  BY <1>5 DEF Restores, Session!CNext, Session!Load
<1>6. ASSUME NEW d \in Nat, Rewinds(d) PROVE Session!CNext
  <2>1. Session!TakeBack(d) /\ d \in 0..Len(cache)
    BY <1>0, <1>6 DEF Rewinds, Session!TakeBack, Prefix
  <2> QED
    BY <2>1 DEF Session!CNext
<1> QED
  BY <1>1, <1>2, <1>3, <1>4, <1>5, <1>6

(* The invariant after a step, from what the step leaves of the turn. *)
LEMMA UseInTurn ==
    ASSUME UseInv, CacheOK', pc # "idle", pc' \in Stages \ {"idle", "capture", "snapshot", "deliver"},
           UNCHANGED <<committed, snap>>, t' \in TurnType,
           t'.prompt = t.prompt, t'.from = t.from \/ t'.from = 0,
           t'.recalled => t'.aug # << >>
    PROVE  UseInv'
<1>1. TypeOK' /\ SnapExact'
  BY DEF UseInv, TypeOK, CacheOK, SnapExact
<1>2. t.prompt \in Prompts /\ t.from < Len(t.prompt) /\ Len(t.prompt) \in Nat /\ t.from \in Nat
  BY UseUnfold, LenProperties DEF UseInv, TurnOK
<1>3. TurnOK'
  BY <1>2 DEF TurnOK
<1> QED
  BY <1>1, <1>3 DEF UseInv

LEMMA UseAtEnd ==
    ASSUME UseInv, CacheOK', pc' = "idle", t' = NoTurn, committed' \in Seq(Tok), UNCHANGED snap
    PROVE  UseInv'
<1>1. << >> \in Seq(Tok)
  BY EmptySeq
<1>2. TypeOK'
  BY <1>1 DEF UseInv, TypeOK, CacheOK, TurnType, NoTurn, Stages
<1>3. SnapExact' /\ TurnOK'
  BY DEF UseInv, SnapExact, TurnOK, NoTurn
<1> QED
  BY <1>2, <1>3 DEF UseInv

LEMMA UseAtBegin ==
    ASSUME UseInv, CacheOK', NEW p \in Prompts, NEW persist \in BOOLEAN, NEW from \in Nat,
           NEW how \in {"cold", "rewind", "restore", "capture"},
           from < Len(p), t' = Turn(p, persist, from, how),
           pc' \in {"drop", "capture", "prefill"}, pc' = "capture" => cache' = << >>,
           UNCHANGED <<committed, snap>>
    PROVE  UseInv'
<1>1. t' \in TurnType /\ t'.prompt = p /\ t'.from = from /\ t'.recalled = FALSE
  BY TurnFacts
<1>2. TypeOK' /\ SnapExact'
  BY <1>1 DEF UseInv, TypeOK, CacheOK, SnapExact, Stages
<1>3. TurnOK'
  BY <1>1 DEF TurnOK
<1> QED
  BY <1>2, <1>3 DEF UseInv

(* What the turn asks of the session, action by action. *)
Asks ==
    \/ \E s \in Seq(Held) : Feeds(s)
    \/ Empties \/ Leaves \/ Drops \/ Copies \/ Restores
    \/ \E d \in Nat : Rewinds(d)

LEMMA FeedsKeep ==
    ASSUME CacheOK, NEW s, Feeds(s)
    PROVE  CacheOK' /\ Asks
  BY FeedKeeps DEF Feeds, Asks

LEMMA EmptiesKeep ==
    ASSUME Empties
    PROVE  CacheOK' /\ Asks /\ cache' = << >>
  BY EmptyKeeps DEF Empties, Asks, Empty

LEMMA LeavesKeep ==
    ASSUME CacheOK, Leaves
    PROVE  CacheOK' /\ Asks
  BY DEF CacheOK, Leaves, Asks

LEMMA FailsKeep ==
    ASSUME CacheOK, UNCHANGED snap, NEW s \in Seq(Held), NEW room, NEW path,
           room => Fits(s), FeedFails(s, room, path)
    PROVE  CacheOK' /\ Asks
<1>1. CASE UNCHANGED <<cache, floor>>
  BY <1>1, LeavesKeep DEF Leaves
<1>2. ASSUME NEW k \in 0..Len(s), Prefix(s, k) \in Seq(Held),
             Fits(Prefix(s, k)), Feed(Prefix(s, k))
      PROVE  CacheOK' /\ Asks
  BY <1>2, FeedsKeep DEF Feeds
<1> QED
  BY <1>1, <1>2, FeedFailsParts

LEMMA BeginUses ==
    ASSUME UseInv, NEW p \in Prompts, NEW n \in 0..Len(p), IsLcp(p, n), Begin(p, n)
    PROVE  UseInv' /\ Asks
<1>1. /\ p \in Seq(Tok) /\ Len(p) \in Nat \ {0}
      /\ Len(committed) \in Nat /\ Len(cache) \in Nat
      /\ CacheOK /\ cache \in Seq(Held) /\ floor \in 0..Len(cache)
  BY DaemonShape, EmptySeq, UseUnfold, LenProperties DEF CacheOK
<1>2. n \in Nat /\ n < Len(p) /\ n <= Len(committed)
  BY <1>1 DEF IsLcp, MaxPrefix
<1>3. TRUE \in BOOLEAN /\ FALSE \in BOOLEAN /\ 0 \in Nat /\ 0 < Len(p)
  BY <1>1
<1>4. CASE BeginRewind(p, n)
  <2>1. Len(cache) = Len(committed) /\ Drop(n) \in 0..(Len(cache) - floor) /\ Drop(n) \in Nat
        /\ Len(cache) - Drop(n) = n
    BY <1>1, <1>2, <1>4 DEF BeginRewind, CanRewind, Refused, Guard, Drop
  <2>2. Rewinds(Drop(n))
    BY <1>4, <2>1 DEF Rewinds, BeginRewind
  <2>3. cache' \in Seq(Held) /\ Len(cache') = n /\ floor' = floor
    BY <1>1, <1>2, <1>4, <2>1, PrefixFacts DEF BeginRewind
  <2>4. CacheOK'
    BY <1>1, <2>1, <2>3, DaemonShape DEF CacheOK
  <2>5. UseInv'
    BY <1>2, <1>3, <1>4, <2>4, UseAtBegin DEF BeginRewind
  <2> QED
    BY <2>1, <2>2, <2>5 DEF Asks
<1>5. CASE BeginRestore(p, n)
  <2>1. /\ snap.blob = snap.toks /\ snap.toks # << >> /\ snap.toks \in Seq(Tok)
        /\ Len(snap.toks) \in Nat /\ Len(snap.toks) <= n
        /\ cache' = snap.toks /\ floor' = Len(snap.toks) /\ UNCHANGED <<committed, snap>>
        /\ Len(cache) = Len(committed)
    BY <1>5, UseUnfold, LenProperties DEF BeginRestore, SnapHit, CanSnapshot, Guard
  <2>2. Restores
    BY <2>1 DEF Restores
  <2>3. CacheOK'
    BY <1>1, <1>2, <2>1, TokHeld, DaemonShape DEF CacheOK
  <2>4. Len(snap.toks) < Len(p)
    BY <1>1, <1>2, <2>1
  <2>5. UseInv'
    BY <1>3, <1>5, <2>1, <2>3, <2>4, UseAtBegin DEF BeginRestore
  <2> QED
    BY <2>2, <2>5 DEF Asks
<1>6. CASE RestoreFails(p, n) \/ BeginCapture(p, n) \/ BeginCold(p, n) \/ BeginExcluded(p)
  <2>1. Empties /\ UNCHANGED committed
    BY <1>6 DEF Empties, RestoreFails, BeginCapture, BeginCold, BeginExcluded
  <2>2. CacheOK' /\ Asks /\ cache' = << >>
    BY <2>1, EmptiesKeep
  <2>3. CASE RestoreFails(p, n)
    BY <1>3, <2>1, <2>2, <2>3, UseAtBegin DEF RestoreFails
  <2>4. CASE BeginCapture(p, n)
    BY <1>2, <1>3, <2>1, <2>2, <2>4, UseAtBegin DEF BeginCapture
  <2>5. CASE BeginCold(p, n)
    BY <1>3, <2>1, <2>2, <2>5, UseAtBegin DEF BeginCold
  <2>6. CASE BeginExcluded(p)
    BY <1>3, <2>1, <2>2, <2>6, UseAtBegin DEF BeginExcluded
  <2> QED
    BY <1>6, <2>3, <2>4, <2>5, <2>6
<1> QED
  BY <1>4, <1>5, <1>6 DEF Begin

LEMMA CaptureUses ==
    ASSUME UseInv, DropSnapshot \/ Capture \/ SnapshotPrefix \/ CaptureFails
    PROVE  UseInv' /\ Asks
<1>0. /\ CacheOK /\ t \in TurnType /\ committed \in Seq(Tok)
      /\ t.prompt \in Seq(Tok) /\ t.from \in Nat
      /\ snap \in [toks : Seq(Tok), blob : Seq(Held)]
  BY UseUnfold
<1>1. pc # "idle" => /\ t.prompt \in Prompts /\ t.from \in 0..Len(t.prompt)
                     /\ t.from < Len(t.prompt)
  BY <1>0, LenProperties DEF UseInv, TurnOK
<1>2. t.recalled => t.aug # << >>
  BY DEF UseInv, TurnOK
<1>3. CASE DropSnapshot
  <2>1. /\ pc = "drop" /\ pc' = "prefill" /\ snap' = NoSnap
        /\ cache' = cache /\ floor' = floor /\ committed' = committed /\ t' = t
    BY <1>3 DEF DropSnapshot
  <2>2. << >> \in Seq(Tok) /\ << >> \in Seq(Held)
    BY EmptySeq
  <2>3. TypeOK' /\ SnapExact'
    BY <1>0, <2>1, <2>2 DEF CacheOK, TypeOK, SnapExact, NoSnap, Stages
  <2>4. TurnOK'
    BY <1>1, <1>2, <2>1 DEF TurnOK
  <2> QED
    BY <2>1, <2>3, <2>4 DEF UseInv, Asks, Drops
<1>4. CASE Capture
  <2>1. /\ pc = "capture" /\ pc' = "snapshot" /\ committed' = committed
        /\ snap' = snap /\ t' = t /\ Fits(Prefix(t.prompt, t.from))
        /\ Feed(Prefix(t.prompt, t.from)) /\ cache = << >>
    BY <1>4 DEF Capture, UseInv, TurnOK
  <2>2. Prefix(t.prompt, t.from) \in Seq(Held)
    BY <1>0, <1>1, <2>1, PrefixFacts, TokHeld
  <2>3. CacheOK' /\ Asks
    BY <1>0, <2>1, <2>2, FeedsKeep DEF Feeds
  <2>4. cache' = Prefix(t.prompt, t.from)
    BY <2>1, <2>2, ConcatEmptySeq DEF Feed
  <2>5. TypeOK' /\ SnapExact'
    BY <1>0, <2>1, <2>3 DEF UseInv, CacheOK, TypeOK, SnapExact, Stages
  <2>6. TurnOK'
    BY <1>1, <1>2, <2>1, <2>4 DEF TurnOK
  <2> QED
    BY <2>3, <2>5, <2>6 DEF UseInv
<1>5. CASE SnapshotPrefix
  <2>1. /\ pc = "snapshot" /\ pc' = "prefill" /\ committed' = committed /\ t' = t
        /\ cache' = cache /\ floor' = floor /\ cache = Prefix(t.prompt, t.from)
        /\ snap' = [toks |-> Prefix(t.prompt, t.from), blob |-> cache]
    BY <1>5 DEF SnapshotPrefix, UseInv, TurnOK
  <2>2. Prefix(t.prompt, t.from) \in Seq(Tok)
    BY <1>0, <1>1, <2>1, PrefixFacts
  <2>3. TypeOK' /\ SnapExact'
    BY <1>0, <2>1, <2>2 DEF CacheOK, TypeOK, SnapExact, Stages
  <2>4. TurnOK'
    BY <1>1, <1>2, <2>1 DEF TurnOK
  <2> QED
    BY <2>1, <2>3, <2>4 DEF UseInv, Asks, Copies
<1>6. CASE CaptureFails
  <2>1. /\ pc \in {"capture", "snapshot"} /\ pc' = "prefill" /\ Empties
        /\ t' = [t EXCEPT !.from = 0, !.how = "cold"] /\ committed' = committed /\ snap' = snap
    BY <1>6 DEF CaptureFails, Empties
  <2>2. CacheOK' /\ Asks
    BY <2>1, EmptiesKeep
  <2>3. /\ t' \in TurnType /\ t'.prompt = t.prompt /\ t'.from = 0
        /\ t'.recalled = t.recalled /\ t'.aug = t.aug
    BY <1>0, <2>1 DEF TurnType
  <2>4. UseInv'
    BY <1>2, <2>1, <2>2, <2>3, UseInTurn DEF Stages
  <2> QED
    BY <2>2, <2>4
<1> QED
  BY <1>3, <1>4, <1>5, <1>6

LEMMA PrefillUses ==
    ASSUME UseInv, Prefill \/ Inject \/ SideReset \/ PassRecall
    PROVE  UseInv' /\ Asks
<1>0. /\ CacheOK /\ t \in TurnType /\ t.prompt \in Seq(Tok) /\ t.from \in Nat
      /\ t.recalled => t.aug # << >>
  BY UseUnfold DEF UseInv, TurnOK
<1>1. CASE Prefill
  <2>1. /\ pc = "prefill" /\ pc' = "recall" /\ Fits(Rest) /\ Feed(Rest)
        /\ committed' = committed /\ snap' = snap /\ t' = t
    BY <1>1 DEF Prefill
  <2>2. t.from < Len(t.prompt)
    BY <2>1 DEF UseInv, TurnOK
  <2>3. Rest \in Seq(Tok)
    BY <1>0, <2>2, PrefixRest DEF Rest
  <2>4. CacheOK' /\ Asks
    BY <1>0, <2>1, <2>3, TokHeld, FeedsKeep DEF Feeds
  <2>5. UseInv'
    BY <1>0, <2>1, <2>4, UseInTurn DEF Stages
  <2> QED
    BY <2>4, <2>5
<1>2. CASE Inject
  <2>1. /\ pc = "recall" /\ pc' = pc /\ Fits(<<Foreign>>) /\ Feed(<<Foreign>>)
        /\ committed' = committed /\ snap' = snap /\ t' = [t EXCEPT !.injected = TRUE]
    BY <1>2 DEF Inject
  <2>2. <<Foreign>> \in Seq(Held)
    BY DEF Held
  <2>3. CacheOK' /\ Asks
    BY <1>0, <2>1, <2>2, FeedsKeep DEF Feeds
  <2>4. /\ t' \in TurnType /\ t'.prompt = t.prompt /\ t'.from = t.from
        /\ t'.recalled = t.recalled /\ t'.aug = t.aug
    BY <1>0, <2>1 DEF TurnType
  <2>5. UseInv'
    BY <1>0, <2>1, <2>3, <2>4, UseInTurn DEF Stages
  <2> QED
    BY <2>3, <2>5
<1>3. CASE SideReset
  <2>1. /\ pc = "recall" /\ pc' = "side" /\ Empties
        /\ committed' = committed /\ snap' = snap /\ t' = [t EXCEPT !.side = TRUE]
    BY <1>3 DEF SideReset, Empties
  <2>2. CacheOK' /\ Asks
    BY <2>1, EmptiesKeep
  <2>3. /\ t' \in TurnType /\ t'.prompt = t.prompt /\ t'.from = t.from
        /\ t'.recalled = t.recalled /\ t'.aug = t.aug
    BY <1>0, <2>1 DEF TurnType
  <2>4. UseInv'
    BY <1>0, <2>1, <2>2, <2>3, UseInTurn DEF Stages
  <2> QED
    BY <2>2, <2>4
<1>4. CASE PassRecall
  <2>1. /\ pc = "recall" /\ pc' = "tail" /\ Leaves
        /\ committed' = committed /\ snap' = snap /\ t' = t
    BY <1>4 DEF PassRecall, Leaves
  <2>2. CacheOK' /\ Asks
    BY <1>0, <2>1, LeavesKeep
  <2>3. UseInv'
    BY <1>0, <2>1, <2>2, UseInTurn DEF Stages
  <2> QED
    BY <2>2, <2>3
<1> QED
  BY <1>1, <1>2, <1>3, <1>4

LEMMA DeliverUses ==
    ASSUME UseInv, NEW q \in Inner, SideRun(q) \/ Deliver(q) \/ DebugLeaves(q)
    PROVE  UseInv' /\ Asks
<1>0. /\ CacheOK /\ t \in TurnType /\ t.prompt \in Seq(Tok) /\ t.from \in Nat
      /\ t.recalled => t.aug # << >>
      /\ committed \in Seq(Tok)
  BY UseUnfold DEF UseInv, TurnOK
<1>1. q \in Seq(Tok) /\ q # << >>
  BY DaemonShape, EmptySeq
<1>2. CASE SideRun(q)
  <2>1. /\ pc = "side" /\ pc' = "recall"
        /\ committed' = committed /\ snap' = snap /\ t' = t
    BY <1>2 DEF SideRun
  <2>2. PICK k \in 0..Len(q) : Fits(Prefix(q, k)) /\ Feed(Prefix(q, k))
    BY <1>2 DEF SideRun
  <2>5. Prefix(q, k) \in Seq(Held)
    BY <1>1, PrefixFacts, TokHeld
  <2>3. CacheOK' /\ Asks
    BY <1>0, <2>1, <2>2, <2>5, FeedsKeep DEF Feeds
  <2>4. UseInv'
    BY <1>0, <2>1, <2>3, UseInTurn DEF Stages
  <2> QED
    BY <2>3, <2>4
<1>3. CASE Deliver(q)
  <2>1. /\ pc = "recall" /\ pc' = "deliver" /\ Empties
        /\ committed' = committed /\ snap' = snap /\ t' = [t EXCEPT !.aug = q]
    BY <1>3 DEF Deliver, Empties
  <2>2. CacheOK' /\ Asks
    BY <2>1, EmptiesKeep
  <2>3. t' \in TurnType /\ t'.prompt = t.prompt /\ t'.from = t.from /\ t'.aug = q
    BY <1>0, <1>1, <2>1 DEF TurnType
  <2>4. TypeOK' /\ SnapExact'
    BY <1>0, <2>1, <2>2, <2>3 DEF UseInv, CacheOK, TypeOK, SnapExact, Stages
  <2>5. TurnOK'
    BY <1>1, <2>1, <2>3 DEF UseInv, TurnOK
  <2> QED
    BY <2>2, <2>4, <2>5 DEF UseInv
<1>4. CASE DebugLeaves(q)
  <2>1. /\ pc' = "idle" /\ t' = NoTurn /\ committed' = committed /\ snap' = snap
        /\ FeedFails(q, Fits(q), "device_error")
    BY <1>4 DEF DebugLeaves, UseInv, TypeOK
  <2>2. CacheOK' /\ Asks
    BY <1>0, <1>1, <2>1, TokHeld, FailsKeep
  <2> QED
    BY <1>0, <2>1, <2>2, UseAtEnd
<1> QED
  BY <1>2, <1>3, <1>4

LEMMA DecodeUses ==
    ASSUME UseInv, DeliverPrefill \/ DecodeTail \/ \E x \in Tok : Generate(x)
    PROVE  UseInv' /\ Asks
<1>0. /\ CacheOK /\ t \in TurnType /\ t.prompt \in Seq(Tok) /\ t.aug \in Seq(Tok)
      /\ t.gen \in Seq(Tok)
      /\ t.recalled => t.aug # << >>
      /\ pc # "idle" => t.prompt # << >>
  BY UseUnfold DEF UseInv, TurnOK
<1>1. CASE DeliverPrefill
  <2>1. /\ pc = "deliver" /\ pc' = "tail" /\ t.aug # << >>
        /\ committed' = committed /\ snap' = snap
    BY <1>1 DEF DeliverPrefill, UseInv, TurnOK
  <2>2. Front(t.aug) \in Seq(Held)
    BY <1>0, <2>1, FrontLast, TokHeld
  <2>3. \/ Feeds(Front(t.aug))
        \/ FeedFails(Front(t.aug), Fits(Front(t.aug)), "lost_delivery")
    BY <1>1, <2>1, <2>2 DEF DeliverPrefill, Feeds
  <2>4. CacheOK' /\ Asks
    BY <1>0, <2>1, <2>2, <2>3, FeedsKeep, FailsKeep
  <2>5. t' = t \/ t' = [t EXCEPT !.recalled = TRUE]
    BY <1>1 DEF DeliverPrefill
  <2>6. t' \in TurnType /\ t'.prompt = t.prompt /\ t'.from = t.from /\ t'.aug = t.aug
    BY <1>0, <2>5 DEF TurnType
  <2>7. UseInv'
    BY <2>1, <2>4, <2>6, UseInTurn DEF Stages
  <2> QED
    BY <2>4, <2>7
<1>2. CASE DecodeTail
  <2>1. /\ pc = "tail" /\ pc' = "decode" /\ Fits(<<SynLast>>) /\ Feed(<<SynLast>>)
        /\ committed' = committed /\ snap' = snap /\ t' = t
    BY <1>0, <1>2, RoomFits DEF DecodeTail
  <2>2. SynLast \in Tok
    BY <1>0, <2>1, FrontLast DEF SynLast
  <2>3. <<SynLast>> \in Seq(Held)
    BY <2>2 DEF Held
  <2>4. CacheOK' /\ Asks
    BY <1>0, <2>1, <2>3, FeedsKeep DEF Feeds
  <2>5. UseInv'
    BY <1>0, <2>1, <2>4, UseInTurn DEF Stages
  <2> QED
    BY <2>4, <2>5
<1>3. ASSUME NEW x \in Tok, Generate(x) PROVE UseInv' /\ Asks
  <2>1. /\ pc = "decode" /\ pc' \in {"decode", "broken"}
        /\ committed' = committed /\ snap' = snap
        /\ t' = [t EXCEPT !.gen = Append(t.gen, x)]
    BY <1>3 DEF Generate
  <2>2. <<x>> \in Seq(Held)
    BY DEF Held
  <2>3. Feeds(<<x>>) \/ FeedFails(<<x>>, Room, "device_error")
    BY <1>0, <1>3, <2>1, <2>2, RoomFits DEF Generate, Feeds
  <2>4. CacheOK' /\ Asks
    BY <1>0, <2>1, <2>2, <2>3, RoomFits, FeedsKeep, FailsKeep
  <2>5. Append(t.gen, x) \in Seq(Tok)
    BY <1>0, AppendProperties
  <2>6. /\ t' \in TurnType /\ t'.prompt = t.prompt /\ t'.from = t.from
        /\ t'.recalled = t.recalled /\ t'.aug = t.aug
    BY <1>0, <2>1, <2>5 DEF TurnType
  <2>7. UseInv'
    BY <1>0, <2>1, <2>4, <2>6, UseInTurn DEF Stages
  <2> QED
    BY <2>4, <2>7
<1> QED
  BY <1>1, <1>2, <1>3

LEMMA EndUses ==
    ASSUME UseInv, \/ PrefillFails \/ TailFails \/ ClientGone \/ Decline \/ DebugKdiff
                   \/ Finish \/ UNCHANGED vars
    PROVE  UseInv' /\ Asks
<1>0. /\ CacheOK /\ committed \in Seq(Tok) /\ t.prompt \in Seq(Tok) /\ t.gen \in Seq(Tok)
      /\ << >> \in Seq(Tok)
  BY UseUnfold, EmptySeq
<1>1. CASE PrefillFails \/ TailFails \/ ClientGone
  <2>1. pc' = "idle" /\ t' = NoTurn /\ committed' = committed /\ snap' = snap
    BY <1>1 DEF PrefillFails, TailFails, ClientGone, Return
  <2>2. CASE PrefillFails
    <3>1. /\ t.from < Len(t.prompt) /\ t.from \in Nat
          /\ FeedFails(Rest, Fits(Rest), "device_error")
      BY <2>2, UseUnfold DEF PrefillFails, UseInv, TurnOK
    <3>2. Rest \in Seq(Held)
      BY <1>0, <3>1, PrefixRest, TokHeld DEF Rest
    <3> QED
      BY <1>0, <2>1, <3>1, <3>2, FailsKeep, UseAtEnd
  <2>3. CASE TailFails
    <3>1. FeedFails(<<SynLast>>, Room, "device_error") /\ pc = "tail"
      BY <2>3 DEF TailFails
    <3>2. SynLast \in Tok
      BY <3>1, UseUnfold, FrontLast DEF SynLast, UseInv, TurnOK
    <3>3. <<SynLast>> \in Seq(Held)
      BY <3>2 DEF Held
    <3> QED
      BY <1>0, <2>1, <3>1, <3>3, RoomFits, FailsKeep, UseAtEnd
  <2>4. CASE ClientGone
    <3>1. Leaves
      BY <2>4 DEF ClientGone, Return, Leaves
    <3> QED
      BY <1>0, <2>1, <3>1, LeavesKeep, UseAtEnd
  <2> QED
    BY <1>1, <2>2, <2>3, <2>4
<1>2. CASE Decline \/ DebugKdiff
  <2>1. Empties /\ pc' = "idle" /\ t' = NoTurn /\ committed' = committed /\ snap' = snap
    BY <1>2 DEF Decline, DebugKdiff, Return, Empties, UseInv, TypeOK
  <2> QED
    BY <1>0, <2>1, EmptiesKeep, UseAtEnd
<1>3. CASE Finish
  <2>1. /\ Leaves /\ pc' = "idle" /\ t' = NoTurn /\ snap' = snap
        /\ \/ committed' = committed \/ committed' = << >> \/ committed' = t.prompt \o t.gen
    BY <1>3 DEF Finish, Leaves
  <2>2. committed' \in Seq(Tok)
    BY <1>0, <2>1, ConcatProperties
  <2> QED
    BY <1>0, <2>1, <2>2, LeavesKeep, UseAtEnd
<1>4. CASE UNCHANGED vars
  <2>1. /\ cache' = cache /\ floor' = floor /\ committed' = committed
        /\ snap' = snap /\ pc' = pc /\ t' = t
    BY <1>4 DEF vars
  <2>2. UseInv'
    BY <2>1 DEF UseInv, TypeOK, SnapExact, TurnOK
  <2> QED
    BY <2>1, <2>2 DEF Asks, Leaves
<1> QED
  BY <1>1, <1>2, <1>3, <1>4

LEMMA NextUses ==
    ASSUME UseInv, [Next]_vars
    PROVE  UseInv' /\ [Session!CNext]_(Session!cvars)
<1>1. UseInv' /\ Asks
  <2>1. ASSUME NEW p \in Prompts, NEW n \in 0..Len(p), IsLcp(p, n), Begin(p, n)
        PROVE  UseInv' /\ Asks
    BY <2>1, BeginUses
  <2>2. ASSUME NEW q \in Inner, SideRun(q) \/ Deliver(q) \/ DebugLeaves(q) PROVE UseInv' /\ Asks
    BY <2>2, DeliverUses
  <2>3. CASE DropSnapshot \/ Capture \/ SnapshotPrefix \/ CaptureFails
    BY <2>3, CaptureUses
  <2>4. CASE Prefill \/ Inject \/ SideReset \/ PassRecall
    BY <2>4, PrefillUses
  <2>5. CASE DeliverPrefill \/ DecodeTail \/ \E x \in Tok : Generate(x)
    BY <2>5, DecodeUses
  <2>6. CASE \/ PrefillFails \/ TailFails \/ ClientGone \/ Decline \/ DebugKdiff
             \/ Finish \/ UNCHANGED vars
    BY <2>6, EndUses
  <2> QED
    BY <2>1, <2>2, <2>3, <2>4, <2>5, <2>6 DEF Next
<1>2. CacheOK
  BY UseUnfold
<1>3. ASSUME NEW s \in Seq(Held), Feeds(s) PROVE [Session!CNext]_(Session!cvars)
  BY <1>2, <1>3, FeedsUses
<1>4. CASE \/ Empties \/ Leaves \/ Drops \/ Copies \/ Restores
           \/ \E d \in Nat : Rewinds(d)
  BY <1>1, <1>2, <1>4, OthersUse
<1> QED
  BY <1>1, <1>3, <1>4 DEF Asks

(* run_kvdecode_chat never asks the session for what it does not give:     *)
(* every turn, cut short or not, steady recall or not, is a behaviour of   *)
(* the abstract cache.                                                     *)
THEOREM TurnUsesCache == Spec => UsesCache
<1>1. Init => Session!CInit /\ UseInv
  <2> SUFFICES ASSUME Init PROVE Session!CInit /\ UseInv
    OBVIOUS
  <2>1. IInv
    BY InitIInv
  <2>2. TurnOK
    BY DEF Init, TurnOK, NoTurn
  <2> QED
    BY <2>1, <2>2 DEF IInv, UseInv, Init, NoSnap, Session!CInit
<1>2. UseInv /\ [Next]_vars => UseInv' /\ [Session!CNext]_(Session!cvars)
  BY NextUses
<1> QED
  BY <1>1, <1>2, PTL DEF Spec, UsesCache, Session!CSpec
=============================================================================
