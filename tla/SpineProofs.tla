----------------------------- MODULE SpineProofs -----------------------------
(***************************************************************************)
(* The spine's record is true and whole, for every number of threads,      *)
(* every ring and every number of receipts.  The invariant is SpineInv:    *)
(* outside a race the rows a flush has still to look at are the end of the *)
(* ring and the store has all that came before them, so the watermark a    *)
(* flush leaves behind has passed nothing that is not written.             *)
(***************************************************************************)
EXTENDS Spine, SequenceTheorems, TLAPS

(* What a thread holds at each place. *)
TurnFacts(t) ==
    /\ turn[t].pc \in {"idle", "flush", "verify", "stamp", "append", "sink", "log"}
    /\ turn[t].pc = "idle" => turn[t] = Idle
    /\ Holding(t) => turn[t].r \in ReceiptType
    /\ turn[t].pc \in {"sink", "log"} => turn[t].rows \in Seq(ReceiptType) /\ turn[t].hi \in Nat
    /\ turn[t].pc = "log" => turn[t].id \in Nat

LEMMA TurnTyped ==
    ASSUME NEW t \in Thread, turn \in [Thread -> TurnType]
    PROVE  TurnFacts(t)
<1>1. turn[t] \in TurnType
  OBVIOUS
<1> QED
  BY <1>1 DEF TurnType, Idle, Holding, TurnFacts

LEMMA TurnCases ==
    ASSUME SpineTypeOK, NEW t \in Thread
    PROVE  /\ turn[t].pc \in {"idle", "flush", "verify", "stamp", "append", "sink", "log"}
           /\ turn[t].pc = "idle" => turn[t] = Idle
           /\ Holding(t) => turn[t].r \in ReceiptType
           /\ turn[t].pc \in {"sink", "log"} => turn[t].rows \in Seq(ReceiptType) /\ turn[t].hi \in Nat
           /\ turn[t].pc = "log" => turn[t].id \in Nat
  BY TurnTyped DEF SpineTypeOK, TurnFacts

LEMMA IdleIsIdle == Idle \in TurnType /\ Idle.pc = "idle"
  BY DEF TurnType, Idle

LEMMA OthersIdle ==
    ASSUME SpineInv, "race" \notin spfaults, NEW t \in Thread, turn[t].pc # "idle"
    PROVE  \A u \in Thread \ {t} : turn[u] = Idle
  BY IdleIsIdle DEF SpineInv, InTurn

(* The invariant after a step of one thread, which then holds v. *)
LEMMA Assemble ==
    ASSUME SpineInv, NEW t \in Thread, NEW v \in TurnType, turn' = [turn EXCEPT ![t] = v],
           spfaults' = spfaults,
           "race" \notin spfaults => \A u \in Thread \ {t} : turn[u] = Idle,
           mood' \in Mood, ring' \in Seq(ReceiptType), Len(ring') <= RingSize,
           seqno' \in Nat, made' \in Nat, made <= made', persisted' \in Nat,
           records' \in SUBSET Nat, empty' \in SUBSET Nat, log' \in Seq(Nat), lost' \in SUBSET Nat,
           \A id \in empty' : id <= made', \A i \in DOMAIN ring' : ring'[i].id <= made',
           v.pc \in {"verify", "stamp", "append"} => v.r.id <= made',
           v.pc \in {"sink", "log"} => \A j \in DOMAIN v.rows : v.rows[j].id <= made',
           v.pc = "log" => v.id <= made',
           Honest', v.pc \in {"stamp", "append"} => Truthful(v.r),
           v.pc = "verify" => Unspoilt(v.look, v.r)',
           "disk" \notin spfaults =>
              /\ empty' = empty
              /\ \A i \in DOMAIN ring' : ring'[i].id \notin empty
              /\ v.pc \in {"verify", "stamp", "append"} => v.r.id \notin empty,
           "race" \notin spfaults =>
              /\ v.pc \in {"sink", "log"} => Looked(v.rows, ring', records') /\ v.hi <= seqno'
              /\ v.pc = "append" => v.r.seq = seqno' /\ persisted' < seqno'
              /\ persisted' <= seqno' /\ \A i \in DOMAIN ring' : ring'[i].seq <= seqno'
              /\ \A i \in DOMAIN ring' : ring'[i].seq <= persisted' => ring'[i].id \in records'
              /\ \A i, j \in DOMAIN log' : log'[i] = log'[j] => i = j
              /\ Range(log') \subseteq records'
              /\ v.pc = "log" => v.id \in records' \ Range(log'),
           Calm =>
              /\ lost' = {}
              /\ \A id \in records' : id \in Range(log') \/ (v.pc = "log" /\ v.id = id)
              /\ v.pc \notin {"flush", "sink", "log"} =>
                    \A i \in DOMAIN ring' : ring'[i].id \in records'
    PROVE  SpineInv'
<1>0. SpineTypeOK /\ HonestHands /\ turn \in [Thread -> TurnType]
  BY DEF SpineInv, SpineTypeOK
<1>1. turn'[t] = v /\ \A u \in Thread \ {t} : turn'[u] = turn[u]
  BY <1>0
<1>2. SpineTypeOK'
  BY <1>0 DEF SpineTypeOK
<1>3. HonestHands'
  <2> SUFFICES ASSUME NEW u \in Thread, Holding(u)'
               PROVE  IF turn'[u].pc = "verify" THEN Unspoilt(turn[u].look, turn[u].r)'
                      ELSE Truthful(turn[u].r)'
    BY DEF HonestHands
  <2>1. CASE u = t
    BY <1>1, <2>1 DEF Holding, Unspoilt, Truthful
  <2>2. CASE u # t
    <3>1. turn'[u] = turn[u] /\ Holding(u) /\ turn[u].pc # "idle"
      BY <1>1, <2>2 DEF Holding
    <3>2. "race" \in spfaults
      BY <2>2, <3>1, IdleIsIdle
    <3>3. CASE turn[u].pc = "verify"
      <4>1. Unspoilt(turn[u].look, turn[u].r)
        BY <1>0, <3>1, <3>3 DEF HonestHands
      <4> QED
        BY <3>1, <3>2, <3>3, <4>1 DEF Unspoilt
    <3>4. CASE turn[u].pc # "verify"
      BY <1>0, <3>1, <3>4 DEF HonestHands, Truthful
    <3> QED
      BY <3>1, <3>3, <3>4
  <2> QED
    BY <2>1, <2>2
<1>n. Numbered'
  <2> SUFFICES ASSUME NEW u \in Thread
               PROVE  /\ Holding(u)' => turn'[u].r.id <= made'
                      /\ Flushing(u)' => \A j \in DOMAIN turn'[u].rows : turn'[u].rows[j].id <= made'
                      /\ turn'[u].pc = "log" => turn'[u].id <= made'
    BY DEF Numbered
  <2>1. CASE u = t
    BY <1>1, <2>1 DEF Holding, Flushing
  <2>2. CASE u # t
    <3>1. turn'[u] = turn[u] /\ Numbered /\ made \in Nat
      BY <1>1, <2>2 DEF SpineInv, SpineTypeOK
    <3>2. TurnFacts(u)
      BY <1>0, TurnTyped
    <3>3. Holding(u)' => turn'[u].r.id <= made'
      BY <3>1, <3>2 DEF Numbered, Holding, TurnFacts, ReceiptType
    <3>4. turn'[u].pc = "log" => turn'[u].id <= made'
      BY <3>1, <3>2 DEF Numbered, TurnFacts
    <3>5. ASSUME Flushing(u)', NEW j \in DOMAIN turn'[u].rows
          PROVE  turn'[u].rows[j].id <= made'
      <4>1. PICK q \in Seq(ReceiptType) : q = turn[u].rows
        BY <3>1, <3>2, <3>5 DEF TurnFacts, Flushing
      <4>2. q[j] \in ReceiptType /\ q[j].id <= made
        BY <3>1, <3>5, <4>1, ElementOfSeq, LenProperties DEF Numbered, Flushing
      <4> QED
        BY <3>1, <4>1, <4>2 DEF ReceiptType
    <3> QED
      BY <3>3, <3>4, <3>5
  <2> QED
    BY <2>1, <2>2
<1>f. Fresh'
  <2> SUFFICES ASSUME "disk" \notin spfaults, NEW u \in Thread, Holding(u)'
               PROVE  turn'[u].r.id \notin empty
    BY DEF Fresh
  <2>1. CASE u = t
    BY <1>1, <2>1 DEF Holding
  <2>2. CASE u # t
    BY <1>1, <2>2 DEF Holding, Fresh, SpineInv
  <2> QED
    BY <2>1, <2>2
<1>4. ASSUME "race" \notin spfaults
      PROVE  InTurn' /\ LinesInv' /\ BelowWatermark'
             /\ \A i, j \in DOMAIN log' : log'[i] = log'[j] => i = j
  <2>1. \A u \in Thread \ {t} : turn'[u] = Idle
    BY <1>1, <1>4
  <2>2. \A u \in Thread : turn'[u].pc # "idle" => u = t
    BY <2>1, IdleIsIdle
  <2>3. \A u \in Thread : turn'[u] # Idle => u = t
    BY <2>1
  <2>4. \A u \in Thread : Flushing(u)' =>
           Looked(turn'[u].rows, ring', records') /\ turn'[u].hi <= seqno'
    BY <1>1, <1>4, <2>2 DEF Flushing
  <2>5. \A u \in Thread : turn'[u].pc = "append" => turn'[u].r.seq = seqno' /\ persisted' < seqno'
    BY <1>1, <1>4, <2>2
  <2>6. InTurn'
    BY <1>4, <2>3, <2>4, <2>5 DEF InTurn, Looked
  <2>7. LinesInv'
    BY <1>1, <1>4, <2>2 DEF LinesInv, Range
  <2> QED
    BY <1>4, <1>f, <2>6, <2>7 DEF BelowWatermark, Fresh
<1>5. ASSUME Calm
      PROVE  WholeInv' /\ lost' = {}
             /\ ((\A u \in Thread : turn'[u].pc # "log") => Range(log)' = records')
  <2>1. \A id \in records' : \/ id \in Range(log')
                             \/ \E u \in Thread : turn'[u].pc = "log" /\ turn'[u].id = id
    BY <1>1, <1>5
  <2>2. Range(log') \subseteq records'
    BY <1>5 DEF Calm
  <2>3. (\A u \in Thread : turn'[u].pc \notin {"flush", "sink", "log"}) =>
           \A i \in DOMAIN ring' : ring'[i].id \in records'
    BY <1>1, <1>5
  <2>4. WholeInv'
    BY <2>1, <2>3 DEF WholeInv, Range
  <2> QED
    BY <1>5, <2>1, <2>2, <2>4 DEF Range
<1>6. Calm' <=> Calm
  BY DEF Calm
<1>7. ("race" \notin spfaults' => InTurn' /\ LinesInv') /\ BelowWatermark'
  BY <1>4 DEF BelowWatermark
<1>8. NonePushedOut' /\ (Calm' => WholeInv')
  BY <1>5, <1>6 DEF NonePushedOut
<1>9. OneLine'
  BY <1>4, <1>5, <1>6 DEF OneLine
<1> QED
  BY <1>2, <1>3, <1>n, <1>f, <1>7, <1>8, <1>9 DEF SpineInv, RecordTrue

LEMMA Parts ==
    ASSUME SpineInv
    PROVE  /\ mood \in Mood /\ ring \in Seq(ReceiptType) /\ Len(ring) <= RingSize
           /\ seqno \in Nat /\ made \in Nat /\ persisted \in Nat /\ turn \in [Thread -> TurnType]
           /\ made <= made /\ records \in SUBSET Nat /\ empty \in SUBSET Nat /\ log \in Seq(Nat) /\ lost \in SUBSET Nat
           /\ SpineTypeOK /\ Honest /\ HonestHands /\ Numbered /\ Fresh
           /\ \A id \in empty : id \in Nat /\ id <= made
           /\ \A i \in DOMAIN ring : ring[i].id <= made
           /\ \A u \in Thread :
                /\ turn[u].pc \in {"verify", "stamp", "append"} => turn[u].r.id <= made
                /\ turn[u].pc \in {"sink", "log"} =>
                      \A j \in DOMAIN turn[u].rows : turn[u].rows[j].id <= made
                /\ turn[u].pc = "log" => turn[u].id <= made
           /\ "disk" \notin spfaults =>
                /\ \A i \in DOMAIN ring : ring[i].id \notin empty
                /\ \A u \in Thread : turn[u].pc \in {"verify", "stamp", "append"} =>
                      turn[u].r.id \notin empty
           /\ "race" \notin spfaults =>
                /\ InTurn /\ LinesInv
                /\ persisted <= seqno /\ \A i \in DOMAIN ring : ring[i].seq <= seqno
                /\ \A i \in DOMAIN ring : ring[i].seq <= persisted => ring[i].id \in records
                /\ \A i, j \in DOMAIN log : log[i] = log[j] => i = j
                /\ Range(log) \subseteq records
           /\ Calm => /\ "race" \notin spfaults /\ "gone" \notin spfaults /\ "disk" \notin spfaults
                      /\ lost = {} /\ WholeInv
<1>1. "race" \notin spfaults => InTurn /\ LinesInv /\ OneLine /\ BelowWatermark
  BY DEF SpineInv, RecordTrue
<1>2. Calm => WholeInv /\ lost = {} /\ spfaults = {}
  BY DEF SpineInv, RecordTrue, NonePushedOut, Calm
<1>3. "race" \notin spfaults =>
         /\ persisted <= seqno /\ \A i \in DOMAIN ring : ring[i].seq <= seqno
         /\ \A i \in DOMAIN ring : ring[i].seq <= persisted => ring[i].id \in records
         /\ \A i, j \in DOMAIN log : log[i] = log[j] => i = j
         /\ Range(log) \subseteq records
  BY <1>1 DEF InTurn, LinesInv, OneLine, BelowWatermark
<1>4. Fresh /\ Numbered /\ SpineTypeOK
  BY DEF SpineInv
<1>5. /\ \A id \in empty : id \in Nat /\ id <= made
      /\ \A i \in DOMAIN ring : ring[i].id <= made
      /\ \A u \in Thread :
           /\ turn[u].pc \in {"verify", "stamp", "append"} => turn[u].r.id <= made
           /\ turn[u].pc \in {"sink", "log"} =>
                 \A j \in DOMAIN turn[u].rows : turn[u].rows[j].id <= made
           /\ turn[u].pc = "log" => turn[u].id <= made
  BY <1>4 DEF Numbered, Holding, Flushing, SpineTypeOK
<1>6. "disk" \notin spfaults =>
         /\ \A i \in DOMAIN ring : ring[i].id \notin empty
         /\ \A u \in Thread : turn[u].pc \in {"verify", "stamp", "append"} =>
               turn[u].r.id \notin empty
  BY <1>4 DEF Fresh, Holding
<1> QED
  BY <1>1, <1>2, <1>3, <1>4, <1>5, <1>6 DEF SpineInv, SpineTypeOK, RecordTrue

LEMMA RingRows ==
    ASSUME SpineInv
    PROVE  /\ Len(ring) \in Nat /\ DOMAIN ring = 1..Len(ring)
           /\ \A i \in DOMAIN ring : ring[i] \in ReceiptType
  BY Parts, LenProperties, ElementOfSeq

(* Without faults, what the one thread at work says of the store. *)
LEMMA WholeNow ==
    ASSUME SpineInv, Calm, NEW t \in Thread, \A u \in Thread \ {t} : turn[u] = Idle
    PROVE  /\ \A id \in records : id \in Range(log) \/ (turn[t].pc = "log" /\ turn[t].id = id)
           /\ turn[t].pc \notin {"flush", "sink", "log"} =>
                 \A i \in DOMAIN ring : ring[i].id \in records
<1>1. \A u \in Thread \ {t} : turn[u].pc = "idle"
  BY IdleIsIdle
<1> QED
  BY <1>1, Parts DEF WholeInv

LEMMA LookedAll ==
    ASSUME NEW q \in Seq(ReceiptType), NEW store
    PROVE  Looked(q, q, store)
<1>1. Len(q) \in Nat
  BY LenProperties
<1> QED
  BY <1>1 DEF Looked

LEMMA LookedTail ==
    ASSUME NEW rows \in Seq(ReceiptType), rows # << >>, NEW q \in Seq(ReceiptType), NEW old, NEW new,
           Looked(rows, q, old), old \subseteq new, rows[1].id \in new
    PROVE  Looked(Tail(rows), q, new)
<1>1. Len(rows) \in Nat /\ Len(rows) > 0 /\ Len(q) \in Nat
  BY LenProperties, EmptySeq
<1>2. /\ Len(Tail(rows)) = Len(rows) - 1
      /\ \A j \in 1..Len(Tail(rows)) : Tail(rows)[j] = rows[j + 1]
  BY <1>1, HeadTailProperties
<1>3. PICK past \in Int : past = Len(q) - Len(rows)
  BY <1>1
<1>4. /\ past >= 0 /\ (\A j \in 1..Len(rows) : rows[j] = q[j + past])
      /\ \A j \in 1..past : q[j].id \in old
  BY <1>3 DEF Looked
<1>5. rows[1] = q[past + 1]
  BY <1>1, <1>3, <1>4
<1>6. Len(q) - Len(Tail(rows)) = past + 1
  BY <1>1, <1>2, <1>3
<1>7. \A j \in 1..(past + 1) : q[j].id \in new
  BY <1>3, <1>4, <1>5
<1>8. \A j \in 1..Len(Tail(rows)) : Tail(rows)[j] = q[j + (past + 1)]
  <2> SUFFICES ASSUME NEW j \in 1..Len(Tail(rows)) PROVE Tail(rows)[j] = q[j + (past + 1)]
    OBVIOUS
  <2>1. j + 1 \in 1..Len(rows) /\ (j + 1) + past = j + (past + 1)
    BY <1>1, <1>2, <1>3
  <2> QED
    BY <1>2, <1>4, <2>1
<1> QED
  BY <1>3, <1>4, <1>6, <1>7, <1>8 DEF Looked

LEMMA LookedEnd ==
    ASSUME NEW q \in Seq(ReceiptType), NEW store, Looked(<< >>, q, store)
    PROVE  \A i \in DOMAIN q : q[i].id \in store
<1>1. Len(q) \in Nat /\ DOMAIN q = 1..Len(q) /\ Len(<< >>) = 0
  BY LenProperties, EmptySeq
<1> QED
  BY <1>1 DEF Looked

-----------------------------------------------------------------------------
(* A step that makes a receipt, or works on one before it is in the ring. *)
LEMMA HandsKeep ==
    ASSUME SpineInv, NEW t \in Thread, turn[t].pc \in {"idle", "verify", "stamp"},
           NEW v \in TurnType, turn' = [turn EXCEPT ![t] = v],
           v.pc \in {"verify", "stamp", "append"},
           "race" \notin spfaults => \A u \in Thread \ {t} : turn[u] = Idle,
           mood' \in Mood, made' \in Nat, made <= made', seqno' \in Nat, seqno <= seqno',
           UNCHANGED <<ring, persisted, records, empty, log, lost, spfaults>>,
           v.r.id <= made', "disk" \notin spfaults => v.r.id \notin empty,
           v.pc = "verify" => Unspoilt(v.look, v.r)',
           v.pc \in {"stamp", "append"} => Truthful(v.r),
           v.pc = "append" => v.r.seq = seqno' /\ seqno < seqno'
    PROVE  SpineInv'
<1>1. Honest'
  BY Parts DEF Honest, Truthful
<1>2. Calm => /\ \A id \in records : id \in Range(log)
              /\ \A i \in DOMAIN ring : ring[i].id \in records
  BY Parts, WholeNow
<1>3. \A i \in DOMAIN ring : ring[i].seq \in Nat /\ ring[i].id \in Nat
  BY RingRows DEF ReceiptType
<1>4. /\ \A id \in empty : id <= made'
      /\ \A i \in DOMAIN ring : ring[i].id <= made'
  BY <1>3, Parts
<1>5. "race" \notin spfaults =>
         /\ persisted <= seqno' /\ \A i \in DOMAIN ring : ring[i].seq <= seqno'
         /\ v.pc = "append" => persisted < seqno'
  BY <1>3, Parts
<1> QED
  BY <1>1, <1>2, <1>4, <1>5, Parts, Assemble

LEMMA FoldKeeps ==
    ASSUME SpineInv, NEW t \in Thread, NEW d \in Decision, NEW raised \in BOOLEAN,
           NEW wrote \in BOOLEAN, Fold(t, d, raised, wrote)
    PROVE  SpineInv'
<1>1. PICK effect, look, r :
         /\ effect = (IF d \notin Mood \/ raised THEN "unseen"
                      ELSE IF mood' = d THEN "there" ELSE "missing")
         /\ look = (IF d \in Verified /\ ~raised THEN d ELSE "nothing")
         /\ r = [id |-> made', seq |-> 0, ok |-> d \in Executed /\ ~raised,
                 effect |-> effect, verified |-> "none"]
  OBVIOUS
<1>2. /\ turn[t] = Idle /\ Alone(t) /\ made' = made + 1
      /\ wrote => d \in Mood
      /\ mood' = (IF wrote THEN d ELSE mood)
      /\ turn' = [turn EXCEPT ![t] = [pc |-> "verify", look |-> look, r |-> r]]
      /\ UNCHANGED <<ring, seqno, persisted, records, empty, log, lost, spfaults>>
  BY <1>1 DEF Fold
<1>3. made' \in Nat /\ made <= made' /\ mood' \in Mood
  BY <1>2, Parts
<1>4. /\ r \in ReceiptType /\ look \in Decision \cup {"nothing"}
      /\ r.id = made' /\ r.effect = effect /\ (r.ok <=> d \in Executed /\ ~raised)
  BY <1>1, <1>3 DEF ReceiptType
<1>5. PICK v : v = [pc |-> "verify", look |-> look, r |-> r]
  OBVIOUS
<1>6. v \in TurnType /\ v.pc = "verify" /\ v.look = look /\ v.r = r
  BY <1>4, <1>5 DEF TurnType
<1>7. Unspoilt(v.look, v.r)'
  <2> SUFFICES ASSUME look # "nothing"
               PROVE  r.ok /\ (r.effect = "missing" => look \in Mood /\ mood' # look)
    BY <1>6 DEF Unspoilt
  <2>1. look = d /\ d \in Verified /\ ~raised
    BY <1>1
  <2>2. r.ok
    <3>1. d \in Mood \/ d \in {"traits", "compact_registry"}
      BY <2>1 DEF Verified
    <3>2. CASE d = "decline_recall" /\ d \in Mood
      BY <3>2, SpineShape
    <3> QED
      BY <1>4, <2>1, <3>1, <3>2 DEF Executed, Decision
  <2>3. r.effect = "missing" => d \in Mood /\ mood' # d
    BY <1>1, <1>4
  <2> QED
    BY <2>1, <2>2, <2>3
<1>8. "race" \notin spfaults => \A u \in Thread \ {t} : turn[u] = Idle
  BY <1>2 DEF Alone
<1>9. r.id \notin empty /\ r.id <= made'
  BY <1>2, <1>4, Parts
<1>10. turn' = [turn EXCEPT ![t] = v]
  BY <1>2, <1>5
<1>11. /\ turn[t].pc = "idle" /\ seqno' \in Nat /\ seqno <= seqno'
       /\ UNCHANGED <<ring, persisted, records, empty, log, lost, spfaults>>
  BY <1>2, Parts, IdleIsIdle
<1>12. v.r.id <= made' /\ ("disk" \notin spfaults => v.r.id \notin empty)
  BY <1>6, <1>9
<1> QED
  BY <1>3, <1>6, <1>7, <1>8, <1>10, <1>11, <1>12, HandsKeep

LEMMA VerifyKeeps ==
    ASSUME SpineInv, NEW t \in Thread, NEW found \in BOOLEAN, Verify(t, found)
    PROVE  SpineInv'
<1>1. PICK verdict, r : /\ verdict = Verdict(turn[t].look, found)
                        /\ r = [turn[t].r EXCEPT !.verified = verdict]
  OBVIOUS
<1>2. /\ turn[t].pc = "verify"
      /\ turn' = [turn EXCEPT ![t] = [pc |-> "stamp", r |-> r]]
      /\ UNCHANGED <<mood, ring, seqno, made, persisted, records, empty, log, lost, spfaults>>
  BY <1>1 DEF Verify
<1>3. turn[t].r \in ReceiptType /\ Unspoilt(turn[t].look, turn[t].r)
  BY <1>2, Parts, TurnCases DEF HonestHands, Holding
<1>4. /\ verdict \in {"none", "yes", "no"}
      /\ verdict = "yes" => /\ turn[t].look # "nothing"
                            /\ turn[t].look \in Mood => mood = turn[t].look
  BY <1>1 DEF Verdict
<1>5. /\ r \in ReceiptType /\ r.id = turn[t].r.id /\ r.verified = verdict
      /\ r.ok = turn[t].r.ok /\ r.effect = turn[t].r.effect
  BY <1>1, <1>3, <1>4 DEF ReceiptType
<1>6. Truthful(r)
  BY <1>3, <1>4, <1>5 DEF Truthful, Unspoilt
<1>7. PICK v : v = [pc |-> "stamp", r |-> r]
  OBVIOUS
<1>8. v \in TurnType /\ v.pc = "stamp" /\ v.r = r
  BY <1>5, <1>7 DEF TurnType
<1>9. turn' = [turn EXCEPT ![t] = v]
  BY <1>2, <1>7
<1>10. "race" \notin spfaults => \A u \in Thread \ {t} : turn[u] = Idle
  BY <1>2, OthersIdle
<1>11. r.id <= made /\ ("disk" \notin spfaults => r.id \notin empty)
  BY <1>2, <1>5, Parts
<1>12. /\ mood' \in Mood /\ made' \in Nat /\ made <= made' /\ seqno' \in Nat /\ seqno <= seqno'
       /\ UNCHANGED <<ring, persisted, records, empty, log, lost, spfaults>>
  BY <1>2, Parts
<1>13. /\ v.r.id <= made' /\ ("disk" \notin spfaults => v.r.id \notin empty)
       /\ (v.pc \in {"stamp", "append"} => Truthful(v.r))
  BY <1>2, <1>6, <1>8, <1>11
<1> QED
  BY <1>2, <1>8, <1>9, <1>10, <1>12, <1>13, HandsKeep

LEMMA StampKeeps ==
    ASSUME SpineInv, NEW t \in Thread, Stamp(t)
    PROVE  SpineInv'
<1>1. PICK r : r = [turn[t].r EXCEPT !.seq = seqno']
  OBVIOUS
<1>2. /\ turn[t].pc = "stamp" /\ seqno' = seqno + 1
      /\ turn' = [turn EXCEPT ![t] = [pc |-> "append", r |-> r]]
      /\ UNCHANGED <<mood, ring, made, persisted, records, empty, log, lost, spfaults>>
  BY <1>1 DEF Stamp
<1>3. turn[t].r \in ReceiptType /\ Truthful(turn[t].r) /\ seqno' \in Nat
  BY <1>2, Parts, TurnCases DEF HonestHands, Holding
<1>4. r \in ReceiptType /\ Truthful(r) /\ r.seq = seqno' /\ r.id = turn[t].r.id
  BY <1>1, <1>3 DEF ReceiptType, Truthful
<1>e. r.id <= made /\ ("disk" \notin spfaults => r.id \notin empty)
  BY <1>2, <1>4, Parts
<1>5. PICK v : v = [pc |-> "append", r |-> r]
  OBVIOUS
<1>6. v \in TurnType /\ v.pc = "append" /\ v.r = r
  BY <1>4, <1>5 DEF TurnType
<1>7. turn' = [turn EXCEPT ![t] = v]
  BY <1>2, <1>5
<1>8. "race" \notin spfaults => \A u \in Thread \ {t} : turn[u] = Idle
  BY <1>2, OthersIdle
<1>9. /\ mood' \in Mood /\ made' \in Nat /\ made <= made' /\ seqno <= seqno' /\ seqno < seqno'
      /\ UNCHANGED <<ring, persisted, records, empty, log, lost, spfaults>>
  BY <1>2, Parts
<1>10. /\ v.r.id <= made' /\ ("disk" \notin spfaults => v.r.id \notin empty)
       /\ (v.pc \in {"stamp", "append"} => Truthful(v.r)) /\ v.r.seq = seqno'
  BY <1>2, <1>4, <1>6, <1>e
<1> QED
  BY <1>2, <1>3, <1>6, <1>7, <1>8, <1>9, <1>10, HandsKeep

LEMMA AppendKeeps ==
    ASSUME SpineInv, NEW t \in Thread, AppendReceipt(t)
    PROVE  SpineInv'
<1>1. PICK r, base, out :
         /\ r = turn[t].r /\ base = (IF Len(ring) = RingSize THEN Tail(ring) ELSE ring)
         /\ out = (IF Len(ring) = RingSize /\ ring[1].id \notin records THEN {ring[1].id} ELSE {})
  OBVIOUS
<1>2. /\ turn[t].pc = "append" /\ ring' = Append(base, r) /\ lost' = lost \cup out
      /\ turn' = [turn EXCEPT ![t] = [pc |-> "flush"]]
      /\ UNCHANGED <<mood, seqno, made, persisted, records, empty, log, spfaults>>
  BY <1>1 DEF AppendReceipt
<1>3. r \in ReceiptType /\ Truthful(r)
  BY <1>1, <1>2, Parts, TurnCases DEF HonestHands, Holding
<1>4. Len(ring) \in Nat /\ Len(ring) <= RingSize /\ RingSize \in Nat /\ RingSize > 0
      /\ DOMAIN ring = 1..Len(ring) /\ ring \in Seq(ReceiptType)
      /\ \A i \in DOMAIN ring : ring[i] \in ReceiptType
  BY Parts, RingRows, SpineShape
<1>a. Len(ring) = RingSize => 1 \in DOMAIN ring
  BY <1>4
<1>5. /\ base \in Seq(ReceiptType) /\ Len(base) < RingSize /\ Len(base) \in Nat
      /\ \A i \in 1..Len(base) : \E j \in DOMAIN ring : base[i] = ring[j]
  <2>1. CASE Len(ring) = RingSize
    <3>1. ring # << >>
      BY <1>4, <2>1, EmptySeq
    <3>2. /\ base \in Seq(ReceiptType) /\ Len(base) = Len(ring) - 1
          /\ \A i \in 1..Len(base) : base[i] = ring[i + 1]
      BY <1>1, <1>4, <2>1, <3>1, HeadTailProperties
    <3>3. \A i \in 1..Len(base) : i + 1 \in DOMAIN ring
      BY <1>4, <3>2
    <3> QED
      BY <1>4, <3>2, <3>3
  <2>2. CASE Len(ring) # RingSize
    <3>1. base = ring
      BY <1>1, <2>2
    <3>2. Len(ring) < RingSize
      <4>1. Len(ring) \in Nat /\ RingSize \in Nat /\ Len(ring) <= RingSize
        BY <1>4
      <4> QED
        BY <2>2, <4>1
    <3> QED
      BY <1>4, <3>1, <3>2
  <2> QED
    BY <2>1, <2>2
<1>6. /\ ring' \in Seq(ReceiptType) /\ Len(ring') = Len(base) + 1
      /\ \A i \in DOMAIN ring' : ring'[i] = r \/ \E j \in DOMAIN ring : ring'[i] = ring[j]
  <2>1. /\ ring' \in Seq(ReceiptType) /\ Len(ring') = Len(base) + 1
        /\ DOMAIN ring' = 1..(Len(base) + 1)
        /\ \A i \in 1..Len(base) : ring'[i] = base[i]
        /\ ring'[Len(base) + 1] = r
    BY <1>2, <1>3, <1>5, AppendProperties, LenProperties
  <2>2. \A i \in 1..(Len(base) + 1) : i \in 1..Len(base) \/ i = Len(base) + 1
    BY <1>5
  <2> QED
    BY <1>5, <2>1, <2>2
<1>7. Honest'
  <2>1. \A j \in DOMAIN ring : Truthful(ring[j])
    BY Parts DEF Honest, Truthful
  <2>2. \A i \in DOMAIN ring' : Truthful(ring'[i])
    BY <1>3, <1>6, <2>1
  <2> QED
    BY <1>2, <2>2 DEF Honest, Truthful
<1>8. "race" \notin spfaults => \A u \in Thread \ {t} : turn[u] = Idle
  BY <1>2, OthersIdle
<1>9. PICK v : v = [pc |-> "flush"]
  OBVIOUS
<1>10. v \in TurnType /\ v.pc = "flush"
  BY <1>9 DEF TurnType
<1>11. ASSUME Calm
       PROVE  /\ lost' = {}
              /\ \A id \in records : id \in Range(log)
  <2>1. Len(ring) = RingSize => ring[1].id \in records
    BY <1>2, <1>a, <1>8, <1>11, Parts, WholeNow
  <2> QED
    BY <1>1, <1>2, <1>8, <1>11, <2>1, Parts, WholeNow
<1>12. ASSUME "race" \notin spfaults
       PROVE  \A i \in DOMAIN ring' : /\ ring'[i].seq <= seqno
                                      /\ ring'[i].seq <= persisted => ring'[i].id \in records
  <2>1. r.seq = seqno /\ persisted < seqno
    BY <1>1, <1>2, <1>12, Parts DEF InTurn
  <2>2. r.seq <= seqno /\ ~(r.seq <= persisted)
    BY <2>1, Parts
  <2> QED
    BY <1>6, <1>12, <2>2, Parts
<1>13. lost' \in SUBSET Nat
  <2>1. out \subseteq Nat
    <3>1. CASE Len(ring) = RingSize
      <4>1. ring[1].id \in Nat
        BY <1>4, <1>a, <3>1 DEF ReceiptType
      <4> QED
        BY <1>1, <4>1
    <3> QED
      BY <1>1, <3>1
  <2> QED
    BY <1>2, <2>1, Parts
<1>14. Len(ring') <= RingSize
  BY <1>4, <1>5, <1>6
<1>15. /\ \A i \in DOMAIN ring' : ring'[i].id <= made
       /\ "disk" \notin spfaults => \A i \in DOMAIN ring' : ring'[i].id \notin empty
  BY <1>1, <1>2, <1>6, Parts
<1> QED
  BY <1>2, <1>6, <1>7, <1>8, <1>9, <1>10, <1>11, <1>12, <1>13, <1>14, <1>15, Parts, Assemble

(* A step of a flush that leaves the ring, the log and the counters alone. *)
LEMMA FlushKeeps ==
    ASSUME SpineInv, NEW t \in Thread, turn[t].pc \in {"flush", "sink"},
           NEW v \in TurnType, turn' = [turn EXCEPT ![t] = v],
           v.pc \in {"idle", "sink"}, v.pc = "idle" => ~Calm,
           v.pc = "sink" => \A j \in DOMAIN v.rows : v.rows[j].id <= made,
           UNCHANGED <<mood, ring, seqno, made, persisted, log, lost, records, empty, spfaults>>,
           "race" \notin spfaults /\ v.pc = "sink" => Looked(v.rows, ring, records) /\ v.hi <= seqno
    PROVE  SpineInv'
<1>1. "race" \notin spfaults => \A u \in Thread \ {t} : turn[u] = Idle
  BY OthersIdle
<1>2. Honest'
  BY Parts DEF Honest, Truthful
<1>3. Calm => \A id \in records : id \in Range(log)
  BY <1>1, Parts, WholeNow
<1> QED
  BY <1>1, <1>2, <1>3, Parts, Assemble

LEMMA FlushStartKeeps ==
    ASSUME SpineInv, NEW t \in Thread, FlushStart(t)
    PROVE  SpineInv'
<1>1. turn[t].pc = "flush"
      /\ UNCHANGED <<mood, ring, seqno, made, persisted, records, empty, log, lost, spfaults>>
  BY DEF FlushStart
<1>2. CASE "gone" \in spfaults /\ turn' = [turn EXCEPT ![t] = Idle]
  BY <1>1, <1>2, Parts, IdleIsIdle, FlushKeeps
<1>3. CASE turn' = [turn EXCEPT ![t] = [pc |-> "sink", rows |-> ring, hi |-> persisted]]
  <2>1. PICK v : v = [pc |-> "sink", rows |-> ring, hi |-> persisted]
    OBVIOUS
  <2>2. v \in TurnType /\ v.pc = "sink" /\ v.rows = ring /\ v.hi = persisted
    BY <2>1, Parts DEF TurnType
  <2>3. Looked(v.rows, ring, records)
    BY <2>2, Parts, LookedAll
  <2> QED
    BY <1>1, <1>3, <2>1, <2>2, <2>3, Parts, FlushKeeps
<1> QED
  BY <1>2, <1>3 DEF FlushStart

(* A row the flush has before it. *)
LEMMA RowAhead ==
    ASSUME SpineInv, NEW t \in Thread, AtRow(t)
    PROVE  /\ turn[t].pc = "sink" /\ turn[t].rows \in Seq(ReceiptType) /\ turn[t].hi \in Nat
           /\ turn[t].rows # << >> /\ turn[t].rows[1] \in ReceiptType
           /\ Tail(turn[t].rows) \in Seq(ReceiptType)
           /\ "race" \notin spfaults =>
                /\ Looked(turn[t].rows, ring, records) /\ turn[t].hi <= seqno
                /\ \E i \in DOMAIN ring : turn[t].rows[1] = ring[i]
<1>1. turn[t].pc = "sink" /\ turn[t].rows # << >>
  BY DEF AtRow
<1>2. turn[t].rows \in Seq(ReceiptType) /\ turn[t].hi \in Nat
  BY <1>1, Parts, TurnCases
<1>3. PICK rows \in Seq(ReceiptType) : rows = turn[t].rows
  BY <1>2
<1>4. /\ Len(rows) \in Nat /\ Len(rows) > 0 /\ rows[1] \in ReceiptType
      /\ Tail(rows) \in Seq(ReceiptType)
  BY <1>1, <1>3, EmptySeq, LenProperties, ElementOfSeq, HeadTailProperties
<1>5. ASSUME "race" \notin spfaults
      PROVE  /\ Looked(rows, ring, records) /\ turn[t].hi <= seqno
             /\ \E i \in DOMAIN ring : rows[1] = ring[i]
  <2>1. Looked(rows, ring, records) /\ turn[t].hi <= seqno
    BY <1>1, <1>3, <1>5, Parts DEF InTurn, Flushing
  <2>2. PICK past \in Int : past = Len(ring) - Len(rows)
    <3>1. Len(ring) \in Nat /\ Len(rows) \in Nat
      BY <1>4, RingRows
    <3> QED
      BY <3>1
  <2>3. past >= 0 /\ rows[1] = ring[1 + past] /\ 1 + past \in 1..Len(ring)
    BY <1>4, <2>1, <2>2, RingRows DEF Looked
  <2> QED
    BY <2>1, <2>3, RingRows
<1> QED
  BY <1>1, <1>2, <1>3, <1>4, <1>5

(* The rows behind it are of receipts that were made. *)
LEMMA RowsKnown ==
    ASSUME SpineInv, NEW t \in Thread, AtRow(t)
    PROVE  /\ \A j \in DOMAIN Tail(turn[t].rows) : Tail(turn[t].rows)[j].id <= made
           /\ turn[t].rows[1].id <= made
<1>1. PICK rows \in Seq(ReceiptType) : rows = turn[t].rows /\ rows # << >>
  BY RowAhead
<1>2. /\ Len(rows) \in Nat /\ Len(rows) > 0 /\ DOMAIN rows = 1..Len(rows)
      /\ Tail(rows) \in Seq(ReceiptType) /\ Len(Tail(rows)) = Len(rows) - 1
      /\ \A j \in 1..Len(Tail(rows)) : Tail(rows)[j] = rows[j + 1]
  BY <1>1, EmptySeq, LenProperties, HeadTailProperties
<1>3. DOMAIN Tail(rows) = 1..(Len(rows) - 1)
  BY <1>2, LenProperties
<1>4. \A j \in DOMAIN rows : rows[j].id <= made
  BY <1>1, Parts, RowAhead
<1>5. \A j \in 1..(Len(rows) - 1) : j + 1 \in DOMAIN rows /\ Tail(rows)[j] = rows[j + 1]
  BY <1>2
<1> QED
  BY <1>1, <1>2, <1>3, <1>4, <1>5

LEMMA SkipKeeps ==
    ASSUME SpineInv, NEW t \in Thread, SkipRow(t)
    PROVE  SpineInv'
<1>1. /\ AtRow(t) /\ ~Unflushed(t)
      /\ UNCHANGED <<mood, ring, seqno, made, persisted, records, empty, log, lost, spfaults>>
  BY DEF SkipRow
<1>2. PICK v : v = [pc |-> "sink", rows |-> Tail(turn[t].rows), hi |-> turn[t].hi]
  OBVIOUS
<1>3. turn' = [turn EXCEPT ![t] = v]
  BY <1>2 DEF SkipRow
<1>4. /\ v \in TurnType /\ v.pc = "sink" /\ v.rows = Tail(turn[t].rows) /\ v.hi = turn[t].hi
  BY <1>1, <1>2, RowAhead DEF TurnType
<1>5. ASSUME "race" \notin spfaults
      PROVE  Looked(v.rows, ring, records)
  <2>1. PICK i \in DOMAIN ring : turn[t].rows[1] = ring[i]
    BY <1>1, <1>5, RowAhead
  <2>2. ring[i].seq <= persisted
    <3>1. ~(ring[i].seq > persisted) /\ ring[i].seq \in Nat
      BY <1>1, <2>1, RingRows DEF Unflushed, ReceiptType
    <3> QED
      BY <3>1, Parts
  <2>3. turn[t].rows[1].id \in records
    BY <1>5, <2>1, <2>2, Parts
  <2> QED
    BY <1>1, <1>4, <1>5, <2>3, RowAhead, Parts, LookedTail
<1>6. \A j \in DOMAIN v.rows : v.rows[j].id <= made
  BY <1>1, <1>4, RowsKnown
<1> QED
  BY <1>1, <1>3, <1>4, <1>5, <1>6, RowAhead, FlushKeeps

LEMMA SinkRecordKeeps ==
    ASSUME SpineInv, NEW t \in Thread, SinkRecord(t)
    PROVE  SpineInv'
<1>0. AtRow(t)
  BY DEF SinkRecord, Unflushed
<1>1. PICK r, rows, hi : /\ r = turn[t].rows[1] /\ rows = Tail(turn[t].rows)
                         /\ hi = Max2(turn[t].hi, r.seq)
  OBVIOUS
<1>2. PICK v : v = (IF Held(r.id) THEN [pc |-> "sink", rows |-> rows, hi |-> hi]
                    ELSE [pc |-> "log", rows |-> rows, hi |-> hi, id |-> r.id])
  OBVIOUS
<1>3. /\ records' = records \cup {r.id} /\ turn' = [turn EXCEPT ![t] = v]
      /\ UNCHANGED <<mood, ring, seqno, made, persisted, empty, log, lost, spfaults>>
  BY <1>1, <1>2 DEF SinkRecord
<1>4. r \in ReceiptType /\ rows \in Seq(ReceiptType) /\ hi \in Nat /\ r.id \in Nat /\ r.seq \in Nat
  BY <1>0, <1>1, RowAhead DEF ReceiptType, Max2
<1>5. /\ v \in TurnType /\ v.pc \in {"sink", "log"} /\ v.rows = rows /\ v.hi = hi
      /\ v.pc = "log" <=> r.id \notin records
      /\ v.pc = "log" => v.id = r.id
  BY <1>2, <1>4 DEF TurnType, Held
<1>6. "race" \notin spfaults => \A u \in Thread \ {t} : turn[u] = Idle
  BY <1>0, RowAhead, OthersIdle
<1>7. ASSUME "race" \notin spfaults
      PROVE  Looked(v.rows, ring, records') /\ v.hi <= seqno
  <2>1. PICK i \in DOMAIN ring : r = ring[i]
    BY <1>0, <1>1, <1>7, RowAhead
  <2>2. hi <= seqno
    BY <1>0, <1>1, <1>7, <2>1, RowAhead, Parts DEF Max2
  <2>3. records \subseteq records' /\ turn[t].rows[1].id \in records'
    BY <1>1, <1>3
  <2>4. PICK new : new = records'
    OBVIOUS
  <2>5. Looked(Tail(turn[t].rows), ring, new)
    BY <1>0, <1>7, <2>3, <2>4, RowAhead, Parts, LookedTail
  <2> QED
    BY <1>1, <1>5, <2>2, <2>4, <2>5
<1>8. Honest'
  BY <1>3, Parts DEF Honest, Truthful
<1>9. Calm => \A id \in records' : id \in Range(log) \/ (v.pc = "log" /\ v.id = id)
  <2>1. Calm => \A id \in records : id \in Range(log)
    BY <1>0, <1>6, Parts, RowAhead, WholeNow
  <2> QED
    BY <1>3, <1>5, <2>1
<1>10. "race" \notin spfaults /\ v.pc = "log" => v.id \in records' \ Range(log)
  BY <1>3, <1>5, Parts
<1>11. (\A j \in DOMAIN v.rows : v.rows[j].id <= made) /\ (v.pc = "log" => v.id <= made)
  BY <1>0, <1>1, <1>5, RowsKnown
<1> QED
  BY <1>3, <1>4, <1>5, <1>6, <1>7, <1>8, <1>9, <1>10, <1>11, Parts, Assemble

LEMMA SinkLogKeeps ==
    ASSUME SpineInv, NEW t \in Thread, SinkLog(t)
    PROVE  SpineInv'
<1>1. PICK v, id : /\ v = [pc |-> "sink", rows |-> turn[t].rows, hi |-> turn[t].hi]
                   /\ id = turn[t].id
  OBVIOUS
<1>2. /\ turn[t].pc = "log" /\ log' = Append(log, id) /\ turn' = [turn EXCEPT ![t] = v]
      /\ UNCHANGED <<mood, ring, seqno, made, persisted, records, empty, lost, spfaults>>
  BY <1>1 DEF SinkLog
<1>3. /\ turn[t].rows \in Seq(ReceiptType) /\ turn[t].hi \in Nat /\ id \in Nat
  BY <1>1, <1>2, Parts, TurnCases
<1>4. v \in TurnType /\ v.pc = "sink" /\ v.rows = turn[t].rows /\ v.hi = turn[t].hi
  BY <1>1, <1>3 DEF TurnType
<1>5. /\ log' \in Seq(Nat) /\ Len(log) \in Nat /\ DOMAIN log = 1..Len(log)
      /\ DOMAIN log' = 1..(Len(log) + 1)
      /\ \A i \in 1..Len(log) : log'[i] = log[i]
      /\ log'[Len(log) + 1] = id
  BY <1>2, <1>3, Parts, AppendProperties, LenProperties
<1>6. Range(log') = Range(log) \cup {id}
  <2>1. \A i \in 1..(Len(log) + 1) : i \in 1..Len(log) \/ i = Len(log) + 1
    BY <1>5
  <2>2. Len(log) + 1 \in DOMAIN log' /\ \A i \in 1..Len(log) : i \in DOMAIN log'
    BY <1>5
  <2> QED
    BY <1>5, <2>1, <2>2 DEF Range
<1>7. "race" \notin spfaults => \A u \in Thread \ {t} : turn[u] = Idle
  BY <1>2, OthersIdle
<1>8. Honest'
  BY <1>2, Parts DEF Honest, Truthful
<1>9. ASSUME "race" \notin spfaults
      PROVE  /\ \A i, j \in DOMAIN log' : log'[i] = log'[j] => i = j
             /\ Range(log') \subseteq records
             /\ Looked(v.rows, ring, records) /\ v.hi <= seqno
  <2>1. id \in records /\ id \notin Range(log)
    BY <1>1, <1>2, <1>9, Parts DEF LinesInv
  <2>2. \A i \in 1..Len(log) : log'[i] # id
    BY <1>5, <2>1 DEF Range
  <2>3. \A i, j \in DOMAIN log' : log'[i] = log'[j] => i = j
    <3> SUFFICES ASSUME NEW i \in 1..(Len(log) + 1), NEW j \in 1..(Len(log) + 1), log'[i] = log'[j]
                 PROVE  i = j
      BY <1>5
    <3>1. CASE i \in 1..Len(log) /\ j \in 1..Len(log)
      BY <1>5, <1>9, <3>1, Parts
    <3>2. CASE i = Len(log) + 1 \/ j = Len(log) + 1
      <4>1. ~(i \in 1..Len(log)) /\ ~(j \in 1..Len(log))
        BY <1>5, <2>2, <3>2
      <4> QED
        BY <1>5, <4>1
    <3> QED
      BY <1>5, <3>1, <3>2
  <2>4. Looked(v.rows, ring, records) /\ v.hi <= seqno
    BY <1>2, <1>4, <1>9, Parts DEF InTurn, Flushing
  <2> QED
    BY <1>6, <1>9, <2>1, <2>3, <2>4, Parts
<1>10. Calm => \A x \in records : x \in Range(log')
  BY <1>1, <1>2, <1>6, <1>7, Parts, WholeNow
<1> QED
  BY <1>2, <1>4, <1>5, <1>7, <1>8, <1>9, <1>10, Parts, Assemble

LEMMA EndKeeps ==
    ASSUME SpineInv, NEW t \in Thread, SinkFails(t) \/ FlushEnd(t)
    PROVE  SpineInv'
<1>1. CASE SinkFails(t)
  <2>1. /\ "disk" \in spfaults /\ turn[t].pc \in {"sink", "log"}
        /\ turn' = [turn EXCEPT ![t] = Idle]
        /\ empty' = empty \/ (turn[t].pc = "log" /\ empty' = empty \cup {turn[t].id})
        /\ UNCHANGED <<mood, ring, seqno, made, persisted, records, log, lost, spfaults>>
    BY <1>1 DEF SinkFails, MarkOnFailure, Unflushed, AtRow
  <2>2. empty' \in SUBSET Nat /\ \A id \in empty' : id <= made
    BY <2>1, Parts, TurnCases
  <2>3. ~Calm
    BY <2>1 DEF Calm
  <2>4. "race" \notin spfaults => \A u \in Thread \ {t} : turn[u] = Idle
    BY <2>1, OthersIdle
  <2>5. Honest'
    BY <2>1, Parts DEF Honest, Truthful
  <2> QED
    BY <2>1, <2>2, <2>3, <2>4, <2>5, Parts, IdleIsIdle, Assemble
<1>2. CASE FlushEnd(t)
  <2>1. /\ turn[t].pc = "sink" /\ turn[t].rows = << >> /\ persisted' = turn[t].hi
        /\ turn' = [turn EXCEPT ![t] = Idle]
        /\ UNCHANGED <<mood, ring, seqno, made, records, empty, log, lost, spfaults>>
    BY <1>2 DEF FlushEnd
  <2>2. "race" \notin spfaults => \A u \in Thread \ {t} : turn[u] = Idle
    BY <2>1, OthersIdle
  <2>3. persisted' \in Nat
    BY <2>1, Parts, TurnCases
  <2>4. ASSUME "race" \notin spfaults
        PROVE  persisted' <= seqno /\ \A i \in DOMAIN ring : ring[i].id \in records
    <3>1. Looked(<< >>, ring, records) /\ persisted' <= seqno
      BY <2>1, <2>4, Parts DEF InTurn, Flushing
    <3> QED
      BY <3>1, Parts, LookedEnd
  <2>5. Honest'
    BY <2>1, Parts DEF Honest, Truthful
  <2>6. Calm => /\ \A id \in records : id \in Range(log)
                /\ \A i \in DOMAIN ring : ring[i].id \in records
    BY <2>1, <2>2, <2>4, Parts, WholeNow
  <2> QED
    BY <2>1, <2>2, <2>3, <2>4, <2>5, <2>6, Parts, IdleIsIdle, Assemble
<1> QED
  BY <1>1, <1>2

(* A process that starts has nothing in its ring and nobody at work. *)
LEMMA FreshStart ==
    ASSUME ring = << >>, seqno = 0, persisted = 0, turn = [t \in Thread |-> Idle],
           mood \in Mood, made \in Nat, empty \in SUBSET Nat, \A id \in empty : id <= made,
           records \in SUBSET Nat, log \in Seq(Nat), lost \in SUBSET Nat,
           "race" \notin spfaults =>
              /\ \A i, j \in DOMAIN log : log[i] = log[j] => i = j
              /\ Range(log) \subseteq records,
           Calm => lost = {} /\ records = Range(log)
    PROVE  SpineInv
<1>1. Len(ring) = 0 /\ DOMAIN ring = {} /\ ring \in Seq(ReceiptType)
  BY EmptySeq
<1>2. \A t \in Thread : turn[t] = Idle /\ turn[t].pc = "idle"
  BY IdleIsIdle
<1>3. SpineTypeOK
  BY <1>1, IdleIsIdle, SpineShape DEF SpineTypeOK
<1>4. HonestHands /\ Honest /\ BelowWatermark /\ NonePushedOut /\ Numbered /\ Fresh
  BY <1>1, <1>2 DEF HonestHands, Honest, BelowWatermark, NonePushedOut, Numbered, Fresh,
                    Holding, Flushing
<1>5. OneLine
  BY DEF OneLine
<1>6. "race" \notin spfaults => InTurn /\ LinesInv
  BY <1>1, <1>2 DEF InTurn, LinesInv, Flushing
<1>7. Calm => WholeInv
  BY <1>1 DEF WholeInv
<1> QED
  BY <1>3, <1>4, <1>5, <1>6, <1>7 DEF SpineInv, RecordTrue

LEMMA DiesKeeps ==
    ASSUME SpineInv, Dies
    PROVE  SpineInv'
<1>1. /\ "crash" \in spfaults /\ ring' = << >> /\ turn' = [t \in Thread |-> Idle]
      /\ seqno' = 0 /\ persisted' = 0
      /\ UNCHANGED <<mood, made, records, log, lost, spfaults>>
  BY DEF Dies
<1>t. empty' \in SUBSET Nat /\ \A id \in empty' : id <= made
  <2>1. PICK torn \in SUBSET Torn : empty' = empty \cup torn
    BY DEF Dies
  <2>2. \A id \in Torn : id \in Nat /\ id <= made
    BY Parts, TurnCases DEF Torn
  <2> QED
    BY <2>1, <2>2, Parts
<1>2. ~Calm'
  BY <1>1 DEF Calm
<1>3. "race" \notin spfaults' => /\ \A i, j \in DOMAIN log' : log'[i] = log'[j] => i = j
                                 /\ Range(log)' \subseteq records'
  BY <1>1, Parts
<1>4. made' \in Nat /\ records' \in SUBSET Nat /\ log' \in Seq(Nat) /\ lost' \in SUBSET Nat
  BY <1>1, Parts
<1>5. /\ Len(ring') = 0 /\ DOMAIN ring' = {} /\ ring' \in Seq(ReceiptType)
      /\ \A t \in Thread : turn'[t] = Idle /\ turn'[t].pc = "idle"
  BY <1>1, EmptySeq, IdleIsIdle
<1>6. SpineTypeOK'
  BY <1>1, <1>4, <1>5, <1>t, Parts, IdleIsIdle, SpineShape DEF SpineTypeOK
<1>7. /\ HonestHands' /\ Honest' /\ BelowWatermark' /\ NonePushedOut'
      /\ Numbered' /\ Fresh'
  BY <1>1, <1>2, <1>5, <1>t DEF HonestHands, Honest, BelowWatermark, NonePushedOut, Numbered, Fresh,
                           Holding, Flushing
<1>8. OneLine'
  BY <1>2, <1>3 DEF OneLine
<1>9. "race" \notin spfaults' => InTurn' /\ LinesInv'
  BY <1>1, <1>3, <1>5 DEF InTurn, LinesInv, Flushing
<1> QED
  BY <1>2, <1>6, <1>7, <1>8, <1>9 DEF SpineInv, RecordTrue

LEMMA SpineStep ==
    ASSUME SpineInv, [SpineNext]_svars
    PROVE  SpineInv'
<1>1. CASE UNCHANGED svars
  BY <1>1 DEF svars, SpineInv, SpineTypeOK, HonestHands, RecordTrue, Honest, BelowWatermark,
              NonePushedOut, OneLine, InTurn, LinesInv, WholeInv, Calm, Flushing, Holding,
              Numbered, Fresh, Unspoilt, Truthful
<1>2. ASSUME NEW t \in Thread,
             Stamp(t) \/ AppendReceipt(t) \/ FlushStart(t) \/ SkipRow(t) \/ SinkRecord(t)
             \/ SinkLog(t) \/ SinkFails(t) \/ FlushEnd(t)
      PROVE  SpineInv'
  BY <1>2, StampKeeps, AppendKeeps, FlushStartKeeps, SkipKeeps, SinkRecordKeeps, SinkLogKeeps,
     EndKeeps
<1> QED
  BY <1>1, <1>2, FoldKeeps, VerifyKeeps, DiesKeeps DEF SpineNext

(* run_spine, persist_receipts, TelemetrySink.sink: a receipt that says    *)
(* verified is of an effect that was there; what the watermark passed is   *)
(* in the store, though a flush raises, a client leaves or the process     *)
(* dies between any two writes; without faults nothing leaves the ring     *)
(* unwritten; and no record has two lines in the log.                      *)
THEOREM TheRecordIsTrue == SpineSpec => []RecordTrue
<1>1. SpineInit => SpineInv
  <2> SUFFICES ASSUME SpineInit PROVE SpineInv
    OBVIOUS
  <2>1. log = << >> /\ records = {} /\ empty = {} /\ lost = {} /\ made = 0 /\ mood \in Mood
    BY DEF SpineInit
  <2>2. log \in Seq(Nat) /\ DOMAIN log = {} /\ Range(log) = {}
    BY <2>1, EmptySeq DEF Range
  <2> QED
    BY <2>1, <2>2, FreshStart DEF SpineInit
<1>2. SpineInv /\ [SpineNext]_svars => SpineInv'
  BY SpineStep
<1>3. SpineInv => RecordTrue
  BY DEF SpineInv
<1> QED
  BY <1>1, <1>2, <1>3, PTL DEF SpineSpec
=============================================================================
