-------------------------- MODULE KVSessionProofs --------------------------
(***************************************************************************)
(* For every ring, window and journal size with Window + Jmax <= RingW,    *)
(* sliding-window attention reads the right rows whatever the callers do.  *)
(***************************************************************************)
EXTENDS KVSession, TLAPS

-----------------------------------------------------------------------------
(* Arithmetic of ring slots. *)

LEMMA SlotInSlots ==
    ASSUME NEW p \in Nat
    PROVE  Slot(p) \in Slots
  BY SessionShape DEF Slot, Slots

LEMMA DivMod ==
    ASSUME NEW w \in Nat \ {0}, NEW p \in Nat
    PROVE  /\ p = w * (p \div w) + (p % w)
           /\ p \div w \in Nat
  OBVIOUS

LEMMA ModRange ==
    ASSUME NEW w \in Nat \ {0}, NEW p \in Nat
    PROVE  p % w \in 0..(w - 1)
  OBVIOUS

LEMMA MultipleGap ==
    ASSUME NEW w \in Nat \ {0}, NEW a \in Nat, NEW b \in Nat, w * a > w * b
    PROVE  w * a - w * b >= w
<1>1. a > b
  OBVIOUS
<1>2. a - b >= 1
  BY <1>1
<1>3. w * (a - b) >= w * 1
  BY <1>2
<1>4. w * a - w * b = w * (a - b)
  OBVIOUS
<1> QED
  BY <1>3, <1>4

LEMMA SameResidue ==
    ASSUME NEW w \in Nat \ {0}, NEW p \in Nat, NEW q \in Nat, q < p, p % w = q % w
    PROVE  p - q >= w
<1> DEFINE a == p \div w
<1> DEFINE b == q \div w
<1>1. p = w * a + (p % w) /\ a \in Nat
  BY DivMod
<1>2. q = w * b + (q % w) /\ b \in Nat
  BY DivMod
<1>3. /\ w * a \in Int /\ w * b \in Int
      /\ p % w \in Int /\ q % w \in Int
  BY <1>1, <1>2, ModRange
<1> HIDE DEF a, b
<1>4. w * a > w * b
  BY <1>1, <1>2, <1>3
<1>5. w * a - w * b >= w
  BY <1>1, <1>2, <1>4, MultipleGap
<1> QED
  BY <1>1, <1>2, <1>3, <1>5

(* Two different positions share a ring slot only if they are at least a   *)
(* whole ring apart.                                                       *)
LEMMA SameSlotFarApart ==
    ASSUME NEW p \in Nat, NEW q \in Nat, q < p, Slot(p) = Slot(q)
    PROVE  p - q >= RingW
  BY SessionShape, SameResidue DEF Slot

-----------------------------------------------------------------------------
(* The inductive invariant. *)

LEMMA InitIInv == Init => IInv
<1> SUFFICES ASSUME Init PROVE IInv
  OBVIOUS
<1> USE SessionShape
<1>0. NoBlob \in Blob
  BY DEF Blob, NoBlob, Positions, Slots
<1>a. 0 \in 0..Pmax
  OBVIOUS
<1>1. TypeOK
  BY <1>0, <1>a, Zenon DEF Init, TypeOK
<1>2. Reach
  BY DEF Init, Reach
<1>3. RingExact
  BY DEF Init, RingExact, Positions
<1>4. WrapKnown
  BY DEF Init, WrapKnown
<1>5. BlobExact
  BY DEF Init, BlobExact, NoBlob, Positions
<1> QED
  BY <1>1, <1>2, <1>3, <1>4, <1>5 DEF IInv

(* The bounds every action starts from. *)
LEMMA Bounds ==
    ASSUME IInv
    PROVE  /\ dpos \in 0..Pmax /\ commit_pos \in 0..Pmax /\ high \in 0..Pmax
           /\ commit_pos <= dpos /\ dpos <= high /\ dpos - commit_pos <= Jmax
           /\ high <= RingW \/ high <= commit_pos + Jmax + 1
           /\ Pmax \in Nat /\ RingW \in Nat \ {0} /\ Jmax \in Nat \ {0}
           /\ Window \in Nat \ {0} /\ Jmax <= RingW
  BY SessionShape DEF IInv, TypeOK, Reach

(* The entry a step journals to exists, and the slide leaves at most Jmax  *)
(* positions above the new floor.                                          *)
LEMMA SlideBounds ==
    ASSUME IInv, dpos < Pmax
    PROVE  /\ Slide \in commit_pos..dpos
           /\ dpos - Slide \in 0..(Jmax - 1)
           /\ Slide \in 0..Pmax
  BY Bounds DEF Slide

(* Writing a row at dpos keeps the ring right for what is below dpos. *)
LEMMA MintKeeps ==
    ASSUME IInv, NEW r \in Row, NEW c \in Nat, dpos < Pmax,
           dpos - c \in 0..(Jmax - 1), MintRow(r, c)
    PROVE  /\ full' \in [Positions -> Row]
           /\ ring' \in [Slots -> Row]
           /\ jrn' \in [0..(Jmax - 1) -> Row]
           /\ ring'[Slot(dpos)] = r /\ full'[dpos] = r
           /\ \A q \in Positions :
                 (q < dpos /\ q + RingW >= high /\ q + RingW > dpos)
                    => ring'[Slot(q)] = full'[q]
<1> USE SessionShape, Bounds
<1>1. Slot(dpos) \in Slots /\ dpos \in Positions
  BY SlotInSlots DEF Positions
<1>2. full \in [Positions -> Row] /\ ring \in [Slots -> Row] /\ jrn \in [0..(Jmax - 1) -> Row]
  BY DEF IInv, TypeOK
<1>3. full' = [full EXCEPT ![dpos] = r] /\ ring' = [ring EXCEPT ![Slot(dpos)] = r]
  BY DEF MintRow
<1>4. jrn' \in [0..(Jmax - 1) -> Row]
  BY <1>1, <1>2 DEF MintRow
<1>5. ASSUME NEW q \in Positions, q < dpos, q + RingW >= high, q + RingW > dpos
      PROVE  ring'[Slot(q)] = full'[q]
  <2>1. q \in Nat /\ Slot(q) \in Slots
    BY SlotInSlots DEF Positions
  <2>2. Slot(q) # Slot(dpos)
    BY <1>5, <2>1, SameSlotFarApart
  <2>3. ring[Slot(q)] = full[q]
    BY <1>5 DEF IInv, RingExact
  <2> QED
    BY <1>2, <1>3, <1>5, <2>1, <2>2, <2>3
<1>6. full' \in [Positions -> Row] /\ ring' \in [Slots -> Row]
  BY <1>1, <1>2, <1>3
<1>7. ring'[Slot(dpos)] = r /\ full'[dpos] = r
  BY <1>1, <1>2, <1>3
<1> QED
  BY <1>4, <1>5, <1>6, <1>7

LEMMA StepKeeps ==
    ASSUME IInv, NEW r \in Row, Step(r)
    PROVE  IInv'
<1> USE SessionShape, Bounds
<1>1. /\ dpos < Pmax /\ dpos' = dpos + 1 /\ commit_pos' = Slide
      /\ MintRow(r, Slide) /\ blob' = blob
      /\ high' = IF dpos + 1 > high THEN dpos + 1 ELSE high
  BY DEF Step
<1>2. /\ Slide \in commit_pos..dpos /\ dpos - Slide \in 0..(Jmax - 1)
      /\ Slide \in 0..Pmax /\ Slide \in Nat
  BY <1>1, SlideBounds
<1>3. /\ full' \in [Positions -> Row] /\ ring' \in [Slots -> Row]
      /\ jrn' \in [0..(Jmax - 1) -> Row]
      /\ ring'[Slot(dpos)] = r /\ full'[dpos] = r
      /\ \A q \in Positions : (q < dpos /\ q + RingW >= high /\ q + RingW > dpos)
                                 => ring'[Slot(q)] = full'[q]
  BY <1>1, <1>2, MintKeeps
<1>4. high' \in 0..Pmax /\ high' >= high /\ high' >= dpos + 1
  BY <1>1
<1>5. TypeOK'
  <2>1. ring_wrapped' \in BOOLEAN
    BY Zenon DEF Step
  <2>2. dpos' \in 0..Pmax /\ commit_pos' \in 0..Pmax
    BY <1>1, <1>2
  <2>3. blob' \in Blob
    BY <1>1 DEF IInv, TypeOK
  <2> QED
    BY <1>3, <1>4, <2>1, <2>2, <2>3 DEF TypeOK
<1>6. Reach'
  BY <1>1, <1>2, <1>4 DEF Reach
<1>7. RingExact'
  <2> SUFFICES ASSUME NEW q \in Positions, q < dpos', q + RingW >= high'
               PROVE  ring'[Slot(q)] = full'[q]
    BY DEF RingExact, Positions, Slot
  <2>1. q = dpos \/ (q < dpos /\ q + RingW >= high /\ q + RingW > dpos)
    BY <1>1, <1>4 DEF Positions
  <2> QED
    BY <1>3, <2>1
<1>8. WrapKnown'
  <2> SUFFICES ASSUME ShearArmed, ~ring_wrapped'
               PROVE  high' <= RingW
    BY DEF WrapKnown
  <2>1. ~ring_wrapped /\ ~(dpos + 1 > RingW)
    BY Zenon DEF Step
  <2>2. high <= RingW
    BY <1>1, <2>1 DEF IInv, WrapKnown
  <2> QED
    BY <1>1, <2>1, <2>2
<1>9. BlobExact'
  BY <1>1 DEF IInv, BlobExact, Positions, Slot
<1> QED
  BY <1>5, <1>6, <1>7, <1>8, <1>9 DEF IInv

LEMMA PeekKeeps ==
    ASSUME IInv, WideRing, NEW r \in Row, Peek(r)
    PROVE  IInv'
<1> USE SessionShape, Bounds
<1>1. /\ PeekArmed /\ dpos + 1 < Pmax /\ MintRow(r, Slide)
      /\ high' = IF dpos + 1 > high THEN dpos + 1 ELSE high
      /\ dpos' = dpos /\ commit_pos' = commit_pos
      /\ ring_wrapped' = ring_wrapped /\ blob' = blob
  BY DEF Peek
<1>2. dpos - Slide \in 0..(Jmax - 1) /\ Slide \in Nat /\ dpos < Pmax
  BY <1>1, SlideBounds
<1>3. /\ full' \in [Positions -> Row] /\ ring' \in [Slots -> Row]
      /\ jrn' \in [0..(Jmax - 1) -> Row]
      /\ \A q \in Positions : (q < dpos /\ q + RingW >= high /\ q + RingW > dpos)
                                 => ring'[Slot(q)] = full'[q]
  BY <1>1, <1>2, MintKeeps
<1>4. high' \in 0..Pmax /\ high' >= high /\ high' >= dpos + 1
  BY <1>1
<1>5. TypeOK'
  BY <1>1, <1>3, <1>4, Zenon DEF IInv, TypeOK
<1>6. Reach'
  BY <1>1, <1>4 DEF Reach
<1>7. RingExact'
  <2> SUFFICES ASSUME NEW q \in Positions, q < dpos', q + RingW >= high'
               PROVE  ring'[Slot(q)] = full'[q]
    BY DEF RingExact, Positions, Slot
  <2>1. q < dpos /\ q + RingW >= high /\ q + RingW > dpos
    BY <1>1, <1>4 DEF Positions
  <2> QED
    BY <1>3, <2>1
<1>8. WrapKnown'
  BY <1>1, Zenon DEF WideRing, WrapKnown
<1>9. BlobExact'
  BY <1>1 DEF IInv, BlobExact, Positions, Slot
<1> QED
  BY <1>5, <1>6, <1>7, <1>8, <1>9 DEF IInv

LEMMA ReplayKeeps ==
    ASSUME IInv, NEW n \in 1..Jmax, NEW ep \in [0..(n - 1) -> Row], Replay(n, ep)
    PROVE  IInv'
<1> USE SessionShape, Bounds
<1>1. /\ dpos + n <= Pmax /\ (dpos - commit_pos) + n <= Jmax
      /\ dpos' = dpos + n /\ commit_pos' = commit_pos /\ blob' = blob
      /\ high' = IF dpos + n > high THEN dpos + n ELSE high
      /\ n \in Nat
  BY DEF Replay
<1>2. /\ full \in [Positions -> Row] /\ ring \in [Slots -> Row]
      /\ jrn \in [0..(Jmax - 1) -> Row] /\ blob \in Blob
  BY DEF IInv, TypeOK
<1>3. high' \in 0..Pmax /\ high' >= high /\ high' >= dpos + n
  BY <1>1
<1>4. jrn' \in [0..(Jmax - 1) -> Row]
  <2>1. \A j \in 0..(Jmax - 1) : ring[Slot(commit_pos + j)] \in Row
    BY <1>2, SlotInSlots
  <2> QED
    BY <1>2, <2>1 DEF Replay
<1>5. ring' \in [Slots -> Row]
  <2>1. ASSUME NEW s \in Slots, \E i \in 0..(n - 1) : Slot(dpos + i) = s
        PROVE  ep[CHOOSE i \in 0..(n - 1) : Slot(dpos + i) = s] \in Row
    BY <2>1
  <2> QED
    BY <1>2, <2>1 DEF Replay
<1>6. full' \in [Positions -> Row]
  <2>1. \A p \in dpos..(dpos + n - 1) : ep[p - dpos] \in Row
    BY <1>1
  <2> QED
    BY <1>2, <2>1 DEF Replay
<1>7. TypeOK'
  <2>1. ring_wrapped' \in BOOLEAN
    BY Zenon DEF Replay
  <2>2. dpos' \in 0..Pmax /\ commit_pos' \in 0..Pmax
    BY <1>1
  <2> QED
    BY <1>1, <1>2, <1>3, <1>4, <1>5, <1>6, <2>1, <2>2 DEF TypeOK
<1>8. Reach'
  BY <1>1, <1>3 DEF Reach
<1>9. RingExact'
  <2> SUFFICES ASSUME NEW q \in Positions, q < dpos', q + RingW >= high'
               PROVE  ring'[Slot(q)] = full'[q]
    BY DEF RingExact, Positions, Slot
  <2>0. q \in Nat /\ Slot(q) \in Slots
    BY SlotInSlots DEF Positions
  <2>a. ring'[Slot(q)] = IF \E i \in 0..(n - 1) : Slot(dpos + i) = Slot(q)
                         THEN ep[CHOOSE i \in 0..(n - 1) : Slot(dpos + i) = Slot(q)]
                         ELSE ring[Slot(q)]
    BY <2>0 DEF Replay
  <2>b. full'[q] = IF q \in dpos..(dpos + n - 1) THEN ep[q - dpos] ELSE full[q]
    BY DEF Replay
  <2>1. CASE q < dpos
    <3>1. ASSUME NEW i \in 0..(n - 1), Slot(dpos + i) = Slot(q)
          PROVE  FALSE
      <4>1. dpos + i \in Nat /\ q < dpos + i
        BY <2>0, <2>1
      <4>2. dpos + i - q >= RingW
        BY <2>0, <3>1, <4>1, SameSlotFarApart
      <4> QED
        BY <1>1, <1>3, <2>0, <4>2
    <3>2. ring'[Slot(q)] = ring[Slot(q)]
      BY <2>a, <3>1
    <3>3. full'[q] = full[q]
      BY <2>0, <2>1, <2>b
    <3>a. q + RingW >= high
      BY <1>3, <2>0
    <3>4. ring[Slot(q)] = full[q]
      BY <2>1, <3>a DEF IInv, RingExact
    <3> QED
      BY <3>2, <3>3, <3>4
  <2>2. CASE q >= dpos
    <3> DEFINE k == q - dpos
    <3>1. k \in 0..(n - 1) /\ Slot(dpos + k) = Slot(q)
      BY <1>1, <2>0, <2>2
    <3>2. ASSUME NEW i \in 0..(n - 1), Slot(dpos + i) = Slot(q)
          PROVE  i = k
      <4>1. CASE dpos + i < q
        <5>1. q - (dpos + i) >= RingW
          BY <2>0, <3>2, <4>1, SameSlotFarApart
        <5> QED
          BY <1>1, <2>0, <5>1
      <4>2. CASE q < dpos + i
        <5>1. (dpos + i) - q >= RingW
          BY <2>0, <3>2, <4>2, SameSlotFarApart
        <5> QED
          BY <1>1, <2>0, <2>2, <5>1
      <4> QED
        BY <2>0, <4>1, <4>2
    <3> HIDE DEF k
    <3>3. (CHOOSE i \in 0..(n - 1) : Slot(dpos + i) = Slot(q)) = k
      BY <3>1, <3>2
    <3>4. ring'[Slot(q)] = ep[k]
      BY <2>a, <3>1, <3>3
    <3>5. full'[q] = ep[k]
      BY <1>1, <2>0, <2>2, <2>b DEF k
    <3> QED
      BY <3>4, <3>5
  <2> QED
    BY <2>0, <2>1, <2>2
<1>10. WrapKnown'
  <2> SUFFICES ASSUME ShearArmed, ~ring_wrapped'
               PROVE  high' <= RingW
    BY DEF WrapKnown
  <2>1. ~ring_wrapped /\ ~(dpos + n > RingW)
    BY Zenon DEF Replay
  <2>2. high <= RingW
    BY <1>1, <2>1 DEF IInv, WrapKnown
  <2> QED
    BY <1>1, <2>1, <2>2
<1>11. BlobExact'
  BY <1>1 DEF IInv, BlobExact, Positions, Slot
<1> QED
  BY <1>7, <1>8, <1>9, <1>10, <1>11 DEF IInv

LEMMA AblateKeeps ==
    ASSUME IInv, NEW p \in Positions, Ablate(p)
    PROVE  IInv'
<1> USE SessionShape, Bounds
<1>1. /\ commit_pos <= p /\ p < dpos /\ p \in Nat
      /\ full' = [full EXCEPT ![p] = ZeroRow] /\ ring' = [ring EXCEPT ![Slot(p)] = ZeroRow]
      /\ dpos' = dpos /\ commit_pos' = commit_pos /\ ring_wrapped' = ring_wrapped
      /\ jrn' = jrn /\ blob' = blob /\ high' = high
  BY DEF Ablate, Positions
<1>2. full \in [Positions -> Row] /\ ring \in [Slots -> Row]
  BY DEF IInv, TypeOK
<1>3. full' \in [Positions -> Row] /\ ring' \in [Slots -> Row]
  BY <1>1, <1>2
<1>4. TypeOK'
  BY <1>1, <1>3, Zenon DEF IInv, TypeOK
<1>5. Reach'
  BY <1>1 DEF Reach
<1>6. RingExact'
  <2> SUFFICES ASSUME NEW q \in Positions, q < dpos, q + RingW >= high
               PROVE  ring'[Slot(q)] = full'[q]
    BY <1>1 DEF RingExact, Positions, Slot
  <2>1. q \in Nat /\ Slot(q) \in Slots /\ Slot(p) \in Slots
    BY <1>1, SlotInSlots DEF Positions
  <2>2. ring[Slot(q)] = full[q]
    BY DEF IInv, RingExact
  <2>3. q # p => Slot(q) # Slot(p)
    <3>1. CASE q < p /\ Slot(q) = Slot(p)
      <4>1. p - q >= RingW
        BY <1>1, <2>1, <3>1, SameSlotFarApart
      <4> QED
        BY <1>1, <2>1, <4>1
    <3>2. CASE p < q /\ Slot(q) = Slot(p)
      <4>1. q - p >= RingW
        BY <1>1, <2>1, <3>2, SameSlotFarApart
      <4> QED
        BY <1>1, <2>1, <4>1
    <3> QED
      BY <1>1, <2>1, <3>1, <3>2
  <2> QED
    BY <1>1, <1>2, <2>1, <2>2, <2>3
<1>7. WrapKnown'
  BY <1>1, Zenon DEF IInv, WrapKnown
<1>8. BlobExact'
  BY <1>1 DEF IInv, BlobExact, Positions, Slot
<1> QED
  BY <1>4, <1>5, <1>6, <1>7, <1>8 DEF IInv

LEMMA RewindKeeps ==
    ASSUME IInv, NEW d \in 0..dpos, Rewind(d)
    PROVE  IInv'
<1> USE SessionShape, Bounds
<1>1. /\ d <= dpos - commit_pos /\ d \in Nat /\ dpos' = dpos - d
      /\ commit_pos' = commit_pos /\ ring_wrapped' = ring_wrapped
      /\ full' = full /\ jrn' = jrn /\ blob' = blob /\ high' = high
  BY DEF Rewind
<1>2. /\ full \in [Positions -> Row] /\ ring \in [Slots -> Row]
      /\ jrn \in [0..(Jmax - 1) -> Row]
  BY DEF IInv, TypeOK
<1>3. \A s \in Slots : ring'[s] = IF Undone(d, s) = {} THEN ring[s]
                                  ELSE jrn[(CHOOSE p \in Undone(d, s) :
                                              \A q \in Undone(d, s) : p <= q) - commit_pos]
  BY DEF Rewind
<1>4. ring' \in [Slots -> Row]
  <2> SUFFICES ASSUME NEW s \in Slots, Undone(d, s) # {}
               PROVE  jrn[(CHOOSE p \in Undone(d, s) :
                             \A q \in Undone(d, s) : p <= q) - commit_pos] \in Row
    BY <1>2 DEF Rewind
  <2>1. \E p \in Undone(d, s) : \A q \in Undone(d, s) : p <= q
    <3>1. PICK p \in Undone(d, s) : TRUE
      OBVIOUS
    <3>2. ASSUME NEW q \in Undone(d, s), q # p
          PROVE  FALSE
      <4>1. /\ p \in Nat /\ q \in Nat /\ Slot(p) = Slot(q)
            /\ p \in (dpos - d)..(dpos - 1) /\ q \in (dpos - d)..(dpos - 1)
        BY <1>1 DEF Undone
      <4>2. CASE p < q
        <5>1. q - p >= RingW
          BY <4>1, <4>2, SameSlotFarApart
        <5> QED
          BY <1>1, <4>1, <5>1
      <4>3. CASE q < p
        <5>1. p - q >= RingW
          BY <4>1, <4>3, SameSlotFarApart
        <5> QED
          BY <1>1, <4>1, <5>1
      <4> QED
        BY <3>2, <4>1, <4>2, <4>3
    <3>3. p \in Int
      BY <1>1 DEF Undone
    <3>4. \A q \in Undone(d, s) : p <= q
      BY <3>2, <3>3
    <3> QED
      BY <3>4
  <2> DEFINE c == CHOOSE p \in Undone(d, s) : \A q \in Undone(d, s) : p <= q
  <2>2. c \in Undone(d, s)
    BY <2>1
  <2> HIDE DEF c
  <2>3. c - commit_pos \in 0..(Jmax - 1)
    BY <1>1, <2>2 DEF Undone
  <2>4. jrn[c - commit_pos] \in Row
    BY <1>2, <2>3
  <2> QED
    BY <2>4 DEF c
<1>5. TypeOK'
  <2>1. dpos' \in 0..Pmax
    BY <1>1
  <2> QED
    BY <1>1, <1>4, <2>1, Zenon DEF IInv, TypeOK
<1>6. Reach'
  BY <1>1 DEF Reach
<1>7. RingExact'
  <2> SUFFICES ASSUME NEW q \in Positions, q < dpos - d, q + RingW >= high
               PROVE  ring'[Slot(q)] = full[q]
    BY <1>1 DEF RingExact, Positions, Slot
  <2>1. q \in Nat /\ Slot(q) \in Slots
    BY SlotInSlots DEF Positions
  <2>2. Undone(d, Slot(q)) = {}
    <3>1. ASSUME NEW p \in Undone(d, Slot(q))
          PROVE  FALSE
      <4>1. p \in Nat /\ Slot(p) = Slot(q) /\ p \in (dpos - d)..(dpos - 1)
        BY <1>1 DEF Undone
      <4>2. p - q >= RingW
        BY <1>1, <2>1, <4>1, SameSlotFarApart
      <4> QED
        BY <1>1, <2>1, <4>1, <4>2
    <3> QED
      BY <3>1
  <2>3. ring[Slot(q)] = full[q]
    BY <1>1, <2>1 DEF IInv, RingExact
  <2> QED
    BY <1>3, <2>1, <2>2, <2>3
<1>8. WrapKnown'
  BY <1>1 DEF IInv, WrapKnown
<1>9. BlobExact'
  BY <1>1 DEF IInv, BlobExact, Positions, Slot
<1> QED
  BY <1>5, <1>6, <1>7, <1>8, <1>9 DEF IInv

LEMMA CommitKeeps ==
    ASSUME IInv, Commit
    PROVE  IInv'
<1> USE SessionShape, Bounds
<1>1. /\ commit_pos' = dpos /\ dpos' = dpos /\ ring_wrapped' = ring_wrapped
      /\ full' = full /\ ring' = ring /\ jrn' = jrn /\ blob' = blob /\ high' = high
  BY DEF Commit
<1>2. TypeOK'
  BY <1>1, Zenon DEF IInv, TypeOK
<1>3. Reach'
  BY <1>1 DEF Reach
<1>4. RingExact'
  BY <1>1 DEF IInv, RingExact, Positions, Slot
<1>5. WrapKnown'
  BY <1>1 DEF IInv, WrapKnown
<1>6. BlobExact'
  BY <1>1 DEF IInv, BlobExact, Positions, Slot
<1> QED
  BY <1>2, <1>3, <1>4, <1>5, <1>6 DEF IInv

(* Both resets empty the session, whatever they leave in the stores. *)
LEMMA ResetKeeps ==
    ASSUME IInv, Reset \/ ResetCold
    PROVE  IInv'
<1> USE SessionShape, Bounds
<1>1. dpos' = 0 /\ commit_pos' = 0 /\ ring_wrapped' = FALSE /\ high' = 0 /\ blob' = blob
  BY DEF Reset, ResetCold
<1>2. /\ full' \in [Positions -> Row] /\ ring' \in [Slots -> Row]
      /\ jrn' \in [0..(Jmax - 1) -> Row]
  <2>1. CASE Reset
    BY <2>1 DEF Reset, IInv, TypeOK
  <2>2. CASE ResetCold
    BY <2>2 DEF ResetCold
  <2> QED
    BY <2>1, <2>2
<1>3. TypeOK'
  <2>1. 0 \in 0..Pmax
    OBVIOUS
  <2> QED
    BY <1>1, <1>2, <2>1, Zenon DEF IInv, TypeOK
<1>4. Reach'
  BY <1>1 DEF Reach
<1>5. RingExact'
  BY <1>1 DEF RingExact, Positions
<1>6. WrapKnown'
  BY <1>1 DEF WrapKnown
<1>7. BlobExact'
  BY <1>1 DEF IInv, BlobExact, Positions, Slot
<1> QED
  BY <1>3, <1>4, <1>5, <1>6, <1>7 DEF IInv

(* The shear copies nothing; that is right because its guard implies that  *)
(* no slot was ever reused.                                                *)
LEMMA ShearKeeps ==
    ASSUME IInv, NEW P \in 0..Pmax, Shear(P)
    PROVE  IInv'
<1> USE SessionShape, Bounds
<1>1. /\ ShearArmed /\ P <= dpos /\ ~ring_wrapped /\ dpos <= RingW
      /\ dpos' = P /\ commit_pos' = P /\ ring_wrapped' = ring_wrapped
      /\ full' = full /\ ring' = ring /\ jrn' = jrn /\ blob' = blob /\ high' = high
  BY DEF Shear
<1>2. high <= RingW
  BY <1>1 DEF IInv, WrapKnown
<1>3. TypeOK'
  BY <1>1, Zenon DEF IInv, TypeOK
<1>4. Reach'
  BY <1>1, <1>2 DEF Reach
<1>5. RingExact'
  BY <1>1 DEF IInv, RingExact, Positions, Slot
<1>6. WrapKnown'
  BY <1>1, <1>2 DEF WrapKnown
<1>7. BlobExact'
  BY <1>1 DEF IInv, BlobExact, Positions, Slot
<1> QED
  BY <1>3, <1>4, <1>5, <1>6, <1>7 DEF IInv

LEMMA SnapshotKeeps ==
    ASSUME IInv, SnapshotPrefix
    PROVE  IInv'
<1> USE SessionShape, Bounds
<1>1. /\ high = dpos /\ dpos' = dpos /\ commit_pos' = commit_pos
      /\ ring_wrapped' = ring_wrapped /\ full' = full /\ ring' = ring
      /\ jrn' = jrn /\ high' = high
  BY DEF SnapshotPrefix
<1>2. blob' = [P    |-> dpos,
               full |-> [p \in Positions |-> IF p < dpos THEN full[p] ELSE ZeroRow],
               ring |-> ring]
  BY DEF SnapshotPrefix
<1>3. full \in [Positions -> Row] /\ ring \in [Slots -> Row]
  BY DEF IInv, TypeOK
<1>4. blob' \in Blob
  BY <1>2, <1>3 DEF Blob
<1>5. TypeOK'
  BY <1>1, <1>4, Zenon DEF IInv, TypeOK
<1>6. Reach'
  BY <1>1 DEF Reach
<1>7. RingExact'
  BY <1>1 DEF IInv, RingExact, Positions, Slot
<1>8. WrapKnown'
  BY <1>1 DEF IInv, WrapKnown
<1>9. BlobExact'
  <2> SUFFICES ASSUME NEW q \in Positions, q < blob'.P, q + RingW >= blob'.P
               PROVE  blob'.ring[Slot(q)] = blob'.full[q]
    BY DEF BlobExact, Positions, Slot
  <2>1. blob'.P = dpos /\ blob'.ring = ring /\ blob'.full[q] = full[q]
    BY <1>2
  <2>2. ring[Slot(q)] = full[q]
    BY <1>1, <2>1 DEF IInv, RingExact
  <2> QED
    BY <2>1, <2>2
<1> QED
  BY <1>5, <1>6, <1>7, <1>8, <1>9 DEF IInv

LEMMA RestoreKeeps ==
    ASSUME IInv, RestorePrefix
    PROVE  IInv'
<1> USE SessionShape, Bounds
<1>1. /\ blob.P > 0 /\ ring' = blob.ring
      /\ dpos' = blob.P /\ commit_pos' = blob.P /\ high' = blob.P
      /\ ring_wrapped' = ring_wrapped /\ jrn' = jrn /\ blob' = blob
      /\ full' = [p \in Positions |-> IF p < blob.P THEN blob.full[p] ELSE full[p]]
  BY DEF RestorePrefix
<1>2. /\ blob.P \in 0..Pmax /\ blob.full \in [Positions -> Row]
      /\ blob.ring \in [Slots -> Row] /\ full \in [Positions -> Row]
  BY DEF IInv, TypeOK, Blob
<1>3. TypeOK'
  <2>1. full' \in [Positions -> Row] /\ ring' \in [Slots -> Row]
    BY <1>1, <1>2
  <2> QED
    BY <1>1, <1>2, <2>1, Zenon DEF IInv, TypeOK
<1>4. Reach'
  BY <1>1, <1>2 DEF Reach
<1>5. RingExact'
  <2> SUFFICES ASSUME NEW q \in Positions, q < blob.P, q + RingW >= blob.P
               PROVE  ring'[Slot(q)] = full'[q]
    BY <1>1 DEF RingExact, Positions, Slot
  <2>1. blob.ring[Slot(q)] = blob.full[q]
    BY DEF IInv, BlobExact
  <2> QED
    BY <1>1, <2>1
<1>6. WrapKnown'
  BY <1>1, <1>2 DEF WrapKnown
<1>7. BlobExact'
  BY <1>1 DEF IInv, BlobExact, Positions, Slot
<1> QED
  BY <1>3, <1>4, <1>5, <1>6, <1>7 DEF IInv

LEMMA NextKeeps ==
    ASSUME IInv, WideRing, [Next]_vars
    PROVE  IInv'
<1>1. ASSUME NEW r \in Row, Step(r) PROVE IInv'
  BY <1>1, StepKeeps
<1>2. ASSUME NEW r \in Row, Peek(r) PROVE IInv'
  BY <1>2, PeekKeeps
<1>3. ASSUME NEW n \in 1..Jmax, NEW ep \in [0..(n - 1) -> Row], Replay(n, ep) PROVE IInv'
  BY <1>3, ReplayKeeps
<1>4. ASSUME NEW p \in Positions, Ablate(p) PROVE IInv'
  BY <1>4, AblateKeeps
<1>5. ASSUME NEW d \in 0..dpos, Rewind(d) PROVE IInv'
  BY <1>5, RewindKeeps
<1>6. ASSUME Commit PROVE IInv'
  BY <1>6, CommitKeeps
<1>7. ASSUME Reset \/ ResetCold PROVE IInv'
  BY <1>7, ResetKeeps
<1>8. ASSUME NEW P \in 0..Pmax, Shear(P) PROVE IInv'
  BY <1>8, ShearKeeps
<1>9. ASSUME SnapshotPrefix PROVE IInv'
  BY <1>9, SnapshotKeeps
<1>10. ASSUME RestorePrefix PROVE IInv'
  BY <1>10, RestoreKeeps
<1>11. CASE UNCHANGED vars
  BY <1>11 DEF vars, IInv, TypeOK, Reach, RingExact, WrapKnown, BlobExact, Positions, Slots, Slot, Blob
<1> QED
  BY <1>1, <1>2, <1>3, <1>4, <1>5, <1>6, <1>7, <1>8, <1>9, <1>10, <1>11 DEF Next

(* The ring is right for everything a window can reach, because a rewind   *)
(* goes back at most Jmax positions and the ring has that much slack.      *)
LEMMA IInvWindow ==
    ASSUME IInv, WideRing
    PROVE  WindowExact
<1> SUFFICES ASSUME NEW q \in Positions, q < dpos, q + Window > dpos
             PROVE  ring[Slot(q)] = full[q]
  BY DEF WindowExact
<1>1. q \in Nat
  BY SessionShape DEF Positions
<1>2. q + RingW >= high
  BY <1>1, Bounds DEF WideRing
<1> QED
  BY <1>2 DEF IInv, RingExact

(* The session's type invariant and the facts behind it hold in every      *)
(* reachable state, for every size of ring, window, journal and cache.     *)
THEOREM SessionInvariant == ASSUME WideRing PROVE Spec => []IInv
<1>1. Init => IInv
  BY InitIInv
<1>2. IInv /\ [Next]_vars => IInv'
  BY NextKeeps
<1> QED
  BY <1>1, <1>2, PTL DEF Spec

(* gemma4_kv_rewind, _shear, _replay and _restore_prefix never leave a row *)
(* of another position, or of an undone token, where a sliding-window      *)
(* layer will read it.                                                     *)
THEOREM SessionWindowExact == ASSUME WideRing PROVE Spec => []WindowExact
<1>1. IInv => WindowExact
  BY IInvWindow
<1> QED
  BY <1>1, SessionInvariant, PTL

-----------------------------------------------------------------------------
(* The session implements KVCache.  Under the invariant what attention     *)
(* reads is the full cache, position by position, so every verb is shown   *)
(* to be a step of the plain sequence of rows.                             *)

Rows == [i \in 1..dpos |-> full[i - 1]]

LEMMA AttendedIsRows ==
    ASSUME IInv, WideRing
    PROVE  Attended = Rows
<1>1. \A i \in 1..dpos : i - 1 \in Positions /\ i - 1 < dpos
  BY Bounds DEF Positions
<1>2. ASSUME NEW i \in 1..dpos, i + Window > dpos + 1
      PROVE  ring[Slot(i - 1)] = full[i - 1]
  BY <1>1, <1>2, Bounds, IInvWindow DEF WindowExact
<1> QED
  BY <1>2 DEF Attended, Rows

(* A function on 1..n is a sequence of length n. *)
LEMMA FunctionIsSeq ==
    ASSUME NEW S, NEW n \in Nat, NEW f \in [1..n -> S]
    PROVE  f \in Seq(S) /\ Len(f) = n /\ DOMAIN f = 1..n
  OBVIOUS

(* The rows as a sequence. *)
LEMMA RowsSeq ==
    ASSUME IInv
    PROVE  /\ Rows \in Seq(Row) /\ Len(Rows) = dpos
           /\ \A i \in 1..dpos : Rows[i] = full[i - 1]
           /\ SavedRows \in Seq(Row) /\ Len(SavedRows) = blob.P
           /\ \A i \in 1..blob.P : SavedRows[i] = blob.full[i - 1]
           /\ blob.P \in 0..Pmax
<1>1. blob.P \in 0..Pmax /\ blob.full \in [Positions -> Row] /\ full \in [Positions -> Row]
  BY DEF IInv, TypeOK, Blob
<1>2. \A i \in 1..dpos : full[i - 1] \in Row
  BY <1>1, Bounds DEF Positions
<1>3. \A i \in 1..blob.P : blob.full[i - 1] \in Row
  BY <1>1, Bounds DEF Positions
<1>4. Rows \in [1..dpos -> Row] /\ dpos \in Nat
  BY <1>2, Bounds DEF Rows
<1>5. SavedRows \in [1..blob.P -> Row] /\ blob.P \in Nat
  BY <1>1, <1>3 DEF SavedRows
<1>6. Rows \in Seq(Row) /\ Len(Rows) = dpos
  BY <1>4, FunctionIsSeq
<1>7. SavedRows \in Seq(Row) /\ Len(SavedRows) = blob.P
  BY <1>5, FunctionIsSeq
<1>8. \A i \in 1..dpos : Rows[i] = full[i - 1]
  BY DEF Rows
<1>9. \A i \in 1..blob.P : SavedRows[i] = blob.full[i - 1]
  BY DEF SavedRows
<1> QED
  BY <1>1, <1>6, <1>7, <1>8, <1>9

LEMMA MapNow == IInv /\ WideRing =>
    /\ Attended = Rows
    /\ Rows \in Seq(Row) /\ Len(Rows) = dpos
    /\ \A i \in 1..dpos : Rows[i] = full[i - 1]
    /\ SavedRows \in Seq(Row) /\ Len(SavedRows) = blob.P
    /\ \A i \in 1..blob.P : SavedRows[i] = blob.full[i - 1]
  BY AttendedIsRows, RowsSeq

(* The same of the state after a step. *)
LEMMA MapNext == IInv' /\ WideRing =>
    /\ Attended' = Rows'
    /\ Rows' \in Seq(Row) /\ Len(Rows') = dpos'
    /\ \A i \in 1..dpos' : Rows'[i] = full'[i - 1]
    /\ SavedRows' \in Seq(Row) /\ Len(SavedRows') = blob'.P
    /\ \A i \in 1..blob'.P : SavedRows'[i] = blob'.full[i - 1]
<1>1. (IInv /\ WideRing)' =>
        (/\ Attended = Rows
         /\ Rows \in Seq(Row) /\ Len(Rows) = dpos
         /\ \A i \in 1..dpos : Rows[i] = full[i - 1]
         /\ SavedRows \in Seq(Row) /\ Len(SavedRows) = blob.P
         /\ \A i \in 1..blob.P : SavedRows[i] = blob.full[i - 1])'
  BY MapNow, PTL
<1> QED
  BY <1>1 DEF WideRing

(* The first n elements, when two sequences agree on them. *)
LEMMA SamePrefix ==
    ASSUME NEW S, NEW a \in Seq(S), NEW b \in Seq(S), NEW n \in 0..Len(a),
           Len(b) = n, \A i \in 1..n : b[i] = a[i]
    PROVE  SubSeq(a, 1, n) = b
<1>1. SubSeq(a, 1, n) = [i \in 1..n |-> a[i]]
  OBVIOUS
<1>2. b = [i \in 1..n |-> b[i]]
  OBVIOUS
<1> QED
  BY <1>1, <1>2

(* Rows are minted after the last one. *)
LEMMA Extends ==
    ASSUME IInv, IInv', WideRing, NEW n \in 1..Jmax, dpos' = dpos + n,
           \A p \in Positions : p < dpos => full'[p] = full[p],
           commit_pos <= commit_pos', UNCHANGED blob
    PROVE  Cache!Extend
<1>1. dpos' \in 0..Pmax /\ commit_pos' \in 0..Pmax /\ commit_pos' <= dpos' /\ dpos' - commit_pos' <= Jmax
  BY DEF IInv, TypeOK, Reach
<1>2. dpos \in 0..Pmax /\ n \in Nat \ {0} /\ dpos < dpos' /\ dpos \in 0..dpos'
  BY <1>1, Bounds
<1>3. /\ Attended = Rows /\ Rows \in Seq(Row) /\ Len(Rows) = dpos
      /\ Attended' = Rows' /\ Rows' \in Seq(Row) /\ Len(Rows') = dpos'
  BY MapNow, MapNext
<1>4. \A i \in 1..dpos : i - 1 \in Positions /\ i - 1 < dpos /\ i \in 1..dpos'
  BY <1>1, <1>2, SessionShape DEF Positions
<1>5. \A i \in 1..dpos : Rows'[i] = Rows[i]
  BY <1>4, MapNow, MapNext
<1>6. SubSeq(Rows', 1, dpos) = Rows
  BY <1>2, <1>3, <1>5, SamePrefix
<1>7. \A i \in (dpos + 1)..dpos' : Rows'[i] \in Row
  BY <1>1, <1>2, <1>3
<1>8. SavedRows' = SavedRows
  BY DEF SavedRows
<1> QED
  BY <1>1, <1>2, <1>3, <1>6, <1>7, <1>8 DEF Cache!Extend

(* gemma4_kv_prefill, gemma4_kv_decode_logits, gemma4_kv_replay *)
LEMMA StepExtends ==
    ASSUME IInv, IInv', WideRing, NEW r \in Row, Step(r)
    PROVE  Cache!Extend
<1>1. dpos < Pmax /\ dpos' = dpos + 1 /\ commit_pos' = Slide /\ UNCHANGED blob
  BY DEF Step
<1>2. commit_pos <= commit_pos'
  BY <1>1, SlideBounds, Bounds
<1>3. \A p \in Positions : p < dpos => full'[p] = full[p]
  BY Bounds DEF Step, MintRow, IInv, TypeOK, Positions
<1>4. 1 \in 1..Jmax
  BY SessionShape
<1> QED
  BY <1>1, <1>2, <1>3, <1>4, Extends

LEMMA ReplayExtends ==
    ASSUME IInv, IInv', WideRing,
           NEW n \in 1..Jmax, NEW ep \in [0..(n - 1) -> Row], Replay(n, ep)
    PROVE  Cache!Extend
<1>1. dpos' = dpos + n /\ commit_pos' = commit_pos /\ UNCHANGED blob
  BY DEF Replay
<1>2. \A p \in Positions : p < dpos => full'[p] = full[p]
  BY Bounds DEF Replay, Positions
<1>3. commit_pos <= commit_pos'
  BY <1>1, Bounds
<1> QED
  BY <1>1, <1>2, <1>3, Extends

(* gemma4_kv_read_global_q leaves its row past the end: nothing changes. *)
LEMMA PeekStutters ==
    ASSUME IInv, IInv', WideRing, NEW r \in Row, Peek(r)
    PROVE  UNCHANGED Cache!cvars
<1>1. dpos' = dpos /\ commit_pos' = commit_pos /\ blob' = blob
  BY DEF Peek
<1>2. \A p \in Positions : p < dpos => full'[p] = full[p]
  BY Bounds DEF Peek, MintRow, IInv, TypeOK, Positions
<1>3. \A i \in 1..dpos : i - 1 \in Positions /\ i - 1 < dpos
  BY Bounds DEF Positions
<1>4. Rows' = Rows
  BY <1>1, <1>2, <1>3 DEF Rows
<1>5. SavedRows' = SavedRows
  BY <1>1 DEF SavedRows
<1> QED
  BY <1>1, <1>4, <1>5, MapNow, MapNext DEF Cache!cvars

(* gemma4_kv_ablate_rows *)
LEMMA AblateKnocksOut ==
    ASSUME IInv, IInv', WideRing, NEW p \in Positions, Ablate(p)
    PROVE  \E i \in 1..Len(Attended) : Cache!KnockOut(i)
<1>1. /\ dpos' = dpos /\ commit_pos' = commit_pos /\ blob' = blob
      /\ p \in 0..(dpos - 1) /\ commit_pos <= p
      /\ full' = [full EXCEPT ![p] = ZeroRow]
  BY Bounds DEF Ablate, Positions
<1>2. p + 1 \in 1..dpos /\ p + 1 > commit_pos
  BY <1>1, Bounds
<1>3. \A i \in 1..dpos : i - 1 \in Positions /\ (i - 1 = p <=> i = p + 1)
  BY <1>1, Bounds DEF Positions
<1>4. Rows' = [Rows EXCEPT ![p + 1] = ZeroRow]
  <2>1. DOMAIN full = Positions
    BY DEF IInv, TypeOK
  <2>2. \A i \in 1..dpos : full'[i - 1] = IF i = p + 1 THEN ZeroRow ELSE full[i - 1]
    BY <1>1, <1>3, <2>1
  <2> QED
    BY <1>1, <1>2, <2>2 DEF Rows
<1>5. SavedRows' = SavedRows
  BY <1>1 DEF SavedRows
<1>6. Cache!KnockOut(p + 1)
  BY <1>1, <1>2, <1>4, <1>5, MapNow, MapNext DEF Cache!KnockOut
<1> QED
  BY <1>2, <1>6, MapNow

(* The position goes back to P and the rows below it stay. *)
LEMMA Shortens ==
    ASSUME IInv, IInv', WideRing, NEW P \in 0..dpos, dpos' = P,
           \A p \in Positions : p < P => full'[p] = full[p], UNCHANGED blob
    PROVE  /\ Attended' = SubSeq(Attended, 1, P)
           /\ Len(Attended) = dpos
           /\ SavedRows' = SavedRows
<1>1. \A i \in 1..P : i - 1 \in Positions /\ i - 1 < P /\ i \in 1..dpos /\ i \in 1..dpos'
  BY Bounds DEF Positions
<1>2. \A i \in 1..P : Rows'[i] = Rows[i]
  BY <1>1, MapNow, MapNext
<1>3. Rows \in Seq(Row) /\ Rows' \in Seq(Row) /\ Len(Rows) = dpos /\ Len(Rows') = P
  BY MapNow, MapNext
<1>4. Rows' = SubSeq(Rows, 1, P)
  BY <1>2, <1>3, SamePrefix
<1>5. SavedRows' = SavedRows
  BY DEF SavedRows
<1> QED
  BY <1>3, <1>4, <1>5, MapNow, MapNext

(* gemma4_kv_rewind *)
LEMMA RewindTakesBack ==
    ASSUME IInv, IInv', WideRing, NEW d \in 0..dpos, Rewind(d)
    PROVE  \E e \in 0..Len(Attended) : Cache!TakeBack(e)
<1>1. d <= dpos - commit_pos /\ dpos' = dpos - d /\ full' = full /\ UNCHANGED <<commit_pos, blob>>
  BY DEF Rewind
<1>2. dpos - d \in 0..dpos
  BY Bounds
<1>3. /\ Attended' = SubSeq(Attended, 1, dpos - d)
      /\ Len(Attended) = dpos
      /\ SavedRows' = SavedRows
  BY <1>1, <1>2, Shortens
<1>4. Cache!TakeBack(d)
  BY <1>1, <1>3 DEF Cache!TakeBack
<1> QED
  BY <1>3, <1>4

(* gemma4_kv_reset, gemma4_kv_reset_cold, gemma4_kv_shear *)
LEMMA CutsTo ==
    ASSUME IInv, IInv', WideRing, NEW P \in 0..dpos, dpos' = P, commit_pos' = P,
           \A p \in Positions : p < P => full'[p] = full[p], UNCHANGED blob
    PROVE  \E Q \in 0..Len(Attended) : Cache!CutTo(Q)
<1>1. /\ Attended' = SubSeq(Attended, 1, P)
      /\ Len(Attended) = dpos
      /\ SavedRows' = SavedRows
  BY Shortens
<1>2. P <= dpos
  BY Bounds
<1>3. Cache!CutTo(P)
  BY <1>1, <1>2 DEF Cache!CutTo
<1> QED
  BY <1>1, <1>3

(* gemma4_kv_commit *)
LEMMA CommitKeepsRows ==
    ASSUME IInv, IInv', WideRing, Commit
    PROVE  Cache!Keep
<1>1. commit_pos' = dpos /\ dpos' = dpos /\ full' = full /\ blob' = blob
  BY DEF Commit
<1>2. Rows' = Rows /\ SavedRows' = SavedRows
  BY <1>1 DEF Rows, SavedRows
<1> QED
  BY <1>1, <1>2, MapNow, MapNext DEF Cache!Keep

(* gemma4_kv_snapshot_prefix *)
LEMMA SnapshotSaves ==
    ASSUME IInv, IInv', WideRing, SnapshotPrefix
    PROVE  Cache!Save
<1>1. /\ dpos' = dpos /\ commit_pos' = commit_pos /\ full' = full
      /\ blob'.P = dpos
      /\ blob'.full = [p \in Positions |-> IF p < dpos THEN full[p] ELSE ZeroRow]
  BY DEF SnapshotPrefix
<1>2. SavedRows' = Rows
  BY <1>1, Bounds DEF SavedRows, Rows, Positions
<1>3. Rows' = Rows
  BY <1>1 DEF Rows
<1> QED
  BY <1>1, <1>2, <1>3, MapNow, MapNext DEF Cache!Save

(* gemma4_kv_restore_prefix *)
LEMMA RestoreLoads ==
    ASSUME IInv, IInv', WideRing, RestorePrefix
    PROVE  Cache!Load
<1>1. /\ blob.P > 0 /\ blob' = blob /\ dpos' = blob.P /\ commit_pos' = blob.P
      /\ full' = [p \in Positions |-> IF p < blob.P THEN blob.full[p] ELSE full[p]]
  BY DEF RestorePrefix
<1>2. Rows' = SavedRows
  BY <1>1, RowsSeq, SessionShape DEF SavedRows, Rows, Positions
<1>3. SavedRows' = SavedRows
  BY <1>1 DEF SavedRows
<1>4. Len(SavedRows) = blob.P /\ SavedRows # << >>
  BY <1>1, MapNow, RowsSeq
<1> QED
  BY <1>1, <1>2, <1>3, <1>4, MapNext DEF Cache!Load

(* Every verb is a step of the abstract session, or none of its concern. *)
LEMMA StepSimulates ==
    ASSUME IInv, IInv', WideRing, [Next]_vars
    PROVE  [Cache!CNext]_(Cache!cvars)
<1> USE DEF Cache!CNext
<1>1. ASSUME NEW r \in Row, Step(r) PROVE Cache!CNext
  BY <1>1, StepExtends
<1>2. ASSUME NEW r \in Row, Peek(r) PROVE UNCHANGED Cache!cvars
  BY <1>2, PeekStutters
<1>3. ASSUME NEW n \in 1..Jmax, NEW ep \in [0..(n - 1) -> Row], Replay(n, ep) PROVE Cache!CNext
  BY <1>3, ReplayExtends
<1>4. ASSUME NEW p \in Positions, Ablate(p) PROVE Cache!CNext
  BY <1>4, AblateKnocksOut
<1>5. ASSUME NEW d \in 0..dpos, Rewind(d) PROVE Cache!CNext
  BY <1>5, RewindTakesBack
<1>6. ASSUME Commit PROVE Cache!CNext
  BY <1>6, CommitKeepsRows
<1>7. ASSUME Reset \/ ResetCold PROVE Cache!CNext
  <2>1. dpos' = 0 /\ commit_pos' = 0 /\ UNCHANGED blob
    BY <1>7 DEF Reset, ResetCold
  <2>2. 0 \in 0..dpos /\ \A p \in Positions : p < 0 => full'[p] = full[p]
    BY Bounds DEF Positions
  <2> QED
    BY <2>1, <2>2, CutsTo
<1>8. ASSUME NEW P \in 0..Pmax, Shear(P) PROVE Cache!CNext
  <2>1. P \in 0..dpos /\ dpos' = P /\ commit_pos' = P /\ full' = full /\ UNCHANGED blob
    BY <1>8, Bounds DEF Shear
  <2> QED
    BY <2>1, CutsTo
<1>9. ASSUME SnapshotPrefix PROVE Cache!CNext
  BY <1>9, SnapshotSaves
<1>10. ASSUME RestorePrefix PROVE Cache!CNext
  BY <1>10, RestoreLoads
<1>11. CASE UNCHANGED vars
  BY <1>11 DEF vars, Cache!cvars, Attended, SavedRows
<1> QED
  BY <1>1, <1>2, <1>3, <1>4, <1>5, <1>6, <1>7, <1>8, <1>9, <1>10, <1>11 DEF Next

(* The ring, the journal and the counters are invisible: whatever sequence *)
(* of prefills, decodes, replays, rewinds, commits, resets, shears,        *)
(* snapshots and restores its callers make, the session is a sequence of   *)
(* rows that grows at its end, that a rewind shortens as if the tail had   *)
(* never been, and that a restore makes what was saved.                    *)
THEOREM SessionImplementsCache == ASSUME WideRing PROVE Spec => RefinesCache
<1>1. Init => Cache!CInit
  BY SessionShape DEF Init, Cache!CInit, Attended, SavedRows, NoBlob
<1>2. IInv /\ IInv' /\ [Next]_vars => [Cache!CNext]_(Cache!cvars)
  BY StepSimulates
<1> QED
  BY <1>1, <1>2, SessionInvariant, PTL DEF Spec, RefinesCache, Cache!CSpec
=============================================================================
