----------------------------- MODULE KVSession -----------------------------
(***************************************************************************)
(* The resident KV session of engine/src/backends/cuda/cuda_forward.cu     *)
(* (struct sp_g4_kv and the gemma4_kv_* verbs), in SWA-ring mode.          *)
(*                                                                         *)
(* The session stores every position's K/V row twice over: the global      *)
(* owners keep a full cache (slot = position), the sliding-window owners   *)
(* keep a ring of RingW slots (slot = position % RingW).  Before a ring    *)
(* slot is overwritten its row goes to an undo-journal of Jmax entries,    *)
(* indexed by the distance from commit_pos, and gemma4_kv_rewind copies    *)
(* the entries back.  The session lives under one Mutex, so a verb is one  *)
(* step; a multi-token prefill is a run of Step actions because it may     *)
(* fail between two tokens.                                                *)
(*                                                                         *)
(* A row is an opaque value of Row: verbs only copy rows, and a forward    *)
(* pass may mint any row.  Two rows are enough to see a slot that holds    *)
(* the wrong one.                                                          *)
(***************************************************************************)
EXTENDS Integers, Sequences

CONSTANTS
    Row,         \* K/V rows
    ZeroRow,     \* the row of a zeroed slot
    Pmax,        \* positions the full cache holds
    RingW,       \* ring_W, slots of a sliding-window owner
    Window,      \* SW, positions a sliding-window layer attends
    Jmax,        \* entries of the undo-journal
    PeekArmed,   \* does the recall stage call gemma4_kv_read_global_q?
    ShearArmed,  \* is gemma4_kv_shear reachable? (no profile arms it now)
    SnapArmed    \* SP_PREFIX_SNAPSHOT: are the snapshot verbs called?

(* gemma4_kv_open: a ring wider than Pmax is switched off, Jmax >= 1.  The *)
(* attention kernel requires the window to fit in the ring, and the        *)
(* journal is far shallower than the ring in every profile.                *)
ASSUME SessionShape ==
    /\ ZeroRow \in Row
    /\ RingW \in Nat \ {0} /\ Window \in Nat \ {0} /\ Jmax \in Nat \ {0}
    /\ Pmax \in Nat
    /\ RingW <= Pmax /\ Window <= RingW /\ Jmax <= RingW
    /\ PeekArmed \in BOOLEAN /\ ShearArmed \in BOOLEAN /\ SnapArmed \in BOOLEAN

VARIABLES
    dpos,          \* dpos_host: positions filled
    commit_pos,    \* the position a rewind cannot pass
    ring_wrapped,  \* the high-water flag the shear tests
    full,          \* the full cache of the global owners
    ring,          \* the ring of the sliding-window owners
    jrn,           \* the undo-journal
    blob,          \* the host copy made by the snapshot verb; P = 0: none
    high           \* history: one past the highest position written since
                   \* the ring was last rebuilt; no verb reads it

vars == <<dpos, commit_pos, ring_wrapped, full, ring, jrn, blob, high>>

Slot(p) == p % RingW
Positions == 0..(Pmax - 1)
Slots == 0..(RingW - 1)

Blob == [P : 0..Pmax, full : [Positions -> Row], ring : [Slots -> Row]]
NoBlob == [P    |-> 0,
           full |-> [p \in Positions |-> ZeroRow],
           ring |-> [s \in Slots |-> ZeroRow]]

TypeOK ==
    /\ dpos \in 0..Pmax
    /\ commit_pos \in 0..Pmax
    /\ ring_wrapped \in BOOLEAN
    /\ full \in [Positions -> Row]
    /\ ring \in [Slots -> Row]
    /\ jrn \in [0..(Jmax - 1) -> Row]
    /\ blob \in Blob
    /\ high \in 0..Pmax

(* gemma4_kv_open: counters at zero, device buffers as they were allocated *)
Init ==
    /\ dpos = 0 /\ commit_pos = 0 /\ ring_wrapped = FALSE /\ high = 0
    /\ full \in [Positions -> Row]
    /\ ring \in [Slots -> Row]
    /\ jrn \in [0..(Jmax - 1) -> Row]
    /\ blob = NoBlob

-----------------------------------------------------------------------------
(* The verbs. *)

(* Faulty: the slide starts one step late. *)
SlideLate ==
    IF dpos - commit_pos > Jmax THEN dpos - (Jmax - 1) ELSE commit_pos

(* g4_kv_step, before the layer loop: when the journal would overflow,     *)
(* commit_pos moves so that this step uses the last entry.                 *)
Slide ==
    IF dpos - commit_pos >= Jmax THEN dpos - (Jmax - 1) ELSE commit_pos

(* Faulty: the row goes to the slot of the next position. *)
MintRowAhead(r, c) ==
    /\ jrn' = [jrn EXCEPT ![dpos - c] = ring[Slot(dpos + 1)]]
    /\ ring' = [ring EXCEPT ![Slot(dpos + 1)] = r]
    /\ full' = [full EXCEPT ![dpos] = r]

(* g4_kv_step, each owner layer: journal the slot, then overwrite it. *)
MintRow(r, c) ==
    /\ jrn' = [jrn EXCEPT ![dpos - c] = ring[Slot(dpos)]]
    /\ ring' = [ring EXCEPT ![Slot(dpos)] = r]
    /\ full' = [full EXCEPT ![dpos] = r]

(* gemma4_kv_prefill (one token of it) and gemma4_kv_decode_logits. *)
Step(r) ==
    /\ dpos < Pmax
    /\ commit_pos' = Slide
    /\ MintRow(r, Slide)
    /\ dpos' = dpos + 1
    /\ ring_wrapped' = (ring_wrapped \/ dpos + 1 > RingW)
    /\ high' = IF dpos + 1 > high THEN dpos + 1 ELSE high
    /\ UNCHANGED blob

(* gemma4_kv_read_global_q: a step whose position and journal counters are *)
(* put back, so the row it wrote is left one past the end.                 *)
Peek(r) ==
    /\ PeekArmed
    /\ dpos + 1 < Pmax
    /\ MintRow(r, Slide)
    /\ high' = IF dpos + 1 > high THEN dpos + 1 ELSE high
    /\ UNCHANGED <<dpos, commit_pos, ring_wrapped, blob>>

(* gemma4_kv_replay: an episode's n rows go in at once, journalled as in a *)
(* step but with no slide: the journal must have room for all of them.     *)
Replay(n, ep) ==
    /\ dpos + n <= Pmax
    /\ (dpos - commit_pos) + n <= Jmax
    /\ jrn' = [j \in 0..(Jmax - 1) |->
                 IF commit_pos + j \in dpos..(dpos + n - 1)
                 THEN ring[Slot(commit_pos + j)] ELSE jrn[j]]
    /\ ring' = [s \in Slots |->
                  IF \E i \in 0..(n - 1) : Slot(dpos + i) = s
                  THEN ep[CHOOSE i \in 0..(n - 1) : Slot(dpos + i) = s] ELSE ring[s]]
    /\ full' = [p \in Positions |->
                  IF p \in dpos..(dpos + n - 1) THEN ep[p - dpos] ELSE full[p]]
    /\ dpos' = dpos + n
    /\ ring_wrapped' = (ring_wrapped \/ dpos + n > RingW)
    /\ high' = IF dpos + n > high THEN dpos + n ELSE high
    /\ UNCHANGED <<commit_pos, blob>>

(* gemma4_kv_ablate_rows: an injected position is zeroed in both stores. *)
Ablate(p) ==
    /\ commit_pos <= p /\ p < dpos
    /\ full' = [full EXCEPT ![p] = ZeroRow]
    /\ ring' = [ring EXCEPT ![Slot(p)] = ZeroRow]
    /\ UNCHANGED <<dpos, commit_pos, ring_wrapped, jrn, blob, high>>

(* gemma4_kv_rewind: the last d positions give their slots back, from the  *)
(* highest position down, so the lowest position that used a slot has the  *)
(* last word.                                                              *)
Undone(d, s) == {p \in (dpos - d)..(dpos - 1) : Slot(p) = s}

Rewind(d) ==
    /\ d <= dpos - commit_pos
    /\ ring' = [s \in Slots |->
                  IF Undone(d, s) = {} THEN ring[s]
                  ELSE jrn[(CHOOSE p \in Undone(d, s) :
                              \A q \in Undone(d, s) : p <= q) - commit_pos]]
    /\ dpos' = dpos - d
    /\ UNCHANGED <<commit_pos, ring_wrapped, full, jrn, blob, high>>

(* gemma4_kv_commit *)
Commit ==
    /\ commit_pos' = dpos
    /\ UNCHANGED <<dpos, ring_wrapped, full, ring, jrn, blob, high>>

(* gemma4_kv_reset: only the counters go back. *)
Reset ==
    /\ dpos' = 0 /\ commit_pos' = 0 /\ ring_wrapped' = FALSE /\ high' = 0
    /\ UNCHANGED <<full, ring, jrn, blob>>

(* gemma4_kv_reset_cold: the stores and the journal are zeroed as well. *)
ResetCold ==
    /\ dpos' = 0 /\ commit_pos' = 0 /\ ring_wrapped' = FALSE /\ high' = 0
    /\ full' = [p \in Positions |-> ZeroRow]
    /\ ring' = [s \in Slots |-> ZeroRow]
    /\ jrn' = [j \in 0..(Jmax - 1) |-> ZeroRow]
    /\ UNCHANGED blob

(* Faulty: the shear tests the position and not the high-water flag. *)
ShearByPosition(P) ==
    /\ ShearArmed
    /\ P <= dpos
    /\ dpos <= RingW
    /\ dpos' = P /\ commit_pos' = P
    /\ UNCHANGED <<ring_wrapped, full, ring, jrn, blob, high>>

(* gemma4_kv_shear: the position goes back to P without copying anything. *)
Shear(P) ==
    /\ ShearArmed
    /\ P <= dpos
    /\ ~ring_wrapped /\ dpos <= RingW
    /\ dpos' = P /\ commit_pos' = P
    /\ UNCHANGED <<ring_wrapped, full, ring, jrn, blob, high>>

(* gemma4_kv_snapshot_prefix with P = dpos: rows [0, P) of the full cache  *)
(* and the whole ring.  Its one caller (routes.rs, the slow path of the    *)
(* prefix snapshot) has just reset the session and prefilled P tokens.     *)
SnapshotPrefix ==
    /\ SnapArmed
    /\ dpos > 0
    /\ high = dpos
    /\ blob' = [P    |-> dpos,
                full |-> [p \in Positions |-> IF p < dpos THEN full[p] ELSE ZeroRow],
                ring |-> ring]
    /\ UNCHANGED <<dpos, commit_pos, ring_wrapped, full, ring, jrn, high>>

(* Faulty: commit_pos keeps its old value. *)
RestoreKeepsCommit ==
    /\ blob.P > 0
    /\ full' = [p \in Positions |-> IF p < blob.P THEN blob.full[p] ELSE full[p]]
    /\ ring' = blob.ring
    /\ dpos' = blob.P /\ high' = blob.P
    /\ UNCHANGED <<commit_pos, ring_wrapped, jrn, blob>>

(* gemma4_kv_restore_prefix: the stores and the counters; not the journal, *)
(* not the high-water flag.                                                *)
RestorePrefix ==
    /\ blob.P > 0
    /\ full' = [p \in Positions |-> IF p < blob.P THEN blob.full[p] ELSE full[p]]
    /\ ring' = blob.ring
    /\ dpos' = blob.P /\ commit_pos' = blob.P /\ high' = blob.P
    /\ UNCHANGED <<ring_wrapped, jrn, blob>>

Next ==
    \/ \E r \in Row : Step(r)
    \/ \E r \in Row : Peek(r)
    \/ \E n \in 1..Jmax : \E ep \in [0..(n - 1) -> Row] : Replay(n, ep)
    \/ \E p \in Positions : Ablate(p)
    \/ \E d \in 0..dpos : Rewind(d)
    \/ Commit
    \/ Reset
    \/ ResetCold
    \/ \E P \in 0..Pmax : Shear(P)
    \/ SnapshotPrefix
    \/ RestorePrefix

Spec == Init /\ [][Next]_vars

-----------------------------------------------------------------------------
(* Properties. *)

(* Every sliding-window layer attends the right rows: the ring slot of     *)
(* each earlier position that the next step's window reaches holds the     *)
(* row the full cache has for that position, whatever sequence of steps,   *)
(* replays, rewinds, resets, shears and restores came before               *)
(* (k_attn_decode_ring_T reads slot (s0+j) % Wring).                       *)
WindowExact ==
    \A q \in Positions :
        (q < dpos /\ q + Window > dpos) => ring[Slot(q)] = full[q]

(* The ring has room for a window and a full journal's worth of rewinding, *)
(* and the shear and the peek are not armed together.                      *)
WideRing == Window + Jmax <= RingW /\ ~(PeekArmed /\ ShearArmed)

(* The parts of the inductive invariant behind WindowExact. *)

(* A rewind can reach back at most Jmax positions, and the ring was        *)
(* written at most one position past what it can reach from.               *)
Reach ==
    /\ commit_pos <= dpos /\ dpos <= high
    /\ dpos - commit_pos <= Jmax
    /\ high <= RingW \/ high <= commit_pos + Jmax + 1

(* A ring slot is right for every position written within one turn of the  *)
(* ring below the highest position ever written.                           *)
RingExact ==
    \A q \in Positions : (q < dpos /\ q + RingW >= high) => ring[Slot(q)] = full[q]

(* While the high-water flag is down, either nothing has been written past *)
(* the end of the ring, or no rewind can bring the position back under it. *)
WrapKnown ==
    (ShearArmed /\ ~ring_wrapped) => (high <= RingW \/ commit_pos > RingW)

(* The host copy is a session in order. *)
BlobExact ==
    \A q \in Positions :
        (q < blob.P /\ q + RingW >= blob.P) => blob.ring[Slot(q)] = blob.full[q]

IInv == TypeOK /\ Reach /\ RingExact /\ WrapKnown /\ BlobExact

-----------------------------------------------------------------------------
(* What attention reads, position by position: the ring inside the window, *)
(* the full cache below it.                                                *)
Attended ==
    [i \in 1..dpos |-> IF i + Window > dpos + 1 THEN ring[Slot(i - 1)] ELSE full[i - 1]]

SavedRows == [i \in 1..blob.P |-> blob.full[i - 1]]

Cache == INSTANCE KVCache WITH seq <- Attended, floor <- commit_pos, saved <- SavedRows

(* The session behaves as the plain sequence of rows its callers see: a    *)
(* rewind is a perfect inverse and a restore brings back what was saved.   *)
RefinesCache == Cache!CSpec
=============================================================================
