------------------------------ MODULE KVCache ------------------------------
(***************************************************************************)
(* What a resident gemma4 KV session promises to its callers, without the  *)
(* ring, the undo-journal or the position counters that implement it.      *)
(*                                                                         *)
(* The session is a sequence of rows, one per position, that attention     *)
(* reads.  Callers extend it, take back a tail of it, cut it to a prefix,  *)
(* empty it, and save and restore a prefix.  Taking back a tail "is a      *)
(* perfect inverse" (cuda_forward.cu, gemma4_kv_rewind): whatever remains  *)
(* is exactly what was there before the tail was added.  floor is the      *)
(* position below which a tail can no longer be taken back.                *)
(*                                                                         *)
(* KVSession is shown to implement this module, and PersistKV to ask no    *)
(* more of a session than this.                                            *)
(***************************************************************************)
EXTENDS Naturals, Sequences

CONSTANTS
    Row,      \* the K/V rows a forward pass can mint
    ZeroRow,  \* the row of a knocked-out position
    Pmax,     \* positions the session can hold
    Jmax      \* how far back a tail can be taken

VARIABLES
    seq,      \* the rows attention reads, position p at index p + 1
    floor,    \* the position a rewind cannot pass
    saved     \* the saved prefix (empty: none)

cvars == <<seq, floor, saved>>

CInit == seq = << >> /\ floor = 0 /\ saved = << >>

(* Rows are added at the end; the floor may move up to follow them. *)
Extend ==
    /\ Len(seq') > Len(seq) /\ Len(seq') <= Pmax
    /\ SubSeq(seq', 1, Len(seq)) = seq
    /\ \A i \in (Len(seq) + 1)..Len(seq') : seq'[i] \in Row
    /\ floor <= floor' /\ floor' <= Len(seq')
    /\ Len(seq') - floor' <= Jmax
    /\ UNCHANGED saved

(* The last d rows are taken back and nothing else changes. *)
TakeBack(d) ==
    /\ d <= Len(seq) - floor
    /\ seq' = SubSeq(seq, 1, Len(seq) - d)
    /\ UNCHANGED <<floor, saved>>

(* The rows so far become permanent. *)
Keep == floor' = Len(seq) /\ UNCHANGED <<seq, saved>>

(* Only the first P rows stay, permanently. *)
CutTo(P) ==
    /\ P <= Len(seq)
    /\ seq' = SubSeq(seq, 1, P)
    /\ floor' = P
    /\ UNCHANGED saved

Save == saved' = seq /\ UNCHANGED <<seq, floor>>

Discard == saved' = << >> /\ UNCHANGED <<seq, floor>>

Load ==
    /\ saved # << >>
    /\ seq' = saved
    /\ floor' = Len(saved)
    /\ UNCHANGED saved

KnockOut(i) ==
    /\ i > floor
    /\ seq' = [seq EXCEPT ![i] = ZeroRow]
    /\ UNCHANGED <<floor, saved>>

CNext ==
    \/ Extend
    \/ \E d \in 0..Len(seq) : TakeBack(d)
    \/ Keep
    \/ \E P \in 0..Len(seq) : CutTo(P)
    \/ Save
    \/ Discard
    \/ Load
    \/ \E i \in 1..Len(seq) : KnockOut(i)

CSpec == CInit /\ [][CNext]_cvars
=============================================================================
