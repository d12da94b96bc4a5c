----------------------------- MODULE PersistKV -----------------------------
(***************************************************************************)
(* One chat turn of the daemon on the resident KV cache: run_kvdecode_chat *)
(* of engine/tools/sp_daemon/src/routes.rs.                                *)
(*                                                                         *)
(* The daemon remembers in KV_COMMITTED which tokens it believes the cache *)
(* holds.  The next turn reuses the common prefix of that belief and the   *)
(* new prompt: it rewinds a short tail, or copies back the host snapshot   *)
(* of a long shared preamble, or empties the cache and prefills it all.    *)
(* The recall stage may replace the prompt by one that carries a memory.   *)
(*                                                                         *)
(* A turn holds the cache Mutex from its first action to its last, so two  *)
(* turns never interleave; what a turn leaves behind is what the next one  *)
(* starts from.  The cache is the sequence of tokens it was computed from  *)
(* (KVCache, with tokens for rows).                                        *)
(***************************************************************************)
EXTENDS Integers, Sequences

CONSTANTS
    Tok,          \* tokens
    Foreign,      \* a position no token stands for (injected frame, episode)
    Prompts,      \* prompts clients send
    Inner,        \* prompts the recall stage writes (delivery, judge)
    Pmax,         \* positions the cache holds
    Jmax,         \* SP_G4_KV_JMAX
    RewindBound,  \* SP_KV_REWIND_BOUND, clamped to Jmax - 1
    SnapMin,      \* PREFIX_SNAP_MIN
    MaxGen,       \* max_tokens
    Armed         \* the paths of PathNames a run lets happen

PathNames == {"dead_client",  \* the SSE peer goes away while we decode
              "excluded",     \* requests with persist_kv false
              "below_tau",    \* the rerank judge picks a memory under tau
              "lost_delivery", \* the device fails while a memory goes in
              "device_error", \* the device fails at any other point
              "snapshot"}     \* SP_PREFIX_SNAPSHOT=1

ASSUME DaemonShape ==
    /\ Foreign \notin Tok
    /\ Prompts \subseteq Seq(Tok) \ {<< >>}
    /\ \A q \in Inner : q \in Seq(Tok) /\ Len(q) >= 2
    /\ Pmax \in Nat \ {0} /\ Jmax \in Nat \ {0}
    /\ RewindBound \in 0..(Jmax - 1)
    /\ SnapMin \in Nat \ {0} /\ MaxGen \in Nat
    /\ Armed \subseteq PathNames

VARIABLES
    cache,      \* the tokens behind the positions [0, dpos)
    floor,      \* commit_pos of the session
    committed,  \* KV_COMMITTED
    snap,       \* PREFIX_SNAP; toks = << >>: None
    pc,         \* where the turn is; "idle": the Mutex is free
    t           \* the turn's locals

vars == <<cache, floor, committed, snap, pc, t>>

Held == Tok \cup {Foreign}
NoSnap == [toks |-> << >>, blob |-> << >>]

(* aug: the prompt recall delivers; << >>: none.  side: a judge pass has   *)
(* run in the cache.  how: the branch that set prefill_from.               *)
NoTurn == [prompt |-> << >>, persist |-> FALSE, from |-> 0, how |-> "none",
           side |-> FALSE, aug |-> << >>, recalled |-> FALSE,
           injected |-> FALSE, gen |-> << >>]

TurnType ==
    [prompt : Seq(Tok), persist : BOOLEAN, from : Nat,
     how : {"none", "cold", "rewind", "restore", "capture"},
     side : BOOLEAN, aug : Seq(Tok), recalled : BOOLEAN,
     injected : BOOLEAN, gen : Seq(Tok)]

Stages == {"idle", "drop", "capture", "snapshot", "prefill", "recall",
           "side", "deliver", "tail", "decode", "broken"}

TypeOK ==
    /\ cache \in Seq(Held) /\ Len(cache) <= Pmax
    /\ floor \in 0..Len(cache) /\ Len(cache) - floor <= Jmax
    /\ committed \in Seq(Tok)
    /\ snap \in [toks : Seq(Tok), blob : Seq(Held)]
    /\ pc \in Stages
    /\ t \in TurnType
    /\ pc = "idle" => t = NoTurn

Init ==
    /\ cache = << >> /\ floor = 0 /\ committed = << >>
    /\ snap = NoSnap /\ pc = "idle" /\ t = NoTurn

-----------------------------------------------------------------------------
(* The cache verbs, as the session promises them (KVCache). *)

Prefix(s, n) == SubSeq(s, 1, n)
Front(s) == Prefix(s, Len(s) - 1)
Last(s) == s[Len(s)]

(* Faulty: the floor stays where it is and the journal overflows. *)
FeedNoSlide(s) == cache' = cache \o s /\ floor' = floor

(* kv::prefill and kv::decode_step: the journal's floor slides behind. *)
Feed(s) ==
    /\ cache' = cache \o s
    /\ floor' = IF Len(cache) + Len(s) - Jmax > floor
                THEN Len(cache) + Len(s) - Jmax ELSE floor

(* Faulty: the capacity test is off by one. *)
FitsOneMore(s) == Len(cache) + Len(s) <= Pmax + 1

(* A prefill may fill the cache; a decode step stops one position earlier. *)
Fits(s) == Len(cache) + Len(s) <= Pmax
Room == Len(cache) + 1 < Pmax

(* A verb without room for s adds nothing.  One that the device fails on   *)
(* keeps the rows it had minted by then.                                   *)
FeedFails(s, room, path) ==
    \/ ~room /\ UNCHANGED <<cache, floor>>
    \/ /\ room /\ path \in Armed
       /\ \E k \in 0..Len(s) : Feed(Prefix(s, k))

(* kv::reset and kv::reset_cold *)
Empty == cache' = << >> /\ floor' = 0

-----------------------------------------------------------------------------
(* How much of the cache the prompt p can reuse. *)

MaxPrefix(p) == IF Len(committed) <= Len(p) - 1 THEN Len(committed) ELSE Len(p) - 1

(* n is where "while lcp < maxp && tokens[lcp] == committed[lcp]" stops. *)
IsLcp(p, n) ==
    /\ n <= MaxPrefix(p)
    /\ \A i \in 1..n : p[i] = committed[i]
    /\ n < MaxPrefix(p) => p[n + 1] # committed[n + 1]

Drop(n) == Len(committed) - n

(* "cl >= 1 && pos == cl" *)
Guard == Len(committed) >= 1 /\ Len(cache) = Len(committed)

CanRewind(n) == Guard /\ n >= 1 /\ Drop(n) <= RewindBound

CanSnapshot(n) ==
    Guard /\ ~CanRewind(n) /\ n >= SnapMin /\ "snapshot" \in Armed

(* Faulty: the snapshot is keyed by its length, not by its tokens. *)
SnapHitByLength(p, n) == snap.toks # << >> /\ Len(snap.toks) <= n

SnapHit(p, n) ==
    /\ snap.toks # << >> /\ Len(snap.toks) <= n
    /\ Prefix(p, Len(snap.toks)) = snap.toks

(* Faulty: the rewind bound is taken for the journal's reach. *)
RefusedNever(n) == n < 0

(* gemma4_kv_rewind returns an error and changes nothing: the turn sends   *)
(* that error and returns, which is a stuttering step here.                *)
Refused(n) == CanRewind(n) /\ Drop(n) > Len(cache) - floor

Turn(p, persist, from, how) ==
    [NoTurn EXCEPT !.prompt = p, !.persist = persist, !.from = from, !.how = how]

-----------------------------------------------------------------------------
(* The turn. *)

BeginRewind(p, n) ==
    /\ pc = "idle" /\ CanRewind(n) /\ ~Refused(n)
    /\ cache' = Prefix(cache, Len(cache) - Drop(n))
    /\ t' = Turn(p, TRUE, n, "rewind")
    /\ pc' = "prefill"
    /\ UNCHANGED <<floor, committed, snap>>

BeginRestore(p, n) ==
    /\ pc = "idle" /\ CanSnapshot(n) /\ SnapHit(p, n)
    /\ cache' = snap.blob /\ floor' = Len(snap.blob)
    /\ t' = Turn(p, TRUE, Len(snap.toks), "restore")
    /\ pc' = "prefill"
    /\ UNCHANGED <<committed, snap>>

(* A failed restore empties the cache and drops the snapshot. *)
RestoreFails(p, n) ==
    /\ pc = "idle" /\ CanSnapshot(n) /\ SnapHit(p, n)
    /\ Empty
    /\ t' = Turn(p, TRUE, 0, "cold")
    /\ pc' = "drop"
    /\ UNCHANGED <<committed, snap>>

DropSnapshot ==
    /\ pc = "drop"
    /\ snap' = NoSnap
    /\ pc' = "prefill"
    /\ UNCHANGED <<cache, floor, committed, t>>

(* The slow path prefills the shared prefix apart, and keeps a copy. *)
BeginCapture(p, n) ==
    /\ pc = "idle" /\ CanSnapshot(n) /\ ~SnapHit(p, n)
    /\ Empty
    /\ t' = Turn(p, TRUE, n, "capture")
    /\ pc' = "capture"
    /\ UNCHANGED <<committed, snap>>

Capture ==
    /\ pc = "capture"
    /\ Fits(Prefix(t.prompt, t.from))
    /\ Feed(Prefix(t.prompt, t.from))
    /\ pc' = "snapshot"
    /\ UNCHANGED <<committed, snap, t>>

SnapshotPrefix ==
    /\ pc = "snapshot"
    /\ snap' = [toks |-> Prefix(t.prompt, t.from), blob |-> cache]
    /\ pc' = "prefill"
    /\ UNCHANGED <<cache, floor, committed, t>>

(* Faulty: a failed capture leaves in the cache what it had prefilled. *)
CaptureFailsDirty ==
    /\ pc \in {"capture", "snapshot"}
    /\ t' = [t EXCEPT !.from = 0, !.how = "cold"]
    /\ pc' = "prefill"
    /\ UNCHANGED <<cache, floor, committed, snap>>

CaptureFails ==
    /\ pc \in {"capture", "snapshot"}
    /\ Empty
    /\ t' = [t EXCEPT !.from = 0, !.how = "cold"]
    /\ pc' = "prefill"
    /\ UNCHANGED <<committed, snap>>

BeginCold(p, n) ==
    /\ pc = "idle" /\ ~CanRewind(n) /\ ~CanSnapshot(n)
    /\ Empty
    /\ t' = Turn(p, TRUE, 0, "cold")
    /\ pc' = "prefill"
    /\ UNCHANGED <<committed, snap>>

(* persist_kv is false: replay, single-entry or injected frames asked for. *)
BeginExcluded(p) ==
    /\ "excluded" \in Armed
    /\ pc = "idle"
    /\ Empty
    /\ t' = Turn(p, FALSE, 0, "cold")
    /\ pc' = "prefill"
    /\ UNCHANGED <<committed, snap>>

Rest == SubSeq(t.prompt, t.from + 1, Len(t.prompt) - 1)

Prefill ==
    /\ pc = "prefill" /\ Fits(Rest)
    /\ Feed(Rest)
    /\ pc' = "recall"
    /\ UNCHANGED <<committed, snap, t>>

(* Every error return: KV_COMMITTED is left as it is. *)
Return == pc' = "idle" /\ t' = NoTurn /\ UNCHANGED <<committed, snap>>

PrefillFails ==
    /\ pc = "prefill" /\ FeedFails(Rest, Fits(Rest), "device_error")
    /\ Return

(* inject_frames or an operator's replay puts a position no token made. *)
Inject ==
    /\ pc = "recall" /\ ~t.persist /\ ~t.injected /\ ~t.side
    /\ Fits(<<Foreign>>)
    /\ Feed(<<Foreign>>)
    /\ t' = [t EXCEPT !.injected = TRUE]
    /\ UNCHANGED <<committed, snap, pc>>

(* The rerank and canonicalization judges: reset, prefill their own prompt *)
(* and decode a few tokens, as far as they get.  Nobody puts the chat      *)
(* prompt back.                                                            *)
SideReset ==
    /\ pc = "recall" /\ ~t.side
    /\ Empty
    /\ t' = [t EXCEPT !.side = TRUE]
    /\ pc' = "side"
    /\ UNCHANGED <<committed, snap>>

SideRun(q) ==
    /\ pc = "side"
    /\ \E k \in 0..Len(q) : Fits(Prefix(q, k)) /\ Feed(Prefix(q, k))
    /\ pc' = "recall"
    /\ UNCHANGED <<committed, snap, t>>

(* No memory is delivered: synthesis goes on from "the clean prompt". *)
PassRecall ==
    /\ pc = "recall"
    /\ t.side => "below_tau" \in Armed
    /\ pc' = "tail"
    /\ UNCHANGED <<cache, floor, committed, snap, t>>

(* Text-in-context delivery: reset_cold, prefill the augmented prompt.  If *)
(* that fails, synthesis goes on from "the clean prompt", which is gone.   *)
Deliver(q) ==
    /\ pc = "recall"
    /\ Empty
    /\ t' = [t EXCEPT !.aug = q]
    /\ pc' = "deliver"
    /\ UNCHANGED <<committed, snap>>

DeliverPrefill ==
    /\ pc = "deliver"
    /\ \/ /\ Fits(Front(t.aug)) /\ Feed(Front(t.aug))
          /\ t' = [t EXCEPT !.recalled = TRUE]
       \/ /\ FeedFails(Front(t.aug), Fits(Front(t.aug)), "lost_delivery")
          /\ t' = t
    /\ pc' = "tail"
    /\ UNCHANGED <<committed, snap>>

(* The symbolic decline: nothing is decoded, the cache is emptied. *)
Decline ==
    /\ pc = "recall"
    /\ Empty
    /\ Return

(* decode_step(syn_last) *)
SynLast == IF t.recalled THEN Last(t.aug) ELSE Last(t.prompt)

DecodeTail ==
    /\ pc = "tail" /\ Room
    /\ Feed(<<SynLast>>)
    /\ pc' = "decode"
    /\ UNCHANGED <<committed, snap, t>>

TailFails ==
    /\ pc = "tail" /\ FeedFails(<<SynLast>>, Room, "device_error")
    /\ Return

(* One turn of the decode loop: the token goes to the client and into      *)
(* committed_gen, then into the cache; a failed decode_step ends the loop. *)
Generate(x) ==
    /\ pc = "decode" /\ Len(t.gen) < MaxGen
    /\ t' = [t EXCEPT !.gen = Append(t.gen, x)]
    /\ \/ Room /\ Feed(<<x>>) /\ pc' = pc
       \/ FeedFails(<<x>>, Room, "device_error") /\ pc' = "broken"
    /\ UNCHANGED <<committed, snap>>

(* send_deadline gave up: the turn returns out of the loop. *)
ClientGone ==
    /\ "dead_client" \in Armed
    /\ pc = "decode"
    /\ UNCHANGED <<cache, floor>>
    /\ Return

(* Faulty: a turn that recalled a memory re-arms the reusable prefix. *)
FinishRearms ==
    /\ pc \in {"decode", "broken"}
    /\ committed' = IF ~t.persist THEN committed ELSE t.prompt \o t.gen
    /\ pc' = "idle" /\ t' = NoTurn
    /\ UNCHANGED <<cache, floor, snap>>

(* A stop token, a stop string, max_tokens or a failed step. *)
Finish ==
    /\ pc \in {"decode", "broken"}
    /\ committed' = IF ~t.persist THEN committed
                    ELSE IF t.recalled THEN << >> ELSE t.prompt \o t.gen
    /\ pc' = "idle" /\ t' = NoTurn
    /\ UNCHANGED <<cache, floor, snap>>

(* v1_debug_kdiff: its forensics run between two cold resets. *)
DebugKdiff ==
    /\ pc = "idle"
    /\ Empty
    /\ UNCHANGED <<committed, snap, pc, t>>

(* A failed prefill or read leaves the route by "?" after its first reset  *)
(* (the DebugKdiff before this step) and without the second.               *)
DebugLeaves(q) ==
    /\ pc = "idle" /\ cache = << >>
    /\ FeedFails(q, Fits(q), "device_error")
    /\ UNCHANGED <<committed, snap, pc, t>>

Begin(p, n) ==
    \/ BeginRewind(p, n) \/ BeginRestore(p, n) \/ RestoreFails(p, n)
    \/ BeginCapture(p, n) \/ BeginCold(p, n) \/ BeginExcluded(p)

Next ==
    \/ \E p \in Prompts : \E n \in 0..Len(p) : IsLcp(p, n) /\ Begin(p, n)
    \/ DropSnapshot \/ Capture \/ SnapshotPrefix \/ CaptureFails
    \/ Prefill \/ PrefillFails
    \/ Inject \/ SideReset \/ PassRecall \/ Decline
    \/ \E q \in Inner : SideRun(q) \/ Deliver(q) \/ DebugLeaves(q)
    \/ DeliverPrefill
    \/ DecodeTail \/ TailFails
    \/ \E x \in Tok : Generate(x)
    \/ ClientGone
    \/ Finish
    \/ DebugKdiff

Spec == Init /\ [][Next]_vars

-----------------------------------------------------------------------------
(* Properties. *)

(* "The committed sequence always mirrors the cache exactly": whenever the *)
(* reuse guard passes, the tokens the daemon believes in are the tokens    *)
(* the cache was computed from.                                            *)
Mirror == (pc = "idle" /\ Guard) => committed = cache

(* What the answer is meant to attend: up to syn_last, and with it. *)
Before ==
    IF t.recalled THEN Front(t.aug)
    ELSE IF t.injected THEN Append(Front(t.prompt), Foreign) ELSE Front(t.prompt)
Context == Append(Before, SynLast)

(* While a reply is decoded the cache holds exactly this turn's prompt (or *)
(* the prompt with the recalled memory) and the reply so far: never a      *)
(* piece of another conversation, a judge prompt or a dead turn.           *)
AttendsContext == pc = "decode" => cache = Context \o t.gen

(* A turn that reused nothing, and one that copied the snapshot back,      *)
(* answers its own prompt whatever was lost before it: dead clients and    *)
(* excluded turns included.                                                *)
NullFloor ==
    (pc = "decode" /\ t.how # "rewind") => cache = Context \o t.gen

(* No turn ends early or goes round KV_COMMITTED: no client dies, no verb  *)
(* fails on the device, and every prompt leaves room for a decode step.    *)
Calm ==
    /\ {"dead_client", "excluded", "device_error"} \cap Armed = {}
    /\ \A p \in Prompts : Len(p) < Pmax

(* The recall stage gives back the prompt or delivers one that fits. *)
Steady ==
    /\ {"below_tau", "lost_delivery"} \cap Armed = {}
    /\ \A q \in Inner : Len(q) < Pmax

(* The parts of the inductive invariant behind these properties. *)

(* The snapshot's bytes are those of the tokens it is filed under. *)
SnapExact == snap.blob = snap.toks

Belief == (Calm /\ pc = "idle" /\ Guard) => committed = cache

(* A prefix that came out of a rewind is as good as KV_COMMITTED was. *)
Trusted == t.how = "rewind" => Calm

Locals ==
    /\ pc # "idle" => (t.prompt \in Prompts /\ t.from < Len(t.prompt))
    /\ t.aug # << >> => t.aug \in Inner
    /\ (pc = "deliver" \/ t.recalled) => t.aug # << >>
    /\ pc \notin {"decode", "broken"} => t.gen = << >>
    /\ pc = "broken" => t.gen # << >>
    /\ t.recalled => pc \in {"tail", "decode", "broken"}
    /\ t.injected => ~t.persist
    /\ (pc # "idle" /\ ~t.persist) => "excluded" \in Armed
    /\ t.injected => pc \in {"recall", "side", "deliver", "tail", "decode", "broken"}
    /\ pc = "drop" => t.from = 0
    /\ pc = "side" => t.side

Contents ==
    /\ pc \in {"drop", "capture", "side", "deliver"} => cache = << >>
    /\ pc = "snapshot" => cache = Prefix(t.prompt, t.from)
    /\ (pc = "prefill" /\ Trusted) => cache = Prefix(t.prompt, t.from)
    /\ (pc = "recall" /\ ~t.side /\ Trusted) => cache = Before
    /\ (pc = "tail" /\ Trusted) => cache = Before
    /\ (pc = "decode" /\ Trusted) => cache = Context \o t.gen
    /\ (pc = "broken" /\ Trusted) => cache \in {Context \o Front(t.gen), Context \o t.gen}

IInv == TypeOK /\ SnapExact /\ Belief /\ Locals /\ Contents

Session == INSTANCE KVCache WITH Row <- Held, ZeroRow <- Foreign,
                                 seq <- cache, saved <- snap.blob

(* The turn asks of the session only what KVSession is shown to promise. *)
UsesCache == Session!CSpec
=============================================================================
