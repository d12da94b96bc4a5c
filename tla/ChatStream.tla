----------------------------- MODULE ChatStream -----------------------------
(***************************************************************************)
(* The event stream of the chats: v1_chat, v1_abort and the sends of       *)
(* run_kvdecode_chat (engine/tools/sp_daemon/src/routes.rs), with the      *)
(* session table of sessions.rs.                                           *)
(*                                                                         *)
(* Each chat has a bounded channel from its blocking turn thread to the    *)
(* SSE response, which the client drains.  A client may go away: its side  *)
(* is closed, which the next send notices, or it is half-open and merely   *)
(* stops draining, which nothing notices but a full channel.  The turns    *)
(* share one Mutex, the one of the resident cache, so a turn that cannot   *)
(* finish stops every other.  What the turn computes is PersistKV's        *)
(* subject; here it is only how many tokens there are.                     *)
(***************************************************************************)
EXTENDS Integers, Sequences

CONSTANTS
    Chat,        \* chats, by chat_id
    ChanCap,     \* capacity of the mpsc channel (64)
    MaxTokens,   \* max_tokens
    KairosOn,    \* SP_KAIROS=1
    StallArmed,  \* may a client become half-open?
    AbortArmed   \* are chats aborted?

ASSUME StreamShape ==
    /\ ChanCap \in Nat \ {0} /\ MaxTokens \in Nat
    /\ KairosOn \in BOOLEAN /\ StallArmed \in BOOLEAN /\ AbortArmed \in BOOLEAN

VARIABLES
    stage,     \* where each turn is
    sent,      \* the events a turn has put on its channel
    read,      \* how many of them the client has drained
    peer,      \* the client: live, stalled (half-open) or closed
    gen,       \* tokens decoded
    out,       \* tokens whose text is in sent
    spectest,  \* is the text held until the draft is tested?
    sessions,  \* the session table: chats that can be aborted
    cut        \* the cancel flag: down at "new"; up, the stage it was set in

vars == <<stage, sent, read, peer, gen, out, spectest, sessions, cut>>

Looping == {"decode", "sending", "stopping"}
Replying == Looping \cup {"kairos", "flush", "release", "end"}
Before == {"prompt", "recalled"}
Inside == Before \cup {"declined", "done", "cancelled", "post"} \cup Replying
Terminal == {"done", "cancelled", "error"}
Stages == {"new", "wait", "gone"} \cup Inside

TypeOK ==
    /\ stage \in [Chat -> Stages]
    /\ sent \in [Chat -> Seq({"delta", "recall", "kairos"} \cup Terminal)]
    /\ read \in [Chat -> Nat]
    /\ peer \in [Chat -> {"live", "stalled", "closed"}]
    /\ gen \in [Chat -> 0..MaxTokens] /\ out \in [Chat -> 0..MaxTokens]
    /\ spectest \in [Chat -> BOOLEAN]
    /\ sessions \subseteq Chat
    /\ cut \in [Chat -> Stages]
    /\ \A c \in Chat : Len(sent[c]) - read[c] \in 0..ChanCap

Init ==
    /\ stage = [c \in Chat |-> "new"] /\ sent = [c \in Chat |-> << >>]
    /\ read = [c \in Chat |-> 0] /\ peer = [c \in Chat |-> "live"]
    /\ gen = [c \in Chat |-> 0] /\ out = [c \in Chat |-> 0]
    /\ spectest = [c \in Chat |-> FALSE] /\ sessions = {}
    /\ cut = [c \in Chat |-> "new"]

-----------------------------------------------------------------------------
(* The channel. *)

Room(c) == Len(sent[c]) - read[c] < ChanCap
Closed(c) == peer[c] = "closed"
Push(c, ev) == sent' = [sent EXCEPT ![c] = Append(@, ev)]

(* Faulty: a closed channel is not noticed. *)
BlockingSendDeaf(c, ev) == Room(c) /\ Push(c, ev)

(* tx.blocking_send: waits for room, fails on a closed channel; every      *)
(* caller ignores the failure.                                             *)
BlockingSend(c, ev) ==
    \/ Room(c) /\ ~Closed(c) /\ Push(c, ev)
    \/ Closed(c) /\ UNCHANGED sent

(* send_deadline returned true. *)
Delivered(c, ev) == Room(c) /\ ~Closed(c) /\ Push(c, ev)

(* send_deadline returned false: the channel is closed, or has been full   *)
(* for 30 s, which a client that drains at all never lets happen.          *)
GivesUp(c) == Closed(c) \/ (~Room(c) /\ peer[c] = "stalled")

-----------------------------------------------------------------------------
(* The turn thread of chat c. *)

Go(c, s) == stage' = [stage EXCEPT ![c] = s]

(* v1_chat: the chat is registered, then its thread is spawned. *)
Request(c) ==
    /\ stage[c] = "new"
    /\ sessions' = sessions \cup {c}
    /\ Go(c, "wait")
    /\ UNCHANGED <<sent, read, peer, gen, out, spectest, cut>>

(* cuda_kvdecode_handle.lock(): held until the turn returns. *)
Acquire(c) ==
    /\ stage[c] = "wait"
    /\ \A d \in Chat : stage[d] \notin Inside
    /\ Go(c, "prompt")
    /\ UNCHANGED <<sent, read, peer, gen, out, spectest, sessions, cut>>

Leave(c) == Go(c, "gone") /\ sessions' = sessions \ {c}

(* The recall stage reports its pick, or that there is none.  Only a turn  *)
(* that recalled a memory can be under SPECTEST.                           *)
Recall(c, held) ==
    /\ stage[c] = "prompt"
    /\ BlockingSend(c, "recall")
    /\ spectest' = [spectest EXCEPT ![c] = held]
    /\ Go(c, "recalled")
    /\ UNCHANGED <<read, peer, gen, out, sessions, cut>>

(* send_err on any failure before the decode loop. *)
PromptFails(c) ==
    /\ stage[c] \in Before
    /\ BlockingSend(c, "error")
    /\ Leave(c)
    /\ UNCHANGED <<read, peer, gen, out, spectest, cut>>

Synthesize(c) ==
    /\ stage[c] \in Before
    /\ Go(c, "decode")
    /\ UNCHANGED <<sent, read, peer, gen, out, spectest, sessions, cut>>

(* The symbolic decline: one delta and [DONE], no decode.  cancel_child is *)
(* not looked at.                                                          *)
Decline(c) ==
    /\ stage[c] \in Before
    /\ BlockingSend(c, "delta")
    /\ Go(c, "declined")
    /\ UNCHANGED <<read, peer, gen, out, spectest, sessions, cut>>

Declined(c) ==
    /\ stage[c] = "declined"
    /\ BlockingSend(c, "done")
    /\ Leave(c)
    /\ UNCHANGED <<read, peer, gen, out, spectest, cut>>

(* One token of the decode loop.  Its bytes are held back, for the rest of *)
(* a character or of a stop string or for SPECTEST; or they are to be sent *)
(* now, with all that was held; or they are and complete a stop string.    *)
Token(c, then) ==
    /\ stage[c] = "decode" /\ gen[c] < MaxTokens
    /\ then # "decode" => ~spectest[c]
    /\ gen' = [gen EXCEPT ![c] = @ + 1]
    /\ Go(c, then)
    /\ UNCHANGED <<sent, read, peer, out, spectest, sessions, cut>>

Emit(c) ==
    /\ stage[c] \in {"sending", "stopping"}
    /\ Delivered(c, "delta")
    /\ out' = [out EXCEPT ![c] = gen[c]]
    /\ Go(c, IF stage[c] = "stopping" THEN "kairos" ELSE "decode")
    /\ UNCHANGED <<read, peer, gen, spectest, sessions, cut>>

(* The client is gone: the turn returns out of the loop.  After a stop     *)
(* string the failed send is ignored and the loop ends instead.            *)
ClientGone(c) ==
    /\ stage[c] = "sending" /\ GivesUp(c)
    /\ Leave(c)
    /\ UNCHANGED <<sent, read, peer, gen, out, spectest, cut>>

StopUnsent(c) ==
    /\ stage[c] = "stopping" /\ GivesUp(c)
    /\ Go(c, "kairos")
    /\ UNCHANGED <<sent, read, peer, gen, out, spectest, sessions, cut>>

(* A stop token, a failed step or max_tokens: cancel_child is not looked   *)
(* at in the loop.                                                         *)
LoopEnds(c) ==
    /\ stage[c] = "decode"
    /\ Go(c, "kairos")
    /\ UNCHANGED <<sent, read, peer, gen, out, spectest, sessions, cut>>

(* The turn's impulse, for the scheduler of the harness. *)
Kairos(c) ==
    /\ stage[c] = "kairos"
    /\ IF KairosOn THEN BlockingSend(c, "kairos") ELSE UNCHANGED sent
    /\ Go(c, "flush")
    /\ UNCHANGED <<read, peer, gen, out, spectest, sessions, cut>>

(* Faulty: what the decode buffer holds back is not flushed. *)
FlushNothing(c) ==
    /\ stage[c] = "flush"
    /\ Go(c, IF spectest[c] THEN "release" ELSE "end")
    /\ UNCHANGED <<sent, read, peer, gen, out, spectest, sessions, cut>>

(* The text the decode buffer still holds. *)
Flush(c) ==
    /\ stage[c] = "flush"
    /\ IF out[c] < gen[c] /\ ~spectest[c]
       THEN BlockingSend(c, "delta") /\ out' = [out EXCEPT ![c] = gen[c]]
       ELSE UNCHANGED <<sent, out>>
    /\ Go(c, IF spectest[c] THEN "release" ELSE "end")
    /\ UNCHANGED <<read, peer, gen, spectest, sessions, cut>>

(* SPECTEST, passed: the held text goes out piece by piece, until it is    *)
(* all out or the client is given up on.                                   *)
Release(c) ==
    /\ stage[c] = "release" /\ out[c] < gen[c]
    /\ Delivered(c, "delta")
    /\ out' = [out EXCEPT ![c] = @ + 1]
    /\ UNCHANGED <<stage, read, peer, gen, spectest, sessions, cut>>

Released(c) ==
    /\ stage[c] = "release"
    /\ out[c] = gen[c] \/ GivesUp(c)
    /\ Go(c, "end")
    /\ UNCHANGED <<sent, read, peer, gen, out, spectest, sessions, cut>>

(* SPECTEST, vetoed: the record's text goes out in place of the draft. *)
Veto(c) ==
    /\ stage[c] = "release" /\ out[c] = 0
    /\ Delivered(c, "delta") \/ (GivesUp(c) /\ UNCHANGED sent)
    /\ out' = [out EXCEPT ![c] = gen[c]]
    /\ Go(c, "end")
    /\ UNCHANGED <<read, peer, gen, spectest, sessions, cut>>

Cancelled(c) == cut[c] # "new"

(* Faulty: the flag is not looked at when the turn ends. *)
EndAlwaysDone(c) ==
    /\ stage[c] = "end"
    /\ Go(c, "done")
    /\ UNCHANGED <<sent, read, peer, gen, out, spectest, sessions, cut>>

(* cancel_child decides how the turn is reported ... *)
End(c) ==
    /\ stage[c] = "end"
    /\ Go(c, IF Cancelled(c) THEN "cancelled" ELSE "done")
    /\ UNCHANGED <<sent, read, peer, gen, out, spectest, sessions, cut>>

(* ... and the report waits for room; an abort may arrive meanwhile. *)
Report(c) ==
    /\ stage[c] \in {"done", "cancelled"}
    /\ BlockingSend(c, stage[c])
    /\ Go(c, "post")
    /\ UNCHANGED <<read, peer, gen, out, spectest, sessions, cut>>

(* Consolidation and the commit of KV_COMMITTED, then the turn returns. *)
Return(c) ==
    /\ stage[c] = "post"
    /\ Leave(c)
    /\ UNCHANGED <<sent, read, peer, gen, out, spectest, cut>>

Turn(c) ==
    \/ Acquire(c) \/ PromptFails(c) \/ Synthesize(c) \/ Decline(c) \/ Declined(c)
    \/ \E held \in BOOLEAN : Recall(c, held)
    \/ \E then \in Looping : Token(c, then)
    \/ Emit(c) \/ ClientGone(c) \/ StopUnsent(c) \/ LoopEnds(c)
    \/ Kairos(c) \/ Flush(c) \/ Release(c) \/ Released(c) \/ Veto(c)
    \/ End(c) \/ Report(c) \/ Return(c)

-----------------------------------------------------------------------------
(* The client of chat c; what it does after the turn changes nothing. *)

Present(c) == stage[c] \notin {"new", "gone"}

Drain(c) ==
    /\ peer[c] = "live" /\ read[c] < Len(sent[c])
    /\ read' = [read EXCEPT ![c] = @ + 1]
    /\ UNCHANGED <<stage, sent, peer, gen, out, spectest, sessions, cut>>

(* The process is killed and no TCP write tells axum so. *)
Stall(c) ==
    /\ StallArmed
    /\ Present(c) /\ peer[c] = "live"
    /\ peer' = [peer EXCEPT ![c] = "stalled"]
    /\ UNCHANGED <<stage, sent, read, gen, out, spectest, sessions, cut>>

(* The connection is closed and the receiver dropped. *)
Close(c) ==
    /\ Present(c) /\ ~Closed(c)
    /\ peer' = [peer EXCEPT ![c] = "closed"]
    /\ UNCHANGED <<stage, sent, read, gen, out, spectest, sessions, cut>>

(* v1_abort: 204, and the flag of a registered chat is set. *)
Abort(c) ==
    /\ AbortArmed
    /\ c \in sessions /\ ~Cancelled(c)
    /\ cut' = [cut EXCEPT ![c] = stage[c]]
    /\ UNCHANGED <<stage, sent, read, peer, gen, out, spectest, sessions>>

Next == \E c \in Chat :
    Request(c) \/ Turn(c) \/ Drain(c) \/ Stall(c) \/ Close(c) \/ Abort(c)

(* A turn's thread is scheduled, and a live client drains its stream.      *)
(* Nothing makes a half-open connection close.                             *)
Fairness == \A c \in Chat : WF_vars(Turn(c)) /\ WF_vars(Drain(c))

Spec == Init /\ [][Next]_vars /\ Fairness

-----------------------------------------------------------------------------
(* Properties. *)

(* A client that has stayed until the turn returned has been sent exactly  *)
(* one closing event, the last, and when that is [DONE] the whole reply    *)
(* before it, whatever was held back on the way; and at no time does a     *)
(* stream go on after its closing event.                                   *)
StreamWhole ==
    \A c \in Chat :
        /\ \A i \in 1..Len(sent[c]) : sent[c][i] \in Terminal => i = Len(sent[c])
        /\ (stage[c] = "gone" /\ peer[c] = "live") =>
              /\ sent[c] # << >> /\ sent[c][Len(sent[c])] \in Terminal
              /\ sent[c][Len(sent[c])] # "error" => out[c] = gen[c]

(* A chat aborted while its reply was decoded, held or flushed is reported *)
(* to the client as cancelled and never as done, and only an aborted chat  *)
(* is (v1_abort races the one test of cancel_child, at the turn's end).    *)
AbortReported ==
    \A c \in Chat : \A i \in 1..Len(sent[c]) :
        /\ sent[c][i] = "done" => cut[c] \notin Replying
        /\ sent[c][i] = "cancelled" => Cancelled(c)

(* "Never blocks unbounded" (send_deadline): whatever its client does, the *)
(* decode loop of a turn ends.                                             *)
DecodeEnds == \A c \in Chat : (stage[c] \in Looping) ~> (stage[c] \notin Looping)

(* "blocks the turn thread FOREVER -- the session wedges" is what the      *)
(* guard is against: every chat that was accepted gets its turn, and the   *)
(* turn returns.                                                           *)
TurnsReturn == \A c \in Chat : (stage[c] = "wait") ~> (stage[c] = "gone")
=============================================================================
