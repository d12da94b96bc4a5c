------------------------------- MODULE Kairos -------------------------------
(***************************************************************************)
(* The scheduler of unprompted speech: harness/kairos/scheduler.py, with   *)
(* the policy of impulse.py and the reminders of harness/skills/notes.py.  *)
(*                                                                         *)
(* Three kinds of threads share the per-session state: the gateway's turns *)
(* (on_user_turn when he speaks, on_reply when she has answered), the      *)
(* ticker (tick_once every 15 s) and the timers they arm (_fire).  A timer *)
(* waits, generates -- one more model turn, under no lock -- and only then *)
(* puts its text in the outbox, which the console polls.  The policy is    *)
(* asked when the timer is armed and not again when it speaks.             *)
(*                                                                         *)
(* Time is relative: ages since she spoke and since he spoke, in units of  *)
(* no particular length.                                                   *)
(***************************************************************************)
EXTENDS Integers, Sequences, FiniteSets

CONSTANTS
    Session,      \* conversations (open tabs)
    Note,         \* reminders and watches on the board
    Watch,        \* the notes that are watches
    Timer,        \* timers that can be alive together (a bound)
    MaxChain,     \* kairos.max_chain
    Cooldown,     \* kairos.cooldown_s
    MaxPerHour,   \* kairos.max_per_hour
    Hour,         \* 3600 s
    CheckinIdle,  \* kairos.checkin_idle_s
    NudgeLines,   \* how many notes a reminder names: notes[:3]
    MaxLag,       \* how long a tick's reflection can take (a bound)
    Armed         \* the overlaps a run lets happen

Overlaps == {"tick_in_turn",  \* a tick's pass and a turn of his overlap
             "speak_over",    \* he speaks while she is already generating
             "refire",        \* a watch that fired is looked at again
             "restart"}       \* the gateway is restarted

Nobody == "nobody"

ASSUME SchedulerShape ==
    /\ IsFiniteSet(Note) /\ Watch \subseteq Note
    /\ IsFiniteSet(Timer) /\ Nobody \notin Timer
    /\ MaxChain \in Nat /\ Cooldown \in Nat /\ MaxPerHour \in Nat
    /\ Hour \in Nat \ {0} /\ CheckinIdle \in Nat /\ MaxLag \in Nat /\ NudgeLines \in Nat
    /\ Cooldown <= Hour
    /\ Armed \subseteq Overlaps

VARIABLES
    chain,    \* TurnState.chain, up to MaxChain: only that comparison reads it
    spoken,   \* TurnState.spoken_times, as ages, oldest first
    idle,     \* time since TurnState.last_user_at, up to IdleCap
    reply,    \* _LAST: how her last reply ended
    turn,     \* is a turn of his being answered?
    timer,    \* the threads running _fire
    slot,     \* _TIMERS, with the entries whose thread has ended left out
    tick,     \* the ticker's pass
    note,     \* the board: due_at reached, raised, done
    outbox,   \* _OUTBOX: the notes told and not yet polled
    chat,     \* history: remarks other than reminders since he spoke
    said,     \* history: how often each note was told, up to 2
    heard     \* history: the notes the console has shown

vars == <<chain, spoken, idle, reply, turn, timer, slot, tick, note, outbox,
          chat, said, heard>>

Actions == {"remind", "muse", "continue", "check_in"}
Endings == {"none", "said", "asked"}
IdleCap == CheckinIdle + MaxLag
AgeCap == Hour + MaxLag

Free == [phase |-> "free", s |-> Nobody, act |-> "silent", notes |-> {}]
Resting == [phase |-> "rest", due |-> {}, insight |-> FALSE, lag |-> 0,
            todo |-> {}, seen |-> [s \in Session |-> "none"]]
Fresh == [due |-> FALSE, raised |-> FALSE, done |-> FALSE]

(* Oldest first. *)
Sorted(q) == \A j, k \in 1..Len(q) : j <= k => q[j] >= q[k]

TimerType == [phase : {"free", "armed", "generating", "marking"},
              s : Session \cup {Nobody}, act : Actions \cup {"silent"}, notes : SUBSET Note]
TickType == [phase : {"rest", "think", "look"}, due : SUBSET Note, insight : BOOLEAN,
             lag : 0..MaxLag, todo : SUBSET Session, seen : [Session -> Endings]]
NoteType == [due : BOOLEAN, raised : BOOLEAN, done : BOOLEAN]

SpeechOK ==
    /\ chain \in [Session -> 0..MaxChain]
    /\ spoken \in [Session -> Seq(0..AgeCap)]
    /\ \A s \in Session : Sorted(spoken[s])
    /\ idle \in [Session -> 0..IdleCap]
    /\ reply \in [Session -> Endings]
    /\ turn \in [Session -> BOOLEAN]
    /\ chat \in [Session -> 0..(MaxChain + 1)]

(* A timer at work has something to say, and one that reminds has notes to *)
(* name, as _arm's callers pass them.                                      *)
TimersOK ==
    /\ timer \in [Timer -> TimerType]
    /\ \A i \in Timer : /\ timer[i].phase = "free" <=> timer[i] = Free
                        /\ timer[i].act = "silent" <=> timer[i] = Free
                        /\ timer[i].act = "remind" <=> timer[i].notes # {}
                        /\ timer[i] # Free => timer[i].s \in Session
    /\ slot \in [Session -> Timer \cup {Nobody}]

BoardOK ==
    /\ note \in [Note -> NoteType]
    /\ outbox \in [Session -> SUBSET Note]
    /\ said \in [Note -> 0..2]
    /\ heard \subseteq Note

TypeOK == SpeechOK /\ TimersOK /\ tick \in TickType /\ BoardOK

Init ==
    /\ chain = [s \in Session |-> 0] /\ spoken = [s \in Session |-> << >>]
    /\ idle = [s \in Session |-> 0] /\ reply = [s \in Session |-> "none"]
    /\ turn = [s \in Session |-> FALSE]
    /\ timer = [i \in Timer |-> Free] /\ slot = [s \in Session |-> Nobody]
    /\ tick = Resting
    /\ note = [n \in Note |-> Fresh]
    /\ outbox = [s \in Session |-> {}]
    /\ chat = [s \in Session |-> 0] /\ said = [n \in Note |-> 0] /\ heard = {}

-----------------------------------------------------------------------------
(* The policy: decide().  lag is how old the caller's clock reading is.    *)

LastAge(s) == spoken[s][Len(spoken[s])]

Cooling(s, lag) == spoken[s] # << >> /\ LastAge(s) - lag < Cooldown

(* Ages come oldest first, so the ones under b follow all the others. *)
Aged(q, b) == Cardinality({j \in 1..Len(q) : q[j] >= b})
Newer(q, b) == SubSeq(q, Aged(q, b) + 1, Len(q))

Recent(s, lag) == Newer(spoken[s], Hour + lag)

Capped(s, lag) == Len(Recent(s, lag)) >= MaxPerHour

(* The bounds a reminder does not obey. *)
Waits(s, ending) == chain[s] >= MaxChain \/ ending = "asked"

(* Faulty: reminders obey the chain limit and the question rule too. *)
DecideMannersFirst(s, lag, ending, due, insight, low, roll) ==
    IF Cooling(s, lag) \/ Capped(s, lag) \/ Waits(s, ending) THEN "silent"
    ELSE IF due # {} THEN "remind"
    ELSE "silent"

(* low: the eot margin is under continue_margin.  roll: checkin_chance. *)
Decide(s, lag, ending, due, insight, low, roll) ==
    IF Cooling(s, lag) \/ Capped(s, lag) THEN "silent"
    ELSE IF due # {} THEN "remind"
    ELSE IF Waits(s, ending) THEN "silent"
    ELSE IF insight THEN "muse"
    ELSE IF low THEN "continue"
    ELSE IF idle[s] - lag >= CheckinIdle /\ roll THEN "check_in"
    ELSE "silent"

(* notes.due() *)
DueOn(board) == {n \in Note : board[n].due /\ ~board[n].raised /\ ~board[n].done}

-----------------------------------------------------------------------------
(* The timers. *)

Alive(s) == slot[s] # Nobody
Cleared(i) == [s \in Session |-> IF slot[s] = i THEN Nobody ELSE slot[s]]

(* _arm: the timer takes the session's slot, whatever was in it. *)
Arm(s, act, due) ==
    \E i \in Timer :
        /\ timer[i] = Free
        /\ timer' = [timer EXCEPT ![i] =
             [phase |-> "armed", s |-> s, act |-> act,
              notes |-> IF act = "remind" THEN due ELSE {}]]
        /\ slot' = [slot EXCEPT ![s] = i]

ArmUnlessSilent(s, act, due) ==
    IF act = "silent" THEN UNCHANGED <<timer, slot>> ELSE Arm(s, act, due)

(* Faulty: the reminder is marked when the timer fires, before she speaks. *)
FireMarks(i) ==
    /\ timer[i].phase = "armed"
    /\ timer' = [timer EXCEPT ![i].phase = "generating"]
    /\ note' = [n \in Note |-> IF n \in timer[i].notes
                               THEN [note[n] EXCEPT !.raised = TRUE] ELSE note[n]]
    /\ UNCHANGED <<chain, spoken, idle, reply, turn, slot, tick, outbox, chat, said, heard>>

(* _fire begins: the delay is over and generate() is called. *)
Fire(i) ==
    /\ timer[i].phase = "armed"
    /\ timer' = [timer EXCEPT ![i].phase = "generating"]
    /\ UNCHANGED <<chain, spoken, idle, reply, turn, slot, tick, note, outbox,
                   chat, said, heard>>

(* generate() failed, or worth_saying() dropped what came of it. *)
Dropped(i) ==
    /\ timer[i].phase = "generating"
    /\ timer' = [timer EXCEPT ![i] = Free]
    /\ slot' = Cleared(i)
    /\ UNCHANGED <<chain, spoken, idle, reply, turn, tick, note, outbox, chat,
                   said, heard>>

NoteSpoke(s) ==
    /\ chain' = [chain EXCEPT ![s] = IF @ < MaxChain THEN @ + 1 ELSE @]
    /\ spoken' = [spoken EXCEPT ![s] = Append(Newer(@, Hour), 0)]

(* The notes a reminder names: remind_nudge, and the plain text said in    *)
(* its place when she says nothing, take the first NudgeLines of them.     *)
Named(notes) == {t \in SUBSET notes :
                    /\ Cardinality(t) <= NudgeLines
                    /\ t # notes => Cardinality(t) = NudgeLines}

(* note_spoke and the append to the outbox, under the lock. *)
Speak(i) ==
    LET s == timer[i].s  remind == timer[i].act = "remind" IN
    /\ timer[i].phase = "generating"
    /\ NoteSpoke(s)
    /\ \E told \in Named(timer[i].notes) :
         /\ outbox' = [outbox EXCEPT ![s] = @ \cup told]
         /\ said' = [n \in Note |-> IF n \in told /\ said[n] < 2
                                    THEN said[n] + 1 ELSE said[n]]
    /\ chat' = [chat EXCEPT ![s] = IF remind \/ @ > MaxChain THEN @ ELSE @ + 1]
    /\ timer' = [timer EXCEPT ![i] = IF remind THEN [@ EXCEPT !.phase = "marking"] ELSE Free]
    /\ slot' = IF remind THEN slot ELSE Cleared(i)
    /\ UNCHANGED <<idle, reply, turn, tick, note, heard>>

(* mark_raised for every note of the timer, once the text is in the outbox. *)
MarkRaised(i) ==
    /\ timer[i].phase = "marking"
    /\ note' = [n \in Note |-> IF n \in timer[i].notes
                               THEN [note[n] EXCEPT !.raised = TRUE] ELSE note[n]]
    /\ timer' = [timer EXCEPT ![i] = Free]
    /\ slot' = Cleared(i)
    /\ UNCHANGED <<chain, spoken, idle, reply, turn, tick, outbox, chat, said, heard>>

-----------------------------------------------------------------------------
(* The gateway's turns. *)

Generating(s) == \E i \in Timer : timer[i].s = s /\ timer[i].phase \in {"generating", "marking"}

(* on_user_turn: her chain resets and a timer that still waits is called   *)
(* off; one that has fired is only forgotten.                              *)
OnUserTurn(s) ==
    /\ ~turn[s]
    /\ Generating(s) => "speak_over" \in Armed
    /\ tick.phase # "rest" => "tick_in_turn" \in Armed
    /\ turn' = [turn EXCEPT ![s] = TRUE]
    /\ chain' = [chain EXCEPT ![s] = 0] /\ chat' = [chat EXCEPT ![s] = 0]
    /\ idle' = [idle EXCEPT ![s] = 0]
    /\ timer' = [i \in Timer |-> IF i = slot[s] /\ timer[i].phase = "armed"
                                 THEN Free ELSE timer[i]]
    /\ slot' = [slot EXCEPT ![s] = Nobody]
    /\ UNCHANGED <<spoken, reply, tick, note, outbox, said, heard>>

(* on_reply: her answer is kept for the ticker, and the policy is asked. *)
OnReply(s, ending, low, roll) ==
    LET due == DueOn(note) IN
    /\ turn[s]
    /\ turn' = [turn EXCEPT ![s] = FALSE]
    /\ reply' = [reply EXCEPT ![s] = ending]
    /\ ArmUnlessSilent(s, Decide(s, 0, ending, due, FALSE, low, roll), due)
    /\ UNCHANGED <<chain, spoken, idle, tick, note, outbox, chat, said, heard>>

(* The turn failed or her answer was empty: on_reply is not called. *)
NoReply(s) ==
    /\ turn[s]
    /\ turn' = [turn EXCEPT ![s] = FALSE]
    /\ UNCHANGED <<chain, spoken, idle, reply, timer, slot, tick, note, outbox,
                   chat, said, heard>>

-----------------------------------------------------------------------------
(* The ticker. *)

(* tick_once starts.  One stale watch is looked at and, if it fires, is a  *)
(* due reminder from now on; the due notes are read; then reflect_tick may *)
(* take a whole model turn before the sessions are looked at.              *)
TickBegins(fired, insight) ==
    /\ tick.phase = "rest"
    /\ (\E s \in Session : turn[s]) => "tick_in_turn" \in Armed
    /\ \A w \in fired : ~note[w].done /\ (note[w].due => "refire" \in Armed)
    /\ note' = [n \in Note |-> IF n \in fired
                               THEN [note[n] EXCEPT !.due = TRUE, !.raised = FALSE]
                               ELSE note[n]]
    /\ tick' = [Resting EXCEPT !.phase = "think", !.insight = insight, !.due = DueOn(note')]
    /\ UNCHANGED <<chain, spoken, idle, reply, turn, timer, slot, outbox, chat, said, heard>>

(* "sessions = list(_LAST.items())" *)
TickLooks ==
    /\ tick.phase = "think"
    /\ tick' = [tick EXCEPT !.phase = "look", !.seen = reply,
                            !.todo = {s \in Session : reply[s] # "none"}]
    /\ UNCHANGED <<chain, spoken, idle, reply, turn, timer, slot, note, outbox,
                   chat, said, heard>>

(* Faulty: a session with a timer alive is not passed over. *)
TickDecisionBlind(s, roll) ==
    Decide(s, tick.lag, tick.seen[s], tick.due, tick.insight, FALSE, roll)

(* A session with a timer alive is passed over. *)
TickDecision(s, roll) ==
    IF Alive(s) THEN "silent"
    ELSE Decide(s, tick.lag, tick.seen[s], tick.due, tick.insight, FALSE, roll)

(* The loop's body; after a reminder or a musing the pass is over. *)
TickSession(s, roll) ==
    LET act == TickDecision(s, roll) IN
    /\ tick.phase = "look" /\ s \in tick.todo
    /\ ArmUnlessSilent(s, act, tick.due)
    /\ tick' = [tick EXCEPT !.todo = IF act \in {"remind", "muse"} THEN {} ELSE @ \ {s}]
    /\ UNCHANGED <<chain, spoken, idle, reply, turn, note, outbox, chat, said, heard>>

TickEnds ==
    /\ tick.phase = "look" /\ tick.todo = {}
    /\ tick' = Resting
    /\ UNCHANGED <<chain, spoken, idle, reply, turn, timer, slot, note, outbox,
                   chat, said, heard>>

-----------------------------------------------------------------------------
(* The board, the console, the clock and the process. *)

ComesDue(n) ==
    /\ n \notin Watch /\ ~note[n].due
    /\ note' = [note EXCEPT ![n].due = TRUE]
    /\ UNCHANGED <<chain, spoken, idle, reply, turn, timer, slot, tick, outbox,
                   chat, said, heard>>

(* He ticks the note off, or takes it from the board. *)
NoteDone(n) ==
    /\ ~note[n].done
    /\ note' = [note EXCEPT ![n].done = TRUE]
    /\ UNCHANGED <<chain, spoken, idle, reply, turn, timer, slot, tick, outbox,
                   chat, said, heard>>

(* drain() *)
Drain(s) ==
    /\ outbox[s] # {}
    /\ heard' = heard \cup outbox[s]
    /\ outbox' = [outbox EXCEPT ![s] = {}]
    /\ UNCHANGED <<chain, spoken, idle, reply, turn, timer, slot, tick, note, chat, said>>

Older(q) == Newer([j \in 1..Len(q) |-> q[j] + 1], AgeCap)

(* A unit of this clock is long against the writes of mark_raised. *)
Elapse ==
    /\ \A i \in Timer : timer[i].phase # "marking"
    /\ tick.phase # "rest" => tick.lag < MaxLag
    /\ spoken' = [s \in Session |-> Older(spoken[s])]
    /\ idle' = [s \in Session |-> IF idle[s] < IdleCap THEN idle[s] + 1 ELSE idle[s]]
    /\ tick' = [tick EXCEPT !.lag = IF tick.phase = "rest" THEN @ ELSE @ + 1]
    /\ UNCHANGED <<chain, reply, turn, timer, slot, note, outbox, chat, said, heard>>

(* The gateway stops and comes back: only the board is on disk. *)
Restart ==
    /\ "restart" \in Armed
    /\ chain' = [s \in Session |-> 0] /\ spoken' = [s \in Session |-> << >>]
    /\ idle' = [s \in Session |-> 0] /\ reply' = [s \in Session |-> "none"]
    /\ turn' = [s \in Session |-> FALSE]
    /\ timer' = [i \in Timer |-> Free] /\ slot' = [s \in Session |-> Nobody]
    /\ tick' = Resting
    /\ outbox' = [s \in Session |-> {}]
    /\ UNCHANGED <<note, chat, said, heard>>

Ticker ==
    \/ \E fired \in {{}} \cup {{w} : w \in Watch}, insight \in BOOLEAN :
          TickBegins(fired, insight)
    \/ TickLooks
    \/ \E s \in Session, roll \in BOOLEAN : TickSession(s, roll)
    \/ TickEnds

Firing(i) == Fire(i) \/ Dropped(i) \/ Speak(i) \/ MarkRaised(i)

Turns(s) ==
    \/ OnUserTurn(s)
    \/ \E ending \in {"said", "asked"}, low \in BOOLEAN, roll \in BOOLEAN :
          OnReply(s, ending, low, roll)
    \/ NoReply(s)

(* Every step of a gateway that stays up. *)
GatewayUp ==
    \/ \E i \in Timer : Firing(i)
    \/ \E s \in Session : Turns(s)
    \/ Ticker
    \/ \E n \in Note : ComesDue(n) \/ NoteDone(n)
    \/ \E s \in Session : Drain(s)
    \/ Elapse

Next == GatewayUp \/ Restart

Spec == Init /\ [][Next]_vars

(* The ticker thread and the timer threads keep running, time passes (SF,  *)
(* for the bound MaxLag stops it now and then) and the console polls.  He  *)
(* does not speak inside every delay, and the model does not fail every    *)
(* reminder: those two are assumptions about the world, and strong.        *)
Fairness ==
    /\ WF_vars(Ticker) /\ SF_vars(Elapse)
    /\ \A s \in Session : WF_vars(Drain(s))
    /\ \A i \in Timer : WF_vars(Firing(i)) /\ SF_vars(Fire(i)) /\ SF_vars(Speak(i))

(* The promise is made by a gateway that stays up: a restart between the   *)
(* telling and the console's poll loses the text.                          *)
FairSpec == Init /\ [][GatewayUp]_vars /\ Fairness

-----------------------------------------------------------------------------
(* Properties. *)

(* She makes at most MaxChain remarks of her own, reminders aside, between *)
(* two turns of his (decide's chain limit, note_spoke, note_user).         *)
ChainBound == \A s \in Session : chat[s] <= MaxChain

(* Two unprompted messages of a session, reminders included, are Cooldown  *)
(* apart when they are sent, not only when they are decided (decide's      *)
(* cooldown, _fire).                                                       *)
Spaced == \A s \in Session : \A j \in 1..(Len(spoken[s]) - 1) :
             spoken[s][j] - spoken[s][j + 1] >= Cooldown

(* No hour holds more than MaxPerHour unprompted messages of a session     *)
(* (decide's hourly cap, note_spoke's pruning).                            *)
HourCap == \A s \in Session : Len(Recent(s, 0)) <= MaxPerHour

(* She never adds a remark of her own, reminders aside, when her last      *)
(* reply asked him something (_asked_a_question, _LAST, _fire).            *)
QuestionRespectedStep ==
    \A s \in Session : chat'[s] > chat[s] => reply[s] # "asked"
QuestionRespected == [][QuestionRespectedStep]_vars

(* A note is told once (notes.due, mark_raised, tick_once's break).        *)
RemindOnce == \A n \in Note : said[n] <= 1

(* A note marked as raised, which notes.due will not offer again, is one   *)
(* she has told, however turns, ticks, generations and restarts overlap    *)
(* (_fire speaks before it marks; remind_nudge names what is marked).      *)
RaisedIsTold == \A n \in Note : note[n].raised => said[n] > 0

(* A note that is due while she has a conversation to speak in is shown    *)
(* to him, or he deals with it first (tick_once, decide, _fire, drain).    *)
PromiseKept == \A n \in Note :
    note[n].due /\ (\E s \in Session : reply[s] # "none") ~> n \in heard \/ note[n].done

-----------------------------------------------------------------------------
(* The parts of the inductive invariants behind these properties. *)

(* A note she never told can be marked only in a reminder that was full.   *)
ToldOrCrowded(n) == said[n] > 0 \/ Cardinality({m \in Note : said[m] > 0}) >= NudgeLines

MarkedIsTold ==
    /\ \A n \in Note : note[n].raised => ToldOrCrowded(n)
    /\ \A i \in Timer : timer[i].phase = "marking" =>
          \A n \in timer[i].notes : ToldOrCrowded(n)

(* When nothing overlaps a session has one timer at most, its slot says    *)
(* which, and neither a turn of his nor a pass meets a reply it has not    *)
(* seen.                                                                   *)
OneTimer ==
    /\ \A i \in Timer : timer[i] # Free => slot[timer[i].s] = i
    /\ \A s \in Session : slot[s] # Nobody => timer[slot[s]] # Free /\ timer[slot[s]].s = s
    /\ \A s \in Session : turn[s] => slot[s] = Nobody /\ tick.phase = "rest"
    /\ tick.phase = "look" => tick.seen = reply

(* What decide() answered when the timer was armed holds until it speaks. *)
MaySpeak(s, act) ==
    /\ spoken[s] # << >> => LastAge(s) >= Cooldown
    /\ Len(Recent(s, 0)) < MaxPerHour
    /\ act # "remind" => chain[s] < MaxChain /\ reply[s] # "asked"

StillMay == \A i \in Timer :
    timer[i].phase \in {"armed", "generating"} => MaySpeak(timer[i].s, timer[i].act)

ChatInChain == \A s \in Session : chat[s] <= chain[s]

CalmInv == TypeOK /\ OneTimer /\ StillMay /\ ChatInChain /\ Spaced /\ HourCap

(* One conversation, and a cooldown at all. *)
OneTab == Cooldown > 0 /\ \A s, u \in Session : s = u

(* She spoke after the pass began. *)
SpokeSince(lag) == \A s \in Session : spoken[s] # << >> /\ LastAge(s) <= lag

(* A told note is marked or about to be, nobody is on the way to tell it   *)
(* again, and a pass that read it before is still in the cooldown.         *)
ToldOnce ==
    /\ \A n \in Note : said[n] > 0 =>
          /\ said[n] = 1 /\ note[n].due
          /\ \/ note[n].raised
             \/ \E i \in Timer : timer[i].phase = "marking" /\ n \in timer[i].notes
    /\ \A i \in Timer : \A n \in timer[i].notes :
          /\ note[n].due
          /\ timer[i].phase \in {"armed", "generating"} => said[n] = 0
    /\ (\E i \in Timer : timer[i].phase = "marking") => SpokeSince(0)
    /\ tick.phase # "rest" => \A n \in tick.due :
          note[n].due /\ (said[n] > 0 => SpokeSince(tick.lag))

OnceInv == CalmInv /\ ToldOnce
=============================================================================
