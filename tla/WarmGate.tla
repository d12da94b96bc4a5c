------------------------------ MODULE WarmGate ------------------------------
(***************************************************************************)
(* The one resident session of the daemon and everybody who calls it: the  *)
(* load-time prefill (_prewarm) and the gate it opens, the console's turn  *)
(* that waits on the gate, the OpenAI surface's turn, the continuation     *)
(* that follows a reply (_kairos_after_turn), and the auxiliary calls      *)
(* (SPDaemonClient.oneshot) that have a cache of their own.                *)
(*                                                                         *)
(* A prompt is a sequence of blocks; a call pays for the blocks behind the *)
(* longest prefix its prompt shares with what is resident, and leaves its  *)
(* own prompt resident.  "tools" is the persona and the tool preamble, the *)
(* block of minutes.                                                       *)
(***************************************************************************)
EXTENDS Naturals, Sequences, FiniteSets, SequencesExt

CONSTANTS
    MaxTurns,       \* turns of the conversation
    MaxWait,        \* 900 s, in waits of 4 s
    MaxAux,         \* auxiliary calls
    GateFaults      \* sets of "off" (the profile does not prewarm), "down" (no daemon
                    \* while the prewarm looks for it), "fails" (its call raises), "slow"
                    \* (it outlasts a console turn's patience), "old" (the daemon has no
                    \* /v1/oneshot), "openai" (a turn comes in on the other surface),
                    \* "aside" (recall notes a turn, a turn has a tool round)

VARIABLES
    prewarm,        \* the thread: off, looking, filling, done
    warm,           \* _WARM
    busy,           \* whose call the daemon is serving; it serves one at a time
    resident,       \* the committed prompt
    chat,           \* the console's turn
    other,          \* the OpenAI surface's turn
    history,        \* the canonical transcript of the conversation
    aux,            \* auxiliary calls made
    paid,           \* what the last call of each caller paid for
    hot,            \* the prewarm's call has succeeded
    wgfaults

wgvars == <<prewarm, warm, busy, resident, chat, other, history, aux, paid, hot, wgfaults>>

Block(name) == <<name, 0>>
Msg(n) == <<"message", n>>
Noted(n) == <<"noted", n>>      \* his message with recall's note in it
Tool(n) == <<"tool", n>>        \* a tool round

\* What the console has of a transcript: neither notes nor tool rounds.
Shown(rows) ==
    LET plain == [i \in DOMAIN rows |-> IF rows[i][1] = "noted" THEN Msg(rows[i][2]) ELSE rows[i]]
    IN  SelectSeq(plain, LAMBDA row : row[1] # "tool")

Idle == [at |-> "idle", waited |-> 0]
Asker == {"prewarm", "chat", "continue", "aux", "openai"}

WarmInit ==
    /\ wgfaults \in GateFaults
    /\ prewarm = IF "off" \in wgfaults THEN "off" ELSE "looking"
    /\ warm = FALSE /\ busy = "none" /\ resident = <<>>
    /\ chat = Idle /\ other = Idle /\ history = <<>> /\ aux = 0
    /\ paid = [c \in Asker |-> {}] /\ hot = FALSE

-----------------------------------------------------------------------------
(* A call on the resident session                                          *)

\* The blocks a prompt costs, given what is resident.
Cost(prompt) ==
    LET shared == {n \in 0..Len(prompt) : n <= Len(resident)
                        /\ \A i \in 1..n : prompt[i] = resident[i]}
        lcp == CHOOSE n \in shared : \A m \in shared : m <= n
    IN  {prompt[i] : i \in (lcp + 1)..Len(prompt)}

Calls(c, prompt) ==
    /\ busy = "none" /\ busy' = c
    /\ paid' = [paid EXCEPT ![c] = Cost(prompt)]
    /\ resident' = prompt

System == <<Block("tools"), Block("coda")>>

-----------------------------------------------------------------------------
(* _prewarm                                                                *)

\* The wait for the daemon ends, with it up or after 120 tries; then the call.  Its
\* prompt has the preamble and not the coda.
StartFill ==
    /\ prewarm = "looking" /\ "down" \notin wgfaults
    /\ Calls("prewarm", <<Block("tools"), Block("hi")>>)
    /\ prewarm' = "filling"
    /\ UNCHANGED <<warm, chat, other, history, aux, hot, wgfaults>>

\* finally: _WARM.set(), whatever happened.
EndFill ==
    /\ prewarm = "filling" /\ "slow" \notin wgfaults
    /\ LET ok == "fails" \notin wgfaults IN
       /\ hot' = ok
       /\ resident' \in (IF ok THEN {resident} ELSE {resident, <<>>})
    /\ warm' = TRUE /\ prewarm' = "done" /\ busy' = "none"
    /\ UNCHANGED <<chat, other, history, aux, paid, wgfaults>>

\* The prewarm that outlasts everybody ends too.
EndSlowFill ==
    /\ prewarm = "filling" /\ "slow" \in wgfaults /\ chat.waited = MaxWait
    /\ warm' = TRUE /\ hot' = TRUE
    /\ prewarm' = "done" /\ busy' = "none"
    /\ UNCHANGED <<resident, chat, other, history, aux, paid, wgfaults>>

\* The daemon is not there: the call raises.
NoDaemon ==
    /\ prewarm = "looking" /\ "down" \in wgfaults
    /\ warm' = TRUE /\ prewarm' = "done"
    /\ UNCHANGED <<busy, resident, chat, other, history, aux, paid, hot, wgfaults>>

-----------------------------------------------------------------------------
(* The console's turn, and the continuation after it                       *)

Arrive ==
    /\ chat.at = "idle" /\ Len(Shown(history)) < 2 * MaxTurns
    /\ chat' = [at |-> "gate", waited |-> 0]
    /\ UNCHANGED <<prewarm, warm, busy, resident, other, history, aux, paid, hot, wgfaults>>

\* while not _WARM.wait(4.0): a heartbeat, and no more than 900 s.  A prewarm that is
\* not slow is over by then.
Wait ==
    /\ chat.at = "gate" /\ ~warm /\ chat.waited < MaxWait
    /\ prewarm \in {"off", "done"} \/ "slow" \in wgfaults \/ chat.waited < MaxWait - 1
    /\ chat' = [chat EXCEPT !.waited = @ + 1]
    /\ UNCHANGED <<prewarm, warm, busy, resident, other, history, aux, paid, hot, wgfaults>>

\* Faulty: the turn waits for the gate and for nothing else.
OpenGate == warm

PastGate == warm \/ chat.waited = MaxWait

Turn ==
    /\ chat.at = "gate" /\ PastGate
    /\ \E his \in {Msg(Len(history) + 1)} \cup
                   (IF "aside" \in wgfaults THEN {Noted(Len(history) + 1)} ELSE {}) :
          Calls("chat", System \o history \o <<his>>)
    /\ chat' = [chat EXCEPT !.at = "runs"]
    /\ UNCHANGED <<prewarm, warm, other, history, aux, hot, wgfaults>>

\* The turn ends: his words as the daemon read them, the tool round and her answer are
\* in the transcript.
Reply ==
    /\ chat.at = "runs"
    /\ \E rounds \in {<<>>} \cup (IF "aside" \in wgfaults THEN {<<Tool(Len(history) + 2)>>} ELSE {}) :
          /\ resident' = resident \o rounds
          /\ LET turn == history \o <<Last(resident)>> \o rounds
             IN  history' = Append(turn, Msg(Len(turn) + 1))
    /\ busy' = "none" /\ chat' = [chat EXCEPT !.at = "after"]
    /\ UNCHANGED <<prewarm, warm, other, aux, paid, hot, wgfaults>>

\* tools=None, never tools=[]: the continuation has the system block of every turn.
ContinueSystem == System

\* _continue, or not: body["messages"] is the console's history, which her answer and the
\* nudge are put behind.  Nothing of it goes into the transcript here.
Continue ==
    /\ chat.at = "after"
    /\ Calls("continue", ContinueSystem \o Shown(history) \o <<Block("nudge")>>)
    /\ chat' = [chat EXCEPT !.at = "continues"]
    /\ UNCHANGED <<prewarm, warm, other, history, aux, hot, wgfaults>>

Done ==
    /\ chat.at \in {"after", "continues"}
    /\ busy' = IF chat.at = "continues" THEN "none" ELSE busy
    /\ chat' = Idle
    /\ UNCHANGED <<prewarm, warm, resident, other, history, aux, paid, hot, wgfaults>>

-----------------------------------------------------------------------------
(* The other surface, and the auxiliary calls                              *)

\* _agent_text: no gate.
OpenAITurn ==
    /\ "openai" \in wgfaults /\ other.at = "idle" /\ other.waited = 0
    /\ Calls("openai", System \o <<Block("question")>>)
    /\ other' = [at |-> "runs", waited |-> 1]
    /\ UNCHANGED <<prewarm, warm, chat, history, aux, hot, wgfaults>>

OpenAIEnds ==
    /\ other.at = "runs"
    /\ other' = [other EXCEPT !.at = "idle"] /\ busy' = "none"
    /\ UNCHANGED <<prewarm, warm, resident, chat, history, aux, paid, hot, wgfaults>>

\* oneshot: its own cache, where the daemon knows the call; chat() where it answers 404.
Scratch == "old" \notin wgfaults

Oneshot ==
    /\ aux < MaxAux /\ prewarm \in {"off", "done"} /\ busy = "none"
    /\ aux' = aux + 1
    /\ IF Scratch THEN UNCHANGED <<resident, paid>>
       ELSE resident' = <<Block("judge")>> /\ paid' = [paid EXCEPT !["aux"] = Cost(<<Block("judge")>>)]
    /\ UNCHANGED <<prewarm, warm, busy, chat, other, history, hot, wgfaults>>

WarmNext ==
    \/ StartFill \/ EndFill \/ EndSlowFill \/ NoDaemon
    \/ Arrive \/ Wait \/ Turn \/ Reply \/ Continue \/ Done
    \/ OpenAITurn \/ OpenAIEnds \/ Oneshot

\* The prewarm is a thread and a request is a thread: each goes on while it can.  The
\* daemon serves every caller in the end (its Mutex is fair enough for two).
WarmSpec ==
    /\ WarmInit /\ [][WarmNext]_wgvars
    /\ WF_wgvars(StartFill \/ EndFill \/ EndSlowFill \/ NoDaemon)
    /\ WF_wgvars(Wait \/ Reply \/ Done) /\ SF_wgvars(Turn)
    /\ WF_wgvars(OpenAIEnds)

-----------------------------------------------------------------------------
\* The prefix is paid for once: after the load-time prefill has succeeded, no turn on
\* either surface and no continuation pays for the persona and the tools again, unless an
\* old daemon has made an auxiliary call a chat.
PaidOnce ==
    hot /\ prewarm = "done" /\ (aux = 0 \/ "old" \notin wgfaults) =>
        \A c \in {"chat", "continue"} : busy = c => Block("tools") \notin paid[c]

\* What the console has as the daemon read it: all, or all before the first row that it
\* does not have.
InCommon == LongestCommonPrefix({history, Shown(history)})

\* A continuation costs the conversation nothing that the console knows as the daemon
\* does: neither it nor the turn after it pays for an earlier turn before the first note
\* or tool round, for the whole conversation when there is none ("a STRICT EXTENSION of
\* the committed KV", _continue).  From the first note or tool round on both pay again,
\* and that is left out, as is what others do to the session in between: an old daemon's
\* auxiliary call, the other surface, a prewarm that a turn did not wait for.
ContinuationExtends ==
    busy \in {"chat", "continue"} /\ history # <<>> /\ {"old", "openai", "slow"} \cap wgfaults = {} =>
        paid[busy] \cap {InCommon[i] : i \in 1..Len(InCommon)} \subseteq {Last(history)}

\* The resident cache is not read, not written and not evicted (client.py): an auxiliary
\* call leaves the conversation where it is, unless the daemon has no /v1/oneshot.
AuxTouchesNothingStep ==
    aux' # aux /\ "old" \notin wgfaults => resident' = resident
AuxTouchesNothing == [][AuxTouchesNothingStep]_wgvars

\* A failed prewarm does not wedge the gateway: every turn that comes to the gate runs.
GateOpens == (chat.at = "gate") ~> (chat.at = "runs")

\* The load-time prefill gates ALL chat traffic (_prewarm's docstring): no turn is served
\* before it is over.  It does not hold: only the console's path looks at the gate.
GatesAll ==
    prewarm \in {"looking", "filling"} => busy \in {"none", "prewarm"}
=============================================================================
