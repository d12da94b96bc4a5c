------------------------------ MODULE Gateway -------------------------------
(***************************************************************************)
(* A chat turn in the gateway (harness/server/app.py).  The console's turn *)
(* (_native_chat_sse) works on the canonical transcript of its session and *)
(* hands the model to a worker thread; the OpenAI turn (_agent_text) works *)
(* on the request's own messages.  Both take his words at the top of the   *)
(* turn, tell the scheduler that he spoke, and capture facts at the end.   *)
(***************************************************************************)
EXTENDS Naturals, Sequences, SequencesExt, FiniteSets

CONSTANTS Console,     \* the consoles' session ids
          MaxSessions, \* _CHAT_SESSIONS_MAX
          MaxGateTurns, \* bound: turns ever taken
          MaxFaultTurns, \* bound: turns ever taken when they may overlap, raise
                       \* or be kept in other words
          GateFaults   \* sets of faults, one chosen per behaviour:
                       \* "overlap" a turn arrives before the last one ended
                       \* "gone"    a client leaves a stream it is reading
                       \* "raise"   the model's call raises
                       \* "scene"   he is inside a role-play scene
                       \* "note"    recall finds something to say
                       \* "rejoin"  what is kept of her answer is not what she
                       \*           wrote last: stripped of blanks, or joined
                       \*           to prose that is in a call's row already

ASSUME GateAssumption == MaxGateTurns \in Nat /\ MaxSessions \in Nat \ {0}

VARIABLES gturn,     \* per turn: where its handler is and what it holds
          work,      \* per turn: its worker thread
          lists,     \* the message lists, by the turn that made them
          table,     \* _CHAT_SESSIONS, oldest first
          client,    \* the history each console sends back
          cache,     \* per list: what the daemon has read and written for it
          question,  \* M._QUESTION
          captured,  \* what remember() was handed: the turn and the message
          spoke,     \* turns the scheduler was told of
          replied,   \* turns whose reply it was given
          gfaults

gvars == <<gturn, work, lists, table, client, cache, question, captured, spoke, replied, gfaults>>

TurnId == 1..MaxGateTurns
Msg(kind, n) == [kind |-> kind, n |-> n, noted |-> FALSE]
NoMsg == Msg("none", 0)
NoTurn == [pc |-> "none", path |-> "none", s |-> "none", l |-> 0, human |-> NoMsg, scene |-> FALSE, said |-> FALSE]
Begun == {n \in TurnId : gturn[n].pc # "none"}
InFlight == {n \in Begun : gturn[n].pc # "end" \/ work[n] = "on"}

GatewayInit ==
    /\ gturn = [n \in TurnId |-> NoTurn] /\ work = [n \in TurnId |-> "none"]
    /\ lists = [n \in TurnId |-> <<>>] /\ table = <<>>
    /\ client = [s \in Console |-> <<>>] /\ cache = [n \in TurnId |-> <<>>]
    /\ question = NoMsg /\ captured = {} /\ spoke = {} /\ replied = {}
    /\ gfaults \in GateFaults

\* Role "user" is a slot in the template: a tool's output wears it too.
RoleUser(m) == m.kind \in {"user", "tool"}
LastUser(l) == SelectLastInSeq(l, RoleUser)

\* _human_turn: the newest message in the user's role.
HumanTurn(l) == IF LastUser(l) = 0 THEN NoMsg ELSE l[LastUser(l)]

-----------------------------------------------------------------------------
\* A console sends its own history with his new words; an OpenAI client is one
\* whose messages are this turn's list.
Arrive(n, s, path) ==
    /\ n = Cardinality(Begun) + 1 /\ (gfaults \intersect {"overlap", "raise", "rejoin"} # {} => n <= MaxFaultTurns)
    /\ "overlap" \notin gfaults => \A m \in InFlight : gturn[m].pc = "end" /\ "gone" \in gfaults
    /\ client' = [client EXCEPT ![s] = Append(@, Msg("user", n))]
    /\ gturn' = [gturn EXCEPT ![n] = [NoTurn EXCEPT !.pc = IF path = "console" THEN "gate" ELSE "arm",
                                                    !.path = path, !.s = s, !.l = n]]
    /\ lists' = IF path = "console" THEN lists ELSE [lists EXCEPT ![n] = client'[s]]
    /\ UNCHANGED <<work, table, cache, question, captured, spoke, replied, gfaults>>

\* The warm gate: the load-time prefill sets it whether it succeeds or fails, and
\* a turn waits for it 900 seconds at most.
Gate(n) == /\ gturn[n].pc = "gate" /\ gturn' = [gturn EXCEPT ![n].pc = "transcript"]
           /\ UNCHANGED <<work, lists, table, client, cache, question, captured, spoke, replied, gfaults>>

\* sid in _CHAT_SESSIONS: where the session's entry is, 0 when it has none.
SessionAt(tab, s) == SelectInSeq(tab, LAMBDA e : e.s = s)

\* _session_transcript: a known session's list takes the newest user message, an
\* unknown one's is seeded from the console, and pushes the oldest session out.
Canon(n) ==
    LET s == gturn[n].s
        at == SessionAt(table, s)
        room == IF Len(table) < MaxSessions THEN table ELSE Tail(table)
    IN IF at # 0
       THEN /\ lists' = [lists EXCEPT ![table[at].l] = Append(@, Msg("user", n))]
            /\ table' = table
            /\ gturn' = [gturn EXCEPT ![n].pc = "pre", ![n].l = table[at].l]
       ELSE /\ lists' = [lists EXCEPT ![n] = client[s]]
            /\ table' = Append(room, [s |-> s, l |-> n])
            /\ gturn' = [gturn EXCEPT ![n].pc = "pre", ![n].l = n]

Transcript(n) == /\ gturn[n].pc = "transcript" /\ Canon(n)
                 /\ UNCHANGED <<work, client, cache, question, captured, spoke, replied, gfaults>>

Ended(n) == [gturn EXCEPT ![n].pc = "end"]
Tell(n) == client' = [client EXCEPT ![gturn[n].s] = Append(@, Msg("her", n))]

\* The pre-turn spine: nothing, a note on the newest user message, or a decline
\* that ends the turn before the model is reached.  The note becomes part of that
\* message: who takes his words later takes it with them.
PreTurn(n) ==
    LET l == gturn[n].l
        u == LastUser(lists[l]) IN
    /\ gturn[n].pc = "pre"
    /\ \/ gturn' = [gturn EXCEPT ![n].pc = "arm"] /\ UNCHANGED <<lists, client>>
       \/ /\ "note" \in gfaults /\ gturn' = [gturn EXCEPT ![n].pc = "arm"]
          /\ lists' = [lists EXCEPT ![l][u].noted = TRUE] /\ UNCHANGED client
       \/ /\ "note" \in gfaults /\ gturn' = Ended(n) /\ Tell(n)
          /\ lists' = [lists EXCEPT ![l] = Append(@, Msg("her", n))]
    /\ UNCHANGED <<work, table, cache, question, captured, spoke, replied, gfaults>>

\* _arm_turn: his words for this turn, handed to the memory lane.
ArmTurn(n) ==
    LET human == HumanTurn(lists[gturn[n].l]) IN
    /\ gturn[n].pc = "arm"
    /\ question' = human
    /\ gturn' = [gturn EXCEPT ![n].pc = "scene", ![n].human = human]
    /\ spoke' = IF gturn[n].path = "openai" THEN spoke \union {n} ELSE spoke
    /\ UNCHANGED <<work, lists, table, client, cache, captured, replied, gfaults>>

\* _roleplay_pre_turn: no scene, an offer instead of the model, or the standing
\* prompt at the front of the list and the director's note before his words.
EnterScene(n) ==
    LET l == gturn[n].l
        last == Len(lists[l]) IN
    /\ gturn[n].pc = "scene"
    /\ \/ /\ gturn' = [gturn EXCEPT ![n].pc = "hear"]
          /\ UNCHANGED <<lists, client>>
       \/ /\ "scene" \in gfaults /\ gturn' = Ended(n) /\ Tell(n)
          /\ lists' = [lists EXCEPT ![l] = Append(@, Msg("her", n))]
       \/ /\ "scene" \in gfaults /\ gturn' = [gturn EXCEPT ![n].pc = "hear", ![n].scene = TRUE]
          /\ lists' = [lists EXCEPT ![l] = <<Msg("prompt", n)>> \o SubSeq(@, 1, last - 1)
                                           \o <<Msg("director", n), @[last]>>]
          /\ UNCHANGED client
    /\ UNCHANGED <<work, table, cache, question, captured, spoke, replied, gfaults>>

\* on_user_turn on the console's path.
Hear(n) == spoke' = spoke \union {n}

Run(n) == /\ gturn[n].pc = "hear" /\ Hear(n)
          /\ gturn' = [gturn EXCEPT ![n].pc = "stream"] /\ work' = [work EXCEPT ![n] = "on"]
          /\ UNCHANGED <<lists, table, client, cache, question, captured, replied, gfaults>>

-----------------------------------------------------------------------------
\* Faulty: her turns go into a copy of the list.
PutCopy(n, ms) == UNCHANGED lists

\* mutate_messages: the worker appends to the list the session keeps.  (On the
\* OpenAI path agent_chat keeps a list of its own; nobody reads it after the turn.)
Put(n, ms) == lists' = [lists EXCEPT ![gturn[n].l] = @ \o ms]

\* The daemon reads the list and writes her next message after it.
Generate(n, m) == cache' = [cache EXCEPT ![gturn[n].l] = Append(lists[gturn[n].l], m)]

\* One tool round: her call, and the result in the user's role.
Round(n) ==
    /\ work[n] = "on" /\ ~gturn[n].said
    /\ gturn' = [gturn EXCEPT ![n].said = TRUE]
    /\ Generate(n, Msg("call", n)) /\ Put(n, <<Msg("call", n), Msg("tool", n)>>)
    /\ UNCHANGED <<work, table, client, question, captured, spoke, replied, gfaults>>

\* What is kept of her answer: the deltas of all rounds joined and stripped, nothing
\* when that is empty.
Final(n) == {<<Msg("her", n)>>} \union
            (IF "rejoin" \in gfaults THEN {<<>>, <<Msg("joined", n)>>} ELSE {})

Answer(n) ==
    /\ work[n] = "on" /\ Generate(n, Msg("her", n))
    /\ \E final \in Final(n) :
          /\ Put(n, final) /\ work' = [work EXCEPT ![n] = IF final = <<>> THEN "mute" ELSE "done"]
    /\ UNCHANGED <<gturn, table, client, question, captured, spoke, replied, gfaults>>

\* Faulty: the sentinel is put only when the agent returned.
FailSilent(n) == "hung"

\* The worker's last act is the sentinel, whatever happened before it.
Fail(n) == "failed"

\* The call raises before the daemon is reached, in the middle of what she writes, or in
\* the tool she called.
Raise(n) ==
    /\ "raise" \in gfaults /\ work[n] = "on" /\ work' = [work EXCEPT ![n] = Fail(n)]
    /\ \/ UNCHANGED <<lists, cache>>
       \/ Generate(n, Msg("part", n)) /\ UNCHANGED lists
       \/ ~gturn[n].said /\ Generate(n, Msg("call", n)) /\ Put(n, <<Msg("call", n)>>)
    /\ UNCHANGED <<gturn, table, client, question, captured, spoke, replied, gfaults>>

\* Faulty: whatever the list's last user message was is captured.
CapturableAny(m) == m # NoMsg

\* _capture_after_turn refuses a tool round's text.
Capturable(m) == m # NoMsg /\ m.kind # "tool"

\* The stream ends: capture, then the reply to the scheduler, then [DONE].  What was
\* streamed before a failure is a reply too, an empty one is none.  On the OpenAI path
\* a call that raised leaves through the caller's handler.
Done(n) ==
    LET g == gturn[n]
        failed == work[n] = "failed" IN
    /\ g.pc = "stream" /\ work[n] \in {"done", "mute", "failed"}
    /\ gturn' = Ended(n)
    /\ captured' = IF Capturable(g.human) /\ (g.path = "console" \/ ~failed)
                   THEN captured \union {[n |-> n, msg |-> g.human]} ELSE captured
    /\ \/ /\ work[n] = "done" \/ (failed /\ g.path = "console")
          /\ replied' = replied \union {n} /\ Tell(n)
       \/ work[n] # "done" /\ UNCHANGED <<replied, client>>
    /\ UNCHANGED <<work, lists, table, cache, question, spoke, gfaults>>

\* The client closes the stream: the handler dies at its next write, and the
\* worker goes on without it.
Gone(n) ==
    /\ "gone" \in gfaults /\ gturn[n].pc = "stream" /\ gturn[n].path = "console"
    /\ gturn' = Ended(n)
    /\ UNCHANGED <<work, lists, table, client, cache, question, captured, spoke, replied, gfaults>>

GatewayNext ==
    \E n \in TurnId :
        \/ \E s \in Console, path \in {"console", "openai"} : Arrive(n, s, path)
        \/ Gate(n) \/ Transcript(n) \/ PreTurn(n) \/ ArmTurn(n) \/ EnterScene(n) \/ Run(n)
        \/ Round(n) \/ Answer(n) \/ Raise(n) \/ Done(n) \/ Gone(n)

Serve(n) == \/ Gate(n) \/ Transcript(n) \/ PreTurn(n) \/ ArmTurn(n) \/ EnterScene(n) \/ Run(n)
            \/ Answer(n) \/ Raise(n) \/ Done(n)
GatewaySpec == GatewayInit /\ [][GatewayNext]_gvars /\ \A n \in TurnId : WF_gvars(Serve(n))

-----------------------------------------------------------------------------
\* What capture is given is never a tool's output, even when an older turn's
\* worker is still writing into the transcript this turn reads.
NotHerOwn == \A c \in captured : c.msg.kind = "user"

\* Alone in the gateway, a turn captures what he said in that turn.
HisTurn == "overlap" \notin gfaults /\ "gone" \notin gfaults => \A c \in captured : c.msg.n = c.n

\* Only where recall spoke is anything added to his words.
NothingElse == \A c \in captured : c.msg.noted => "note" \in gfaults

\* A reply reaches the scheduler only after the turn did, whichever door it took.
HeardFirst == replied \subseteq spoke

\* What he says is what is heard: capture is given his words of that turn and never a
\* tool's output, though an older turn's worker still writes into the transcript, and
\* the scheduler hears of his turn before it hears of the reply.  "And nothing else"
\* (_human_turn's words) holds as long as recall is silent: a note is appended to his
\* message before _arm_turn takes it, so capture is then given the recalled facts with
\* his words (_native_chat_sse, _capture_after_turn, on_user_turn).
HearsHim == NotHerOwn /\ HisTurn /\ NothingElse /\ HeardFirst

\* What the next prompt has to keep of what the daemon holds: all of it, or all but what
\* it wrote last when that may have been put back in other words, or not at all.
ToKeep(held) == IF gfaults \intersect {"rejoin", "raise"} = {} THEN held ELSE Front(held)

\* Every prompt of a session extends what the daemon already holds for it: no turn of the
\* conversation, hers, his or a tool's, is dropped or rewritten before the daemon's last
\* words, and those neither, unless they were stripped, joined to the prose of an earlier
\* round or broken off (_session_transcript, mutate_messages, reply_parts).
ExtendsStep ==
    gfaults \intersect {"overlap", "gone", "scene"} = {} =>
        \A l \in TurnId : cache'[l] # cache[l] => IsPrefix(ToKeep(cache[l]), cache'[l])
Extends == [][ExtendsStep]_gvars

\* Every turn ends.
EveryTurnEnds == \A n \in TurnId : gturn[n].pc = "gate" ~> gturn[n].pc = "end"
=============================================================================
