------------------------------ MODULE MCServing ------------------------------
(***************************************************************************)
(* The parts that owe somebody an end, checked side by side: the chats'    *)
(* event stream, the inference router, the gateway's turn, the warm gate   *)
(* and the task queue.  They share no state that their modules keep, so a  *)
(* behaviour has one part in focus and the others rest at their initial    *)
(* state.  The stream is looked at twice: one chat with all its faults,    *)
(* and two chats at a channel of one place.  Its properties StreamWhole,   *)
(* AbortReported and DecodeEnds hold of every behaviour as they stand.     *)
(***************************************************************************)
EXTENDS ChatStream, FiniteSets

VARIABLE focus

Pair == INSTANCE ChatStream WITH
    Chat <- {"c1", "c2"}, ChanCap <- 1, MaxTokens <- 1, KairosOn <- FALSE,
    StallArmed <- FALSE, AbortArmed <- FALSE

VARIABLES running, worker, queue, seq, call, wire, future, last_kairos, faults

Router == INSTANCE Inference WITH
    Caller <- {"a", "b"}, Worker <- {"v", "w"}, Priority <- {0},
    MaxSeq <- 1, MaxText <- 1, RouterFaults <- {"race", "stop"}

VARIABLES gturn, work, lists, table, client, cache, question, captured, spoke, replied, gfaults

Gate == INSTANCE Gateway WITH
    Console <- {"s1", "s2"}, MaxSessions <- 1, MaxGateTurns <- 2, MaxFaultTurns <- 2,
    GateFaults <- {{}, {"gone"}, {"raise"}, {"overlap"}}

VARIABLES prewarm, warm, busy, resident, chat, other, history, aux, paid, hot, wgfaults

Warm == INSTANCE WarmGate WITH
    MaxTurns <- 2, MaxWait <- 3, MaxAux <- 1,
    GateFaults <- {{}, {"off"}, {"down"}, {"fails"}, {"slow"}, {"openai"}}

VARIABLES tasks, posts, runner, tick, spent, goal, tfaults

Queue == INSTANCE TaskQueue WITH
    Task <- {"t1", "t2"}, MaxSteps <- 3, MaxPosts <- 2,
    TaskFaults <- {{}, {"resume"}, {"raise"}, {"crash", "resume"}}

rv == <<running, worker, queue, seq, call, wire, future, last_kairos, faults>>
gv == <<gturn, work, lists, table, client, cache, question, captured, spoke, replied, gfaults>>
wv == <<prewarm, warm, busy, resident, chat, other, history, aux, paid, hot, wgfaults>>
tv == <<tasks, posts, runner, tick, spent, goal, tfaults>>

servingVars == <<focus, vars, rv, gv, wv, tv>>

ServingInit ==
    /\ focus \in {"stream", "pair", "router", "gate", "warm", "queue"}
    /\ IF focus = "pair" THEN Pair!Init ELSE Init
    /\ Router!RouterInit /\ (focus # "router" => faults = {})
    /\ Gate!GatewayInit  /\ (focus # "gate" => gfaults = {})
    /\ Warm!WarmInit     /\ (focus # "warm" => wgfaults = {})
    /\ Queue!TaskInit    /\ (focus # "queue" => tfaults = {})

StreamStep == focus = "stream" /\ Next /\ UNCHANGED <<focus, rv, gv, wv, tv>>
PairStep   == focus = "pair" /\ Pair!Next /\ UNCHANGED <<focus, rv, gv, wv, tv>>
RouterStep == focus = "router" /\ Router!RouterNext /\ UNCHANGED <<focus, vars, gv, wv, tv>>
GateStep   == focus = "gate" /\ Gate!GatewayNext /\ UNCHANGED <<focus, vars, rv, wv, tv>>
WarmStep   == focus = "warm" /\ Warm!WarmNext /\ UNCHANGED <<focus, vars, rv, gv, tv>>
QueueStep  == focus = "queue" /\ Queue!TaskNext /\ UNCHANGED <<focus, vars, rv, gv, wv>>

ServingNext == StreamStep \/ PairStep \/ RouterStep \/ GateStep \/ WarmStep \/ QueueStep

(* Each part's own fairness, asked of the behaviours it is in focus of. *)
ServingFairness ==
    /\ \A c \in Chat : /\ WF_vars(focus = "stream" /\ Turn(c))
                        /\ WF_vars(focus = "stream" /\ Drain(c))
    /\ \A c \in {"c1", "c2"} : /\ WF_vars(focus = "pair" /\ Pair!Turn(c))
                                /\ WF_vars(focus = "pair" /\ Pair!Drain(c))
    /\ \A c \in {"a", "b"} : WF_rv(focus = "router" /\ Router!Submitting(c))
    /\ \A w \in {"v", "w"} : /\ WF_rv(focus = "router" /\ Router!Take(w))
                             /\ WF_rv(focus = "router" /\ Router!Ending(w))
    /\ \A n \in Gate!TurnId : WF_gv(focus = "gate" /\ Gate!Serve(n))
    /\ WF_wv(focus = "warm" /\ (\/ Warm!StartFill \/ Warm!EndFill
                                \/ Warm!EndSlowFill \/ Warm!NoDaemon))
    /\ WF_wv(focus = "warm" /\ (Warm!Wait \/ Warm!Reply \/ Warm!Done))
    /\ SF_wv(focus = "warm" /\ Warm!Turn)
    /\ WF_wv(focus = "warm" /\ Warm!OpenAIEnds)
    /\ SF_tv(focus = "queue" /\ Queue!Wake(FALSE))
    /\ WF_tv(focus = "queue" /\ Queue!Advance)
    /\ WF_tv(focus = "queue" /\ Queue!Rest) /\ WF_tv(focus = "queue" /\ Queue!Exhaust)

ServingSpec == ServingInit /\ [][ServingNext]_servingVars /\ ServingFairness

-----------------------------------------------------------------------------
\* The router: a request that is in the queue is answered in the end, whether its caller
\* still waits or gave up, unless the router is stopped first (submit, the worker's
\* loop).
Answered == Router!Answered

\* The gateway: every turn ends, though a tool or the model raises, the client goes away
\* or a second turn of the session runs beside it (_native_chat_sse, _agent_text).
EveryTurnEnds == Gate!EveryTurnEnds

\* The warm gate: a failed, slow or switched-off prewarm does not wedge the gateway,
\* every turn that comes to the gate runs (_prewarm, _WARM.wait).
GateOpens == Warm!GateOpens

\* The task queue: a posted goal comes to an honest end when its steps do not raise. Its
\* steps never pass the budget over all resumptions, the disk is never more than one
\* step behind, a run that was given a verify() is done only where the goal was met, and
\* no later task is taken up first (run_task, advance_pending_task).
HonestEnd ==
    /\ Queue!Ends
    /\ Queue!InOrder
    /\ Queue!DoneIsDone
    /\ [](focus = "queue" => Queue!BudgetHolds)

\* The stream: two chats whose clients drain or close both get their turn behind the
\* Mutex and return, and one chat's decode loop ends whatever its client does, half-open
\* included (run_kvdecode_chat, send_deadline).
ChatsEnd ==
    /\ \A c \in {"c1", "c2"} :
          (focus = "pair" /\ stage[c] = "wait") ~> (focus # "pair" \/ stage[c] = "gone")
    /\ DecodeEnds
=============================================================================
