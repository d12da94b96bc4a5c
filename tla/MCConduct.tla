--------------------------- MODULE MCConduct --------------------------------
(***************************************************************************)
(* A turn and what runs beside it, part by part: the router, the gateway's *)
(* handler, the warm gate, the tool loop and its toolbox, the governor,    *)
(* the guards on what she repeats, her voice and her persona, a scene, the *)
(* scheduler, the board, the launcher and the progress page.  The parts    *)
(* share no variable of their modules, so a behaviour is a behaviour of    *)
(* one of them.  The scheduler, the launcher, the scene, the board, the    *)
(* tool loop, the gateway, the persona and the router keep their own       *)
(* variables; those of the others are in the slots s1, s2, ...             *)
(***************************************************************************)
EXTENDS Kairos, Launch, Scene, Board, ToolLoop, Gateway, Persona, Inference

VARIABLES focus,    \* the part this behaviour is about
          s1, s2, s3, s4, s5, s6, s7, s8, s9, s10, s11    \* the slots of its variables

\* The knobs of a scene (harness/tuning/registry.py).
KnobDefault == [enabled |-> 1, max_heat |-> 7]
KnobLo == [enabled |-> 0, max_heat |-> 0]
KnobHi == [enabled |-> 1, max_heat |-> 7]

Warm == INSTANCE WarmGate WITH
    MaxTurns <- 2, MaxWait <- 3, MaxAux <- 2,
    GateFaults <- {{}, {"off"}, {"down"}, {"fails"}, {"slow"}, {"old"}, {"openai"}, {"aside"}},
    prewarm <- s1, warm <- s2, busy <- s3, resident <- s4, chat <- s5, other <- s6,
    history <- s7, aux <- s8, paid <- s9, hot <- s10, wgfaults <- s11

Box == INSTANCE Toolbox WITH
    Voices <- {"", "warm", "dry"}, ToolboxFaults <- {{}, {"clash"}},
    persona <- s1, up <- s2, toolCache <- s3, sysCache <- s4, sent <- s5, index <- s6,
    prompt <- s7, result <- s8, tbfaults <- s9

Gov == INSTANCE Governor WITH
    Caller <- {"a", "b"}, Cooldown <- 1, MaxTime <- 1, MaxReply <- 1,
    pipe <- s1, gcall <- s2, used <- s3, gclock <- s4, kept <- s5, ran <- s6

Gov1 == INSTANCE Governor WITH
    Caller <- {"a"}, Cooldown <- 1, MaxTime <- 1, MaxReply <- 2,
    pipe <- s1, gcall <- s2, used <- s3, gclock <- s4, kept <- s5, ran <- s6

Repeats == INSTANCE SelfRepeat WITH
    MaxRows <- 6,
    hist <- s1, door <- s2

Ear == INSTANCE Voice WITH
    Win <- 2, Token <- 4, Pad <- 3, MaxSamples <- 12, MaxTokens <- 3, MaxLabels <- 4,
    MaxRows <- 2,
    artifacts <- s1, loaded <- s2, clip <- s3, vturn <- s4, frames <- s5, kept <- s6,
    transcript <- s7

Due == INSTANCE DueTime WITH
    Hours <- {0, 1, 8, 9, 12, 20, 23, 24, 60, 100, 120, 155, 167},
    at <- s1

Page == INSTANCE Progress WITH
    Poller <- {"p", "q"}, TTL <- 1, MaxTime <- 2, Window <- 1,
    ProgressFaults <- {{}, {"git"}, {"overlap"}, {"race"}, {"long"}, {"override"}},
    clock <- s1, commits <- s2, override <- s3, cache <- s4, req <- s5, shown <- s6,
    prfaults <- s7

Again == INSTANCE Kairos WITH
    Session <- {"s1"}, Note <- {"n1"}, Watch <- {"n1"}, Timer <- {"t1"}, MaxChain <- 1,
    Cooldown <- 1, MaxPerHour <- 1, Hour <- 1, CheckinIdle <- 0, NudgeLines <- 3,
    MaxLag <- 0, Armed <- {"tick_in_turn", "speak_over", "refire", "restart"}

Calm == INSTANCE Kairos WITH
    Session <- {"s1"}, Note <- {"n1", "n2"}, Watch <- {"n2"}, Timer <- {"t1", "t2"},
    MaxChain <- 1, Cooldown <- 1, MaxPerHour <- 1, Hour <- 2, CheckinIdle <- 1,
    NudgeLines <- 3, MaxLag <- 1, Armed <- {}

slots == <<s1, s2, s3, s4, s5, s6, s7, s8, s9, s10, s11>>
conductVars == <<focus, slots, vars, lvars, kvars, scvars, bvars, tlvars, gvars, pvars, rvars>>

\* A part of n variables leaves the slots above the n-th empty.
Empty11 == s11 = 0
Empty10 == s10 = 0 /\ Empty11
Empty9 == s9 = 0 /\ Empty10
Empty8 == s8 = 0 /\ Empty9
Empty7 == s7 = 0 /\ Empty8
Empty6 == s6 = 0 /\ Empty7
Empty5 == s5 = 0 /\ Empty6
Empty4 == s4 = 0 /\ Empty5
Empty3 == s3 = 0 /\ Empty4
Empty2 == s2 = 0 /\ Empty3
Empty1 == s1 = 0 /\ Empty2

Above1 == <<s2, s3, s4, s5, s6, s7, s8, s9, s10, s11>>
Above2 == <<s3, s4, s5, s6, s7, s8, s9, s10, s11>>
Above6 == <<s7, s8, s9, s10, s11>>
Above7 == <<s8, s9, s10, s11>>
Above9 == <<s10, s11>>

\* The parts that keep their own variables; the scheduler is looked at three times.
Owners == {"overlaps", "again", "calm", "boot", "scene", "notes", "loop", "gate", "persona", "router"}

SlotInit ==
    \/ focus \in Owners /\ Empty1
    \/ focus = "warm" /\ Warm!WarmInit
    \/ focus = "box" /\ Box!ToolboxInit /\ Empty10
    \/ focus = "governor" /\ Gov!GovernorInit /\ Empty7
    \/ focus = "stages" /\ Gov1!GovernorInit /\ Empty7
    \/ focus = "repeats" /\ Repeats!SelfRepeatInit /\ Empty3
    \/ focus = "voice" /\ Ear!VoiceInit /\ Empty8
    \/ focus = "due" /\ Due!DueTimeInit /\ Empty2
    \/ focus = "page" /\ Page!ProgressInit /\ Empty8

\* A part that keeps its own variables and is not in focus rests at its initial state.
ConductInit ==
    /\ SlotInit
    /\ IF focus = "again" THEN Again!Init ELSE IF focus = "calm" THEN Calm!Init ELSE Init
    /\ LaunchInit  /\ (focus # "boot" => lfaults = {})
    /\ SceneInit   /\ BoardInit
    /\ LoopInit    /\ (focus # "loop" => path = "stream")
    /\ GatewayInit /\ (focus # "gate" => gfaults = {})
    /\ PersonaInit /\ (focus # "persona" => pfaults = {})
    /\ RouterInit  /\ (focus # "router" => faults = {})

SlotNext ==
    \/ focus = "warm" /\ Warm!WarmNext
    \/ focus = "box" /\ Box!ToolboxNext /\ UNCHANGED Above9
    \/ focus = "governor" /\ Gov!GovernorNext /\ UNCHANGED Above6
    \/ focus = "stages" /\ Gov1!GovernorNext /\ UNCHANGED Above6
    \/ focus = "repeats" /\ Repeats!SelfRepeatNext /\ UNCHANGED Above2
    \/ focus = "voice" /\ Ear!VoiceNext /\ UNCHANGED Above7
    \/ focus = "due" /\ Due!DueTimeNext /\ UNCHANGED Above1
    \/ focus = "page" /\ Page!ProgressNext /\ UNCHANGED Above7

KairosNext ==
    \/ focus = "overlaps" /\ Next
    \/ focus = "again" /\ Again!Next
    \/ focus = "calm" /\ Calm!Next

ConductNext ==
    /\ UNCHANGED focus
    /\ \/ SlotNext /\ UNCHANGED <<vars, lvars, kvars, scvars, bvars, tlvars, gvars, pvars, rvars>>
       \/ KairosNext /\ UNCHANGED <<slots, lvars, kvars, scvars, bvars, tlvars, gvars, pvars, rvars>>
       \/ focus = "boot" /\ LaunchNext /\ UNCHANGED <<slots, vars, kvars, scvars, bvars, tlvars, gvars, pvars, rvars>>
       \/ focus = "scene" /\ SceneNext /\ UNCHANGED <<slots, vars, lvars, bvars, tlvars, gvars, pvars, rvars>>
       \/ focus = "notes" /\ BoardNext /\ UNCHANGED <<slots, vars, lvars, kvars, scvars, tlvars, gvars, pvars, rvars>>
       \/ focus = "loop" /\ LoopNext /\ UNCHANGED <<slots, vars, lvars, kvars, scvars, bvars, gvars, pvars, rvars>>
       \/ focus = "gate" /\ GatewayNext /\ UNCHANGED <<slots, vars, lvars, kvars, scvars, bvars, tlvars, pvars, rvars>>
       \/ focus = "persona" /\ PersonaNext /\ UNCHANGED <<slots, vars, lvars, kvars, scvars, bvars, tlvars, gvars, rvars>>
       \/ focus = "router" /\ RouterNext /\ UNCHANGED <<slots, vars, lvars, kvars, scvars, bvars, tlvars, gvars, pvars>>

ConductSpec == ConductInit /\ [][ConductNext]_conductVars

-----------------------------------------------------------------------------
\* What the other parts promise. A part states in its module which faults a promise is
\* held under.

\* What is kept for a later turn is paid for once, still true, and repeats nothing. No
\* turn or continuation pays for the persona, the tools or an earlier turn again
\* (_prewarm, _continue), the streamed turns of one process send one system prompt
\* (_SYS_CACHE), and an auxiliary call leaves the conversation where it is (/v1/oneshot).
\* No long reply follows itself, through blank rows and on every door, a short one recurs
\* once at most, and on the OpenAI paths not even its words in other order
\* (repeat_guard.py, _arm_self_repeat_ban). Every loud window of an accepted clip is in
\* the frames in whole, a word said twice is heard twice, and the instruction that
\* introduces a clip is in no row (native.py, ear.py, service.py). The progress page
\* serves nothing older than its TTL however scans overlap, and does not go back
\* (progress_json).
KeptForLater ==
    /\ [](/\ focus = "warm" => Warm!PaidOnce /\ Warm!ContinuationExtends
          /\ focus = "repeats" => Repeats!NoParrot /\ Repeats!TwiceAtMost /\ Repeats!NoEcho
          /\ focus = "voice" => Ear!NothingSpokenCut /\ Ear!HeardAsSaid /\ Ear!InstructionStaysOut
          /\ focus = "page" => Page!Fresh)
    /\ [][/\ focus = "warm" => Warm!AuxTouchesNothingStep
          /\ focus = "box" => Box!PrefixStillStep
          /\ focus = "page" => Page!NeverBackStep]_conductVars

\* Tools run as she was shown them and when they may, and only the reply comes back. The
\* loop: a call is made only by a generation that saw all results before it, and never
\* the same one with the same result four times (run_with_tools). The toolbox: a native
\* tool keeps its name, and what is shown is what the executor holds (bridge.py). The
\* governor: a skill runs only after its prerequisite returned, an aborted call asks no
\* model (skill.py, run_pre), neither tag nor scaffolding nor special token is handed
\* back, in whatever order the stages were added and although one raised, and a tag the
\* model emitted has reached the persona by then (run_post, personality_state.py).
ToolsAsShown ==
    /\ [](/\ NoRut
          /\ focus = "box" => Box!NativeWins /\ Box!ShownIsRun
          /\ focus = "governor" => /\ Gov!PrerequisiteRan /\ Gov!AbortIsFinal
                                   /\ Gov!NothingLeaks /\ Gov!TagsReachPersona
          /\ focus = "stages" => /\ Gov1!PrerequisiteRan /\ Gov1!AbortIsFinal
                                 /\ Gov1!NothingLeaks /\ Gov1!TagsReachPersona)
    /\ [][OneAtATimeStep]_conductVars

\* Unasked she keeps to the policy when nothing overlaps: not more than MaxChain remarks
\* between his turns, a cooldown between two messages, the hourly cap, each note told
\* once, and no remark after a reply that asked him something (decide, note_spoke,
\* _fire, tick_once). The time she reminds him at is never one that has gone, and is on
\* the weekday and in the half of the day he named (duetime.py).
PolicyKept ==
    /\ [](/\ focus = "calm" => Calm!OnceInv /\ Calm!ChainBound /\ Calm!Spaced /\ Calm!HourCap /\ Calm!RemindOnce
          /\ focus = "due" => Due!NeverGone /\ Due!NextOne /\ Due!HalfDay)
    /\ [][focus = "calm" => Calm!QuestionRespectedStep]_conductVars
=============================================================================
