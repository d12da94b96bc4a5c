--------------------------- MODULE MCMemory ---------------------------------
(***************************************************************************)
(* What is kept, part by part: the registry and its upkeep, what is        *)
(* admitted to it and what is recalled from it, the clock of attention,    *)
(* reflection, the knowledge store, the OKF memory, the world block, the   *)
(* spine's record, the repair tools, the invariance test and the weights   *)
(* on disk.  The parts share no variable of their modules, so a behaviour  *)
(* is a behaviour of one of them: of the registry and of the spine's       *)
(* record, the door and the invariance test with the variables of their    *)
(* modules, and of any other with its variables in the slots s1, s2, ...   *)
(***************************************************************************)
EXTENDS Registry, Spine, Admission, Invariance

VARIABLES focus,    \* the part this behaviour is about
          s1, s2, s3, s4, s5, s6, s7, s8, s9, s10, s11    \* the slots of its variables

\* Three rows, and no fault.
Reg3 == INSTANCE Registry WITH MaxRows <- 3, RegistryFaults <- {{}}

Seam == INSTANCE Recall WITH
    Word <- {"w1", "w2", "w3"}, NRows <- 2, TopK <- 2, MaxPairs <- 3,
    rows <- s1, index <- s2, daemon <- s3, holdoff <- s4, links <- s5, scan <- s6,
    law <- s7, said <- s8, listed <- s9

Tools == INSTANCE Repair WITH
    MaxAgain <- 1, Spoken <- {"old", "noise"}, MaxJobs <- 2,
    RepairFaults <- {{}, {"crash"}, {"renamed"}},
    reg <- s1, quar <- s2, bak <- s3, tool <- s4, done <- s5, again <- s6, marks <- s7,
    rpfaults <- s8

Here == INSTANCE Presence WITH
    Row <- {"r1", "r2"}, PerDay <- 2, MaxTime <- 6, MaxMentions <- 3,
    now <- s1, ledger <- s2, row <- s3

Think == INSTANCE Reflection WITH
    Fact <- {"f1", "f2"}, Belief <- {"b1", "b2"}, IdleS <- 2, CooldownS <- 3,
    MaxTime <- 9,
    rclock <- s1, evidence <- s2, beliefs <- s3, lastUser <- s4, lastReflect <- s5,
    lastEvidence <- s6, thought <- s7, read <- s8, said <- s9, woken <- s10, rhythm <- s11

Nexus == INSTANCE Knowledge WITH
    Ingester <- {"v"}, CacheSize <- 1, TTL <- 2, MaxTime <- 2, MaxEntries <- 1,
    KnowledgeFaults <- {{}},
    entries <- s1, qas <- s2, seen <- s3, ingest <- s4, query <- s5, vecs <- s6,
    hydrated <- s7, kclock <- s8, served <- s9, asked <- s10, kfaults <- s11

\* With failures, and a shorter time to live.
Nexus1 == INSTANCE Knowledge WITH
    Ingester <- {"v"}, CacheSize <- 1, TTL <- 1, MaxTime <- 1, MaxEntries <- 1,
    KnowledgeFaults <- {{"down"}, {"provider"}},
    entries <- s1, qas <- s2, seen <- s3, ingest <- s4, query <- s5, vecs <- s6,
    hydrated <- s7, kclock <- s8, served <- s9, asked <- s10, kfaults <- s11

Okf == INSTANCE OkfStore WITH
    Body <- {"a", "b"}, Writer <- {"v", "w"}, MaxAdds <- 3,
    OkfFaults <- {{}, {"race"}, {"crash"}, {"model"}},
    full <- s1, sum <- s2, lut <- s3, adding <- s4, adds <- s5, facts <- s6,
    filed <- s7, ofaults <- s8

Policy == INSTANCE OkfPolicy WITH
    Tok <- 1..5, TopK <- 1, MaxTexts <- 2,
    texts <- s1, options <- s2, front <- s3

Page == INSTANCE OkfPage WITH
    Key <- {"k1", "k2"}, Line <- {"h1", "h2"}, MaxPage <- 6,
    PageFaults <- {{}, {"marker"}},
    page <- s1, mine <- s2, shown <- s3, pgfaults <- s4

Ambient == INSTANCE World WITH
    WorldRow <- {"r1", "r2"}, MaxNights <- 2,
    wrows <- s1, block <- s2, journal <- s3, night <- s4

Pack == INSTANCE Repack WITH
    Weight <- {"w", "h"}, TiedHead <- "h", Align <- 4, Rows <- 1, MaxAbs <- 0,
    Block <- 2, Cols <- 3, Grid <- 3,
    ents <- s1, todo <- s2, data <- s3, end <- s4, out <- s5, file <- s6, vals <- s7

Code == INSTANCE Repack WITH
    Weight <- {"w"}, TiedHead <- "none", Align <- 4, Rows <- 1, MaxAbs <- 5, Block <- 2,
    Cols <- 3, Grid <- 3,
    ents <- s1, todo <- s2, data <- s3, end <- s4, out <- s5, file <- s6, vals <- s7

slots == <<s1, s2, s3, s4, s5, s6, s7, s8, s9, s10, s11>>
memoryVars == <<focus, slots, mvars, svars, advars, pts>>

\* A part of n variables leaves the slots above the n-th empty.
Empty11 == s11 = 0
Empty10 == s10 = 0 /\ Empty11
Empty9 == s9 = 0 /\ Empty10
Empty8 == s8 = 0 /\ Empty9
Empty7 == s7 = 0 /\ Empty8
Empty6 == s6 = 0 /\ Empty7
Empty5 == s5 = 0 /\ Empty6
Empty4 == s4 = 0 /\ Empty5
Empty3 == s3 = 0 /\ Empty4
Empty2 == s2 = 0 /\ Empty3
Empty1 == s1 = 0 /\ Empty2

Above2 == <<s3, s4, s5, s6, s7, s8, s9, s10, s11>>
Above3 == <<s4, s5, s6, s7, s8, s9, s10, s11>>
Above4 == <<s5, s6, s7, s8, s9, s10, s11>>
Above7 == <<s8, s9, s10, s11>>
Above8 == <<s9, s10, s11>>
Above9 == <<s10, s11>>

PartInit ==
    \/ focus \in {"registry", "calmreg", "spine", "door", "axis"} /\ Empty1
    \/ focus = "recall" /\ Seam!RecallInit /\ Empty10
    \/ focus = "repair" /\ Tools!RepairInit /\ Empty9
    \/ focus = "presence" /\ Here!PresenceInit /\ Empty4
    \/ focus = "reflect" /\ Think!ReflectionInit
    \/ focus = "nexus" /\ Nexus!KnowledgeInit
    \/ focus = "nexusdown" /\ Nexus1!KnowledgeInit
    \/ focus = "okf" /\ Okf!OkfInit /\ Empty9
    \/ focus = "policy" /\ Policy!OkfPolicyInit /\ Empty4
    \/ focus = "page" /\ Page!OkfPageInit /\ Empty5
    \/ focus = "world" /\ Ambient!WorldInit /\ Empty5
    \/ focus = "weights" /\ Pack!RepackInit /\ Empty8
    \/ focus = "codes" /\ Code!RepackInit /\ Empty8

\* A claim that says nothing: what the door rests at.
NoClaim == [frame |-> "none", subject |-> "it", mood |-> "plain", stative |-> FALSE, anchor |-> FALSE,
            secret |-> FALSE, person |-> FALSE, asserts |-> "his"]

\* A part that keeps its own variables rests at its initial state.
MemoryInit ==
    /\ PartInit /\ RegistryInit /\ SpineInit /\ AdmissionInit /\ InvarianceInit
    /\ focus # "registry" => rfaults = {}
    /\ focus # "spine" => spfaults = {} /\ mood = CHOOSE m \in Mood : TRUE
    /\ focus # "door" => claim = NoClaim

PartNext ==
    \/ focus = "recall" /\ Seam!RecallNext /\ UNCHANGED <<Above9>>
    \/ focus = "repair" /\ Tools!RepairNext /\ UNCHANGED <<Above8>>
    \/ focus = "presence" /\ Here!PresenceNext /\ UNCHANGED <<Above3>>
    \/ focus = "reflect" /\ Think!ReflectionNext
    \/ focus = "nexus" /\ Nexus!KnowledgeNext
    \/ focus = "nexusdown" /\ Nexus1!KnowledgeNext
    \/ focus = "okf" /\ Okf!OkfNext /\ UNCHANGED <<Above8>>
    \/ focus = "policy" /\ Policy!OkfPolicyNext /\ UNCHANGED <<Above3>>
    \/ focus = "page" /\ Page!OkfPageNext /\ UNCHANGED <<Above4>>
    \/ focus = "world" /\ Ambient!WorldNext /\ UNCHANGED <<Above4>>
    \/ focus = "weights" /\ Pack!RepackNext /\ UNCHANGED <<Above7>>
    \/ focus = "codes" /\ Code!RepackNext /\ UNCHANGED <<Above7>>

MemoryNext ==
    /\ UNCHANGED focus
    /\ \/ PartNext /\ UNCHANGED <<mvars, svars, advars, pts>>
       \/ focus = "registry" /\ RegistryNext /\ UNCHANGED <<slots, svars, advars, pts>>
       \/ focus = "calmreg" /\ Reg3!RegistryNext /\ UNCHANGED <<slots, svars, advars, pts>>
       \/ focus = "spine" /\ SpineNext /\ UNCHANGED <<slots, mvars, advars, pts>>
       \/ focus = "door" /\ AdmissionNext /\ UNCHANGED <<slots, mvars, svars, pts>>
       \/ focus = "axis" /\ InvarianceNext /\ UNCHANGED <<slots, mvars, svars, advars>>

MemorySpec == MemoryInit /\ [][MemoryNext]_memoryVars

-----------------------------------------------------------------------------
\* What the parts promise together. A part states in its module which faults a promise
\* is held under.

\* What is retired, overruled or old is not served. No answer, listing or account of a
\* source holds a retired row, whose line is still in the index
\* (search_memories_ranked_rows); an answer holds no conclusion of hers beside testimony
\* that covers it (testimony_wins), and with the law armed none that live testimony
\* covers, found or not (enforce); a hydrated prompt was found less than the TTL ago and
\* the embedding cache keeps its bound (nexus_prompt.py, embedding_service.py); the world
\* block stays as it is between refreshes, and one taken up afresh shows no row retired
\* or covered by then (render_world).
NothingStale ==
    /\ [](/\ focus = "recall" => Seam!DeadStay /\ Seam!OneBreath /\ Seam!LawCovers
          /\ focus = "nexus" => Nexus!FreshEnough /\ Nexus!CacheBounded
          /\ focus = "nexusdown" => Nexus1!FreshEnough /\ Nexus1!CacheBounded)
    /\ [][focus = "world" => Ambient!PrefixStillStep /\ Ambient!FreshIsTrueStep]_memoryVars


\* What is settled is not taken up again. A pair is put to the machine once
\* (slots.scan); within a process she does not think again about what she has thought
\* about, and a conclusion is told once for each time it is stored (reflect_tick,
\* insight); the model answers a question once (find_qa); a text that rebuilds what the
\* store holds still does after later entries (classify_body).
DecidedOnce ==
    /\ [](/\ focus = "recall" => Seam!AskedOnce
          /\ focus = "reflect" => Think!NoOwnExhaust /\ Think!ToldOnce
          /\ focus = "nexus" => Nexus!LearnedOnce)
    /\ [][focus = "policy" => Policy!RebuildStaysStep]_memoryVars

\* The clock of a silence runs on attended days: it counts no day he was away and misses
\* today at most, and time that passes while he is away makes nothing silent
\* (attended_days, silences).
AttentionRuns ==
    /\ [](focus = "presence" => Here!AttentionClock)
    /\ [][focus = "presence" => Here!AwayIsNotSilenceStep]_memoryVars

\* The repacked file is right. The loader's search never leads to another tensor's
\* bytes, in a file cut short either, and finds every tensor of a finished one; payloads
\* lie apart and aligned; what is read back is off by half the stored scale at most, or
\* by what the f16 rounding took from a clipped value (q4b_pack, the table of
\* repack_q4b.py).
WeightsRight ==
    /\ focus = "weights" => Pack!Findable /\ Pack!Apart /\ Pack!HalfAStep
    /\ focus = "codes" => Code!Findable /\ Code!Apart /\ Code!HalfAStep
=============================================================================
