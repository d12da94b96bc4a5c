---------------------------- MODULE ConductProofs ----------------------------
(***************************************************************************)
(* The boot, the scene and the board.  Nobody writes her memory beside the *)
(* spine in a stack that serve.py alone starts, and a full boot leaves     *)
(* nothing of what it found, for any number of processes that die and      *)
(* broken boots.                                                           *)
(* No rung of the heat ladder is reached early, a stop ends the scene in   *)
(* its own turn, and the knobs in force are those last saved: for every    *)
(* deck, every set of knobs and values, and however the operator's saves   *)
(* and the gateway's deaths fall in between.  The board keeps what it      *)
(* acknowledged, for any number of notes, however the panel, her tools and *)
(* the ticker alternate on the one _AUTHOR, and wherever the process dies  *)
(* between the load, the temporary file and its os.replace.                *)
(***************************************************************************)
EXTENDS Launch, Scene, Board, FiniteSetTheorems, TLAPS

Env == [writer : BOOLEAN, forget : BOOLEAN, spine : BOOLEAN]

\* An environment of one hand: what build_env lets through.
OneHand(e) == ~(e.spine /\ Writes(e))

\* Where a run has stopped the old daemons, or found them to be its own.
Mine == {"bounce", "gateway", "wait_daemon", "wait_gateway", "prewarm", "ready"}

\* A calm stack: one environment for every process that runs, the one of the boot
\* once the old daemons are stopped.
OneEnvironment ==
    /\ boot.pc # "rest" => OneHand(boot.env)
    /\ gateway.alive => OneHand(gateway.env) /\ \A d \in daemons : d.env = gateway.env
    /\ boot.pc = "daemon" => daemons = {} /\ ~gateway.alive
    /\ boot.pc \in {"wait_daemon", "gateway"} => ~gateway.alive
    /\ boot.pc \in Mine => \A d \in daemons : d.env = boot.env

Pcs == {"rest", "stop", "daemon"} \cup Mine
BootTyped == boot \in [pc : Pcs, env : Env, full : BOOLEAN]

\* The processes are records; what a process is numbered is not asked.
Shaped ==
    /\ {"alive", "env"} \subseteq DOMAIN gateway
    /\ \A d \in daemons : "env" \in DOMAIN d

CalmInv == BootTyped /\ Shaped /\ (lfaults = {} => OneEnvironment)

-----------------------------------------------------------------------------
\* What build_env refuses and pins leaves one hand: a profile with a writer of the
\* daemon's and the spine's authority is refused, and the retirers are pinned off.
LEMMA EnvOneHand ==
    ASSUME NEW p \in Profile, NEW sh \in Shell, ~Refused(p)
    PROVE  BuildEnv(p, sh) \in Env /\ OneHand(BuildEnv(p, sh))
BY DEF Profile, Refused, BuildEnv, Pinned, Env, OneHand, Writes

LEMMA InitCalm == LaunchInit => CalmInv
BY DEF LaunchInit, CalmInv, BootTyped, Shaped, OneEnvironment, Rest, NoEnv, NoGateway, Env, Pcs, Mine

LEMMA StepShaped ==
    ASSUME Shaped, [LaunchNext]_lvars
    PROVE  Shaped'
<1>1. CASE daemons' = daemons /\ gateway' = gateway
  BY <1>1 DEF Shaped
<1>2. CASE StopAll \/ StopGateway
  BY <1>2 DEF StopAll, StopGateway, Shaped, NoGateway
<1>3. CASE StartDaemon \/ StartGateway
  BY <1>3 DEF StartDaemon, StartGateway, Shaped
<1>4. ASSUME NEW sh \in Shell, NEW writer \in BOOLEAN, Controller(sh, writer)
      PROVE  Shaped'
  BY <1>4 DEF Controller, Shaped
<1>5. CASE ControllerStop
  BY <1>5 DEF ControllerStop, Shaped
<1>6. ASSUME NEW d \in daemons, DaemonUp(d) \/ DaemonDies(d)
      PROVE  Shaped'
  BY <1>6 DEF DaemonUp, DaemonDies, Shaped
<1>7. CASE GatewayRuns
  BY <1>7 DEF GatewayRuns, Shaped, NoGateway
<1> QED BY <1>1, <1>2, <1>3, <1>4, <1>5, <1>6, <1>7
        DEF LaunchNext, lvars, Boot, PortAnswers, TimedOut, BootEnds

LEMMA StepCalm ==
    ASSUME CalmInv, [LaunchNext]_lvars
    PROVE  CalmInv'
<1> USE DEF CalmInv
<1>0. Shaped'
  BY StepShaped
<1>1. ASSUME NEW p \in Profile, NEW sh \in Shell, NEW bounce \in BOOLEAN, Boot(p, sh, bounce)
      PROVE  CalmInv'
  <2> DEFINE e == BuildEnv(p, sh)
  <2>1. e \in Env /\ OneHand(e)
    BY <1>1, EnvOneHand DEF Boot
  <2>2. /\ boot' = [pc |-> IF bounce THEN "bounce" ELSE "stop", env |-> e, full |-> ~bounce]
        /\ bounce => "other_profile" \in lfaults \/ \A d \in daemons : d.env = e
        /\ daemons' = daemons /\ gateway' = gateway /\ lfaults' = lfaults
    BY <1>1 DEF Boot
  <2> HIDE DEF e
  <2>3. BootTyped'
    BY <2>1, <2>2 DEF BootTyped, Pcs, Mine
  <2>4. ASSUME lfaults' = {} PROVE OneEnvironment'
    BY <2>1, <2>2, <2>4 DEF OneEnvironment, Mine
  <2> QED BY <1>0, <2>3, <2>4
<1>2. CASE StopAll
  <2>1. BootTyped'
    BY <1>2 DEF StopAll, BootTyped, Pcs
  <2>2. ASSUME lfaults' = {} PROVE OneEnvironment'
    BY <1>2, <2>2 DEF StopAll, BootTyped, OneEnvironment, NoGateway, Mine
  <2> QED BY <1>0, <2>1, <2>2
<1>3. CASE StopGateway
  <2>1. BootTyped'
    BY <1>3 DEF StopGateway, BootTyped, Pcs, Mine
  <2>2. ASSUME lfaults' = {} PROVE OneEnvironment'
    BY <1>3, <2>2 DEF StopGateway, BootTyped, OneEnvironment, NoGateway, Mine
  <2> QED BY <1>0, <2>1, <2>2
<1>4. CASE StartDaemon
  <2>1. BootTyped'
    BY <1>4 DEF StartDaemon, BootTyped, Pcs, Mine
  <2>2. ASSUME lfaults' = {} PROVE OneEnvironment'
    BY <1>4, <2>2 DEF StartDaemon, BootTyped, OneEnvironment, Mine
  <2> QED BY <1>0, <2>1, <2>2
<1>5. CASE StartGateway
  <2>1. BootTyped'
    BY <1>5 DEF StartGateway, BootTyped, Pcs, Mine
  <2>2. ASSUME lfaults' = {} PROVE OneEnvironment'
    BY <1>5, <2>2 DEF StartGateway, BootTyped, OneEnvironment, Mine
  <2> QED BY <1>0, <2>1, <2>2
<1>6. CASE PortAnswers
  <2>1. PICK next \in {"gateway", "prewarm", "ready"} :
           /\ boot' = [boot EXCEPT !.pc = next]
           /\ next = "gateway" => boot.pc = "wait_daemon"
           /\ boot.pc \in {"wait_daemon", "wait_gateway", "prewarm"}
    BY <1>6 DEF PortAnswers
  <2>2. daemons' = daemons /\ gateway' = gateway /\ lfaults' = lfaults
    BY <1>6 DEF PortAnswers
  <2>3. BootTyped'
    BY <2>1 DEF BootTyped, Pcs, Mine
  <2>4. ASSUME lfaults' = {} PROVE OneEnvironment'
    BY <2>1, <2>2, <2>4 DEF BootTyped, OneEnvironment, Mine
  <2> QED BY <1>0, <2>3, <2>4
<1>7. CASE TimedOut
  <2>1. BootTyped'
    BY <1>7 DEF TimedOut, Rest, NoEnv, Env, BootTyped, Pcs, Mine
  <2>2. ASSUME lfaults' = {} PROVE OneEnvironment'
    BY <1>7, <2>2 DEF TimedOut, Rest, BootTyped, OneEnvironment, Mine
  <2> QED BY <1>0, <2>1, <2>2
<1>8. CASE BootEnds
  <2>1. BootTyped'
    BY <1>8 DEF BootEnds, Rest, NoEnv, Env, BootTyped, Pcs
  <2>2. ASSUME lfaults' = {} PROVE OneEnvironment'
    BY <1>8, <2>2 DEF BootEnds, Rest, OneEnvironment, Mine
  <2> QED BY <1>0, <2>1, <2>2
<1>9. ASSUME NEW sh \in Shell, NEW writer \in BOOLEAN, Controller(sh, writer)
      PROVE  CalmInv'
  BY <1>0, <1>9 DEF Controller, BootTyped
<1>10. CASE ControllerStop
  BY <1>0, <1>10 DEF ControllerStop, BootTyped, OneEnvironment
<1>11. ASSUME NEW d \in daemons, DaemonUp(d)
       PROVE  CalmInv'
  <2>1. BootTyped'
    BY <1>11 DEF DaemonUp, BootTyped
  <2>2. boot' = boot /\ gateway' = gateway /\ lfaults' = lfaults /\ daemons # {}
    BY <1>11 DEF DaemonUp
  <2>3. \A x \in daemons' : \E y \in daemons : x.env = y.env
    <3>1. [d EXCEPT !.up = TRUE].env = d.env
      BY DEF Shaped
    <3> QED BY <1>11, <3>1 DEF DaemonUp
  <2>4. ASSUME lfaults' = {} PROVE OneEnvironment'
    BY <2>2, <2>3, <2>4 DEF OneEnvironment
  <2> QED BY <1>0, <2>1, <2>4
<1>12. ASSUME NEW d \in daemons, DaemonDies(d)
       PROVE  CalmInv'
  BY <1>0, <1>12 DEF DaemonDies, BootTyped, OneEnvironment
<1>13. CASE GatewayRuns
  <2>1. /\ boot' = boot /\ daemons' = daemons /\ lfaults' = lfaults /\ gateway.alive
    BY <1>13 DEF GatewayRuns
  <2>2. gateway'.alive => gateway'.env = gateway.env
    BY <1>13 DEF GatewayRuns, NoGateway, Shaped
  <2>3. BootTyped'
    BY <2>1 DEF BootTyped
  <2>4. ASSUME lfaults' = {} PROVE OneEnvironment'
    BY <2>1, <2>2, <2>4 DEF OneEnvironment
  <2> QED BY <1>0, <2>3, <2>4
<1>14. CASE UNCHANGED lvars
  BY <1>0, <1>14 DEF lvars, BootTyped, OneEnvironment
<1> QED BY <1>1, <1>2, <1>3, <1>4, <1>5, <1>6, <1>7, <1>8, <1>9, <1>10, <1>11, <1>12,
           <1>13, <1>14 DEF LaunchNext

\* Without a bounce to another profile and daemons started by hand, no gateway of
\* the spine's authority runs beside a daemon that writes (serve.py build_env, main).
THEOREM OneAuthorityAlways == LaunchSpec => []OneAuthority
<1>1. CalmInv => OneAuthority
  BY DEF CalmInv, OneEnvironment, OneHand, OneAuthority
<1> QED BY <1>1, InitCalm, StepCalm, PTL DEF LaunchSpec

-----------------------------------------------------------------------------
(* A full boot heals what ran before it.                                   *)

\* One daemon at most.
AtMostOne(S) == \A x, y \in S : x = y

\* Between its stop() and its end a full boot has nothing left of what it found:
\* first no process at all, then only its own.
Healed ==
    /\ boot.pc \notin {"rest", "bounce"}
    /\ boot.pc = "daemon" => daemons = {} /\ ~gateway.alive
    /\ boot.pc \notin {"stop", "daemon"} =>
          /\ AtMostOne(daemons)
          /\ \A d \in daemons : d.env = boot.env
          /\ gateway.alive => gateway.env = boot.env

HealInv == CalmInv /\ ("cli" \notin lfaults /\ boot.full => Healed)

LEMMA AtMostOneCardinality ==
    ASSUME NEW S, AtMostOne(S)
    PROVE  Cardinality(S) <= 1
<1>1. CASE S = {}
  BY <1>1, FS_EmptySet
<1>2. CASE S # {}
  <2>1. PICK x \in S : S = {x}
    BY <1>2 DEF AtMostOne
  <2>2. Cardinality({x}) = 1
    BY FS_Singleton
  <2> QED BY <2>1, <2>2
<1> QED BY <1>1, <1>2

LEMMA StepHeals ==
    ASSUME HealInv, [LaunchNext]_lvars
    PROVE  HealInv'
<1>0. CalmInv'
  BY StepCalm DEF HealInv
<1> SUFFICES ASSUME "cli" \notin lfaults', boot'.full
             PROVE  Healed'
  BY <1>0 DEF HealInv
<1>h. "cli" \notin lfaults /\ boot.full => Healed
  BY DEF HealInv
<1>t. boot \in [pc : Pcs, env : Env, full : BOOLEAN]
  BY DEF HealInv, CalmInv, BootTyped
<1>1. ASSUME NEW p \in Profile, NEW sh \in Shell, NEW bounce \in BOOLEAN, Boot(p, sh, bounce)
      PROVE  Healed'
  <2>1. boot'.pc = "stop"
    BY <1>1 DEF Boot
  <2> QED BY <2>1 DEF Healed
<1>2. CASE StopAll
  <2>1. daemons' = {} /\ ~gateway'.alive /\ lfaults' = lfaults
    BY <1>2 DEF StopAll, NoGateway
  <2>2. boot'.full = boot.full /\ boot'.env = boot.env
        /\ boot'.pc = (IF boot.pc = "stop" THEN "daemon" ELSE boot.pc)
    BY <1>2, <1>t DEF StopAll
  <2> QED BY <1>h, <1>2, <2>1, <2>2 DEF Healed, AtMostOne, StopAll
<1>3. CASE StopGateway
  BY <1>3, <1>h, <1>t DEF StopGateway, Healed
<1>4. CASE StartDaemon
  <2>1. boot.full /\ boot'.env = boot.env /\ boot'.pc = "wait_daemon" /\ boot.pc = "daemon"
    BY <1>4, <1>t DEF StartDaemon
  <2>2. daemons = {} /\ ~gateway.alive /\ gateway' = gateway
    BY <1>4, <1>h, <2>1 DEF StartDaemon, Healed
  <2>3. daemons' = {[id |-> NewProc, up |-> FALSE, env |-> boot.env]}
    BY <1>4, <2>2 DEF StartDaemon
  <2> QED BY <2>1, <2>2, <2>3 DEF Healed, AtMostOne
<1>5. CASE StartGateway
  <2>1. /\ boot.full /\ boot'.env = boot.env /\ boot'.pc = "wait_gateway" /\ boot.pc = "gateway"
        /\ daemons' = daemons /\ gateway'.env = boot.env /\ lfaults' = lfaults
    BY <1>5, <1>t DEF StartGateway
  <2> QED BY <1>h, <2>1 DEF Healed
<1>6. CASE PortAnswers
  <2>1. PICK next \in {"gateway", "prewarm", "ready"} : boot' = [boot EXCEPT !.pc = next]
    BY <1>6 DEF PortAnswers
  <2>2. /\ boot.full /\ boot'.env = boot.env /\ boot'.pc = next
        /\ boot.pc \in {"wait_daemon", "wait_gateway", "prewarm"}
        /\ daemons' = daemons /\ gateway' = gateway /\ lfaults' = lfaults
    BY <1>6, <1>t, <2>1 DEF PortAnswers
  <2> QED BY <1>h, <2>2 DEF Healed
<1>7. CASE TimedOut
  <2>1. boot' = [boot EXCEPT !.pc = "ready"] /\ boot.pc = "prewarm"
    BY <1>7 DEF TimedOut, Rest
  <2>2. /\ boot.full /\ boot'.env = boot.env /\ boot'.pc = "ready"
        /\ daemons' = daemons /\ gateway' = gateway /\ lfaults' = lfaults
    BY <1>7, <1>t, <2>1 DEF TimedOut
  <2> QED BY <1>h, <2>1, <2>2 DEF Healed
<1>8. CASE BootEnds
  BY <1>8 DEF BootEnds, Rest
<1>9. ASSUME NEW sh \in Shell, NEW writer \in BOOLEAN, Controller(sh, writer)
      PROVE  Healed'
  BY <1>9 DEF Controller
<1>10. CASE /\ boot' = boot /\ gateway' = gateway /\ lfaults' = lfaults
            /\ daemons' \subseteq daemons
  BY <1>h, <1>10 DEF Healed, AtMostOne
<1>11. ASSUME NEW d \in daemons, DaemonUp(d)
       PROVE  Healed'
  <2>1. boot' = boot /\ gateway' = gateway /\ lfaults' = lfaults
    BY <1>11 DEF DaemonUp
  <2>2. [d EXCEPT !.up = TRUE].env = d.env
    BY DEF HealInv, CalmInv, Shaped
  <2>3. CASE boot.pc = "daemon"
    BY <1>h, <2>1, <2>3 DEF Healed
  <2>4. CASE boot.pc # "daemon"
    <3>1. AtMostOne(daemons) => daemons' = {[d EXCEPT !.up = TRUE]}
      BY <1>11 DEF DaemonUp, AtMostOne
    <3> QED BY <1>h, <2>1, <2>2, <2>4, <3>1 DEF Healed, AtMostOne
  <2> QED BY <2>3, <2>4
<1>12. CASE GatewayRuns
  <2>1. boot' = boot /\ daemons' = daemons /\ lfaults' = lfaults /\ gateway.alive
    BY <1>12 DEF GatewayRuns
  <2>2. gateway'.alive => gateway'.env = gateway.env
    BY <1>12 DEF GatewayRuns, NoGateway, HealInv, CalmInv, Shaped
  <2> QED BY <1>h, <2>1, <2>2 DEF Healed
<1> QED BY <1>1, <1>2, <1>3, <1>4, <1>5, <1>6, <1>7, <1>8, <1>9, <1>10, <1>11, <1>12
        DEF LaunchNext, lvars, ControllerStop, DaemonDies

\* After a full boot the stack is one daemon and one gateway of one environment, the
\* boot's own, whatever was bounced, half started or left behind before it, for any
\* number of processes; a daemon started by hand is the one exception
\* (serve.py stop, start_daemon, start_gateway, main).
THEOREM FullBootAlwaysHeals == LaunchSpec => []FullBootHeals
<1>1. LaunchInit => HealInv
  BY InitCalm DEF LaunchInit, HealInv, Rest
<1>2. HealInv => FullBootHeals
  BY AtMostOneCardinality DEF HealInv, Healed, FullBootHeals
<1> QED BY <1>1, <1>2, StepHeals, PTL DEF LaunchSpec

-----------------------------------------------------------------------------
(* Role play.                                                              *)

\* The scenes a session can be in.
Played == [on : {TRUE}, start : 0..Top, level : 0..Top, at : Nat, beats : Nat, fired : Nat]
SceneTyped == scene = NoScene \/ scene \in Played

\* The ledger of one scene: its beats pay for the rungs above its start.
PaidFor(sc) == sc.beats >= Paid(sc.level) - Paid(sc.start) + sc.at

\* The strengthening of Earned that a step preserves: it needs the shape of the scene.
EarnedInv == SceneTyped /\ (scene.on => PaidFor(scene))

-----------------------------------------------------------------------------
\* A rung costs its dwell and the turn that opens the next (DWELL, ladder.py).
LEMMA RungCost == \A r \in 0..6 : Paid(r + 1) = Paid(r) + Dwell[r] + 1 /\ Dwell[r] \in Nat
<1> SUFFICES ASSUME NEW r \in 0..6
             PROVE  Paid(r + 1) = Paid(r) + Dwell[r] + 1 /\ Dwell[r] \in Nat
  OBVIOUS
<1>1. CASE r = 0
  <2>1. Dwell[0] = 1
    BY DEF Dwell
  <2> QED BY <1>1, <2>1 DEF Paid
<1>2. CASE r = 1
  <2>1. Dwell[1] = 3
    BY DEF Dwell
  <2> QED BY <1>2, <2>1 DEF Paid
<1>3. CASE r \in 2..6
  <2>1. r \in 0..7 /\ r # 0 /\ r # 1 /\ r # 7
    BY <1>3
  <2>2. Dwell[r] = 2
    BY <2>1 DEF Dwell
  <2>3. Paid(r) = 3 * r /\ Paid(r + 1) = 3 * (r + 1)
    BY <1>3 DEF Paid
  <2> QED BY <1>3, <2>2, <2>3
<1> QED BY <1>1, <1>2, <1>3

LEMMA PaidNat == \A r \in 0..7 : Paid(r) \in Nat
BY DEF Paid

LEMMA PaidDown == \A r \in 0..7 : r > 0 => Paid(r - 1) <= Paid(r)
BY DEF Paid

\* A move on the ladder (ladder.step) and the beat that director_note counts for
\* it leave a paid scene paid.
LEMMA StepPaid ==
    ASSUME NEW sc \in Played, NEW m, NEW cap, PaidFor(sc)
    PROVE  /\ Directed(Step(sc, m, cap), m) \in Played
           /\ PaidFor(Directed(Step(sc, m, cap), m))
<1> DEFINE st == Step(sc, m, cap)
           di == Directed(st, m)
<1>0. sc.level \in 0..7 /\ sc.start \in 0..7 /\ sc.at \in Nat /\ sc.beats \in Nat /\ sc.fired \in Nat
  BY DEF Played, Top
<1>1. /\ st \in Played /\ st.beats = sc.beats /\ st.start = sc.start
      /\ st.beats + 1 >= Paid(st.level) - Paid(st.start) + st.at
  <2>1. CASE "cool" \in m
    <3> DEFINE l == IF sc.level = 0 THEN 0 ELSE sc.level - 1
    <3>1. l \in 0..7 /\ Paid(l) <= Paid(sc.level) /\ Paid(l) \in Nat
      BY <1>0, PaidDown, PaidNat
    <3>2. st = [sc EXCEPT !.level = l, !.at = 0]
      BY <2>1 DEF Step, Rung
    <3>3. st \in Played /\ st.level = l /\ st.at = 0 /\ st.beats = sc.beats /\ st.start = sc.start
      <4> HIDE DEF l, st
      <4> QED BY <3>1, <3>2 DEF Played, Top
    <3> HIDE DEF l, st
    <3> QED BY <1>0, <3>1, <3>3, PaidNat DEF PaidFor
  <2>2. CASE "cool" \notin m /\ "heat" \in m /\ GateOpen(sc, cap)
    <3>1. sc.level < 7 /\ sc.at >= Dwell[sc.level]
      BY <2>2 DEF GateOpen, Top
    <3>2. st = [sc EXCEPT !.level = sc.level + 1, !.at = 0]
      BY <2>2 DEF Step, Rung
    <3>3. /\ st \in Played /\ st.level = sc.level + 1 /\ st.at = 0
          /\ st.beats = sc.beats /\ st.start = sc.start
      <4>1. sc.level + 1 \in 0..7
        BY <1>0, <3>1
      <4> HIDE DEF st
      <4> QED BY <3>2, <4>1 DEF Played, Top
    <3>4. Paid(sc.level + 1) = Paid(sc.level) + Dwell[sc.level] + 1 /\ Dwell[sc.level] \in Nat
      BY <1>0, <3>1, RungCost
    <3> HIDE DEF st
    <3>5. sc.beats >= Paid(sc.level) - Paid(sc.start) + sc.at
      BY DEF PaidFor
    <3>6. Paid(sc.level) \in Nat /\ Paid(sc.start) \in Nat
      BY <1>0, PaidNat
    <3>7. sc.beats + 1 >= Paid(sc.level + 1) - Paid(sc.start)
      BY <1>0, <3>1, <3>4, <3>5, <3>6
    <3>8. st.beats + 1 >= Paid(st.level) - Paid(st.start) + st.at
      BY <1>0, <3>3, <3>4, <3>6, <3>7
    <3> QED BY <3>3, <3>8
  <2>3. CASE "cool" \notin m /\ ~("heat" \in m /\ GateOpen(sc, cap))
    <3>1. st = [sc EXCEPT !.level = sc.level, !.at = sc.at + 1]
      <4>1. st = [sc EXCEPT !.at = sc.at + 1]
        BY <2>3 DEF Step
      <4> HIDE DEF st
      <4> QED BY <1>0, <4>1 DEF Played
    <3>2. /\ st \in Played /\ st.level = sc.level /\ st.at = sc.at + 1
          /\ st.beats = sc.beats /\ st.start = sc.start
      <4>1. sc.at + 1 \in Nat
        BY <1>0
      <4> HIDE DEF st
      <4> QED BY <1>0, <3>1, <4>1 DEF Played, Top
    <3> HIDE DEF st
    <3> QED BY <1>0, <3>2, PaidNat DEF PaidFor
  <2> QED BY <2>1, <2>2, <2>3
<1>2. /\ di \in Played /\ di.beats = st.beats + 1 /\ di.start = st.start
      /\ di.level = st.level /\ di.at = st.at
  <2> HIDE DEF st
  <2>1. st.beats \in Nat /\ st.fired \in Nat
    BY <1>1 DEF Played
  <2> DEFINE idling == \/ st.beats + 1 >= StallBeats /\ (st.beats + 1) % StallBeats = 0
                       \/ "short" \in m
             f == IF idling /\ st.fired < Hooks THEN st.fired + 1 ELSE st.fired
  <2>2. f \in Nat /\ st.beats + 1 \in Nat
    BY <2>1
  <2>3. di = [st EXCEPT !.beats = st.beats + 1, !.fired = f]
    BY DEF Directed
  <2> HIDE DEF di, f
  <2> QED BY <1>1, <2>2, <2>3 DEF Played, Top
<1> QED
  <2> HIDE DEF st, di
  <2>1. PaidFor(di)
    BY <1>1, <1>2 DEF PaidFor
  <2> QED BY <1>2, <2>1 DEF di, st

-----------------------------------------------------------------------------
LEMMA EnteredPaid ==
    ASSUME NEW h \in 0..7
    PROVE  Entered(h) \in Played /\ PaidFor(Entered(h))
BY PaidNat DEF Entered, Played, PaidFor, Top

\* One turn of role play: _roleplay_pre_turn, whichever way it goes.
LEMMA TurnEarned ==
    ASSUME EarnedInv, NEW m, NEW h \in 0..7, RoleplayTurn(m, h)
    PROVE  EarnedInv'
<1>1. CASE UNCHANGED scene
  BY <1>1 DEF EarnedInv, SceneTyped, PaidFor
<1>2. CASE scene' = NoScene
  BY <1>2 DEF EarnedInv, SceneTyped, NoScene
<1>3. ASSUME NEW sc \in Played, PaidFor(sc), Play(sc, m)
      PROVE  EarnedInv'
  <2>1. CASE scene' = NoScene
    BY <2>1 DEF EarnedInv, SceneTyped, NoScene
  <2>2. CASE scene' = Directed(Step(sc, m, Get("max_heat")), m)
    <3>1. scene' \in Played /\ PaidFor(scene')
      BY <1>3, <2>2, StepPaid
    <3> QED BY <3>1 DEF EarnedInv, SceneTyped, PaidFor
  <2> QED BY <1>3, <2>1, <2>2 DEF Play
<1>4. scene.on => scene \in Played /\ PaidFor(scene)
  BY DEF EarnedInv, SceneTyped, NoScene
<1> QED BY <1>1, <1>2, <1>3, <1>4, EnteredPaid DEF RoleplayTurn

\* The rungs of a scene are paid for by its turns, whatever deck, knobs and bounds
\* (harness/roleplay/ladder.py step, gate_open, DWELL).
THEOREM RungsEarned ==
    ASSUME Heat0 \subseteq 0..7
    PROVE  SceneSpec => []Earned
<1>1. SceneInit => EarnedInv
  BY DEF SceneInit, EarnedInv, SceneTyped, NoScene
<1>2. EarnedInv /\ [SceneNext]_<<kvars, scvars>> => EarnedInv'
  <2> SUFFICES ASSUME EarnedInv, [SceneNext]_<<kvars, scvars>>
               PROVE  EarnedInv'
    OBVIOUS
  <2>1. CASE \E m \in SUBSET Pattern, h \in Heat0 : RoleplayTurn(m, h)
    BY <2>1, TurnEarned
  <2>2. CASE UNCHANGED scene
    BY <2>2 DEF EarnedInv, SceneTyped, PaidFor
  <2>3. CASE Reborn
    BY <2>3 DEF Reborn, EarnedInv, SceneTyped, NoScene
  <2> QED BY <2>1, <2>2, <2>3 DEF SceneNext, scvars
<1>3. EarnedInv => Earned
  BY DEF EarnedInv, Earned, PaidFor
<1> QED BY <1>1, <1>2, <1>3, PTL DEF SceneSpec

\* When he says stop the scene is over by the end of that turn, whatever else his
\* message matched (_roleplay_pre_turn; wants_out, ladder.step's hard stop).
THEOREM StopAlwaysWins == SceneSpec => []StopWins
<1>1. SceneInit => StopWins
  BY DEF SceneInit, StopWins
<1>2. StopWins /\ [SceneNext]_<<kvars, scvars>> => StopWins'
  <2> SUFFICES ASSUME StopWins, [SceneNext]_<<kvars, scvars>>
               PROVE  StopWins'
    OBVIOUS
  <2>1. ASSUME NEW m \in SUBSET Pattern, NEW h \in Heat0, RoleplayTurn(m, h)
        PROVE  StopWins'
    <3> SUFFICES ASSUME heardstop'
                 PROVE  ~scene'.on
      BY DEF StopWins
    <3>1. Get("enabled") # 0 /\ ("stop" \in m \/ (scene.on /\ "exit" \in m))
      BY <2>1 DEF RoleplayTurn
    <3>2. CASE scene' = NoScene
      BY <3>2 DEF NoScene
    <3>3. CASE ~scene.on /\ UNCHANGED scene
      BY <3>3
    <3>4. scene.on => WantsOut(m)
      BY <3>1 DEF WantsOut
    <3>5. ~scene.on => "stop" \in m
      BY <3>1
    <3>6. ASSUME NEW sc, Play(sc, m), "stop" \in m
          PROVE  scene' = NoScene
      BY <3>6 DEF Play
    <3> QED BY <2>1, <3>1, <3>2, <3>3, <3>4, <3>5, <3>6 DEF RoleplayTurn
  <2>2. CASE UNCHANGED scvars
    BY <2>2 DEF StopWins, scvars
  <2>3. CASE Reborn
    BY <2>3 DEF Reborn, StopWins
  <2> QED BY <2>1, <2>2, <2>3 DEF SceneNext
<1> QED BY <1>1, <1>2, PTL DEF SceneSpec

-----------------------------------------------------------------------------
(* The operator's knobs: the store, its cache, and the process's deaths.   *)

\* A set of overrides as set_many leaves it: known keys, within their bounds.
IsOverrides(f) ==
    /\ f = [k \in DOMAIN f |-> f[k]] /\ DOMAIN f \subseteq Knob
    /\ \A k \in DOMAIN f : f[k] \in Int /\ Lo[k] <= f[k] /\ f[k] <= Hi[k]

\* What makes LastSaveStands inductive: the file is what the operator was told, or
\* it is the torn one of a reset under way or of one that died, after which he was
\* told of nothing; the cache, once loaded, is what he was told too.
SaveInv ==
    /\ IsOverrides(meant)
    /\ \/ store = meant /\ saving.pc # "inplace"
       \/ store = Torn /\ (meant = None \/ saving.pc = "inplace")
    /\ cached = Absent \/ cached = meant
    /\ saving = NoSave \/ (saving.pc \in {"beside", "inplace"} /\ IsOverrides(saving.new))

LEMMA NoneIsOverrides == IsOverrides(None)
BY DEF IsOverrides, None

LEMMA NotSentinels ==
    ASSUME NEW f, IsOverrides(f)
    PROVE  f # Torn /\ f # Absent
<1>1. DOMAIN Torn = {"torn"} /\ DOMAIN Absent = {"absent"}
  BY DEF Torn, Absent
<1>2. "torn" \notin DOMAIN f /\ "absent" \notin DOMAIN f
  BY TuningShape DEF IsOverrides
<1> QED BY <1>1, <1>2

\* _load between saves: whichever of cache and file answers, it is what he was told.
LEMMA LoadIsMeant ==
    ASSUME SaveInv, saving = NoSave
    PROVE  Load = meant
<1>1. meant # Torn
  BY NotSentinels DEF SaveInv
<1>2. saving.pc # "inplace"
  BY DEF NoSave
<1>3. store = meant \/ (store = Torn /\ meant = None)
  BY <1>2 DEF SaveInv
<1> QED BY <1>1, <1>3 DEF SaveInv, Load

LEMMA ClampWithin ==
    ASSUME NEW k \in Knob, NEW v \in Int
    PROVE  /\ Clamp(k, v) \in Int /\ Lo[k] <= Clamp(k, v) /\ Clamp(k, v) <= Hi[k]
           /\ (Lo[k] <= v /\ v <= Hi[k]) => Clamp(k, v) = v
<1>1. Lo[k] \in Int /\ Hi[k] \in Int /\ Lo[k] <= Hi[k]
  BY TuningShape
<1> QED BY <1>1 DEF Clamp

\* set_many: the clamped values over the old ones.
LEMMA OverrideKeeps ==
    ASSUME NEW f, IsOverrides(f), NEW ks \in SUBSET Knob, NEW v \in Int
    PROVE  IsOverrides(Override(f, ks, v))
<1> DEFINE g == Override(f, ks, v)
<1>1. DOMAIN g = DOMAIN f \union ks /\ g = [k \in DOMAIN g |-> g[k]]
  BY DEF Override
<1>2. DOMAIN g \subseteq Knob
  BY <1>1 DEF IsOverrides
<1>3. ASSUME NEW k \in DOMAIN g
      PROVE  g[k] \in Int /\ Lo[k] <= g[k] /\ g[k] <= Hi[k]
  <2>1. CASE k \in ks
    <3>1. g[k] = Clamp(k, v)
      BY <1>3, <2>1 DEF Override
    <3> QED BY <2>1, <3>1, ClampWithin
  <2>2. CASE k \notin ks
    <3>1. k \in DOMAIN f /\ g[k] = f[k]
      BY <1>1, <1>3, <2>2 DEF Override
    <3> QED BY <3>1 DEF IsOverrides
  <2> QED BY <2>1, <2>2
<1> QED BY <1>1, <1>2, <1>3 DEF IsOverrides

\* reset: one key less.
LEMMA WithoutKeeps ==
    ASSUME NEW f, IsOverrides(f), NEW k
    PROVE  IsOverrides(Without(f, k))
<1> DEFINE g == Without(f, k)
<1>1. DOMAIN g = DOMAIN f \ {k} /\ g = [j \in DOMAIN g |-> g[j]]
  BY DEF Without
<1>2. \A j \in DOMAIN g : g[j] = f[j]
  BY DEF Without
<1> QED BY <1>1, <1>2 DEF IsOverrides

LEMMA StepSaves ==
    ASSUME SaveInv, [SceneNext]_<<kvars, scvars>>
    PROVE  SaveInv'
<1>1. ASSUME NEW m, NEW h, RoleplayTurn(m, h)
      PROVE  SaveInv'
  <2>1. /\ saving = NoSave /\ cached' = Load
        /\ store' = store /\ saving' = saving /\ meant' = meant
    BY <1>1 DEF RoleplayTurn
  <2> QED BY <2>1, LoadIsMeant DEF SaveInv, IsOverrides
<1>2. ASSUME NEW ks \in SUBSET Knob, NEW v \in Asked, SetMany(ks, v)
      PROVE  SaveInv'
  <2>1. /\ saving = NoSave /\ cached' = meant /\ store' = store /\ meant' = meant
        /\ saving' = [pc |-> "beside", new |-> Override(meant, ks, v)]
    BY <1>2, LoadIsMeant DEF SetMany
  <2>2. IsOverrides(Override(meant, ks, v))
    BY TuningShape, OverrideKeeps DEF SaveInv
  <2>3. saving'.pc = "beside" /\ saving'.new = Override(meant, ks, v)
    BY <2>1
  <2>4. store = meant \/ (store = Torn /\ meant = None)
    BY <2>1 DEF SaveInv, NoSave
  <2> QED BY <2>1, <2>2, <2>3, <2>4 DEF SaveInv, IsOverrides
<1>3. ASSUME NEW k \in Knob, Reset(k)
      PROVE  SaveInv'
  <2>1. /\ saving = NoSave /\ cached' = meant /\ store' = Torn /\ meant' = meant
        /\ saving' = [pc |-> "inplace", new |-> Without(meant, k)]
    BY <1>3, LoadIsMeant DEF Reset
  <2>2. IsOverrides(Without(meant, k))
    BY WithoutKeeps DEF SaveInv
  <2>3. saving'.pc = "inplace" /\ saving'.new = Without(meant, k)
    BY <2>1
  <2> QED BY <2>1, <2>2, <2>3 DEF SaveInv, IsOverrides
<1>4. CASE Saved
  BY <1>4 DEF Saved, SaveInv, IsOverrides, NoSave
<1>5. CASE Reborn
  <2>1. /\ cached' = Absent /\ saving' = NoSave /\ store' = store
        /\ meant' = IF saving.pc = "inplace" THEN None ELSE meant
    BY <1>5 DEF Reborn, Crash, Dies
  <2>2. CASE saving.pc = "inplace"
    BY <2>1, <2>2, NoneIsOverrides DEF SaveInv, IsOverrides, NoSave
  <2>3. CASE saving.pc # "inplace"
    BY <2>1, <2>3 DEF SaveInv, IsOverrides, NoSave
  <2> QED BY <2>2, <2>3
<1>6. CASE UNCHANGED kvars
  BY <1>6 DEF kvars, SaveInv, IsOverrides
<1> QED BY <1>1, <1>2, <1>3, <1>4, <1>5, <1>6 DEF SceneNext

\* The knobs in force between saves are those of the last save the operator was told
\* of, for every set of knobs and bounds, wherever the process dies; only a death
\* inside reset(), which writes the file in place, loses them
\* (harness/tuning/registry.py _load, get, set_many, reset).
THEOREM SavesStand == SceneSpec => []LastSaveStands
<1>1. SceneInit => SaveInv
  BY NoneIsOverrides DEF SceneInit, TuningInit, SaveInv, NoSave
<1>2. SaveInv => LastSaveStands
  <2> SUFFICES ASSUME SaveInv, saving = NoSave, NEW k \in Knob
               PROVE  Get(k) = IF k \in DOMAIN meant THEN meant[k] ELSE Default[k]
    BY DEF LastSaveStands
  <2>1. Load = meant
    BY LoadIsMeant
  <2>2. CASE k \in DOMAIN meant
    BY <2>1, <2>2, ClampWithin DEF Get, SaveInv, IsOverrides
  <2>3. CASE k \notin DOMAIN meant
    BY <2>1, <2>3 DEF Get
  <2> QED BY <2>2, <2>3
<1> QED BY <1>1, <1>2, StepSaves, PTL DEF SceneSpec

\* The three together, for every deck, every set of knobs and every length of scene,
\* across deaths of the gateway and changes of the ceiling (_roleplay_pre_turn,
\* ladder.py, tuning/registry.py).
THEOREM SceneAlwaysSafe ==
    ASSUME Heat0 \subseteq 0..7
    PROVE  SceneSpec => []SceneSafe
<1>1. Earned /\ StopWins /\ LastSaveStands => SceneSafe
  BY DEF SceneSafe
<1> QED BY <1>1, RungsEarned, StopAlwaysWins, SavesStand, PTL

\* The stack has one hand on her memory, and a full boot heals it: for every number of
\* processes, environments and broken boots (build_env, stop, stop_gateway_only, main).
THEOREM OneStackAlways == LaunchSpec => []OneStack
<1>1. OneAuthority /\ FullBootHeals => OneStack
  BY DEF OneStack
<1> QED BY <1>1, OneAuthorityAlways, FullBootAlwaysHeals, PTL

-----------------------------------------------------------------------------
\* What the two properties read of a row.
Read == {"speaker", "dead"}

\* A change under way fits the board it was begun on: the board does not move below
\* it, and the author is still that of its door when add stamps the row.
Fits ==
    /\ change.op \in {"add", "update", "remove"}
    /\ change.op = "add" => /\ change.id \notin Ids(board) /\ change.door = author
                            /\ Read \subseteq DOMAIN change.row
    /\ change.op # "add" => change.id \in Ids(board)
    /\ change.op = "update" => DOMAIN change.row \intersect Read = {}

\* What makes the two properties inductive: rows keep their fields, a change fits,
\* what is written is the change applied to the file it will replace, and the watch
\* being looked at is in the file.
BoardInv ==
    /\ OwnerIsDoor /\ RemovedStays
    /\ \A n \in Ids(board) : Read \subseteq DOMAIN board[n]
    /\ change.pc # "none" => Fits
    /\ change.pc \in {"write", "replace"} => change.rows = Applied(board)
    /\ change.pc = "replace" => tmp = change.rows
    /\ look.pc # "none" => look.id \in Ids(board)

-----------------------------------------------------------------------------
\* notes.py: a change alters the row it names and no other; no row is taken out.
LEMMA WithOne ==
    ASSUME NEW f, NEW n, NEW row
    PROVE  /\ Ids(With(f, n, row)) = Ids(f) \cup {n}
           /\ With(f, n, row)[n] = row
           /\ \A m \in Ids(f) : m # n => With(f, n, row)[m] = f[m]
BY DEF With, Ids

\* The three changes, as far as the owner of a row and its tombstone go.
LEMMA AppliedKeeps ==
    ASSUME BoardInv, change.pc # "none"
    PROVE  LET new == Applied(board) IN
           /\ Ids(new) = Ids(board) \cup {change.id}
           /\ \A n \in Ids(new) : Read \subseteq DOMAIN new[n]
           /\ \A n \in Ids(board) : /\ new[n].speaker = board[n].speaker
                                    /\ board[n].dead => new[n].dead
           /\ change.op = "add" => new[change.id].speaker = change.door
           /\ change.op = "remove" => new[change.id].dead
<1> DEFINE new == Applied(board)
           c == change.id
<1>0. Fits /\ \A n \in Ids(board) : Read \subseteq DOMAIN board[n]
  BY DEF BoardInv
<1>1. CASE change.op = "add"
  <2> DEFINE row == [change.row EXCEPT !.speaker = author]
  <2>1. new = With(board, c, row)
    BY <1>1 DEF Applied
  <2>2. Read \subseteq DOMAIN row /\ row.speaker = author
    BY <1>0, <1>1 DEF Fits, Read
  <2> HIDE DEF new, row, c
  <2>3. /\ Ids(new) = Ids(board) \cup {c} /\ new[c] = row
        /\ \A n \in Ids(board) : n # c => new[n] = board[n]
    BY <2>1, WithOne
  <2>4. c \notin Ids(board) /\ change.door = author
    BY <1>0, <1>1 DEF Fits, c
  <2>5. \A n \in Ids(board) : new[n] = board[n]
    BY <2>3, <2>4
  <2>6. \A n \in Ids(new) : Read \subseteq DOMAIN new[n]
    BY <1>0, <2>2, <2>3, <2>5
  <2> QED BY <1>1, <2>2, <2>3, <2>4, <2>5, <2>6 DEF c, new
<1>2. CASE change.op = "update"
  <2> DEFINE old == board[c]
             row == [k \in DOMAIN old |-> IF k \in DOMAIN change.row THEN change.row[k] ELSE old[k]]
  <2>1. new = With(board, c, row)
    BY <1>2 DEF Applied
  <2>2. c \in Ids(board) /\ Read \subseteq DOMAIN old /\ DOMAIN change.row \intersect Read = {}
    BY <1>0, <1>2 DEF Fits
  <2>3. Read \subseteq DOMAIN row /\ row.speaker = old.speaker /\ row.dead = old.dead
    <3> HIDE DEF old
    <3> QED BY <2>2 DEF Read
  <2> HIDE DEF new, row, c
  <2>4. /\ Ids(new) = Ids(board) \cup {c} /\ new[c] = row
        /\ \A n \in Ids(board) : n # c => new[n] = board[n]
    BY <2>1, WithOne
  <2>5. \A n \in Ids(new) : Read \subseteq DOMAIN new[n]
    BY <1>0, <2>2, <2>3, <2>4
  <2>6. \A n \in Ids(board) : new[n].speaker = board[n].speaker /\ (board[n].dead => new[n].dead)
    BY <2>3, <2>4 DEF old
  <2> QED BY <1>2, <2>4, <2>5, <2>6 DEF c, new
<1>3. CASE change.op = "remove"
  <2> DEFINE old == board[c]
             row == [old EXCEPT !.dead = TRUE]
  <2>1. new = With(board, c, row)
    BY <1>3 DEF Applied
  <2>2. c \in Ids(board) /\ Read \subseteq DOMAIN old
    BY <1>0, <1>3 DEF Fits
  <2>3. Read \subseteq DOMAIN row /\ row.speaker = old.speaker /\ row.dead
    <3> HIDE DEF old
    <3> QED BY <2>2 DEF Read
  <2> HIDE DEF new, row, c
  <2>4. /\ Ids(new) = Ids(board) \cup {c} /\ new[c] = row
        /\ \A n \in Ids(board) : n # c => new[n] = board[n]
    BY <2>1, WithOne
  <2>5. \A n \in Ids(new) : Read \subseteq DOMAIN new[n]
    BY <1>0, <2>2, <2>3, <2>4
  <2>6. \A n \in Ids(board) : new[n].speaker = board[n].speaker /\ (board[n].dead => new[n].dead)
    BY <2>3, <2>4 DEF old
  <2> QED BY <1>3, <2>3, <2>4, <2>5, <2>6 DEF c, new
<1> QED BY <1>0, <1>1, <1>2, <1>3 DEF Fits

-----------------------------------------------------------------------------
LEMMA InitBoard == BoardInit => BoardInv
BY DEF BoardInit, BoardInv, OwnerIsDoor, RemovedStays, Ids, NoChange, NoLook

\* A door opens: the change is named and nothing is written yet.
LEMMA BeginFits ==
    ASSUME BoardInv, NEW who, NEW op, NEW n, NEW row, Begin(who, op, n, row),
           op \in {"add", "update", "remove"},
           op = "add" => n \notin Ids(board) /\ who # "ticker" /\ Read \subseteq DOMAIN row,
           op # "add" => n \in Ids(board),
           op = "update" => DOMAIN row \intersect Read = {}
    PROVE  BoardInv'
<1>1. /\ change' = [pc |-> "load", door |-> who, op |-> op, id |-> n, row |-> row]
      /\ board' = board /\ look' = look /\ acked' = acked /\ removed' = removed
      /\ who # "ticker" => author' = who
  BY DEF Begin, Door
<1>2. /\ change'.pc = "load" /\ change'.door = who /\ change'.op = op
      /\ change'.id = n /\ change'.row = row
  BY <1>1
<1>3. Fits'
  BY <1>1, <1>2 DEF Fits, Ids
<1> QED BY <1>1, <1>2, <1>3 DEF BoardInv, OwnerIsDoor, RemovedStays, Ids

LEMMA StepBoard ==
    ASSUME BoardInv, [BoardNext]_bvars
    PROVE  BoardInv'
<1>1. ASSUME NEW who \in {"user", "self"}, NEW n \in Id, NEW watch \in BOOLEAN, Add(who, n, watch)
      PROVE  BoardInv'
  <2> DEFINE row == [speaker |-> "user", watch |-> watch, raised |-> FALSE, dead |-> FALSE]
  <2>1. Begin(who, "add", n, row) /\ n \notin Ids(board) /\ who # "ticker"
    BY <1>1 DEF Add
  <2>2. Read \subseteq DOMAIN row
    BY DEF Read
  <2> HIDE DEF row
  <2> QED BY <2>1, <2>2, BeginFits
<1>2. ASSUME NEW who \in {"user", "self"}, NEW n \in Id, NEW f \in Fields, Edit(who, n, f)
      PROVE  BoardInv'
  <2>1. DOMAIN f \intersect Read = {}
    BY DEF Fields, Read
  <2> QED BY <1>2, <2>1, BeginFits DEF Edit
<1>3. ASSUME NEW who \in {"user", "self"}, NEW n \in Id, RemoveNote(who, n)
      PROVE  BoardInv'
  BY <1>3, BeginFits DEF RemoveNote
<1>4. CASE LoadAll
  <2>1. /\ change' = [pc |-> "write", door |-> change.door, op |-> change.op, id |-> change.id,
                      row |-> change.row, rows |-> Applied(board)]
        /\ board' = board /\ author' = author /\ look' = look
        /\ acked' = acked /\ removed' = removed /\ change.pc = "load"
    BY <1>4 DEF LoadAll
  <2>2. /\ change'.pc = "write" /\ change'.door = change.door /\ change'.op = change.op
        /\ change'.id = change.id /\ change'.row = change.row /\ change'.rows = Applied(board)
    BY <2>1
  <2>3. Applied(board)' = Applied(board)
    BY <2>1, <2>2 DEF Applied
  <2>4. Fits'
    BY <2>1, <2>2 DEF BoardInv, Fits, Ids
  <2> QED BY <2>1, <2>2, <2>3, <2>4 DEF BoardInv, OwnerIsDoor, RemovedStays, Ids
<1>5. CASE WriteAll
  <2>1. /\ change' = [change EXCEPT !.pc = "replace"] /\ tmp' = change.rows /\ change.pc = "write"
        /\ board' = board /\ author' = author /\ look' = look
        /\ acked' = acked /\ removed' = removed
    BY <1>5 DEF WriteAll
  <2>2. /\ change'.door = change.door /\ change'.op = change.op
        /\ change'.id = change.id /\ change'.row = change.row /\ change'.rows = change.rows
    BY <2>1
  <2>3. Applied(board)' = Applied(board)
    <3>1. board' = board /\ author' = author
      BY <2>1
    <3> QED BY <2>2, <3>1 DEF Applied
  <2>4. Fits'
    BY <2>1, <2>2 DEF BoardInv, Fits, Ids
  <2> QED BY <2>1, <2>2, <2>3, <2>4 DEF BoardInv, OwnerIsDoor, RemovedStays, Ids
<1>6. CASE Replace
  <2> DEFINE new == Applied(board)
  <2>1. /\ board' = new /\ look' = look /\ change'.pc = "none"
        /\ acked' = IF change.op = "add" THEN acked \cup {<<change.id, change.door>>} ELSE acked
        /\ removed' = IF change.op = "remove" THEN removed \cup {change.id} ELSE removed
    BY <1>6 DEF Replace, BoardInv, NoChange
  <2>2. /\ Ids(new) = Ids(board) \cup {change.id}
        /\ \A n \in Ids(new) : Read \subseteq DOMAIN new[n]
        /\ \A n \in Ids(board) : new[n].speaker = board[n].speaker /\ (board[n].dead => new[n].dead)
        /\ change.op = "add" => new[change.id].speaker = change.door
        /\ change.op = "remove" => new[change.id].dead
    BY <1>6, AppliedKeeps DEF Replace
  <2>3. Ids(board)' = Ids(new)
    BY <2>1 DEF Ids
  <2> HIDE DEF new
  <2>4. OwnerIsDoor'
    <3> SUFFICES ASSUME NEW a \in acked'
                 PROVE  a[1] \in Ids(new) /\ new[a[1]].speaker = a[2]
      BY <2>1, <2>3 DEF OwnerIsDoor, Ids
    <3>1. CASE a \in acked
      BY <2>2, <3>1 DEF BoardInv, OwnerIsDoor
    <3>2. CASE a = <<change.id, change.door>> /\ change.op = "add"
      BY <2>2, <3>2
    <3> QED BY <2>1, <3>1, <3>2
  <2>5. RemovedStays'
    <3> SUFFICES ASSUME NEW n \in removed'
                 PROVE  n \in Ids(new) /\ new[n].dead
      BY <2>1, <2>3 DEF RemovedStays, Ids
    <3>1. CASE n \in removed
      BY <2>2, <3>1 DEF BoardInv, RemovedStays
    <3>2. CASE n = change.id /\ change.op = "remove"
      BY <2>2, <3>2
    <3> QED BY <2>1, <3>1, <3>2
  <2>6. look'.pc # "none" => look'.id \in Ids(board)'
    BY <2>1, <2>2, <2>3 DEF BoardInv
  <2>7. \A n \in Ids(board)' : Read \subseteq DOMAIN board'[n]
    BY <2>1, <2>2, <2>3
  <2> QED BY <2>1, <2>4, <2>5, <2>6, <2>7 DEF BoardInv
<1>7. CASE BoardCrash
  <2>1. /\ change'.pc = "none" /\ look'.pc = "none" /\ board' = board
        /\ acked' = acked /\ removed' = removed
    BY <1>7 DEF BoardCrash, NoChange, NoLook
  <2> QED BY <2>1 DEF BoardInv, OwnerIsDoor, RemovedStays, Ids
<1>8. ASSUME NEW n \in Id, LookBegins(n)
      PROVE  BoardInv'
  <2>1. /\ look' = [pc |-> "search", id |-> n, row |-> board[n]] /\ n \in Ids(board)
        /\ UNCHANGED <<board, tmp, author, change, acked, removed>>
    BY <1>8 DEF LookBegins, DueChecks, LiveIds
  <2> QED BY <2>1 DEF BoardInv, OwnerIsDoor, RemovedStays, Ids, Fits, Applied
<1>9. CASE Looked
  <2>1. DOMAIN Stamp(look.row) = {} /\ look.id \in Ids(board)
    BY <1>9 DEF Looked, Stamp, BoardInv
  <2>2. Begin("ticker", "update", look.id, Stamp(look.row))
    BY <1>9 DEF Looked
  <2> QED BY <2>1, <2>2, BeginFits
<1>10. ASSUME NEW fired \in BOOLEAN, NEW grounded \in BOOLEAN, Judged(fired, grounded)
       PROVE  BoardInv'
  <2>1. /\ look'.pc = "none" /\ look.id \in Ids(board) /\ change.pc = "none"
        /\ UNCHANGED <<board, tmp, author, acked, removed>>
    BY <1>10 DEF Judged, NoLook, NoChange, BoardInv
  <2>2. CASE change' = change
    BY <2>1, <2>2 DEF BoardInv, OwnerIsDoor, RemovedStays, Ids
  <2>3. CASE change' = [pc |-> "load", door |-> "ticker", op |-> "update", id |-> look.id,
                        row |-> [raised |-> FALSE]]
    <3>1. /\ change'.pc = "load" /\ change'.op = "update" /\ change'.id = look.id
          /\ DOMAIN change'.row = {"raised"}
      BY <2>3
    <3>2. Fits'
      BY <2>1, <3>1 DEF Fits, Ids, Read
    <3> QED BY <2>1, <3>1, <3>2 DEF BoardInv, OwnerIsDoor, RemovedStays, Ids
  <2> QED BY <1>10, <2>2, <2>3 DEF Judged
<1>11. CASE UNCHANGED bvars
  BY <1>11 DEF bvars, BoardInv, OwnerIsDoor, RemovedStays, Ids, Fits, Applied
<1> QED BY <1>1, <1>2, <1>3, <1>4, <1>5, <1>6, <1>7, <1>8, <1>9, <1>10, <1>11 DEF BoardNext

LEMMA BoardInvariant == BoardSpec => []BoardInv
BY InitBoard, StepBoard, PTL DEF BoardSpec

\* An acknowledged note is in the file after any crash, with the owner of the door it
\* came through (notes.py add, _write_all; note_tools._mine, set_author in app.py).
THEOREM OwnersAreDoors == BoardSpec => []OwnerIsDoor
<1>1. BoardInv => OwnerIsDoor
  BY DEF BoardInv
<1> QED BY <1>1, BoardInvariant, PTL

\* A note taken off stays off, though a watch read it before and writes after
\* (notes.py remove, update; watch.py check, _watch_tick).
THEOREM RemovedAlwaysStays == BoardSpec => []RemovedStays
<1>1. BoardInv => RemovedStays
  BY DEF BoardInv
<1> QED BY <1>1, BoardInvariant, PTL

\* Both, for any number of notes, doors that alternate and deaths between any two
\* writes (notes.py, note_tools.py, watch.py).
THEOREM NotesAreKept == BoardSpec => []NotesKept
<1>1. OwnerIsDoor /\ RemovedStays => NotesKept
  BY DEF NotesKept
<1> QED BY <1>1, OwnersAreDoors, RemovedAlwaysStays, PTL
=============================================================================
