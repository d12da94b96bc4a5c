------------------------------- MODULE Launch -------------------------------
(***************************************************************************)
(* The launcher serve.py: a profile becomes the one environment both       *)
(* processes get, the old stack is stopped, the daemon and the gateway are *)
(* started and waited for.  Beside it, the ServerController of             *)
(* harness/inference, which the command "daemon" starts a daemon with.     *)
(* Of the environment the model keeps what decides who writes memory.      *)
(***************************************************************************)
EXTENDS Naturals, FiniteSets

CONSTANTS MaxProc,       \* bound: daemons that may run at once
          LaunchFaults   \* what a behaviour that is not calm may hold:
                         \* "other_profile": a gateway bounced with another profile
                         \* "cli": a daemon started by the command line

VARIABLES boot,      \* the run of serve.py: its step and its environment
          daemons,   \* the daemon processes: their environment, whether they listen
          gateway,   \* the gateway process
          owned,     \* the daemon the ServerController holds as self.proc, if it lives
          lfaults

lvars == <<boot, daemons, gateway, owned, lfaults>>

Profile == [writer : BOOLEAN,    \* memory.growth or memory.store_verb
            spine : BOOLEAN,     \* agent.authority = "spine"
            sound : BOOLEAN]     \* recall_authority is "L5", no n-gram ban
\* A retirer of rows left on in the operator's shell, and named in SP_PASSTHROUGH.
Shell == [forget : BOOLEAN, passthrough : BOOLEAN]

NoEnv == [writer |-> FALSE, forget |-> FALSE, spine |-> FALSE]
NoGateway == [up |-> FALSE, alive |-> FALSE, warm |-> FALSE, env |-> NoEnv]
Rest == [pc |-> "rest", env |-> NoEnv, full |-> FALSE]

LaunchInit ==
    /\ boot = Rest /\ daemons = {} /\ gateway = NoGateway /\ owned = {}
    /\ lfaults \in SUBSET LaunchFaults

-----------------------------------------------------------------------------
\* Faulty: the profile's own daemon-side writers are not looked at.
RefusedLax(p) == ~p.sound

\* build_env's SystemExits.
Refused(p) == ~p.sound \/ (p.writer /\ p.spine)

\* Every SP_* is stripped but the ones SP_PASSTHROUGH names; a line of the table
\* is written over it, and the table pins the daemon's other writers off.
CleanBase(sh) == sh.forget /\ sh.passthrough
Pinned(base) == FALSE   \* whatever the base says

\* The knobs of the profile.
BuildEnv(p, sh) == [writer |-> p.writer, forget |-> Pinned(CleanBase(sh)), spine |-> p.spine]

\* A daemon process writes or retires memory rows on its own.
Writes(env) == env.writer \/ env.forget

-----------------------------------------------------------------------------
\* main(): the profile is read, its environment built, or the run refused.
Boot(p, sh, bounce) ==
    /\ boot.pc = "rest" /\ ~Refused(p)
    /\ LET e == BuildEnv(p, sh) IN
       /\ bounce => \/ "other_profile" \in lfaults
                    \/ \A d \in daemons : d.env = e
       /\ boot' = [pc |-> IF bounce THEN "bounce" ELSE "stop", env |-> e, full |-> ~bounce]
    /\ UNCHANGED <<daemons, gateway, owned, lfaults>>

\* stop(), for a full boot and for "--stop".
StopAll ==
    /\ boot.pc \in {"rest", "stop"}
    /\ daemons' = {} /\ gateway' = NoGateway
    /\ boot' = [boot EXCEPT !.pc = IF @ = "stop" THEN "daemon" ELSE @]
    /\ owned' = {} /\ UNCHANGED lfaults

\* stop_gateway_only()
StopGateway ==
    /\ boot.pc = "bounce"
    /\ gateway' = NoGateway /\ boot' = [boot EXCEPT !.pc = "gateway"]
    /\ UNCHANGED <<daemons, owned, lfaults>>

\* A process is known by its number, so that two of one environment are two.
NewProc == CHOOSE n \in 1..MaxProc + 1 : \A d \in daemons : d.id # n

StartDaemon ==
    /\ boot.pc = "daemon"
    /\ daemons' = daemons \cup {[id |-> NewProc, up |-> FALSE, env |-> boot.env]}
    /\ boot' = [boot EXCEPT !.pc = "wait_daemon"]
    /\ UNCHANGED <<gateway, owned, lfaults>>

StartGateway ==
    /\ boot.pc = "gateway"
    /\ gateway' = [up |-> FALSE, alive |-> TRUE, warm |-> FALSE, env |-> boot.env]
    /\ boot' = [boot EXCEPT !.pc = "wait_gateway"]
    /\ UNCHANGED <<daemons, owned, lfaults>>

\* wait_http, answered by whatever listens there.
WaitHttp == CASE boot.pc = "wait_daemon"  -> \E d \in daemons : d.up
              [] boot.pc = "wait_gateway" -> gateway.up
              [] OTHER                    -> gateway.warm

PortAnswers ==
    /\ boot.pc \in {"wait_daemon", "wait_gateway", "prewarm"} /\ WaitHttp
    /\ \E next \in CASE boot.pc = "wait_daemon"  -> {"gateway"}
                     [] boot.pc = "wait_gateway" -> {"prewarm", "ready"}
                     [] OTHER                    -> {"ready"} :
          boot' = [boot EXCEPT !.pc = next]
    /\ UNCHANGED <<daemons, gateway, owned, lfaults>>

\* The wait is over without an answer: rc 1 with the processes left as they are,
\* or, for the prewarm, READY all the same ("first turn may be slow").
TimedOut ==
    /\ boot.pc \in {"wait_daemon", "wait_gateway", "prewarm"}
    /\ boot' = IF boot.pc = "prewarm" THEN [boot EXCEPT !.pc = "ready"] ELSE Rest
    /\ UNCHANGED <<daemons, gateway, owned, lfaults>>

\* The run returns, or the operator breaks it off.
BootEnds ==
    /\ boot.pc # "rest"
    /\ boot' = Rest
    /\ UNCHANGED <<daemons, gateway, owned, lfaults>>

-----------------------------------------------------------------------------
\* ServerController.start: a live daemon is used, else one is launched with the
\* caller's own environment; on a timeout it is left behind.
Controller(sh, writer) ==
    /\ "cli" \in lfaults /\ Cardinality(daemons) < MaxProc
    /\ \A d \in daemons : ~d.up
    /\ daemons' = daemons \cup {[id |-> NewProc, up |-> FALSE,
                                 env |-> [NoEnv EXCEPT !.writer = writer, !.forget = sh.forget]]}
    /\ owned' = {NewProc}
    /\ UNCHANGED <<boot, gateway, lfaults>>

\* ServerController.stop: terminate, wait, kill; only the process it holds.
ControllerStop ==
    /\ owned # {}
    /\ daemons' = {d \in daemons : d.id \notin owned} /\ owned' = {}
    /\ UNCHANGED <<boot, gateway, lfaults>>

\* The processes: a daemon loads its model and listens, a gateway listens and
\* prefills, either may die.
DaemonUp(d) ==
    /\ d \in daemons /\ \A x \in daemons : ~x.up
    /\ daemons' = (daemons \ {d}) \cup {[d EXCEPT !.up = TRUE]}
    /\ UNCHANGED <<boot, gateway, owned, lfaults>>
DaemonDies(d) ==
    /\ daemons' = daemons \ {d} /\ owned' = owned \ {d.id}
    /\ UNCHANGED <<boot, gateway, lfaults>>
GatewayRuns ==
    /\ gateway.alive
    /\ \/ ~gateway.up /\ gateway' = [gateway EXCEPT !.up = TRUE]
       \/ gateway.up /\ ~gateway.warm /\ gateway' = [gateway EXCEPT !.warm = TRUE]
       \/ gateway' = NoGateway
    /\ UNCHANGED <<boot, daemons, owned, lfaults>>

LaunchNext ==
    \/ \E p \in Profile, sh \in Shell, bounce \in BOOLEAN : Boot(p, sh, bounce)
    \/ StopAll \/ StopGateway \/ StartDaemon \/ StartGateway
    \/ PortAnswers \/ TimedOut \/ BootEnds
    \/ \E sh \in Shell, writer \in BOOLEAN : Controller(sh, writer)
    \/ ControllerStop
    \/ \E d \in daemons : DaemonUp(d) \/ DaemonDies(d)
    \/ GatewayRuns

LaunchSpec == LaunchInit /\ [][LaunchNext]_lvars

-----------------------------------------------------------------------------
\* Two hands never write her memory: no gateway with the spine's authority runs
\* beside a daemon that captures or retires rows, through refused profiles, a
\* shell full of old variables, broken-off boots and bounces of the gateway.
OneAuthority == lfaults = {} =>
    ~(gateway.alive /\ gateway.env.spine /\ \E d \in daemons : Writes(d.env))

\* A full boot leaves one daemon, of its own environment, whatever was running
\* before, bounced with another profile or half started.
FullBootHeals == "cli" \notin lfaults /\ boot.full /\ boot.pc \notin {"stop", "daemon"} =>
    /\ Cardinality(daemons) <= 1
    /\ \A d \in daemons : d.env = boot.env
    /\ gateway.alive => gateway.env = boot.env

\* One stack, with one hand on her memory: no spine beside a daemon that writes, and a
\* full boot over the remains of another leaves one daemon, its own (serve.py).
OneStack == OneAuthority /\ FullBootHeals
=============================================================================
