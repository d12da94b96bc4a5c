------------------------------- MODULE Scene --------------------------------
(***************************************************************************)
(* Role play (harness/roleplay/engine.py, ladder.py): a session's scene,   *)
(* the offer that waits for his pick, and the heat ladder under the        *)
(* ceiling the operator keeps in the tuning store.  One turn is the whole  *)
(* of _roleplay_pre_turn (harness/server/app.py).  First the store itself  *)
(* (harness/tuning/registry.py): declared defaults, overrides in           *)
(* var/tuning.json, a cache read once per process.                         *)
(***************************************************************************)
EXTENDS Integers, FiniteSets

CONSTANTS Knob,     \* the declared keys
          Default,  \* their defaults
          Lo, Hi,   \* their bounds
          Asked     \* values an operator types

\* Every knob has bounds with something between them; no knob has the name the
\* model gives to a file that cannot be read or to a cache not yet loaded.
ASSUME TuningShape ==
    /\ Lo \in [Knob -> Int] /\ Hi \in [Knob -> Int] /\ \A k \in Knob : Lo[k] <= Hi[k]
    /\ Asked \subseteq Int
    /\ Knob \intersect {"torn", "absent"} = {}

VARIABLES store,    \* var/tuning.json: a function of the overridden keys, or torn
          cached,   \* _CACHE, absent until the first load
          saving,   \* the save in progress, under _LOCK
          meant     \* the overrides the operator was last told are in force

kvars == <<store, cached, saving, meant>>

Torn == [torn |-> TRUE]
Absent == [absent |-> TRUE]
NoSave == [pc |-> "idle"]
None == [k \in {} |-> 0]

TuningInit == store = None /\ cached = Absent /\ saving = NoSave /\ meant = None

Clamp(k, v) == IF v < Lo[k] THEN Lo[k] ELSE IF v > Hi[k] THEN Hi[k] ELSE v

\* _load: an unreadable file is no overrides at all, and stays so in the cache.
Load == IF cached # Absent THEN cached ELSE IF store = Torn THEN None ELSE store

\* get: the override, clamped again, or the declared default.
Get(k) == IF k \in DOMAIN Load THEN Clamp(k, Load[k]) ELSE Default[k]

Override(f, ks, v) == [k \in DOMAIN f \union ks |-> IF k \in ks THEN Clamp(k, v) ELSE f[k]]
Without(f, k) == [j \in DOMAIN f \ {k} |-> f[j]]

\* set_many begins: an unknown key refuses the whole request; a known one takes
\* the lock and writes the new file beside the old one.
SetMany(ks, v) ==
    /\ saving = NoSave /\ ks \subseteq Knob
    /\ cached' = Load
    /\ saving' = [pc |-> "beside", new |-> Override(Load, ks, v)]
    /\ UNCHANGED <<store, meant>>

\* reset begins: the file itself is opened for writing, which empties it.
Reset(k) ==
    /\ saving = NoSave
    /\ cached' = Load /\ store' = Torn
    /\ saving' = [pc |-> "inplace", new |-> Without(Load, k)]
    /\ UNCHANGED meant

\* The file is replaced, or its last byte is written; the cache follows.
Saved ==
    /\ saving # NoSave /\ saving' = NoSave
    /\ store' = saving.new /\ cached' = saving.new /\ meant' = saving.new

\* What a death of the process leaves: os.replace never happened, or the file
\* reset() had opened is half written.
Dies == store' = store

Crash == /\ cached' = Absent /\ saving' = NoSave /\ Dies
         /\ meant' = IF saving.pc = "inplace" THEN None ELSE meant

-----------------------------------------------------------------------------
\* The overrides in force are those of the last save the operator was told of,
\* across crashes; a crash inside reset() loses all of them, and only that one.
LastSaveStands == saving = NoSave => \A k \in Knob :
                      Get(k) = IF k \in DOMAIN meant THEN meant[k] ELSE Default[k]

-----------------------------------------------------------------------------
(* Role play.                                                              *)

CONSTANTS Heat0,      \* where the deck's scenarios start
          Hooks,      \* hooks of a scenario
          MaxBeats    \* bound: turns of one scene

VARIABLES scene,      \* _SCENES[session], or NoScene
          offered,    \* the session is in _PENDING
          heardstop   \* his last turn held a stop

scvars == <<scene, offered, heardstop>>

\* DWELL: exchanges a rung asks for before the next can open.
Dwell == [r \in 0..7 |-> CASE r = 0 -> 1 [] r = 1 -> 3 [] r = 7 -> 99 [] OTHER -> 2]
StallBeats == 4
Top == 7

NoScene == [on |-> FALSE]

\* The patterns his message matches: ENTER, EXIT, HARD_STOP, COOL, HEAT, the name
\* of a scenario, and four words or fewer.
Pattern == {"enter", "exit", "stop", "cool", "heat", "names", "short"}

SceneInit == TuningInit /\ scene = NoScene /\ offered = FALSE /\ heardstop = FALSE

Entered(h) == [on |-> TRUE, start |-> h, level |-> h, at |-> 0, beats |-> 0, fired |-> 0]

-----------------------------------------------------------------------------
\* Faulty: the dwell is not asked for.
GateOpenEager(sc, cap) == sc.level < cap /\ sc.level < Top

\* gate_open
GateOpen(sc, cap) == sc.level < cap /\ sc.level < Top /\ sc.at >= Dwell[sc.level]

Rung(sc, l) == [sc EXCEPT !.level = l, !.at = 0]

\* ladder.step, after its hard stop: cool, then heat behind the gate, then hold.
Step(sc, m, cap) ==
    IF "cool" \in m THEN Rung(sc, IF sc.level = 0 THEN 0 ELSE sc.level - 1)
    ELSE IF "heat" \in m /\ GateOpen(sc, cap) THEN Rung(sc, sc.level + 1)
    ELSE [sc EXCEPT !.at = @ + 1]

\* The rest of director_note: the beat, and a hook when the scene idles.
Directed(sc, m) ==
    LET beats == sc.beats + 1
        idling == (beats >= StallBeats /\ beats % StallBeats = 0) \/ "short" \in m
    IN [sc EXCEPT !.beats = beats, !.fired = IF idling /\ @ < Hooks THEN @ + 1 ELSE @]

\* wants_out
WantsOut(m) == m \intersect {"exit", "stop"} # {}

\* A scene's turn, one that was running or has just been entered.
Play(sc, m) ==
    scene' = IF "stop" \in m THEN NoScene ELSE Directed(Step(sc, m, Get("max_heat")), m)

RoleplayTurn(m, h) ==
    /\ saving = NoSave
    /\ heardstop' = (Get("enabled") # 0 /\ ("stop" \in m \/ (scene.on /\ "exit" \in m)))
    /\ \/ Get("enabled") = 0 /\ UNCHANGED <<scene, offered>>
       \/ /\ Get("enabled") # 0 /\ scene.on /\ WantsOut(m)
          /\ scene' = NoScene /\ UNCHANGED offered
       \/ /\ Get("enabled") # 0 /\ scene.on /\ ~WantsOut(m) /\ scene.beats < MaxBeats
          /\ Play(scene, m) /\ UNCHANGED offered
       \/ /\ Get("enabled") # 0 /\ ~scene.on /\ ~offered /\ "enter" \notin m
          /\ UNCHANGED <<scene, offered>>
       \/ /\ Get("enabled") # 0 /\ ~scene.on /\ (offered \/ "enter" \in m) /\ "names" \in m
          /\ offered' = FALSE /\ Play(Entered(h), m)
       \/ /\ Get("enabled") # 0 /\ ~scene.on /\ (offered \/ "enter" \in m) /\ "names" \notin m
          /\ offered' = ~offered /\ UNCHANGED scene
    /\ cached' = Load /\ UNCHANGED <<store, saving, meant>>

\* The gateway's process dies: scenes and offers are memory only.
Reborn == Crash /\ scene' = NoScene /\ offered' = FALSE /\ heardstop' = FALSE

SceneNext ==
    \/ \E m \in SUBSET Pattern, h \in Heat0 : RoleplayTurn(m, h)
    \/ /\ \/ \E ks \in SUBSET Knob \ {{}}, v \in Asked : SetMany(ks, v)
          \/ \E k \in Knob : Reset(k)
          \/ Saved
       /\ UNCHANGED scvars
    \/ Reborn

SceneSpec == SceneInit /\ [][SceneNext]_<<kvars, scvars>>

-----------------------------------------------------------------------------
\* What the rungs below r cost together: each its dwell and the turn that opens
\* the next.
Paid(r) == IF r <= 1 THEN 2 * r ELSE 3 * r

\* No rung is reached early: the turns a scene has had pay for every rung above
\* the one it started on, however often it cooled and rose again on the way.
Earned == scene.on => scene.beats >= Paid(scene.level) - Paid(scene.start) + scene.at

\* When he says stop, the scene is over by the end of that turn, whatever else
\* his message matched and however the scene began.
StopWins == heardstop => ~scene.on

\* A scene stays within what was agreed: no rung is reached before it is paid for, a
\* stop ends it in its own turn, and the knobs that bound it (the switch, the ceiling)
\* are those the operator last saved, across crashes.
SceneSafe == Earned /\ StopWins /\ LastSaveStands
=============================================================================
