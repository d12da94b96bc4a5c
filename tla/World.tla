-------------------------------- MODULE World -------------------------------
(***************************************************************************)
(* What load_agent_system puts behind the persona on every turn: the       *)
(* standing world, composed from the registry once per process             *)
(* (skills/world.py), and her journal line (skills/narrative.py).          *)
(***************************************************************************)
EXTENDS Naturals

CONSTANTS WorldRow,   \* rows of the registry
          MaxNights   \* bound

VARIABLES wrows,     \* the registry, as the world sees it
          block,     \* world._CACHE
          journal,   \* narrative.md: the night of its entry, 0 for none
          night

wvars == <<wrows, block, journal, night>>

Unset == {"unset"}

WorldInit ==
    /\ wrows \in [WorldRow -> [class : {"fact", "private-secret"}, live : {TRUE},
                               speaker : {"user", "self"}, status : {"observed", "inferred"},
                               covered : BOOLEAN]]
    /\ block = Unset /\ journal = 0 /\ night = 1

\* world._compose: live rows of his lane, never a secret, and no conclusion his
\* own words cover.
Worldly == {r \in WorldRow : /\ wrows[r].live /\ wrows[r].class # "private-secret"
                             /\ wrows[r].speaker = "user" /\ ~(wrows[r].status = "inferred" /\ wrows[r].covered)}

\* render_world: composed once for the life of the process.
Rendered == IF block = Unset THEN Worldly ELSE block

\* load_agent_system, at the head of every turn.
LoadSystem ==
    /\ block' = Rendered
    /\ UNCHANGED <<wrows, journal, night>>

\* The registry moves on beneath the block.
RowRetired(r) ==
    /\ wrows[r].live /\ wrows' = [wrows EXCEPT ![r].live = FALSE]
    /\ UNCHANGED <<block, journal, night>>

\* compose_and_write: an unreachable or mute composer writes nothing.
Entry(usable) == IF usable THEN night ELSE journal

\* The night: the journal's line, then refresh(), then the session begins anew.
Night(usable) ==
    /\ night <= MaxNights /\ night' = night + 1
    /\ journal' = Entry(usable)
    /\ block' = Worldly
    /\ UNCHANGED <<wrows>>

\* The gateway starts again.
Boot ==
    /\ block' = Unset
    /\ UNCHANGED <<wrows, journal, night>>

\* remember(): a row comes to be covered by what he says now.
RowCovered(r) ==
    /\ ~wrows[r].covered /\ wrows' = [wrows EXCEPT ![r].covered = TRUE]
    /\ UNCHANGED <<block, journal, night>>

WorldNext ==
    \/ LoadSystem \/ Boot
    \/ \E r \in WorldRow : RowRetired(r) \/ RowCovered(r)
    \/ \E usable \in BOOLEAN : Night(usable)

WorldSpec == WorldInit /\ [][WorldNext]_wvars

-----------------------------------------------------------------------------
\* The prefix stands still: within a session the block does not move, whatever is
\* remembered or retired, so the daemon's cache of it is not re-prefilled.
PrefixStillStep ==
    block # Unset /\ block' # block => night' # night \/ block' = Unset
PrefixStill == [][PrefixStillStep]_wvars

\* A secret is never ambient, in any block a turn was given.
NeverAmbient == block = Unset \/ \A r \in block :
    wrows[r].class # "private-secret" /\ wrows[r].speaker = "user"

\* A block taken up afresh shows no row that was retired by then, and no
\* conclusion his own words had come to cover.
FreshIsTrueStep ==
    block' # block /\ block' # Unset => \A r \in block' :
        wrows[r].live /\ ~(wrows[r].status = "inferred" /\ wrows[r].covered)
FreshIsTrue == [][FreshIsTrueStep]_wvars
=============================================================================
