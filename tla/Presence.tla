------------------------------ MODULE Presence ------------------------------
(***************************************************************************)
(* The attention ledger (harness/model/presence.py) and the silences it    *)
(* licenses (harness/model/person.py): a claim he used to mention has gone *)
(* quiet only over days on which he was here to mention it.                *)
(***************************************************************************)
EXTENDS Integers, FiniteSets

CONSTANTS Row,        \* rows of the registry
          PerDay,     \* instants of a day that are told apart
          MaxTime,    \* bound: instants
          MaxMentions \* bound: mentions of one row

VARIABLES now, ledger, row

avars == <<now, ledger, row>>

NoRow == [live |-> FALSE, speaker |-> "user", mentions |-> 0, first |-> 0, last |-> 0]
PresenceInit == now = 0 /\ ledger = {} /\ row = [r \in Row |-> NoRow]

MinMentions == 3
Day(t) == t \div PerDay

-----------------------------------------------------------------------------
\* Faulty: every calendar day counts.
AttendedCalendar(t0, t1) == Cardinality({t \in t0..t1 : (t - t0) % PerDay = 0})

\* attended_days: from t0 in steps of a day, the steps that land on a day with a
\* turn in the ledger; nothing without a ledger or for an empty interval.
AttendedDays(t0, t1) ==
    IF t1 <= t0 THEN 0
    ELSE Cardinality({t \in t0..t1 : (t - t0) % PerDay = 0 /\ Day(t) \in ledger})

\* from_registry: a retired row, or one she said of herself, is no evidence of him.
Evidence == {r \in Row : row[r].live /\ row[r].speaker = "user"}

Quiet(r) == AttendedDays(row[r].last, now)
Span(r) == LET a == AttendedDays(row[r].first, row[r].last) IN IF a = 0 THEN 1 ELSE a

\* silences: a rhythm, and a quiet longer than one and a half of its beats.
Silent(r) == r \in Evidence /\ row[r].mentions >= MinMentions /\ 2 * (row[r].mentions - 1) * Quiet(r) > 3 * Span(r)

\* A turn of his: the ledger has today, and the rows it mentions are reinforced
\* or stored.
Turn(said) ==
    /\ ledger' = ledger \union {Day(now)}
    /\ row' = [r \in Row |-> IF r \notin said \/ row[r].mentions = MaxMentions THEN row[r]
                             ELSE IF row[r].live THEN [row[r] EXCEPT !.mentions = @ + 1, !.last = now]
                             ELSE [NoRow EXCEPT !.live = TRUE, !.mentions = 1, !.first = now, !.last = now]]
    /\ UNCHANGED now

\* remember_about_self stores a row of hers, no turn of his.
SheSays(r) == /\ ~row[r].live
              /\ row' = [row EXCEPT ![r] = [NoRow EXCEPT !.live = TRUE, !.speaker = "self", !.mentions = MaxMentions,
                                                         !.first = now, !.last = now]]
              /\ UNCHANGED <<now, ledger>>

\* forget, a supersession or compaction: the row stays on file, retired.
Retire(r) == row[r].live /\ row' = [row EXCEPT ![r].live = FALSE] /\ UNCHANGED <<now, ledger>>

Tick == now < MaxTime /\ now' = now + 1 /\ UNCHANGED <<ledger, row>>

PresenceNext == \/ Tick
                \/ \E said \in SUBSET Row : Turn(said)
                \/ \E r \in Row : SheSays(r) \/ Retire(r)

PresenceSpec == PresenceInit /\ [][PresenceNext]_avars

-----------------------------------------------------------------------------
Here(r) == {d \in ledger : Day(row[r].last) <= d /\ d <= Day(now)}

\* The silence's clock runs on attended days: it never counts a day he was away,
\* and stepping by whole days from the last mention it misses today at most.
AttentionClock == \A r \in Evidence : Cardinality(Here(r)) - 1 <= Quiet(r) /\ Quiet(r) <= Cardinality(Here(r))

\* Time that passes while he is away makes nothing silent, however much of it:
\* past the instant of a mention only a day he is here does.
AwayIsNotSilenceStep ==
    Day(now') \notin ledger' => \A r \in Row : Silent(r)' => Silent(r) \/ now = row[r].last
AwayIsNotSilence == [][AwayIsNotSilenceStep]_avars
=============================================================================
