------------------------------ MODULE DueTime ------------------------------
(***************************************************************************)
(* parse_due of harness/skills/duetime.py: the words of a reminder become  *)
(* a time.  Times count hours from a Monday, 00:00; a phrase is the record *)
(* of what the patterns find in it.                                        *)
(***************************************************************************)
EXTENDS Integers

CONSTANT Hours      \* the readings of the clock that are tried

VARIABLE at         \* now

Day == 24
NoClock == [h |-> -1, ap |-> ""]
Clock == {NoClock} \cup [h : 0..25, ap : {"", "am", "pm"}]
\* "in n hours", "tonight", "tomorrow", "today", a weekday, "next" one, a bare time
Phrase == [form : {"in"}, n : 0..30] \cup
          [form : {"tonight", "tomorrow", "today", "clock"}, c : Clock] \cup
          [form : {"weekday"}, c : Clock, idx : 0..6, next : BOOLEAN]

MidnightOf(t) == t - (t % Day)
Weekday(t) == (t \div Day) % 7

\* _clock_on: the hour of the day.
HourOf(c, default) ==
    LET h == CASE c.ap = "pm" /\ c.h < 12 -> c.h + 12
               [] c.ap = "am" /\ c.h = 12 -> 0
               [] c.ap = "" /\ c.h <= 7   -> c.h + 12
               [] OTHER                   -> c.h
    IN  IF c = NoClock \/ h \notin 0..23 THEN default ELSE h

ClockOn(t, c, default) == MidnightOf(t) + HourOf(c, default)

\* How many days ahead a weekday is.
Ahead(p, now) ==
    LET a == (p.idx - Weekday(now)) % 7
        b == IF a = 0 THEN 7 ELSE a
    IN  IF p.next /\ b < 7 THEN b + 7 ELSE b

\* "at 6pm": today if it is still ahead, else tomorrow.
BareClock(p, now) ==
    LET today == ClockOn(now, p.c, 9)
    IN  IF today <= now THEN ClockOn(now + Day, p.c, 9) ELSE today

ParseDue(p, now) ==
    CASE p.form = "in"       -> now + p.n
      [] p.form = "tonight"  -> ClockOn(now, p.c, 20)
      [] p.form = "tomorrow" -> ClockOn(now + Day, p.c, 9)
      [] p.form = "today"    -> ClockOn(now, p.c, 9)
      [] p.form = "weekday"  -> ClockOn(now + Day * Ahead(p, now), p.c, 9)
      [] OTHER               -> BareClock(p, now)

DueTimeInit == at \in Hours
DueTimeNext == at' \in Hours
DueTimeSpec == DueTimeInit /\ [][DueTimeNext]_at

-----------------------------------------------------------------------------
\* Nobody sets a reminder for a time that has gone: a weekday, "tomorrow" or a
\* bare hour is always ahead, and less than fifteen days, whatever the hour now.
NeverGone ==
    \A p \in Phrase : p.form \in {"tomorrow", "weekday", "clock"} =>
       ParseDue(p, at) \in at + 1 .. at + 15 * Day

\* A named weekday is the first such day after today, or with "next" the one a
\* week later when that first one is less than a week away.
NextOne ==
    \A p \in Phrase : p.form = "weekday" =>
       LET days  == {d \in 1..7 : Weekday(at + d * Day) = p.idx}
           first == CHOOSE d \in days : TRUE
       IN  (ParseDue(p, at) - MidnightOf(at)) \div Day =
              IF p.next /\ first < 7 THEN first + 7 ELSE first

\* Noon and midnight: 12am is the first hour of the day it is said of and 12pm
\* its middle, and an hour given with am or pm lands in that half of the day.
HalfDay ==
    \A p \in Phrase : p.form = "tomorrow" /\ p.c.h \in 1..12 /\ p.c.ap # "" =>
       (ParseDue(p, at) % Day < 12) = (p.c.ap = "am")
=============================================================================
