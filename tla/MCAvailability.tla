--------------------------- MODULE MCAvailability ---------------------------
(***************************************************************************)
(* Small instances of Availability.  Day 0 is a Sunday; the zones are      *)
(* Kathmandu, and New York before each of its two changes of the clocks.   *)
(***************************************************************************)
EXTENDS Availability

At(day, hour) == day * DayMinutes + hour * 60

Kathmandu == [before |-> 345, after |-> 345, at |-> 0]
Spring    == [before |-> -300, after |-> -240, at |-> At(7, 7)]
Autumn    == [before |-> -240, after |-> -300, at |-> At(7, 6)]

\* Hours that begin and end off the grid; Sundays include the hour that the
\* clocks skip or repeat, Saturdays the hour in which the clock is read first.
Hours == {[weekday |-> 0, start |-> 70, end |-> 320],
          [weekday |-> 1, start |-> 550, end |-> 660],
          [weekday |-> 6, start |-> 1130, end |-> 1200]}

Meeting(zone, duration, interval, days, notice) ==
    [zone |-> zone, duration |-> duration, interval |-> interval, days |-> days,
     notice |-> notice, before |-> 10, after |-> 10, hours |-> Hours,
     accounts |-> {"host"}]

SomeMeetings == {Meeting(Kathmandu, 20, 10, 2, 0), Meeting(Kathmandu, 60, 60, 16, 120),
                 Meeting(Spring, 30, 60, 16, 0), Meeting(Spring, 45, 90, 9, 60),
                 Meeting(Autumn, 30, 60, 28, 0), Meeting(Autumn, 45, 90, 9, 60)}

\* Santiago: the clocks go from Saturday's last minute to one on Sunday.
Santiago  == [before |-> -240, after |-> -180, at |-> At(7, 4)]
SkippedMidnight == {Meeting(Santiago, 30, 60, 9, 0)}

\* Inside the hour that changes, a few hours long, touching a claim, reaching
\* only into the buffer after one, and of an account that is not consulted.
SomeCommitments ==
    {[start |-> At(7, 6) + 50, end |-> At(7, 7) + 20, of |-> "host"],
     [start |-> At(0, 20) + 15, end |-> At(1, 3) + 35, of |-> "external"],
     [start |-> At(8, 13), end |-> At(8, 13) + 50, of |-> "host"],
     [start |-> At(8, 14) + 35, end |-> At(8, 15), of |-> "external"],
     [start |-> At(7, 0), end |-> At(9, 0), of |-> "stranger"]}

SomeInstants == {At(0, 0), At(0, 23) + 17, At(7, 6) + 30}
SomeFroms == SomeInstants \cup {At(1, 3) + 45, At(8, 14), At(14, 0)}
=============================================================================
