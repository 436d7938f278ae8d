---------------------------- MODULE Availability ----------------------------
(***************************************************************************)
(* Which start times are offered (internal/availability/availability.go    *)
(* and Service.Availability), over a meeting type, a clock and commitments *)
(* that come and go on the consulted calendars.                            *)
(*                                                                         *)
(* Instants are minutes of universal time.  A time zone is two offsets and *)
(* the instant at which the second takes over.  A slot is its start: its   *)
(* length is that of the meeting type.  The order of the result is left    *)
(* out.                                                                    *)
(***************************************************************************)
EXTENDS Integers, FiniteSets

CONSTANTS
    Meetings,         \* meeting types an administrator can have saved
    Commitments,      \* what a calendar or an external block may say is busy
    Instants,         \* the instants the clock is looked at
    Froms,            \* the values of the "from" parameter
    MaxCommitments    \* bound on the commitments held at one time

DayMinutes == 1440
PageDays == 14
DefaultSlotIntervalMinutes == 30

ASSUME MeetingAssumption ==
    \A m \in Meetings :
        /\ m.duration \in 5 .. 480
        /\ m.before \in Nat /\ m.after \in Nat /\ m.notice \in Nat
        /\ m.interval \in Nat /\ m.days \in 1 .. 365
        /\ m.zone.before \in Int /\ m.zone.after \in Int /\ m.zone.at \in Int
        /\ \A h \in m.hours : /\ h.weekday \in 0 .. 6
                              /\ h.end \in 1 .. DayMinutes - 1
                              /\ h.start \in 0 .. h.end - 1
        /\ \A g, h \in m.hours : g.weekday = h.weekday => g = h

ASSUME CommitmentAssumption ==
    \A c \in Commitments : c.start \in Int /\ c.end \in Int /\ c.start < c.end

ASSUME InstantAssumption == Instants \subseteq Int /\ Froms \subseteq Int

VARIABLES meeting, now, commitments
vars == <<meeting, now, commitments>>

Later(x, y)   == IF x > y THEN x ELSE y
Earlier(x, y) == IF x < y THEN x ELSE y

-------------------------------------------------------------------------------
(***************************************************************************)
(* The part of Go's package time that the code relies on.                  *)
(***************************************************************************)

Offset(z, t) == IF t < z.at THEN z.before ELSE z.after

\* What a clock on the wall shows at t, counted from the same origin.
Wall(z, t) == t + Offset(z, t)
LocalDay(z, t) == Wall(z, t) \div DayMinutes
Weekday(z, t) == LocalDay(z, t) % 7

\* time.Date: the offset is guessed at the wall time, and guessed again at the
\* result when that falls on the other side of the change.
Date(z, w) ==
    LET t == w - Offset(z, w)
    IN  IF (t < z.at) = (w < z.at) \/ Offset(z, w) = 0 THEN t ELSE w - Offset(z, t)

AddDate(z, t, days) == Date(z, Wall(z, t) + days * DayMinutes)

-------------------------------------------------------------------------------
NormalizeSlotIntervalMinutes(minutes) ==
    IF minutes < DefaultSlotIntervalMinutes THEN DefaultSlotIntervalMinutes
    ELSE ((minutes + DefaultSlotIntervalMinutes - 1) \div DefaultSlotIntervalMinutes)
            * DefaultSlotIntervalMinutes

StartOfDay(z, t) == Date(z, LocalDay(z, t) * DayMinutes)

ClockOn(z, day, clock) == Date(z, LocalDay(z, day) * DayMinutes + clock)

\* Plausible slip: multiples of the interval in universal time.
CeilUniversal(z, t, interval) ==
    IF t % interval = 0 THEN t ELSE t + interval - (t % interval)

\* The first multiple of the interval after local midnight, from t on.
CeilLocal(z, t, interval) ==
    LET remainder == (t - StartOfDay(z, t)) % interval
    IN  IF remainder = 0 THEN t ELSE t + interval - remainder

\* Plausible slip: back to back counts as overlapping.
OverlapsTouching(m, t, busy) ==
    \E p \in busy : t - m.before <= p.end /\ t + m.duration + m.after >= p.start

\* Plausible slip: the buffer after the meeting is forgotten.
OverlapsWithoutAfter(m, t, busy) ==
    \E p \in busy : t - m.before < p.end /\ t + m.duration > p.start

\* The slot, buffers included, has an instant in common with a busy period.
Overlaps(m, t, busy) ==
    \E p \in busy : t - m.before < p.end /\ t + m.duration + m.after > p.start

WindowStart(m, from) == Later(from, now + m.notice)

\* Plausible slip: one day short of the page the browser steps by.
WindowEndShort(m, from) ==
    Earlier(AddDate(m.zone, now, m.days), AddDate(m.zone, from, PageDays - 1))

WindowEnd(m, from) ==
    Earlier(AddDate(m.zone, now, m.days), AddDate(m.zone, from, PageDays))

\* Plausible slip: the walk starts on the day after.
FirstTomorrow(m, first) == AddDate(m.zone, StartOfDay(m.zone, first), 1)

FirstDay(m, first) == StartOfDay(m.zone, first)

\* The days walked from first up to last, each an instant got from the one
\* before.
Days(m, first, last) ==
    LET day[k \in 0 .. Later(0, last - first) \div DayMinutes + 2] ==
            IF k = 0 THEN FirstDay(m, first) ELSE AddDate(m.zone, day[k - 1], 1)
    IN  {d \in {day[k] : k \in DOMAIN day} : d \in Int /\ d < last}

\* The starts tried on a day, one every interval while the slot ends in time.
Candidates(m, day) ==
    LET interval == NormalizeSlotIntervalMinutes(m.interval)
        Steps == 0 .. (2 * DayMinutes) \div interval
    IN  UNION {
            LET first == CeilLocal(m.zone, ClockOn(m.zone, day, h.start), interval)
            IN  {t \in {first + k * interval : k \in Steps} :
                    t + m.duration <= ClockOn(m.zone, day, h.end)}
            : h \in {g \in m.hours : g.weekday = Weekday(m.zone, day)}}

\* The slots between two instants.
SlotsBetween(m, first, last, busy) ==
    {t \in UNION {Candidates(m, day) : day \in Days(m, first, last)} :
        /\ t >= first
        /\ t + m.duration <= last
        /\ ~Overlaps(m, t, busy)}

Slots(m, from, busy) == SlotsBetween(m, WindowStart(m, from), WindowEnd(m, from), busy)

\* Free/busy of the destination account and of the attendees, and the external
\* blocks, in the fortnight after from.
Consulted(m) == {c \in commitments : c.of \in m.accounts \cup {"external"}}

Busy(m, from) ==
    {c \in Consulted(m) : c.end > from /\ c.start < from + PageDays * DayMinutes}

\* Service.Availability: what GET availability answers for a page, and what
\* Create looks up with from = the requested start.
Offered(m, from) == Slots(m, from, Busy(m, from))
Rechecked(m, t) == t \in Offered(m, t)

-------------------------------------------------------------------------------
Init ==
    /\ meeting \in Meetings
    /\ now \in Instants
    /\ commitments = {}

Tick ==
    /\ now' \in {t \in Instants : t > now}
    /\ UNCHANGED <<meeting, commitments>>

\* Somebody is busy, on Google or by PUT /api/external/blocks/{id}.
Commit(c) ==
    /\ Cardinality(commitments) < MaxCommitments
    /\ commitments' = commitments \cup {c}
    /\ UNCHANGED <<meeting, now>>

\* No longer; DELETE is answered alike when there is nothing to delete.
Withdraw(c) ==
    /\ commitments' = commitments \ {c}
    /\ UNCHANGED <<meeting, now>>

Next == Tick \/ \E c \in Commitments : Commit(c) \/ Withdraw(c)

Spec == Init /\ [][Next]_vars

-------------------------------------------------------------------------------
(***************************************************************************)
(* Properties.                                                             *)
(***************************************************************************)

\* What README.md:148-152 promises, said of one instant: t is on the grid of
\* its own local day, inside that weekday's hours, after the notice, before
\* the end of the window, and clear of every period.
Bookable(m, t, first, last, busy) ==
    LET z == m.zone
        midnight == Date(z, LocalDay(z, t) * DayMinutes)
    IN  /\ first <= t /\ t + m.duration <= last
        /\ (t - midnight) % NormalizeSlotIntervalMinutes(m.interval) = 0
        /\ \E h \in m.hours :
              /\ h.weekday = Weekday(z, t)
              /\ Date(z, LocalDay(z, t) * DayMinutes + h.start) <= t
              /\ t + m.duration <= Date(z, LocalDay(z, t) * DayMinutes + h.end)
        /\ \A p \in busy : p.end <= t - m.before \/ t + m.duration + m.after <= p.start

\* Starts are on whole quarters of an hour in every zone.
Quarters(first, last) == {q * 15 : q \in first \div 15 .. last \div 15}

\* The walk over days and candidates finds each bookable start and no other,
\* across a change of the clocks too.
SlotsAreExact ==
    \A from \in Froms :
        LET first == WindowStart(meeting, from)
            last == WindowEnd(meeting, from)
        IN  Offered(meeting, from) =
              {t \in Quarters(first, last) :
                  Bookable(meeting, t, first, last, Busy(meeting, from))}

\* README.md:161.  Start times are at :00 and :30 on the local clock.
OnLocalHalfHours ==
    \A from \in Froms : \A t \in Offered(meeting, from) :
        Wall(meeting.zone, t) % DefaultSlotIntervalMinutes = 0

\* A start that was offered is still found by the recheck if nothing changed in
\* between, unless its buffer reaches past what the page asked the calendars.
OfferedIsAccepted ==
    \A from \in Froms : \A t \in Offered(meeting, from) :
        t + meeting.duration + meeting.after <= from + PageDays * DayMinutes
            => Rechecked(meeting, t)

\* Whatever a page may have shown before somebody became busy.
OnceOffered == UNION {Slots(meeting, from, {}) : from \in Froms}

\* The recheck refuses a start when a consulted calendar or an external block
\* is busy during the meeting or the buffer after it.
AcceptedIsFree ==
    \A t \in OnceOffered :
        Rechecked(meeting, t) =>
            \A c \in Consulted(meeting) :
                c.end <= t \/ t + meeting.duration + meeting.after <= c.start

\* README.md:17.  The recheck refuses a start whose buffers are not free.
AcceptedKeepsBuffers ==
    \A t \in OnceOffered :
        Rechecked(meeting, t) =>
            \A c \in Consulted(meeting) :
                \/ c.end <= t - meeting.before
                \/ t + meeting.duration + meeting.after <= c.start

\* The pages of the time picker, which steps by fourteen days of universal time
\* while the booking window is not over (App.tsx, TimePicker).
PageStarts ==
    {now + k * PageDays * DayMinutes :
        k \in 0 .. (meeting.days - 1) \div PageDays}

\* A guest who pages through the booking window sees every bookable start but
\* those that lie across the end of one page and the start of the next, and
\* those after the window by the clock of the pages, which has days of 24 hours:
\* the hour that is repeated in autumn makes the window of the server longer.
PagesMissOnlyStraddlers ==
    \A t \in SlotsBetween(meeting, now + meeting.notice,
                          AddDate(meeting.zone, now, meeting.days), Consulted(meeting)) :
        \/ \E from \in PageStarts : t \in Offered(meeting, from)
        \/ \E from \in PageStarts :
              /\ t < from + PageDays * DayMinutes
              /\ t + meeting.duration > AddDate(meeting.zone, from, PageDays)
        \/ now + meeting.days * DayMinutes <= t

-------------------------------------------------------------------------------
(***************************************************************************)
(* What the theorems about the slots suppose of the meeting types.         *)
(***************************************************************************)

\* A meeting and the buffer after it are no longer than what the calendars are
\* asked for.  putMeetingType bounds the meeting, and the buffer from below only.
BuffersFitAPage == \A m \in Meetings : m.duration + m.after <= PageDays * DayMinutes

\* The clocks change by whole half hours, as all zones in force do.
HalfHourChanges ==
    \A m \in Meetings : (m.zone.after - m.zone.before) % DefaultSlotIntervalMinutes = 0

\* Offsets from universal time are whole quarters of an hour, as those of all
\* zones in force are.
QuarterHourOffsets ==
    \A m \in Meetings : m.zone.before % 15 = 0 /\ m.zone.after % 15 = 0

\* By how much the clocks change.
Shift(z) == Later(z.after - z.before, z.before - z.after)

\* The change of the clocks, and twice its width around it, is within one local
\* day: not so where the clocks skip midnight.
ChangesWithinADay ==
    \A m \in Meetings :
        LET change == m.zone.at + m.zone.before IN
            (change - 2 * Shift(m.zone)) \div DayMinutes
              = (change + 2 * Shift(m.zone)) \div DayMinutes
=============================================================================
