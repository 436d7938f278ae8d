------------------------- MODULE AvailabilityProofs -------------------------
(***************************************************************************)
(* Theorems about Availability, for any meeting types, commitments, clock  *)
(* and zone with one change of its offset.                                 *)
(*                                                                         *)
(* What is said of a slot here holds on whatever days are walked, and so   *)
(* needs nothing of the recursive function that walks them; for the other  *)
(* direction see AvailabilityWalkProofs.                                   *)
(***************************************************************************)
EXTENDS Availability, TLAPS

\* Only what the steps keep: the clock and the type are of the constants, and
\* so is every commitment.
StateOK ==
    /\ meeting \in Meetings
    /\ now \in Int
    /\ commitments \subseteq Commitments

LEMMA StateInvariant == Spec => []StateOK
  <1>1. Init => StateOK
    BY InstantAssumption DEF Init, StateOK
  <1>2. StateOK /\ [Next]_vars => StateOK'
    BY InstantAssumption DEF StateOK, Next, Tick, Commit, Withdraw, vars
  <1> QED
    BY <1>1, <1>2, PTL DEF Spec

-------------------------------------------------------------------------------
(***************************************************************************)
(* Arithmetic on the grid.                                                 *)
(***************************************************************************)

\* A remainder of zero makes a multiple, and the other way round.
LEMMA Multiples ==
    ASSUME NEW n \in Nat, n > 0
    PROVE  /\ \A a \in Int : a % n = 0 => a = (a \div n) * n /\ a \div n \in Int
           /\ \A q \in Int : (q * n) % n = 0
  <1>1. ASSUME NEW a \in Int, a % n = 0
        PROVE  a = (a \div n) * n /\ a \div n \in Int
    BY <1>1
  <1>2. ASSUME NEW q \in Int
        PROVE  (q * n) % n = 0
    OBVIOUS
  <1> QED
    BY <1>1, <1>2

\* Steps of one interval stay on the grid.
LEMMA GridStep ==
    ASSUME NEW n \in Nat, n > 0, NEW a \in Int, a % n = 0, NEW k \in Int
    PROVE  (a + k * n) % n = 0
  <1>1. PICK q \in Int : a = q * n
    BY Multiples
  <1>2. a + k * n = (q + k) * n /\ q + k \in Int
    BY <1>1
  <1> QED
    BY <1>2, Multiples

\* The next multiple is a multiple.
LEMMA GridCeiling ==
    ASSUME NEW n \in Nat, n > 0, NEW a \in Int
    PROVE  /\ a % n \in Int /\ 0 <= a % n /\ a % n < n
           /\ (a + n - (a % n)) % n = 0
  <1>1. a % n \in Int /\ 0 <= a % n /\ a % n < n
    OBVIOUS
  <1>2. (a + n - (a % n)) % n = 0
    OBVIOUS
  <1> QED
    BY <1>1, <1>2

\* A grid of a multiple of thirty minutes lies on that of thirty minutes.
LEMMA CoarserGrid ==
    ASSUME NEW n \in Nat, n > 0, n % 30 = 0, NEW a \in Int, a % n = 0
    PROVE  a % 30 = 0
  <1>1. PICK q \in Int : a = q * n
    BY Multiples
  <1>2. PICK j \in Int : n = j * 30
    OBVIOUS
  <1>3. a = (q * j) * 30 /\ q * j \in Int
    BY <1>1, <1>2
  <1> QED
    BY <1>3, Multiples

\* The interval used is a positive number of half hours.
LEMMA IntervalInHalfHours ==
    ASSUME NEW minutes \in Nat
    PROVE  /\ NormalizeSlotIntervalMinutes(minutes) \in Nat
           /\ NormalizeSlotIntervalMinutes(minutes) > 0
           /\ NormalizeSlotIntervalMinutes(minutes) % 30 = 0
  <1>1. CASE minutes < 30
    BY <1>1 DEF NormalizeSlotIntervalMinutes, DefaultSlotIntervalMinutes
  <1>2. CASE minutes >= 30
    <2>1. (minutes + 30 - 1) \div 30 \in Nat /\ (minutes + 30 - 1) \div 30 > 0
      BY <1>2
    <2> QED
      BY <1>2, <2>1 DEF NormalizeSlotIntervalMinutes, DefaultSlotIntervalMinutes
  <1> QED
    BY <1>1, <1>2

-------------------------------------------------------------------------------
(***************************************************************************)
(* What Candidates and Slots return.                                       *)
(***************************************************************************)

LEMMA MeetingFacts ==
    ASSUME NEW m \in Meetings
    PROVE  /\ m.zone.before \in Int /\ m.zone.after \in Int /\ m.zone.at \in Int
           /\ m.duration \in Nat /\ m.duration > 0
           /\ m.before \in Nat /\ m.after \in Nat /\ m.interval \in Nat
           /\ m.notice \in Nat /\ m.days \in Nat
           /\ \A h \in m.hours : /\ h.start \in Nat /\ h.end \in Nat
                                 /\ h.start < h.end /\ h.end < DayMinutes
  <1>1. /\ m.zone.before \in Int /\ m.zone.after \in Int /\ m.zone.at \in Int
        /\ m.before \in Nat /\ m.after \in Nat /\ m.interval \in Nat
        /\ m.notice \in Nat
    BY MeetingAssumption
  <1>2. m.duration \in 5 .. 480 /\ m.days \in 1 .. 365
    BY MeetingAssumption
  <1>3. ASSUME NEW h \in m.hours
        PROVE  /\ h.start \in Nat /\ h.end \in Nat
               /\ h.start < h.end /\ h.end < DayMinutes
    <2>1. \A x, y : y \in 1 .. DayMinutes - 1 /\ x \in 0 .. y - 1 =>
                       /\ x \in Nat /\ y \in Nat
                       /\ x < y /\ y < DayMinutes
      BY DEF DayMinutes
    <2>2. h.end \in 1 .. DayMinutes - 1 /\ h.start \in 0 .. h.end - 1
      BY MeetingAssumption
    <2> QED
      BY <2>1, <2>2, Zenon
  <1> QED
    BY <1>1, <1>2, <1>3

LEMMA DateTypes ==
    ASSUME NEW m \in Meetings, NEW t \in Int
    PROVE  /\ Offset(m.zone, t) \in Int
           /\ Wall(m.zone, t) \in Int
           /\ LocalDay(m.zone, t) \in Int
           /\ Date(m.zone, t) \in Int
           /\ StartOfDay(m.zone, t) \in Int
           /\ \A minutes \in Int : ClockOn(m.zone, t, minutes) \in Int
  <1>1. \A x \in Int : Offset(m.zone, x) \in Int
    BY MeetingFacts DEF Offset
  <1>2. \A w \in Int : Date(m.zone, w) \in Int
    BY <1>1 DEF Date
  <1>3. Wall(m.zone, t) \in Int /\ LocalDay(m.zone, t) \in Int
    BY <1>1 DEF Wall, LocalDay, DayMinutes
  <1>4. LocalDay(m.zone, t) * DayMinutes \in Int
    BY <1>3 DEF DayMinutes
  <1> QED
    BY <1>1, <1>2, <1>3, <1>4 DEF StartOfDay, ClockOn

\* A candidate lies within the hours of the day it was tried on, and on the
\* grid that begins at the midnight of the day on which those hours begin.
LEMMA CandidateFacts ==
    ASSUME NEW m \in Meetings, NEW day \in Int, NEW t \in Candidates(m, day)
    PROVE  \E h \in m.hours :
              /\ t \in Int
              /\ h.weekday = Weekday(m.zone, day)
              /\ ClockOn(m.zone, day, h.start) <= t
              /\ t + m.duration <= ClockOn(m.zone, day, h.end)
              /\ (t - StartOfDay(m.zone, ClockOn(m.zone, day, h.start)))
                    % NormalizeSlotIntervalMinutes(m.interval) = 0
  <1> DEFINE n == NormalizeSlotIntervalMinutes(m.interval)
             First(h) == CeilLocal(m.zone, ClockOn(m.zone, day, h.start), n)
  <1>1. n \in Nat /\ n > 0
    BY MeetingFacts, IntervalInHalfHours
  <1>2. PICK h \in m.hours, k \in 0 .. (2 * DayMinutes) \div n :
           /\ h.weekday = Weekday(m.zone, day)
           /\ t = First(h) + k * n
           /\ t + m.duration <= ClockOn(m.zone, day, h.end)
    BY DEF Candidates
  <1> DEFINE start == ClockOn(m.zone, day, h.start)
             midnight == StartOfDay(m.zone, start)
  <1>3. k \in Nat
    BY <1>1, <1>2 DEF DayMinutes
  <1>4. start \in Int /\ midnight \in Int
    <2>1. h.start \in Int
      BY MeetingFacts
    <2>2. start \in Int
      BY <2>1, DateTypes
    <2> QED
      BY <2>2, DateTypes
  <1>5. /\ First(h) \in Int /\ start <= First(h)
        /\ (First(h) - midnight) % n = 0
    <2> DEFINE r == (start - midnight) % n
    <2>1. r \in Int /\ 0 <= r /\ r < n /\ ((start - midnight) + n - r) % n = 0
      BY <1>1, <1>4, GridCeiling
    <2>2. First(h) = IF r = 0 THEN start ELSE start + n - r
      BY DEF CeilLocal
    <2> HIDE DEF n, First, start, midnight
    <2>3. CASE r = 0
      BY <1>4, <2>2, <2>3
    <2>4. CASE r # 0
      <3> HIDE DEF r
      <3>1. First(h) = start + n - r
        BY <2>2, <2>4
      <3>2. First(h) - midnight = (start - midnight) + n - r
        BY <1>1, <1>4, <2>1, <3>1
      <3> QED
        BY <1>1, <1>4, <2>1, <3>1, <3>2
    <2> QED
      BY <2>3, <2>4
  <1> HIDE DEF n, First, start, midnight
  <1>6. t \in Int /\ start <= t
    <2>1. k * n \in Nat
      BY <1>1, <1>3
    <2> DEFINE steps == k * n
    <2> HIDE DEF steps
    <2>2. t = First(h) + steps
      BY <1>2 DEF steps
    <2>3. steps \in Nat
      BY <2>1 DEF steps
    <2> QED
      BY <1>4, <1>5, <2>2, <2>3
  <1>7. (t - midnight) % n = 0
    <2> DEFINE a == First(h) - midnight
    <2>1. a \in Int /\ a % n = 0
      BY <1>4, <1>5
    <2>2. t - midnight = a + k * n
      <3> DEFINE steps == k * n
      <3>1. steps \in Int
        BY <1>1, <1>3
      <3> HIDE DEF steps
      <3>2. t = First(h) + steps
        BY <1>2 DEF steps
      <3>3. t - midnight = a + steps
        BY <1>4, <1>5, <3>1, <3>2
      <3> QED
        BY <3>3 DEF steps
    <2> HIDE DEF a
    <2>3. (a + k * n) % n = 0
      BY <1>1, <1>3, <2>1, GridStep
    <2> QED
      BY <2>2, <2>3
  <1> QED
    BY <1>2, <1>6, <1>7 DEF n, start, midnight

\* A slot is a candidate of some walked day, in the window and clear.
LEMMA SlotFacts ==
    ASSUME NEW m \in Meetings, NEW first, NEW last, NEW busy,
           NEW t \in SlotsBetween(m, first, last, busy)
    PROVE  /\ t \in Int
           /\ \E day \in Int : t \in Candidates(m, day)
           /\ t >= first /\ t + m.duration <= last
           /\ ~Overlaps(m, t, busy)
  <1>1. PICK day \in Days(m, first, last) : t \in Candidates(m, day)
    BY DEF SlotsBetween
  <1>2. day \in Int
    BY DEF Days
  <1>3. t \in Int
    BY <1>1, <1>2, CandidateFacts
  <1> QED
    BY <1>1, <1>2, <1>3 DEF SlotsBetween

-------------------------------------------------------------------------------
\* Nobody is booked over a commitment that a consulted calendar or an external
\* block held when the slot was rechecked: the fortnight that is asked about
\* from the requested start on is long enough, if a meeting with the buffer
\* after it fits into it.
THEOREM AcceptedStartsAreFree ==
    ASSUME BuffersFitAPage
    PROVE  Spec => []AcceptedIsFree
  <1>1. StateOK => AcceptedIsFree
    <2> SUFFICES ASSUME StateOK, NEW t \in OnceOffered, Rechecked(meeting, t),
                        NEW c \in Consulted(meeting)
                 PROVE  c.end <= t \/ t + meeting.duration + meeting.after <= c.start
      BY DEF AcceptedIsFree
    <2>1. meeting \in Meetings /\ c \in Commitments
      BY DEF StateOK, Consulted
    <2>2. c.start \in Int /\ c.end \in Int
      BY <2>1, CommitmentAssumption
    <2>3. t \in Int /\ ~Overlaps(meeting, t, Busy(meeting, t))
      BY <2>1, SlotFacts DEF Rechecked, Offered, Slots
    <2>4. ASSUME c.end > t, t + meeting.duration + meeting.after > c.start
          PROVE  FALSE
      <3>1. /\ meeting.duration \in Nat /\ meeting.before \in Nat
            /\ meeting.after \in Nat
            /\ meeting.duration + meeting.after <= PageDays * DayMinutes
        BY <2>1, MeetingFacts DEF BuffersFitAPage
      <3>2. c.start < t + PageDays * DayMinutes
        BY <2>2, <2>3, <2>4, <3>1 DEF PageDays, DayMinutes
      <3>3. c \in Busy(meeting, t)
        BY <2>4, <3>2 DEF Busy
      <3>4. t - meeting.before < c.end
        BY <2>2, <2>3, <2>4, <3>1
      <3> QED
        BY <2>3, <2>4, <3>3, <3>4 DEF Overlaps
    <2>5. /\ meeting.duration \in Nat /\ meeting.after \in Nat
      BY <2>1, MeetingFacts
    <2> QED
      BY <2>2, <2>3, <2>4, <2>5
  <1> QED
    BY <1>1, StateInvariant, PTL

-------------------------------------------------------------------------------
(***************************************************************************)
(* Local time.                                                             *)
(***************************************************************************)

\* time.Date answers with an instant at which the clock on the wall shows what
\* was asked for, or, for a time that the clocks skip, with one that is off by
\* the change.
LEMMA DateShows ==
    ASSUME NEW m \in Meetings, NEW w \in Int
    PROVE  \/ Wall(m.zone, Date(m.zone, w)) = w
           \/ /\ m.zone.at + m.zone.before <= w
              /\ w < m.zone.at + m.zone.after
              /\ Wall(m.zone, Date(m.zone, w)) \in
                    {w + (m.zone.after - m.zone.before),
                     w - (m.zone.after - m.zone.before)}
  <1> DEFINE b == m.zone.before
             a == m.zone.after
             c == m.zone.at
             z == m.zone
  <1>1. b \in Int /\ a \in Int /\ c \in Int
    BY MeetingFacts
  <1>2. \A x : Offset(z, x) = IF x < c THEN b ELSE a
    BY DEF Offset
  <1>3. \A x : Wall(z, x) = x + Offset(z, x)
    BY DEF Wall
  <1>4. Date(z, w) =
           IF \/ (w - Offset(z, w) < c) = (w < c)
              \/ Offset(z, w) = 0
           THEN w - Offset(z, w)
           ELSE w - Offset(z, w - Offset(z, w))
    BY DEF Date
  <1> HIDE DEF a, b, c, z
  <1>5. CASE w < c
    <2>1. Offset(z, w) = b
      BY <1>2, <1>5
    <2>2. CASE w - b < c
      <3>1. Date(z, w) = w - b
        BY <1>4, <1>5, <2>1, <2>2
      <3>2. Offset(z, Date(z, w)) = b
        BY <1>2, <2>2, <3>1
      <3>3. Wall(z, Date(z, w)) = w
        BY <1>1, <1>3, <3>1, <3>2
      <3> QED
        BY <3>3 DEF z
    <2>3. CASE ~(w - b < c)
      <3>1. b # 0
        BY <1>1, <1>5, <2>3
      <3>2. Offset(z, w - b) = a
        BY <1>2, <2>3
      <3>3. Date(z, w) = w - a
        BY <1>4, <1>5, <2>1, <2>3, <3>1, <3>2
      <3>4. CASE w - a < c
        <4>1. Offset(z, Date(z, w)) = b
          BY <1>2, <3>3, <3>4
        <4>2. Wall(z, Date(z, w)) = w - (a - b)
          BY <1>1, <1>3, <3>3, <4>1
        <4>3. c + b <= w /\ w < c + a
          BY <1>1, <2>3, <3>4
        <4> QED
          BY <4>2, <4>3 DEF a, b, c, z
      <3>5. CASE ~(w - a < c)
        <4>1. Offset(z, Date(z, w)) = a
          BY <1>2, <3>3, <3>5
        <4>2. Wall(z, Date(z, w)) = w
          BY <1>1, <1>3, <3>3, <4>1
        <4> QED
          BY <4>2 DEF z
      <3> QED
        BY <3>4, <3>5
    <2> QED
      BY <2>2, <2>3
  <1>6. CASE ~(w < c)
    <2>1. Offset(z, w) = a
      BY <1>2, <1>6
    <2>2. CASE ~(w - a < c)
      <3>1. Date(z, w) = w - a
        BY <1>4, <1>6, <2>1, <2>2
      <3>2. Offset(z, Date(z, w)) = a
        BY <1>2, <2>2, <3>1
      <3>3. Wall(z, Date(z, w)) = w
        BY <1>1, <1>3, <3>1, <3>2
      <3> QED
        BY <3>3 DEF z
    <2>3. CASE w - a < c
      <3>1. a # 0
        BY <1>1, <1>6, <2>3
      <3>2. Offset(z, w - a) = b
        BY <1>2, <2>3
      <3>3. Date(z, w) = w - b
        BY <1>4, <1>6, <2>1, <2>3, <3>1, <3>2
      <3>4. CASE w - b < c
        <4>1. Offset(z, Date(z, w)) = b
          BY <1>2, <3>3, <3>4
        <4>2. Wall(z, Date(z, w)) = w
          BY <1>1, <1>3, <3>3, <4>1
        <4> QED
          BY <4>2 DEF z
      <3>5. CASE ~(w - b < c)
        <4>1. Offset(z, Date(z, w)) = a
          BY <1>2, <3>3, <3>5
        <4>2. Wall(z, Date(z, w)) = w + (a - b)
          BY <1>1, <1>3, <3>3, <4>1
        <4>3. c + b <= w /\ w < c + a
          BY <1>1, <2>3, <3>5
        <4> QED
          BY <4>2, <4>3 DEF a, b, c, z
      <3> QED
        BY <3>4, <3>5
    <2> QED
      BY <2>2, <2>3
  <1> QED
    BY <1>5, <1>6

\* Start times are at :00 and :30 of the local clock, as README.md:161 says:
\* on every day that is walked, also after a change of the clocks, whatever
\* the hours of the type, its duration and its interval.
THEOREM StartsOnHalfHours ==
    ASSUME HalfHourChanges
    PROVE  Spec => []OnLocalHalfHours
  <1>1. StateOK => OnLocalHalfHours
    <2> SUFFICES ASSUME StateOK, NEW from \in Froms, NEW t \in Offered(meeting, from)
                 PROVE  Wall(meeting.zone, t) % 30 = 0
      BY DEF OnLocalHalfHours, DefaultSlotIntervalMinutes
    <2>0. PICK m \in Meetings : m = meeting
      BY DEF StateOK
    <2>1. PICK day \in Int : t \in Candidates(m, day)
      BY <2>0, SlotFacts DEF Offered, Slots
    <2>2. PICK h \in m.hours :
             /\ t \in Int
             /\ (t - StartOfDay(m.zone, ClockOn(m.zone, day, h.start)))
                   % NormalizeSlotIntervalMinutes(m.interval) = 0
      BY <2>1, CandidateFacts
    <2> DEFINE start == ClockOn(m.zone, day, h.start)
               w == LocalDay(m.zone, start) * DayMinutes
               midnight == StartOfDay(m.zone, start)
               change == m.zone.after - m.zone.before
    <2>3. start \in Int
      <3>1. h.start \in Int
        BY MeetingFacts
      <3> QED
        BY <3>1, DateTypes
    <2>4. /\ midnight \in Int /\ midnight = Date(m.zone, w)
          /\ w \in Int /\ w % 30 = 0
      <3>1. LocalDay(m.zone, start) \in Int
        BY <2>3, DateTypes
      <3>2. w \in Int /\ w % 30 = 0
        BY <3>1 DEF DayMinutes
      <3> QED
        BY <2>3, <3>2, DateTypes DEF StartOfDay
    <2>5. change \in Int /\ change % 30 = 0
      BY MeetingFacts DEF HalfHourChanges, DefaultSlotIntervalMinutes
    <2>6. /\ Wall(m.zone, midnight) \in Int
          /\ Wall(m.zone, midnight) \in {w, w + change, w - change}
      BY <2>4, DateShows, DateTypes
    <2>7. (t - midnight) % 30 = 0
      <3>1. t - midnight \in Int
        BY <2>2, <2>4
      <3>2. /\ NormalizeSlotIntervalMinutes(m.interval) \in Nat
            /\ NormalizeSlotIntervalMinutes(m.interval) > 0
            /\ NormalizeSlotIntervalMinutes(m.interval) % 30 = 0
        BY MeetingFacts, IntervalInHalfHours
      <3> QED
        BY <2>2, <3>1, <3>2, CoarserGrid
    <2>8. Wall(m.zone, t) - Wall(m.zone, midnight)
             \in {(t - midnight), (t - midnight) + change, (t - midnight) - change}
      BY <2>2, <2>4, MeetingFacts DEF Wall, Offset
    <2>9. Wall(m.zone, t) \in Int
      BY <2>2, DateTypes
    <2> HIDE DEF start, w, midnight, change
    <2>10. Wall(m.zone, midnight) % 30 = 0
      BY <2>4, <2>5, <2>6
    <2>11. Wall(m.zone, t) % 30 = 0
      <3> DEFINE x == Wall(m.zone, t)
                 y == Wall(m.zone, midnight)
                 d == t - midnight
      <3>1. /\ x \in Int /\ y \in Int /\ d \in Int /\ y % 30 = 0 /\ d % 30 = 0
            /\ x - y \in {d, d + change, d - change}
        BY <2>2, <2>4, <2>6, <2>7, <2>8, <2>9, <2>10
      <3> HIDE DEF x, y, d
      <3>2. x % 30 = 0
        BY <2>5, <3>1
      <3> QED
        BY <3>2 DEF x
    <2> QED
      BY <2>0, <2>11
  <1> QED
    BY <1>1, StateInvariant, PTL

-------------------------------------------------------------------------------
(***************************************************************************)
(* Slots are bookable.                                                     *)
(***************************************************************************)

\* What lies between two instants of one day is of that day.
LEMMA BetweenIsOnTheDay ==
    ASSUME NEW change \in Int, NEW s \in Nat, NEW x \in Int,
           (change - 2 * s) \div 1440 = (change + 2 * s) \div 1440,
           change - 2 * s <= x, x <= change + 2 * s
    PROVE  x \div 1440 = change \div 1440
  OBVIOUS

LEMMA ChangeFacts ==
    ASSUME ChangesWithinADay, NEW m \in Meetings
    PROVE  \E change \in Int : \E s \in Nat :
              /\ change = m.zone.at + m.zone.before
              /\ s = Shift(m.zone)
              /\ (change - 2 * s) \div 1440 = (change + 2 * s) \div 1440
  <1>1. m.zone.at + m.zone.before \in Int /\ Shift(m.zone) \in Nat
    BY MeetingFacts DEF Shift, Later
  <1> QED
    BY <1>1 DEF ChangesWithinADay, DayMinutes

\* A time of day is on the day it was asked for.
LEMMA ClockIsOnItsDay ==
    ASSUME ChangesWithinADay, NEW m \in Meetings, NEW day \in Int,
           NEW minutes \in Nat, minutes < 1440
    PROVE  LocalDay(m.zone, ClockOn(m.zone, day, minutes)) = LocalDay(m.zone, day)
  <1> DEFINE L == LocalDay(m.zone, day)
             w == L * DayMinutes + minutes
             shown == Wall(m.zone, Date(m.zone, w))
             a == m.zone.after - m.zone.before
  <1>0. PICK change \in Int, s \in Nat :
           /\ change = m.zone.at + m.zone.before
           /\ s = Shift(m.zone)
           /\ (change - 2 * s) \div 1440 = (change + 2 * s) \div 1440
    BY ChangeFacts
  <1>1. L \in Int /\ minutes \in Int /\ 0 <= minutes /\ minutes < 1440
    BY DateTypes DEF DayMinutes
  <1>2. w \in Int /\ w \div 1440 = L
    BY <1>1 DEF DayMinutes
  <1>3. LocalDay(m.zone, ClockOn(m.zone, day, minutes)) = shown \div 1440
    BY DEF LocalDay, ClockOn, DayMinutes
  <1>4. shown \in Int
    BY <1>2, DateTypes
  <1>5. \/ shown = w
        \/ /\ m.zone.at + m.zone.before <= w /\ w < m.zone.at + m.zone.after
           /\ shown \in {w + a, w - a}
    BY <1>2, DateShows
  <1>6. CASE shown = w
    BY <1>2, <1>3, <1>6
  <1>7. CASE /\ m.zone.at + m.zone.before <= w /\ w < m.zone.at + m.zone.after
              /\ shown \in {w + a, w - a}
    <2>1. a \in Int /\ m.zone.after = m.zone.before + a
      BY MeetingFacts
    <2>2. w < change + a
      BY <1>0, <1>2, <1>7, <2>1, MeetingFacts
    <2>3. s = IF a > 0 - a THEN a ELSE 0 - a
      BY <1>0, MeetingFacts DEF Shift, Later
    <2> HIDE DEF a, w, shown, L
    <2>4. change <= w
      BY <1>0, <1>7
    <2>5. s = a /\ a > 0
      BY <1>0, <1>2, <2>1, <2>2, <2>3, <2>4
    <2>6. shown \in {w + a, w - a}
      BY <1>7
    <2>7. /\ change - 2 * s <= w /\ w <= change + 2 * s
          /\ change - 2 * s <= shown /\ shown <= change + 2 * s
      BY <1>0, <1>2, <2>1, <2>2, <2>4, <2>5, <2>6
    <2>8. (change - 2 * s) \div 1440 = (change + 2 * s) \div 1440
      BY <1>0
    <2>9. w \div 1440 = change \div 1440 /\ shown \div 1440 = change \div 1440
      BY <1>2, <1>4, <2>7, <2>8, BetweenIsOnTheDay
    <2> QED
      BY <1>2, <1>3, <2>9 DEF L
  <1> QED
    BY <1>0, <1>5, <1>6, <1>7

\* The local day never goes back.
LEMMA DaysGoOn ==
    ASSUME ChangesWithinADay, NEW m \in Meetings, NEW x \in Int, NEW y \in Int, x <= y
    PROVE  LocalDay(m.zone, x) <= LocalDay(m.zone, y)
  <1> DEFINE b == m.zone.before
             a == m.zone.after
             c == m.zone.at
  <1>1. a \in Int /\ b \in Int /\ c \in Int
    BY MeetingFacts
  <1>2. /\ LocalDay(m.zone, x) = (IF x < c THEN x + b ELSE x + a) \div 1440
        /\ LocalDay(m.zone, y) = (IF y < c THEN y + b ELSE y + a) \div 1440
    BY DEF LocalDay, Wall, Offset, DayMinutes
  <1>3. (a < b) => (c + a) \div 1440 = (c + b) \div 1440
    <2> SUFFICES ASSUME a < b
                 PROVE  (c + a) \div 1440 = (c + b) \div 1440
      OBVIOUS
    <2>1. PICK change \in Int, s \in Nat :
             /\ change = c + b
             /\ s = Shift(m.zone)
             /\ (change - 2 * s) \div 1440 = (change + 2 * s) \div 1440
      BY ChangeFacts
    <2>2. s = b - a
      BY <1>1, <2>1 DEF Shift, Later
    <2> HIDE DEF a, b, c
    <2>3. c + a \in Int /\ change - 2 * s <= c + a /\ c + a <= change + 2 * s
      BY <1>1, <2>1, <2>2
    <2>4. (c + a) \div 1440 = change \div 1440
      BY <2>1, <2>3, BetweenIsOnTheDay
    <2> QED
      BY <2>1, <2>4
  <1> HIDE DEF a, b, c
  <1>4. CASE x < c /\ y < c
    BY <1>1, <1>2, <1>4
  <1>5. CASE ~(x < c) /\ ~(y < c)
    BY <1>1, <1>2, <1>5
  <1>6. CASE x < c /\ ~(y < c)
    <2>1. CASE a < b
      <3>1. (x + b) \div 1440 <= (c + b) \div 1440
        BY <1>1, <1>6
      <3>2. (c + a) \div 1440 <= (y + a) \div 1440
        BY <1>1, <1>6
      <3> QED
        BY <1>1, <1>2, <1>3, <1>6, <2>1, <3>1, <3>2
    <2>2. CASE ~(a < b)
      <3>1. (x + b) \div 1440 <= (y + a) \div 1440
        BY <1>1, <1>6, <2>2
      <3> QED
        BY <1>2, <1>6, <3>1
    <2> QED
      BY <2>1, <2>2
  <1>7. ~(~(x < c) /\ y < c)
    BY <1>1
  <1> QED
    BY <1>4, <1>5, <1>6, <1>7

\* A candidate is on the local day it was tried on.
LEMMA CandidateIsOnItsDay ==
    ASSUME ChangesWithinADay, NEW m \in Meetings, NEW day \in Int, NEW t \in Int,
           NEW h \in m.hours,
           ClockOn(m.zone, day, h.start) <= t,
           t + m.duration <= ClockOn(m.zone, day, h.end)
    PROVE  /\ LocalDay(m.zone, t) = LocalDay(m.zone, day)
           /\ LocalDay(m.zone, ClockOn(m.zone, day, h.start)) = LocalDay(m.zone, day)
  <1>0. h.start \in Nat /\ h.end \in Nat /\ h.start < h.end /\ h.end < 1440
    BY MeetingFacts DEF DayMinutes
  <1>1. m.duration \in Nat
    BY MeetingFacts
  <1>2. /\ LocalDay(m.zone, ClockOn(m.zone, day, h.start)) = LocalDay(m.zone, day)
        /\ LocalDay(m.zone, ClockOn(m.zone, day, h.end)) = LocalDay(m.zone, day)
    <2>1. h.start < 1440
      BY <1>0
    <2> QED
      BY <1>0, <2>1, ClockIsOnItsDay
  <1>3. h.start \in Int /\ h.end \in Int
    BY <1>0
  <1>4. ClockOn(m.zone, day, h.start) \in Int /\ ClockOn(m.zone, day, h.end) \in Int
    BY <1>3, DateTypes
  <1>5. t <= ClockOn(m.zone, day, h.end)
    BY <1>1, <1>4
  <1>6. /\ LocalDay(m.zone, day) <= LocalDay(m.zone, t)
        /\ LocalDay(m.zone, t) <= LocalDay(m.zone, day)
    BY <1>2, <1>4, <1>5, DaysGoOn
  <1>7. LocalDay(m.zone, day) \in Int /\ LocalDay(m.zone, t) \in Int
    BY DateTypes
  <1> QED
    BY <1>2, <1>6, <1>7

\* What the walk finds is bookable: the day on which a candidate was tried is
\* its own, and so are the hours and the midnight its grid begins at.
LEMMA SlotIsBookable ==
    ASSUME ChangesWithinADay, NEW m \in Meetings, NEW first \in Int, NEW last, NEW busy,
           \A p \in busy : p.start \in Int /\ p.end \in Int,
           NEW t \in SlotsBetween(m, first, last, busy)
    PROVE  t \in Int /\ Bookable(m, t, first, last, busy)
  <1>1. /\ t \in Int /\ t >= first /\ t + m.duration <= last
        /\ ~Overlaps(m, t, busy)
        /\ \E day \in Int : t \in Candidates(m, day)
    BY SlotFacts
  <1>2. PICK day \in Int : t \in Candidates(m, day)
    BY <1>1
  <1>3. PICK h \in m.hours :
           /\ h.weekday = Weekday(m.zone, day)
           /\ ClockOn(m.zone, day, h.start) <= t
           /\ t + m.duration <= ClockOn(m.zone, day, h.end)
           /\ (t - StartOfDay(m.zone, ClockOn(m.zone, day, h.start)))
                 % NormalizeSlotIntervalMinutes(m.interval) = 0
    BY <1>2, CandidateFacts
  <1>4. /\ LocalDay(m.zone, t) = LocalDay(m.zone, day)
        /\ LocalDay(m.zone, ClockOn(m.zone, day, h.start)) = LocalDay(m.zone, day)
    BY <1>1, <1>3, CandidateIsOnItsDay
  <1>5. (t - Date(m.zone, LocalDay(m.zone, t) * DayMinutes))
           % NormalizeSlotIntervalMinutes(m.interval) = 0
    BY <1>3, <1>4 DEF StartOfDay
  <1>6. /\ h.weekday = Weekday(m.zone, t)
        /\ Date(m.zone, LocalDay(m.zone, t) * DayMinutes + h.start) <= t
        /\ t + m.duration <= Date(m.zone, LocalDay(m.zone, t) * DayMinutes + h.end)
    BY <1>3, <1>4 DEF ClockOn, Weekday
  <1>7. ASSUME NEW p \in busy
        PROVE  p.end <= t - m.before \/ t + m.duration + m.after <= p.start
    <2>1. ~(t - m.before < p.end /\ t + m.duration + m.after > p.start)
      BY <1>1 DEF Overlaps
    <2>2. m.before \in Int /\ m.after \in Int /\ m.duration \in Int
      BY MeetingFacts
    <2> QED
      BY <1>1, <2>1, <2>2
  <1>8. first <= t
    BY <1>1
  <1> QED
    BY <1>1, <1>5, <1>6, <1>7, <1>8 DEF Bookable

\* What was read of the calendars and the blocks are periods.
LEMMA BusyTypes ==
    ASSUME StateOK, NEW c \in commitments
    PROVE  c.start \in Int /\ c.end \in Int /\ c.start < c.end
  BY CommitmentAssumption DEF StateOK
=============================================================================
