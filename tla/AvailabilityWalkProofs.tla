----------------------- MODULE AvailabilityWalkProofs -----------------------
(***************************************************************************)
(* The other half of the slots: what is bookable is offered.  The walk     *)
(* over the days is a recursive function, so this takes an induction.  The *)
(* induction theorems of the library have an operator as parameter; here   *)
(* the least counterexample does instead.                                  *)
(***************************************************************************)
EXTENDS AvailabilityProofs, WellFoundedInduction

\* A nonempty set of naturals has a least element.
LEMMA LeastNatural ==
    ASSUME NEW T, T \subseteq Nat, T # {}
    PROVE  \E x \in T : \A y \in T : x <= y
  <1>1. PICK x \in T : \A y \in T : <<y, x>> \notin OpToRel(<, Nat)
    BY WFMin, NatLessThanWellFounded, Zenon
  <1>2. \A y \in T : ~(y < x)
    BY <1>1 DEF OpToRel
  <1> QED
    BY <1>2

-------------------------------------------------------------------------------
(***************************************************************************)
(* The walk.                                                               *)
(***************************************************************************)

\* The clocks change by less than a quarter of a day.
LEMMA ShiftIsShort ==
    ASSUME ChangesWithinADay, NEW m \in Meetings
    PROVE  /\ Shift(m.zone) \in Nat /\ 4 * Shift(m.zone) < 1440
           /\ \A x, y \in Int : Offset(m.zone, x) - Offset(m.zone, y) <= Shift(m.zone)
  <1>1. PICK change \in Int, s \in Nat :
           /\ change = m.zone.at + m.zone.before
           /\ s = Shift(m.zone)
           /\ (change - 2 * s) \div 1440 = (change + 2 * s) \div 1440
    BY ChangeFacts
  <1>2. 4 * s < 1440
    BY <1>1
  <1>3. \A x, y \in Int : Offset(m.zone, x) - Offset(m.zone, y) <= Shift(m.zone)
    BY MeetingFacts DEF Offset, Shift, Later
  <1> QED
    BY <1>1, <1>2, <1>3

\* At the midnight of a day the clock on the wall shows midnight.
LEMMA MidnightShows ==
    ASSUME ChangesWithinADay, NEW m \in Meetings, NEW L \in Int
    PROVE  Wall(m.zone, Date(m.zone, L * DayMinutes)) = L * DayMinutes
  <1> DEFINE w == L * DayMinutes
  <1>1. w \in Int /\ w = L * 1440
    BY DEF DayMinutes
  <1>2. PICK change \in Int, s \in Nat :
           /\ change = m.zone.at + m.zone.before
           /\ s = Shift(m.zone)
           /\ (change - 2 * s) \div 1440 = (change + 2 * s) \div 1440
    BY ChangeFacts
  <1>3. ~(m.zone.at + m.zone.before <= w /\ w < m.zone.at + m.zone.after)
    <2> SUFFICES ASSUME m.zone.at + m.zone.before <= w, w < m.zone.at + m.zone.after
                 PROVE  FALSE
      OBVIOUS
    <2>1. change <= w /\ w < change + s /\ s > 0
      BY <1>1, <1>2, MeetingFacts DEF Shift, Later
    <2> HIDE DEF w
    <2>2. (change - 2 * s) \div 1440 < L
      BY <1>1, <1>2, <2>1
    <2>3. L <= (change + 2 * s) \div 1440
      BY <1>1, <1>2, <2>1
    <2> QED
      BY <1>2, <2>2, <2>3
  <1> QED
    BY <1>1, <1>3, DateShows

\* One day further is the next midnight.
LEMMA NextMidnight ==
    ASSUME ChangesWithinADay, NEW m \in Meetings, NEW L \in Int
    PROVE  AddDate(m.zone, Date(m.zone, L * DayMinutes), 1)
             = Date(m.zone, (L + 1) * DayMinutes)
  <1>1. L * DayMinutes + 1 * DayMinutes = (L + 1) * DayMinutes
    BY DEF DayMinutes
  <1> QED
    BY <1>1, MidnightShows DEF AddDate

\* The k-th day of the walk is the midnight of the k-th local day from the
\* first one on.
LEMMA WalkIsMidnights ==
    ASSUME ChangesWithinADay, NEW m \in Meetings, NEW first \in Int, NEW n \in Nat,
           NEW day,
           day = [k \in 0 .. n |->
                    IF k = 0 THEN FirstDay(m, first) ELSE AddDate(m.zone, day[k - 1], 1)]
    PROVE  \A k \in 0 .. n :
              day[k] = Date(m.zone, (LocalDay(m.zone, first) + k) * DayMinutes)
  <1> DEFINE Midnight(k) == Date(m.zone, (LocalDay(m.zone, first) + k) * DayMinutes)
             Wrong == {k \in 0 .. n : day[k] # Midnight(k)}
  <1>1. LocalDay(m.zone, first) \in Int
    BY DateTypes
  <1>2. SUFFICES ASSUME Wrong # {}
                 PROVE  FALSE
    OBVIOUS
  <1>3. PICK k \in Wrong : \A j \in Wrong : k <= j
    <2>1. Wrong \subseteq Nat
      OBVIOUS
    <2> HIDE DEF Wrong
    <2> QED
      BY <1>2, <2>1, LeastNatural
  <1>4. k # 0
    BY <1>1, <1>3 DEF FirstDay, StartOfDay
  <1>5. k - 1 \in 0 .. n /\ k - 1 \notin Wrong
    BY <1>3, <1>4
  <1>6. day[k] = AddDate(m.zone, day[k - 1], 1)
    BY <1>3, <1>4
  <1>7. day[k] = AddDate(m.zone, Midnight(k - 1), 1)
    BY <1>5, <1>6
  <1>8. AddDate(m.zone, Midnight(k - 1), 1) = Midnight(k)
    <2>1. LocalDay(m.zone, first) + (k - 1) \in Int
      BY <1>1, <1>3
    <2>2. (LocalDay(m.zone, first) + (k - 1)) + 1 = LocalDay(m.zone, first) + k
      BY <1>1, <1>3
    <2> QED
      BY <2>1, <2>2, NextMidnight
  <1> QED
    BY <1>3, <1>7, <1>8

\* Days has each of these midnights: the walk exists, for the midnights are one.
LEMMA DaysAreMidnights ==
    ASSUME ChangesWithinADay, NEW m \in Meetings, NEW first \in Int, NEW last \in Int,
           NEW k \in 0 .. Later(0, last - first) \div DayMinutes + 2,
           Date(m.zone, (LocalDay(m.zone, first) + k) * DayMinutes) < last
    PROVE  Date(m.zone, (LocalDay(m.zone, first) + k) * DayMinutes)
             \in Days(m, first, last)
  <1> DEFINE n == Later(0, last - first) \div DayMinutes + 2
             Walks(day) == day = [j \in 0 .. n |->
                    IF j = 0 THEN FirstDay(m, first) ELSE AddDate(m.zone, day[j - 1], 1)]
             Midnight(j) == Date(m.zone, (LocalDay(m.zone, first) + j) * DayMinutes)
             walk == CHOOSE day : Walks(day)
  <1>1. n \in Nat
    BY DEF Later, DayMinutes
  <1>2. LocalDay(m.zone, first) \in Int
    BY DateTypes
  <1>3. Walks([j \in 0 .. n |-> Midnight(j)])
    <2> DEFINE g == [j \in 0 .. n |-> Midnight(j)]
    <2> SUFFICES ASSUME NEW j \in 0 .. n
                 PROVE  Midnight(j) = IF j = 0 THEN FirstDay(m, first)
                                      ELSE AddDate(m.zone, g[j - 1], 1)
      OBVIOUS
    <2>1. CASE j = 0
      BY <1>2, <2>1 DEF FirstDay, StartOfDay
    <2>2. CASE j # 0
      <3>1. j - 1 \in 0 .. n /\ g[j - 1] = Midnight(j - 1)
        BY <1>1, <2>2
      <3>2. LocalDay(m.zone, first) + (j - 1) \in Int
        BY <1>1, <1>2
      <3>3. (LocalDay(m.zone, first) + (j - 1)) + 1 = LocalDay(m.zone, first) + j
        BY <1>1, <1>2
      <3>4. AddDate(m.zone, Midnight(j - 1), 1) = Midnight(j)
        BY <3>2, <3>3, NextMidnight
      <3> QED
        BY <2>2, <3>1, <3>4
    <2> QED
      BY <2>1, <2>2
  <1>4. Walks(walk)
    <2> HIDE DEF Walks
    <2> QED
      BY <1>3
  <1>5. walk[k] = Midnight(k) /\ DOMAIN walk = 0 .. n
    <2> HIDE DEF walk, n
    <2>1. \A j \in 0 .. n : walk[j] = Midnight(j)
      BY <1>1, <1>4, WalkIsMidnights
    <2> QED
      BY <1>4, <2>1 DEF n
  <1>6. Midnight(k) \in Int
    <2>1. (LocalDay(m.zone, first) + k) * DayMinutes \in Int
      BY <1>1, <1>2 DEF DayMinutes
    <2> QED
      BY <2>1, DateTypes
  <1>7. Days(m, first, last) = {d \in {walk[j] : j \in DOMAIN walk} : d \in Int /\ d < last}
    BY DEF Days
  <1> QED
    BY <1>5, <1>6, <1>7

\* A day begins with its midnight.
LEMMA MidnightIsFirst ==
    ASSUME ChangesWithinADay, NEW m \in Meetings, NEW t \in Int
    PROVE  StartOfDay(m.zone, t) <= t
  <1> DEFINE b == m.zone.before
             a == m.zone.after
             c == m.zone.at
             L == LocalDay(m.zone, t)
             midnight == StartOfDay(m.zone, t)
  <1>1. a \in Int /\ b \in Int /\ c \in Int /\ L \in Int /\ midnight \in Int
    BY MeetingFacts, DateTypes
  <1>2. PICK change \in Int, s \in Nat :
           /\ change = c + b
           /\ s = Shift(m.zone)
           /\ (change - 2 * s) \div 1440 = (change + 2 * s) \div 1440
    BY ChangeFacts
  <1>3. Wall(m.zone, midnight) = L * 1440
    <2>1. L \in Int
      BY <1>1
    <2> QED
      BY <2>1, MidnightShows DEF StartOfDay, DayMinutes
  <1>4. /\ midnight + (IF midnight < c THEN b ELSE a) = L * 1440
        /\ L = (t + (IF t < c THEN b ELSE a)) \div 1440
    BY <1>3 DEF Wall, Offset, LocalDay, DayMinutes
  <1>5. s = IF a - b > b - a THEN a - b ELSE b - a
    BY <1>2 DEF Shift, Later
  <1> HIDE DEF a, b, c, L, midnight
  <1>6. L * 1440 <= t + (IF t < c THEN b ELSE a)
    BY <1>1, <1>4
  <1>7. SUFFICES ASSUME t < midnight
                 PROVE  FALSE
    BY <1>1 DEF midnight
  <1>8. t < c /\ ~(midnight < c) /\ s = b - a /\ s > 0
    BY <1>1, <1>4, <1>5, <1>6, <1>7
  <1>9. change - 2 * s < L * 1440 /\ L * 1440 <= change
    BY <1>1, <1>2, <1>4, <1>6, <1>8
  <1>10. (change - 2 * s) \div 1440 < L
    BY <1>1, <1>9
  <1>11. L <= (change + 2 * s) \div 1440
    BY <1>1, <1>9
  <1> QED
    BY <1>1, <1>2, <1>10, <1>11

\* The walk gets as far as the day of any instant before the end.
LEMMA WalkReaches ==
    ASSUME ChangesWithinADay, NEW m \in Meetings,
           NEW first \in Int, NEW last \in Int, NEW t \in Int, first <= t, t < last
    PROVE  StartOfDay(m.zone, t) \in Days(m, first, last)
  <1> DEFINE k == LocalDay(m.zone, t) - LocalDay(m.zone, first)
  <1>1. LocalDay(m.zone, t) \in Int /\ LocalDay(m.zone, first) \in Int
    BY DateTypes
  <1>2. LocalDay(m.zone, first) <= LocalDay(m.zone, t)
    BY DaysGoOn
  <1>3. k <= (last - first) \div 1440 + 2
    <2> DEFINE x == Wall(m.zone, t)
               y == Wall(m.zone, first)
    <2>1. x \in Int /\ y \in Int
      BY DateTypes
    <2>2. x - y <= (t - first) + 360
      <3>1. Offset(m.zone, t) \in Int /\ Offset(m.zone, first) \in Int
        BY DateTypes
      <3>2. Offset(m.zone, t) - Offset(m.zone, first) <= 360
        BY <3>1, ShiftIsShort
      <3> QED
        BY <3>1, <3>2 DEF Wall
    <2>3. k = x \div 1440 - y \div 1440
      BY DEF LocalDay, DayMinutes
    <2> HIDE DEF x, y, k
    <2> QED
      BY <2>1, <2>2, <2>3
  <1>4. k \in 0 .. Later(0, last - first) \div DayMinutes + 2
    <2>1. Later(0, last - first) = last - first
      BY DEF Later
    <2> QED
      BY <1>1, <1>2, <1>3, <2>1 DEF DayMinutes
  <1>5. LocalDay(m.zone, first) + k = LocalDay(m.zone, t)
    BY <1>1
  <1>6. StartOfDay(m.zone, t) \in Int /\ StartOfDay(m.zone, t) <= t
    BY DateTypes, MidnightIsFirst
  <1>7. Date(m.zone, (LocalDay(m.zone, first) + k) * DayMinutes) < last
    BY <1>5, <1>6 DEF StartOfDay
  <1> HIDE DEF k
  <1> QED
    BY <1>4, <1>5, <1>7, DaysAreMidnights DEF StartOfDay

-------------------------------------------------------------------------------
(***************************************************************************)
(* The candidates of a day.                                                *)
(***************************************************************************)

\* x is at most two days of steps of length n after y.
StepsAfter(x, y, n) == x \in {y + k * n : k \in 0 .. (2 * DayMinutes) \div n}

\* An instant on a grid is some steps after any other one that is not later.
LEMMA StepsBetween ==
    ASSUME NEW n \in Nat, n > 0, NEW origin \in Int, NEW x \in Int, NEW y \in Int,
           (x - origin) % n = 0, (y - origin) % n = 0, y < x + n, x - y <= 2880
    PROVE  StepsAfter(x, y, n)
  <1> DEFINE u == x - origin
             v == y - origin
             p == u \div n
             q == v \div n
             most == 2880 \div n
             k == p - q
  <1>1. u \in Int /\ v \in Int
    OBVIOUS
  <1>2. /\ u = p * n /\ p \in Int
        /\ v = q * n /\ q \in Int
    <2> HIDE DEF u, v
    <2>1. u % n = 0 /\ v % n = 0
      BY DEF u, v
    <2> QED
      BY <1>1, <2>1, Multiples
  <1>3. most \in Int /\ 2880 < (most + 1) * n
    OBVIOUS
  <1> HIDE DEF p, q, most
  <1>4. k \in Int /\ x - y = k * n
    BY <1>2
  <1> HIDE DEF k
  <1>5. k >= 0
    <2> SUFFICES ASSUME k <= -1
                 PROVE  k * n <= 0 - n
      BY <1>4
    <2> QED
      BY <1>4
  <1>6. k <= most
    <2> SUFFICES ASSUME k >= most + 1
                 PROVE  k * n >= (most + 1) * n
      BY <1>3, <1>4
    <2> QED
      BY <1>3, <1>4
  <1>7. x = y + k * n
    <2> DEFINE steps == k * n
    <2>1. steps \in Int
      BY <1>4
    <2> HIDE DEF steps
    <2>2. x - y = steps
      BY <1>4 DEF steps
    <2>3. x = y + steps
      BY <2>1, <2>2
    <2> QED
      BY <2>3 DEF steps
  <1>8. x \in {y + j * n : j \in 0 .. 2880 \div n}
    BY <1>3, <1>4, <1>5, <1>6, <1>7 DEF most
  <1>9. 2 * DayMinutes = 2880
    BY DEF DayMinutes
  <1> QED
    BY <1>8, <1>9 DEF StepsAfter

\* Two times of a day are not further apart than two days.
LEMMA HoursAreShort ==
    ASSUME ChangesWithinADay, NEW m \in Meetings, NEW day \in Int, NEW h \in m.hours
    PROVE  ClockOn(m.zone, day, h.end) - ClockOn(m.zone, day, h.start) <= 2880
  <1> DEFINE w == LocalDay(m.zone, day) * DayMinutes
  <1>1. h.start \in Int /\ h.end \in Int /\ h.end - h.start <= 1440
    BY MeetingFacts DEF DayMinutes
  <1>2. w \in Int
    BY DateTypes DEF DayMinutes
  <1>3. \A x \in Int : Offset(m.zone, x) \in {m.zone.before, m.zone.after}
    BY DEF Offset
  <1>4. \A x \in Int : Offset(m.zone, x) \in Int
    BY DateTypes
  <1>5. \A x \in Int : \E y \in Int : Date(m.zone, x) = x - Offset(m.zone, y)
    BY <1>4 DEF Date
  <1> DEFINE opens == w + h.start
             closes == w + h.end
  <1>6. opens \in Int /\ closes \in Int /\ closes - opens <= 1440
    BY <1>1, <1>2
  <1> HIDE DEF opens, closes
  <1>7. PICK x \in Int : Date(m.zone, opens) = opens - Offset(m.zone, x)
    BY <1>5, <1>6
  <1>8. PICK y \in Int : Date(m.zone, closes) = closes - Offset(m.zone, y)
    BY <1>5, <1>6
  <1>9. Offset(m.zone, x) - Offset(m.zone, y) <= 360
    BY <1>4, ShiftIsShort
  <1>10. Offset(m.zone, x) \in Int /\ Offset(m.zone, y) \in Int
    BY <1>4
  <1>11. Date(m.zone, closes) - Date(m.zone, opens) <= 2880
    BY <1>6, <1>7, <1>8, <1>9, <1>10
  <1> QED
    BY <1>11 DEF ClockOn, opens, closes

\* What is on the grid and within the hours of a day is tried on it.
LEMMA CandidateFound ==
    ASSUME ChangesWithinADay, NEW m \in Meetings, NEW day \in Int, NEW t \in Int,
           NEW h \in m.hours, h.weekday = Weekday(m.zone, day),
           ClockOn(m.zone, day, h.start) <= t,
           t + m.duration <= ClockOn(m.zone, day, h.end),
           (t - StartOfDay(m.zone, ClockOn(m.zone, day, h.start)))
              % NormalizeSlotIntervalMinutes(m.interval) = 0
    PROVE  t \in Candidates(m, day)
  <1> DEFINE n == NormalizeSlotIntervalMinutes(m.interval)
             start == ClockOn(m.zone, day, h.start)
             end == ClockOn(m.zone, day, h.end)
             midnight == StartOfDay(m.zone, start)
             First == CeilLocal(m.zone, start, n)
             r == (start - midnight) % n
  <1>1. n \in Nat /\ n > 0 /\ m.duration \in Nat
    BY MeetingFacts, IntervalInHalfHours
  <1>2. start \in Int /\ end \in Int /\ midnight \in Int
    <2>1. h.start \in Int /\ h.end \in Int
      BY MeetingFacts
    <2>2. start \in Int /\ end \in Int
      BY <2>1, DateTypes
    <2> QED
      BY <2>2, DateTypes
  <1>3. end - start <= 2880
    BY HoursAreShort
  <1>4. r \in Int /\ 0 <= r /\ r < n /\ ((start - midnight) + n - r) % n = 0
    <2> HIDE DEF n, start, midnight
    <2>1. start - midnight \in Int
      BY <1>2
    <2> QED
      BY <1>1, <2>1, GridCeiling
  <1>5. First = IF r = 0 THEN start ELSE start + n - r
    BY DEF CeilLocal
  <1>6. (t - midnight) % n = 0 /\ start <= t /\ t + m.duration <= end
    OBVIOUS
  <1>7. t \in {First + k * n : k \in 0 .. (2 * DayMinutes) \div n}
    <2> HIDE DEF n, start, end, midnight, First
    <2>1. /\ First \in Int /\ start <= First /\ First < start + n
          /\ (First - midnight) % n = 0
      <3>1. CASE r = 0
        BY <1>1, <1>2, <1>5, <3>1
      <3>2. CASE r # 0
        <4> HIDE DEF r
        <4>1. First = start + n - r
          BY <1>5, <3>2
        <4>2. First - midnight = (start - midnight) + n - r
          BY <1>1, <1>2, <1>4, <4>1
        <4> QED
          BY <1>1, <1>2, <1>4, <3>2, <4>1, <4>2
      <3> QED
        BY <3>1, <3>2
    <2>2. First < t + n /\ t - First <= 2880
      BY <1>1, <1>2, <1>3, <1>6, <2>1
    <2>3. StepsAfter(t, First, n)
      BY <1>1, <1>2, <1>6, <2>1, <2>2, StepsBetween
    <2> QED
      BY <2>3 DEF StepsAfter
  <1> HIDE DEF midnight, r
  <1> QED
    BY <1>6, <1>7 DEF Candidates

\* A bookable start is found: the walk comes to its day, and there it is tried.
LEMMA BookableIsSlot ==
    ASSUME ChangesWithinADay, NEW m \in Meetings,
           NEW first \in Int, NEW last \in Int, NEW busy,
           \A p \in busy : p.start \in Int /\ p.end \in Int,
           NEW t \in Int, Bookable(m, t, first, last, busy)
    PROVE  t \in SlotsBetween(m, first, last, busy)
  <1> DEFINE L == LocalDay(m.zone, t)
             day == StartOfDay(m.zone, t)
  <1>1. /\ m.duration \in Int /\ m.duration > 0 /\ m.before \in Int /\ m.after \in Int
        /\ L \in Int /\ day \in Int
    <2>1. L \in Int /\ day \in Int
      BY DateTypes
    <2> HIDE DEF L, day
    <2> QED
      BY <2>1, MeetingFacts
  <1>2. first <= t /\ t + m.duration <= last /\ t < last
    BY <1>1 DEF Bookable
  <1>3. day \in Days(m, first, last)
    BY <1>2, WalkReaches
  <1>4. LocalDay(m.zone, day) = L
    <2>1. Wall(m.zone, day) = L * DayMinutes
      BY <1>1, MidnightShows DEF StartOfDay
    <2> QED
      BY <1>1, <2>1 DEF LocalDay, DayMinutes
  <1>5. PICK h \in m.hours :
           /\ h.weekday = Weekday(m.zone, t)
           /\ Date(m.zone, L * DayMinutes + h.start) <= t
           /\ t + m.duration <= Date(m.zone, L * DayMinutes + h.end)
    BY DEF Bookable
  <1>6. /\ h.weekday = Weekday(m.zone, day)
        /\ ClockOn(m.zone, day, h.start) <= t
        /\ t + m.duration <= ClockOn(m.zone, day, h.end)
    BY <1>4, <1>5 DEF ClockOn, Weekday
  <1>7. (t - StartOfDay(m.zone, ClockOn(m.zone, day, h.start)))
           % NormalizeSlotIntervalMinutes(m.interval) = 0
    <2>1. h.start \in Nat /\ h.start < 1440
      BY MeetingFacts DEF DayMinutes
    <2>2. LocalDay(m.zone, ClockOn(m.zone, day, h.start)) = L
      BY <1>1, <1>4, <2>1, ClockIsOnItsDay
    <2>3. (t - Date(m.zone, L * DayMinutes)) % NormalizeSlotIntervalMinutes(m.interval) = 0
      BY DEF Bookable
    <2> QED
      BY <2>2, <2>3 DEF StartOfDay
  <1>8. t \in Candidates(m, day)
    BY <1>1, <1>6, <1>7, CandidateFound
  <1>9. ~Overlaps(m, t, busy)
    <2> SUFFICES ASSUME NEW p \in busy, t - m.before < p.end,
                        t + m.duration + m.after > p.start
                 PROVE  FALSE
      BY DEF Overlaps
    <2>1. p.end <= t - m.before \/ t + m.duration + m.after <= p.start
      BY DEF Bookable
    <2>2. p.start \in Int /\ p.end \in Int
      OBVIOUS
    <2> QED
      BY <1>1, <2>1, <2>2
  <1>10. t >= first
    BY <1>2
  <1> QED
    BY <1>2, <1>3, <1>8, <1>9, <1>10 DEF SlotsBetween

-------------------------------------------------------------------------------
(***************************************************************************)
(* The pages and the recheck.                                              *)
(***************************************************************************)

\* A number of days later is that many days of 24 hours later, but for the
\* change of the clocks.
LEMMA AddDateBounds ==
    ASSUME ChangesWithinADay, NEW m \in Meetings, NEW t \in Int, NEW days \in Nat
    PROVE  /\ AddDate(m.zone, t, days) \in Int
           /\ t + days * DayMinutes - 360 <= AddDate(m.zone, t, days)
  <1> DEFINE ahead == days * DayMinutes
             w == Wall(m.zone, t) + ahead
  <1>1. ahead \in Int
    BY DEF DayMinutes
  <1> HIDE DEF ahead
  <1>2. Wall(m.zone, t) \in Int /\ w \in Int
    BY <1>1, DateTypes
  <1>3. \A x \in Int : Offset(m.zone, x) \in Int
    BY DateTypes
  <1> HIDE DEF w
  <1>4. PICK x \in Int : Date(m.zone, w) = w - Offset(m.zone, x)
    BY <1>2, <1>3 DEF Date
  <1>5. Offset(m.zone, x) - Offset(m.zone, t) <= 360
    BY <1>3, ShiftIsShort
  <1>6. w = t + Offset(m.zone, t) + ahead
    BY DEF w, Wall
  <1>7. Date(m.zone, w) \in Int /\ t + ahead - 360 <= Date(m.zone, w)
    BY <1>1, <1>3, <1>4, <1>5, <1>6
  <1> QED
    BY <1>7 DEF AddDate, w, ahead

LEMMA WindowTypes ==
    ASSUME ChangesWithinADay, StateOK, NEW from \in Int
    PROVE  /\ meeting \in Meetings /\ now \in Int
           /\ WindowStart(meeting, from) \in Int
           /\ WindowEnd(meeting, from) \in Int
           /\ \A p \in Busy(meeting, from) : p.start \in Int /\ p.end \in Int
  <1>1. meeting \in Meetings /\ now \in Int
    BY DEF StateOK
  <1>2. WindowStart(meeting, from) \in Int
    BY <1>1, MeetingFacts DEF WindowStart, Later
  <1>3. WindowEnd(meeting, from) \in Int
    <2>1. meeting.days \in Nat /\ PageDays \in Nat
      BY <1>1, MeetingFacts DEF PageDays
    <2> QED
      BY <1>1, <2>1, AddDateBounds DEF WindowEnd, Earlier
  <1> QED
    BY <1>1, <1>2, <1>3, BusyTypes DEF Busy, Consulted

\* A page offers exactly what is bookable in its window.
LEMMA OfferedIsBookable ==
    ASSUME ChangesWithinADay, StateOK, NEW from \in Int
    PROVE  Offered(meeting, from) =
              {t \in Int : Bookable(meeting, t, WindowStart(meeting, from),
                                    WindowEnd(meeting, from), Busy(meeting, from))}
  <1> DEFINE first == WindowStart(meeting, from)
             last == WindowEnd(meeting, from)
             busy == Busy(meeting, from)
  <1>1. /\ meeting \in Meetings /\ first \in Int /\ last \in Int
        /\ \A p \in busy : p.start \in Int /\ p.end \in Int
    BY WindowTypes
  <1>2. Offered(meeting, from) = SlotsBetween(meeting, first, last, busy)
    BY DEF Offered, Slots
  <1> HIDE DEF first, last, busy
  <1>3. ASSUME NEW t \in SlotsBetween(meeting, first, last, busy)
        PROVE  t \in Int /\ Bookable(meeting, t, first, last, busy)
    BY <1>1, SlotIsBookable
  <1>4. ASSUME NEW t \in Int, Bookable(meeting, t, first, last, busy)
        PROVE  t \in SlotsBetween(meeting, first, last, busy)
    BY <1>1, <1>4, BookableIsSlot
  <1> QED
    BY <1>2, <1>3, <1>4 DEF first, last, busy

\* A bookable start is on a quarter of an hour by universal time, too.
LEMMA BookableOnQuarters ==
    ASSUME QuarterHourOffsets, NEW m \in Meetings, NEW first, NEW last, NEW busy,
           NEW t \in Int, Bookable(m, t, first, last, busy)
    PROVE  t % 15 = 0
  <1> DEFINE n == NormalizeSlotIntervalMinutes(m.interval)
             w == LocalDay(m.zone, t) * DayMinutes
             midnight == Date(m.zone, w)
  <1>1. n \in Nat /\ n > 0 /\ n % 30 = 0
    BY MeetingFacts, IntervalInHalfHours
  <1>2. w \in Int /\ w % 15 = 0
    <2>1. LocalDay(m.zone, t) \in Int
      BY DateTypes
    <2> QED
      BY <2>1 DEF DayMinutes
  <1>3. \A x \in Int : Offset(m.zone, x) \in Int /\ Offset(m.zone, x) % 15 = 0
    BY MeetingFacts DEF Offset, QuarterHourOffsets
  <1> HIDE DEF n, w
  <1>4. PICK x \in Int : midnight = w - Offset(m.zone, x)
    <2>1. \A x \in Int : Offset(m.zone, x) \in Int
      BY <1>3
    <2> QED
      BY <1>2, <2>1 DEF Date
  <1>5. midnight \in Int /\ midnight % 15 = 0
    BY <1>2, <1>3, <1>4
  <1>6. (t - midnight) % n = 0
    BY DEF Bookable, n, w
  <1> HIDE DEF midnight
  <1>7. (t - midnight) % 30 = 0
    BY <1>1, <1>5, <1>6, CoarserGrid
  <1> QED
    BY <1>5, <1>7

\* The walk over days and candidates finds every start that README.md:148-152
\* describes, and no other, whatever the zone, the hours, the interval, the
\* commitments and the page: on the days the clocks change as well.
THEOREM SlotsExactly ==
    ASSUME ChangesWithinADay, QuarterHourOffsets
    PROVE  Spec => []SlotsAreExact
  <1>1. StateOK => SlotsAreExact
    <2> SUFFICES ASSUME StateOK, NEW from \in Froms
                 PROVE  Offered(meeting, from) =
                          {t \in Quarters(WindowStart(meeting, from),
                                          WindowEnd(meeting, from)) :
                             Bookable(meeting, t, WindowStart(meeting, from),
                                      WindowEnd(meeting, from), Busy(meeting, from))}
      BY DEF SlotsAreExact
    <2> DEFINE first == WindowStart(meeting, from)
               last == WindowEnd(meeting, from)
               busy == Busy(meeting, from)
    <2>1. from \in Int
      BY InstantAssumption
    <2>2. meeting \in Meetings /\ first \in Int /\ last \in Int /\ meeting.duration \in Nat
      BY <2>1, WindowTypes, MeetingFacts
    <2>3. Offered(meeting, from) = {t \in Int : Bookable(meeting, t, first, last, busy)}
      BY <2>1, OfferedIsBookable
    <2> HIDE DEF first, last, busy
    <2>4. ASSUME NEW t \in Int, Bookable(meeting, t, first, last, busy)
          PROVE  t \in Quarters(first, last)
      <3>1. t % 15 = 0
        BY <2>2, <2>4, BookableOnQuarters
      <3>2. first <= t /\ t <= last
        BY <2>2, <2>4 DEF Bookable
      <3>3. t = (t \div 15) * 15 /\ t \div 15 \in first \div 15 .. last \div 15
        BY <2>2, <3>1, <3>2
      <3> QED
        BY <3>3 DEF Quarters
    <2>5. Quarters(first, last) \subseteq Int
      BY <2>2 DEF Quarters
    <2> QED
      BY <2>3, <2>4, <2>5 DEF first, last, busy
  <1> QED
    BY <1>1, StateInvariant, PTL

\* A start that was offered is found again by the recheck from it on, unless
\* something was booked in between: the window of the recheck is never narrower
\* about that start, and what it asks of the calendars beyond the page cannot
\* reach the start unless its buffer does.
THEOREM OffersStand ==
    ASSUME ChangesWithinADay
    PROVE  Spec => []OfferedIsAccepted
  <1>1. StateOK => OfferedIsAccepted
    <2> SUFFICES ASSUME StateOK, NEW from \in Froms, NEW t \in Offered(meeting, from),
                        t + meeting.duration + meeting.after <= from + PageDays * DayMinutes
                 PROVE  t \in Offered(meeting, t)
      BY DEF OfferedIsAccepted, Rechecked
    <2>1. from \in Int
      BY InstantAssumption
    <2>2. /\ t \in Int
          /\ Bookable(meeting, t, WindowStart(meeting, from),
                      WindowEnd(meeting, from), Busy(meeting, from))
      BY <2>1, OfferedIsBookable
    <2>3. /\ meeting \in Meetings /\ now \in Int
          /\ WindowStart(meeting, from) \in Int /\ WindowEnd(meeting, from) \in Int
      BY <2>1, WindowTypes
    <2>4. /\ meeting.duration \in Nat /\ meeting.before \in Nat /\ meeting.after \in Nat
          /\ meeting.notice \in Nat /\ meeting.days \in Nat
          /\ meeting.duration <= 480
      BY <2>3, MeetingFacts, MeetingAssumption
    <2>5. WindowStart(meeting, from) <= t /\ t + meeting.duration <= WindowEnd(meeting, from)
      BY <2>2 DEF Bookable
    <2>6. from <= t /\ now + meeting.notice <= t
      BY <2>1, <2>2, <2>3, <2>4, <2>5 DEF WindowStart, Later
    <2>7. WindowStart(meeting, t) <= t
      BY <2>2, <2>3, <2>4, <2>6 DEF WindowStart, Later
    <2>8. t + meeting.duration <= WindowEnd(meeting, t)
      <3>1. /\ AddDate(meeting.zone, now, meeting.days) \in Int
            /\ AddDate(meeting.zone, from, 14) \in Int
        BY <2>1, <2>3, <2>4, AddDateBounds
      <3>2. /\ AddDate(meeting.zone, t, 14) \in Int
            /\ t + 14 * DayMinutes - 360 <= AddDate(meeting.zone, t, 14)
        BY <2>2, <2>3, AddDateBounds
      <3>3. t + meeting.duration <= AddDate(meeting.zone, now, meeting.days)
        BY <2>2, <2>4, <2>5, <3>1 DEF WindowEnd, Earlier, PageDays
      <3>4. t + meeting.duration <= AddDate(meeting.zone, t, 14)
        BY <2>2, <2>4, <3>2 DEF DayMinutes
      <3> QED
        BY <3>3, <3>4 DEF WindowEnd, Earlier, PageDays
    <2>9. ASSUME NEW p \in Busy(meeting, t)
          PROVE  p.end <= t - meeting.before
                   \/ t + meeting.duration + meeting.after <= p.start
      <3>1. p \in commitments /\ p \in Consulted(meeting) /\ p.end > t
        BY DEF Busy, Consulted
      <3>2. p.start \in Int /\ p.end \in Int
        BY <3>1, BusyTypes
      <3>3. CASE p \in Busy(meeting, from)
        BY <2>2, <3>3 DEF Bookable
      <3>4. CASE p \notin Busy(meeting, from)
        <4>1. ~(p.end > from /\ p.start < from + PageDays * DayMinutes)
          BY <3>1, <3>4 DEF Busy
        <4>2. from + PageDays * DayMinutes \in Int
          BY <2>1 DEF PageDays, DayMinutes
        <4>3. p.start >= from + PageDays * DayMinutes
          BY <2>1, <2>2, <2>6, <3>1, <3>2, <4>1, <4>2
        <4> QED
          BY <2>2, <2>4, <3>2, <4>2, <4>3
      <3> QED
        BY <3>3, <3>4
    <2>10. Bookable(meeting, t, WindowStart(meeting, t), WindowEnd(meeting, t),
                    Busy(meeting, t))
      BY <2>2, <2>7, <2>8, <2>9 DEF Bookable
    <2> QED
      BY <2>2, <2>10, OfferedIsBookable
  <1> QED
    BY <1>1, StateInvariant, PTL

\* A guest who pages through the whole window misses no bookable start but those
\* across the border of two pages and those after the window by the clock of
\* the pages.
THEOREM PagesCover ==
    ASSUME ChangesWithinADay
    PROVE  Spec => []PagesMissOnlyStraddlers
  <1>1. StateOK => PagesMissOnlyStraddlers
    <2> DEFINE first == now + meeting.notice
               last == AddDate(meeting.zone, now, meeting.days)
               busy == Consulted(meeting)
               most == (meeting.days - 1) \div PageDays
    <2> SUFFICES ASSUME StateOK, NEW t \in SlotsBetween(meeting, first, last, busy),
                        t < now + meeting.days * DayMinutes
                 PROVE  \/ \E from \in PageStarts : t \in Offered(meeting, from)
                        \/ \E from \in PageStarts :
                              /\ t < from + PageDays * DayMinutes
                              /\ t + meeting.duration > AddDate(meeting.zone, from, PageDays)
      <3>1. ASSUME StateOK, NEW t \in SlotsBetween(meeting, first, last, busy)
            PROVE  (t < now + meeting.days * DayMinutes) \/ now + meeting.days * DayMinutes <= t
        <4>1. meeting \in Meetings /\ now \in Int
          BY <3>1 DEF StateOK
        <4>2. t \in Int /\ now + meeting.days * DayMinutes \in Int
          BY <4>1, SlotFacts, MeetingFacts DEF DayMinutes
        <4> QED
          BY <4>2
      <3> QED
        BY <3>1 DEF PagesMissOnlyStraddlers
    <2>1. /\ meeting \in Meetings /\ now \in Int
          /\ \A p \in busy : p.start \in Int /\ p.end \in Int
      BY BusyTypes DEF StateOK, Consulted
    <2>2. /\ meeting.duration \in Nat /\ meeting.notice \in Nat
          /\ meeting.days \in Nat /\ meeting.days > 0
      BY <2>1, MeetingFacts, MeetingAssumption
    <2>3. first \in Int /\ last \in Int
      <3>1. last \in Int
        BY <2>1, <2>2, AddDateBounds
      <3>2. first \in Int
        BY <2>1, <2>2
      <3> QED
        BY <3>1, <3>2
    <2>4. t \in Int /\ Bookable(meeting, t, first, last, busy)
      BY <2>1, <2>3, SlotIsBookable
    <2>5. first <= t /\ t + meeting.duration <= last
      BY <2>4 DEF Bookable
    <2> DEFINE k == (t - now) \div 20160
               from == now + k * PageDays * DayMinutes
    <2>6. /\ k \in 0 .. most /\ from \in Int
          /\ from <= t /\ t < from + PageDays * DayMinutes
      <3>1. now <= t
        BY <2>1, <2>2, <2>4, <2>5
      <3>2. k \in Nat /\ now + k * 20160 <= t /\ t < now + k * 20160 + 20160
        BY <2>1, <2>4, <3>1
      <3>3. k <= (meeting.days - 1) \div 14
        <4>1. t < now + meeting.days * 1440
          BY DEF DayMinutes
        <4> HIDE DEF k
        <4>2. k * 14 <= meeting.days - 1
          BY <2>1, <2>2, <2>4, <3>2, <4>1
        <4> QED
          BY <2>2, <3>2, <4>2
      <3>4. k * PageDays * DayMinutes = k * 20160 /\ PageDays * DayMinutes = 20160
        BY <3>2 DEF PageDays, DayMinutes
      <3> HIDE DEF k
      <3> QED
        BY <2>1, <2>2, <3>2, <3>3, <3>4 DEF PageDays
    <2>7. from \in PageStarts
      BY <2>6 DEF PageStarts
    <2> HIDE DEF k, from
    <2>8. CASE t + meeting.duration > AddDate(meeting.zone, from, PageDays)
      BY <2>6, <2>7, <2>8
    <2>9. CASE ~(t + meeting.duration > AddDate(meeting.zone, from, PageDays))
      <3>1. AddDate(meeting.zone, from, PageDays) \in Int
        <4>1. PageDays \in Nat
          BY DEF PageDays
        <4> QED
          BY <2>1, <2>6, <4>1, AddDateBounds
      <3>2. WindowStart(meeting, from) <= t
        BY <2>5, <2>6 DEF WindowStart, Later
      <3>3. t + meeting.duration <= WindowEnd(meeting, from)
        BY <2>2, <2>3, <2>4, <2>5, <2>9, <3>1 DEF WindowEnd, Earlier
      <3>4. Busy(meeting, from) \subseteq busy
        BY DEF Busy
      <3>5. Bookable(meeting, t, WindowStart(meeting, from), WindowEnd(meeting, from),
                     Busy(meeting, from))
        BY <2>4, <3>2, <3>3, <3>4 DEF Bookable
      <3>6. t \in Offered(meeting, from)
        BY <2>4, <2>6, <3>5, OfferedIsBookable
      <3> QED
        BY <2>7, <3>6
    <2> QED
      BY <2>8, <2>9
  <1> QED
    BY <1>1, StateInvariant, PTL
=============================================================================
