------------------------- MODULE BookingSagaProofs -------------------------
(***************************************************************************)
(* Theorems about BookingSaga, for any number of requests, cancellations,  *)
(* slots, private blocks and calendars.                                    *)
(***************************************************************************)
EXTENDS BookingSaga, LockBucketsProofs

-------------------------------------------------------------------------------
(***************************************************************************)
(* Type correctness.  That no index runs past the last event needs to know *)
(* how far a request is, so TypeOK and PhaseInv are proved together.       *)
(***************************************************************************)

LEMMA LockUpdateTypes ==
    ASSUME TypeOK, NEW b \in Bookings
    PROVE  /\ Locked(b) \in [Buckets -> Bookings \cup {NoBooking}]
           /\ Released(b) \in [Buckets -> Bookings \cup {NoBooking}]
  BY DEF TypeOK, Locked, Released

LEMMA DeletedEventType ==
    ASSUME TypeOK, NEW b \in Bookings, NEW e \in Events, NEW where, NEW o
    PROVE  EventAfterDelete(b, e, where, o) \in {"absent", "present", "deleted"}
  BY DEF TypeOK, EventAfterDelete

LEMMA EventsAreNaturals ==
    /\ Events \subseteq Nat
    /\ 0 \in Events
    /\ Blockers \in Nat
    /\ \A e \in Int : e \in Events <=> 0 <= e /\ e <= Blockers
  BY CalendarAssumption DEF Events

LEMMA EndCallTypes ==
    ASSUME TypeOK, NEW c \in Calls, EndCall(c)
    PROVE  /\ callAt' \in [Calls -> {"idle", "meeting", "delete", "release"}]
           /\ callBooking' \in [Calls -> Bookings \cup {NoBooking}]
           /\ callCal' \in [Calls -> Calendars \cup {NoCalendar}]
           /\ callNext' \in [Calls -> Events]
           /\ callClean' \in [Calls -> BOOLEAN]
           /\ callAlive' \in [Calls -> BOOLEAN]
  BY EventsAreNaturals DEF TypeOK, EndCall

-------------------------------------------------------------------------------
(***************************************************************************)
(* What a step leaves alone: all there is of the other bookings, and of    *)
(* the other cancellations.  The proofs below rest on this, and look only  *)
(* at the steps of the booking or the cancellation they are about.         *)
(***************************************************************************)

\* All there is of one booking and of the request that creates it.
SameBooking(x) ==
    UNCHANGED <<status[x], event[x], guest[x], cal[x], made[x], next[x], alive[x], at[x]>>

\* All there is of one cancellation.
SameCall(d) ==
    UNCHANGED <<callAt[d], callBooking[d], callCal[d], callNext[d], callClean[d], callAlive[d]>>

\* The request that creates b changes nothing of another booking, and nothing
\* of a cancellation.
LEMMA RequestFrame ==
    ASSUME TypeOK, NEW b \in Bookings,
           Submit(b) \/ CreateStep(b) \/ HangUp(b) \/ Crash(b)
    PROVE  /\ UNCHANGED <<dest, callVars>>
           /\ \A x \in Bookings \ {b} : SameBooking(x)
  <1> USE DEF TypeOK, SameBooking, Goto, storeVars
  <1>1. CASE Submit(b)
    BY <1>1 DEF Submit
  <1>2. CASE Recheck(b)
    BY <1>2 DEF Recheck
  <1>3. CASE ClaimSlot(b)
    BY <1>3 DEF ClaimSlot
  <1>4. CASE Connect(b)
    BY <1>4 DEF Connect
  <1>5. CASE Insert(b)
    BY <1>5 DEF Insert
  <1>6. CASE Confirm(b)
    BY <1>6 DEF Confirm
  <1>7. CASE Undo(b)
    BY <1>7 DEF Undo
  <1>8. CASE Fail(b)
    BY <1>8 DEF Fail
  <1>9. CASE Reply(b)
    BY <1>9 DEF Reply
  <1>10. CASE HangUp(b)
    BY <1>10 DEF HangUp
  <1>11. CASE Crash(b)
    BY <1>11 DEF Crash
  <1> QED
    BY <1>1, <1>2, <1>3, <1>4, <1>5, <1>6, <1>7, <1>8, <1>9, <1>10, <1>11
       DEF CreateStep

\* A cancellation changes nothing of another one, nor of a request, nor of the
\* stored part of a booking that it is not about.
LEMMA CallFrame ==
    ASSUME TypeOK, NEW c \in Calls,
           Ask(c) \/ CancelStep(c) \/ HangUpCall(c) \/ CrashCall(c)
    PROVE  /\ UNCHANGED <<dest, requestVars>>
           /\ \A d \in Calls \ {c} : SameCall(d)
           /\ \A x \in Bookings : x # callBooking[c] =>
                 /\ status'[x] = status[x] /\ event'[x] = event[x]
                 /\ Ask(c) \/ guest'[x] = guest[x]
  <1> USE DEF TypeOK, SameCall, storeVars
  <1>0. ASSUME EndCall(c)
        PROVE  \A d \in Calls \ {c} : SameCall(d)
    BY <1>0 DEF EndCall
  <1>1. CASE Ask(c)
    BY <1>1 DEF Ask
  <1>2. CASE ReadMeeting(c)
    <2>1. UNCHANGED <<storeVars, guest, requestVars>>
      BY <1>2 DEF ReadMeeting
    <2>2. \A d \in Calls \ {c} : SameCall(d)
      BY <1>0, <1>2 DEF ReadMeeting
    <2> QED
      BY <2>1, <2>2
  <1>3. CASE DeleteNext(c)
    <2>1. UNCHANGED <<status, dest, guest, requestVars>>
      BY <1>3 DEF DeleteNext
    <2>2. \A d \in Calls \ {c} : SameCall(d)
      BY <1>0, <1>3 DEF DeleteNext
    <2>3. \A x \in Bookings : x # callBooking[c] => event'[x] = event[x]
      BY <1>3 DEF DeleteNext
    <2> QED
      BY <2>1, <2>2, <2>3
  <1>4. CASE Release(c)
    <2>1. UNCHANGED <<event, dest, requestVars>> /\ EndCall(c)
      BY <1>4 DEF Release
    <2>2. \A x \in Bookings : x # callBooking[c] =>
             status'[x] = status[x] /\ guest'[x] = guest[x]
      BY <1>4 DEF Release
    <2> QED
      BY <1>0, <2>1, <2>2
  <1>5. CASE HangUpCall(c)
    BY <1>5 DEF HangUpCall
  <1>6. CASE CrashCall(c)
    BY <1>0, <1>6 DEF CrashCall
  <1> QED
    BY <1>1, <1>2, <1>3, <1>4, <1>5, <1>6 DEF CancelStep

\* Only its own request, a guest who asks, and a cancellation of it that is
\* under way touch a booking.
LEMMA StepsOfBooking ==
    ASSUME TypeOK, [Next]_vars, NEW x \in Bookings
    PROVE  \/ SameBooking(x)
           \/ Submit(x) \/ CreateStep(x) \/ HangUp(x) \/ Crash(x)
           \/ \E c \in Calls : Ask(c)
           \/ \E c \in Calls : callBooking[c] = x /\ (DeleteNext(c) \/ Release(c))
  <1>1. ASSUME NEW b \in Bookings, b # x,
               Submit(b) \/ CreateStep(b) \/ HangUp(b) \/ Crash(b)
        PROVE  SameBooking(x)
    BY <1>1, RequestFrame
  <1>2. ASSUME NEW c \in Calls, DeleteNext(c) \/ Release(c), callBooking[c] # x
        PROVE  SameBooking(x)
    <2>1. ~Ask(c)
      BY <1>2 DEF DeleteNext, Release, Ask
    <2>2. /\ UNCHANGED requestVars
          /\ status'[x] = status[x] /\ event'[x] = event[x] /\ guest'[x] = guest[x]
      BY <1>2, <2>1, CallFrame DEF CancelStep
    <2> QED
      BY <2>2 DEF SameBooking, requestVars
  <1>3. ASSUME NEW c \in Calls, ReadMeeting(c) \/ HangUpCall(c) \/ CrashCall(c)
        PROVE  SameBooking(x)
    BY <1>3 DEF ReadMeeting, HangUpCall, CrashCall, SameBooking, storeVars, requestVars
  <1>4. CASE MoveDestination
    BY <1>4 DEF MoveDestination, SameBooking, requestVars
  <1>5. CASE UNCHANGED vars
    BY <1>5 DEF vars, SameBooking, storeVars, requestVars
  <1> QED
    BY <1>1, <1>2, <1>3, <1>4, <1>5 DEF Next, CancelStep

\* Only its own steps touch a cancellation.
LEMMA StepsOfCall ==
    ASSUME TypeOK, [Next]_vars, NEW d \in Calls
    PROVE  \/ SameCall(d)
           \/ Ask(d) \/ CancelStep(d) \/ HangUpCall(d) \/ CrashCall(d)
  <1>1. ASSUME UNCHANGED callVars
        PROVE  SameCall(d)
    BY <1>1 DEF SameCall, callVars
  <1>2. ASSUME NEW b \in Bookings, Submit(b) \/ CreateStep(b) \/ HangUp(b) \/ Crash(b)
        PROVE  UNCHANGED callVars
    BY <1>2, RequestFrame
  <1>3. ASSUME NEW c \in Calls, c # d,
               Ask(c) \/ CancelStep(c) \/ HangUpCall(c) \/ CrashCall(c)
        PROVE  SameCall(d)
    BY <1>3, CallFrame
  <1>4. ASSUME MoveDestination \/ UNCHANGED vars
        PROVE  UNCHANGED callVars
    BY <1>4 DEF MoveDestination, vars
  <1> QED
    BY <1>1, <1>2, <1>3, <1>4 DEF Next

\* A guest who asked to cancel has asked for good.
LEMMA AskedStays ==
    ASSUME TypeOK, PhaseInv, CallInv, [Next]_vars, NEW x \in Bookings,
           guest[x] \in {"asked", "told"}
    PROVE  guest'[x] \in {"asked", "told"}
  <1>1. at[x] = "booked"
    BY DEF PhaseInv, Phase
  <1>2. CASE SameBooking(x)
    BY <1>2 DEF SameBooking
  <1>3. CASE Submit(x) \/ CreateStep(x) \/ HangUp(x) \/ Crash(x)
    BY <1>1, <1>3 DEF Submit, CreateStep, Recheck, ClaimSlot, Connect, Insert,
       Confirm, Undo, Fail, Reply, HangUp, Crash, Running
  <1>4. ASSUME NEW c \in Calls, Ask(c)
        PROVE  guest'[x] \in {"asked", "told"}
    BY <1>4 DEF Ask, TypeOK
  <1>5. ASSUME NEW c \in Calls, DeleteNext(c) \/ Release(c)
        PROVE  guest'[x] \in {"asked", "told"}
    BY <1>5 DEF DeleteNext, Release, TypeOK
  <1> QED
    BY <1>2, <1>3, <1>4, <1>5, StepsOfBooking

LEMMA InitBase == Init => TypeOK /\ PhaseInv /\ CallInv /\ BookedInv
  <1> SUFFICES ASSUME Init
               PROVE  TypeOK /\ PhaseInv /\ CallInv /\ BookedInv
    OBVIOUS
  <1>1. TypeOK
    BY EventsAreNaturals DEF Init, TypeOK, RequestStates
  <1>2. PhaseInv
    BY EventsAreNaturals DEF Init, PhaseInv, Phase
  <1>3. CallInv /\ BookedInv
    BY DEF Init, CallInv, BookedInv
  <1> QED
    BY <1>1, <1>2, <1>3

\* A request is always at one of the calls of Create, or done.
LEMMA RequestStateTypes ==
    ASSUME TypeOK, NEW b \in Bookings,
           Submit(b) \/ CreateStep(b) \/ HangUp(b) \/ Crash(b)
    PROVE  at' \in [Bookings -> RequestStates]
  <1>1. ASSUME NEW where \in RequestStates, Goto(b, where)
        PROVE  at' \in [Bookings -> RequestStates]
    BY <1>1 DEF Goto, TypeOK
  <1>2. /\ "check" \in RequestStates /\ "claim" \in RequestStates
        /\ "connect" \in RequestStates /\ "insert" \in RequestStates
        /\ "confirm" \in RequestStates /\ "undo" \in RequestStates
        /\ "fail" \in RequestStates /\ "reply" \in RequestStates
        /\ "booked" \in RequestStates /\ "rejected" \in RequestStates
        /\ "dead" \in RequestStates
    BY DEF RequestStates
  <1>3. CASE Submit(b)
    BY <1>1, <1>2, <1>3 DEF Submit
  <1>4. CASE Recheck(b)
    BY <1>1, <1>2, <1>4 DEF Recheck
  <1>5. CASE ClaimSlot(b)
    BY <1>1, <1>2, <1>5 DEF ClaimSlot
  <1>6. CASE Connect(b)
    BY <1>1, <1>2, <1>6 DEF Connect
  <1>7. CASE Insert(b)
    BY <1>1, <1>2, <1>7 DEF Insert, AfterRefusal
  <1>8. CASE Confirm(b)
    BY <1>1, <1>2, <1>8 DEF Confirm
  <1>9. CASE Undo(b)
    BY <1>1, <1>2, <1>9 DEF Undo
  <1>10. CASE Fail(b)
    BY <1>1, <1>2, <1>10 DEF Fail, AfterFail
  <1>11. CASE Reply(b) \/ Crash(b)
    BY <1>1, <1>2, <1>11 DEF Reply, Crash
  <1>12. CASE HangUp(b)
    BY <1>12 DEF HangUp, TypeOK
  <1> QED
    BY <1>3, <1>4, <1>5, <1>6, <1>7, <1>8, <1>9, <1>10, <1>11, <1>12 DEF CreateStep

LEMMA TypeOKStep ==
    ASSUME TypeOK, PhaseInv, CallInv, [Next]_vars
    PROVE  TypeOK'
  <1> USE EventsAreNaturals DEF storeVars, requestVars, callVars
  <1>0. ASSUME NEW b \in Bookings,
               Submit(b) \/ CreateStep(b) \/ HangUp(b) \/ Crash(b),
               status' \in [Bookings -> {"none", "pending", "confirmed", "failed", "canceled"}],
               lock' \in [Buckets -> Bookings \cup {NoBooking}],
               event' \in [Bookings -> [Events -> {"absent", "present", "deleted"}]],
               guest' \in [Bookings -> {"waiting", "holds", "asked", "told"}],
               cal' \in [Bookings -> Calendars \cup {NoCalendar}],
               made' \in [Bookings -> 0 .. Blockers + 1],
               next' \in [Bookings -> 0 .. Blockers + 1],
               alive' \in [Bookings -> BOOLEAN]
        PROVE  TypeOK'
    <2>1. UNCHANGED <<dest, callVars>> /\ at' \in [Bookings -> RequestStates]
      BY <1>0, RequestFrame, RequestStateTypes
    <2> QED
      BY <1>0, <2>1 DEF TypeOK
  <1>1. ASSUME NEW b \in Bookings, Submit(b)
        PROVE  TypeOK'
    <2>1. cal' \in [Bookings -> Calendars \cup {NoCalendar}]
      BY <1>1 DEF Submit, TypeOK
    <2>2. UNCHANGED <<storeVars, guest, made, next, alive>>
      BY <1>1 DEF Submit
    <2> QED
      BY <1>0, <1>1, <2>1, <2>2 DEF TypeOK
  <1>2. ASSUME NEW b \in Bookings, Recheck(b) \/ Connect(b) \/ Crash(b)
        PROVE  TypeOK'
    <2>1. UNCHANGED <<storeVars, guest, cal, made, next, alive>>
      BY <1>2 DEF Recheck, Connect, Crash
    <2> QED
      BY <1>0, <1>2, <2>1 DEF TypeOK, CreateStep
  <1>3. ASSUME NEW b \in Bookings, ClaimSlot(b)
        PROVE  TypeOK'
    <2>1. UNCHANGED <<event, guest, cal, made, next, alive>>
      BY <1>3 DEF ClaimSlot
    <2>2. status' \in [Bookings -> {"none", "pending", "confirmed", "failed", "canceled"}]
      BY <1>3 DEF ClaimSlot, TypeOK
    <2>3. lock' \in [Buckets -> Bookings \cup {NoBooking}]
      BY <1>3, LockUpdateTypes DEF ClaimSlot, TypeOK
    <2> QED
      BY <1>0, <1>3, <2>1, <2>2, <2>3 DEF TypeOK, CreateStep
  <1>4. ASSUME NEW b \in Bookings, Insert(b)
        PROVE  TypeOK'
    <2>1. made[b] \in Events
      BY <1>4 DEF Insert, PhaseInv, Phase
    <2>2. UNCHANGED <<status, lock, guest, cal, next, alive>>
      BY <1>4 DEF Insert
    <2>3. made' \in [Bookings -> 0 .. Blockers + 1]
      <3>1. made' = made \/ made' = [made EXCEPT ![b] = made[b] + 1]
        BY <1>4 DEF Insert
      <3>2. made[b] + 1 \in 0 .. Blockers + 1
        BY <2>1, CalendarAssumption DEF Events
      <3> QED
        BY <3>1, <3>2 DEF TypeOK
    <2>4. event' \in [Bookings -> [Events -> {"absent", "present", "deleted"}]]
      BY <1>4, <2>1 DEF Insert, TypeOK
    <2> QED
      BY <1>0, <1>4, <2>2, <2>3, <2>4 DEF TypeOK, CreateStep
  <1>5. ASSUME NEW b \in Bookings, Confirm(b)
        PROVE  TypeOK'
    <2>1. UNCHANGED <<lock, event, guest, cal, made, next, alive>>
      BY <1>5 DEF Confirm
    <2>2. status' \in [Bookings -> {"none", "pending", "confirmed", "failed", "canceled"}]
      BY <1>5 DEF Confirm, TypeOK
    <2> QED
      BY <1>0, <1>5, <2>1, <2>2 DEF TypeOK, CreateStep
  <1>6. ASSUME NEW b \in Bookings, Undo(b)
        PROVE  TypeOK'
    <2>1. next[b] < made[b]
      BY <1>6 DEF Undo, PhaseInv, Phase
    <2>2. next[b] \in Nat /\ made[b] \in Nat /\ made[b] <= Blockers + 1
      BY DEF TypeOK
    <2>3. next[b] \in Events /\ next[b] + 1 \in 0 .. Blockers + 1
      BY <2>1, <2>2
    <2>4. UNCHANGED <<status, lock, guest, cal, made, alive>>
      BY <1>6 DEF Undo
    <2>5. next' \in [Bookings -> 0 .. Blockers + 1]
      BY <1>6, <2>3 DEF Undo, TypeOK
    <2>6. event' \in [Bookings -> [Events -> {"absent", "present", "deleted"}]]
      BY <1>6, <2>3, DeletedEventType DEF Undo, TypeOK
    <2> QED
      BY <1>0, <1>6, <2>4, <2>5, <2>6 DEF TypeOK, CreateStep
  <1>7. ASSUME NEW b \in Bookings, Fail(b)
        PROVE  TypeOK'
    <2>1. UNCHANGED <<event, guest, cal, made, next, alive>>
      BY <1>7 DEF Fail
    <2>2. status' \in [Bookings -> {"none", "pending", "confirmed", "failed", "canceled"}]
      BY <1>7 DEF Fail, TypeOK
    <2>3. lock' \in [Buckets -> Bookings \cup {NoBooking}]
      BY <1>7, LockUpdateTypes DEF Fail, TypeOK
    <2> QED
      BY <1>0, <1>7, <2>1, <2>2, <2>3 DEF TypeOK, CreateStep
  <1>8. ASSUME NEW b \in Bookings, Reply(b)
        PROVE  TypeOK'
    <2>1. UNCHANGED <<storeVars, cal, made, next, alive>>
      BY <1>8 DEF Reply
    <2>2. guest' \in [Bookings -> {"waiting", "holds", "asked", "told"}]
      BY <1>8 DEF Reply, TypeOK
    <2> QED
      BY <1>0, <1>8, <2>1, <2>2 DEF TypeOK, CreateStep
  <1>9. ASSUME NEW b \in Bookings, HangUp(b)
         PROVE  TypeOK'
    BY <1>9 DEF HangUp, TypeOK
  <1> USE DEF TypeOK
  <1>10. ASSUME NEW c \in Calls, Ask(c)
         PROVE  TypeOK'
    <2>1. PICK b \in Bookings :
             /\ guest' = [guest EXCEPT ![b] = IF guest[b] = "told" THEN guest[b] ELSE "asked"]
             /\ \/ UNCHANGED <<callAt, callBooking>>
                \/ /\ callAt' = [callAt EXCEPT ![c] = "meeting"]
                   /\ callBooking' = [callBooking EXCEPT ![c] = b]
      BY <1>10 DEF Ask
    <2>2. guest' \in [Bookings -> {"waiting", "holds", "asked", "told"}]
      BY <2>1
    <2>3. callAt' \in [Calls -> {"idle", "meeting", "delete", "release"}]
      BY <2>1
    <2>4. callBooking' \in [Calls -> Bookings \cup {NoBooking}]
      BY <2>1
    <2> QED
      BY <1>10, <2>2, <2>3, <2>4 DEF Ask
  <1>11. ASSUME NEW c \in Calls, ReadMeeting(c)
         PROVE  TypeOK'
    <2>1. CASE EndCall(c)
      BY <1>11, <2>1, EndCallTypes DEF ReadMeeting
    <2>2. CASE ~EndCall(c)
      <3>1. /\ callAt' = [callAt EXCEPT ![c] = "delete"]
            /\ callCal' = [callCal EXCEPT ![c] = dest]
            /\ UNCHANGED <<storeVars, guest, requestVars, callBooking, callNext,
                           callClean, callAlive>>
        BY <1>11, <2>2 DEF ReadMeeting
      <3>2. callAt' \in [Calls -> {"idle", "meeting", "delete", "release"}]
        BY <3>1
      <3>3. callCal' \in [Calls -> Calendars \cup {NoCalendar}]
        BY <3>1
      <3> QED
        BY <3>1, <3>2, <3>3
    <2> QED
      BY <2>1, <2>2
  <1>12. ASSUME NEW c \in Calls, DeleteNext(c)
         PROVE  TypeOK'
    <2>1. callBooking[c] \in Bookings /\ callNext[c] \in Events
      BY <1>12 DEF DeleteNext, CallInv
    <2>2. event' \in [Bookings -> [Events -> {"absent", "present", "deleted"}]]
      <3>1. PICK o : event' = [event EXCEPT ![callBooking[c]][callNext[c]] =
                        EventAfterDelete(callBooking[c], callNext[c], callCal[c], o)]
        BY <1>12 DEF DeleteNext
      <3>2. EventAfterDelete(callBooking[c], callNext[c], callCal[c], o)
               \in {"absent", "present", "deleted"}
        BY <2>1, DeletedEventType
      <3> QED
        BY <2>1, <3>1, <3>2
    <2>3. CASE EndCall(c)
      BY <1>12, <2>2, <2>3, EndCallTypes DEF DeleteNext
    <2>4. CASE ~EndCall(c)
      <3>1. /\ callNext' \in [Calls -> Events]
            /\ callClean' \in [Calls -> BOOLEAN]
        <4>1. CASE UNCHANGED <<callNext, callClean>>
          BY <4>1
        <4>2. CASE ~UNCHANGED <<callNext, callClean>>
          <5>1. callNext[c] < Blockers
            BY <1>12, <2>4, <4>2 DEF DeleteNext
          <5>2. callNext' = [callNext EXCEPT ![c] = callNext[c] + 1]
            BY <1>12, <5>1, <2>1, <2>4, <4>2 DEF DeleteNext
          <5>3. PICK ok : callClean' = [callClean EXCEPT ![c] = callClean[c] /\ ok]
            BY <1>12, <5>1, <2>1, <2>4, <4>2 DEF DeleteNext, AllClean
          <5>4. callNext[c] + 1 \in Events
            BY <2>1, <5>1 DEF Events
          <5>5. (callClean[c] /\ ok) \in BOOLEAN
            OBVIOUS
          <5> QED
            BY <5>2, <5>3, <5>4, <5>5
        <4> QED
          BY <4>1, <4>2
      <3>2. callAt' \in [Calls -> {"idle", "meeting", "delete", "release"}]
        BY <1>12, <2>4 DEF DeleteNext
      <3>3. UNCHANGED <<callBooking, callCal, callAlive>>
        BY <1>12, <2>4 DEF DeleteNext
      <3> QED
        BY <1>12, <2>2, <3>1, <3>2, <3>3 DEF DeleteNext
    <2> QED
      BY <2>3, <2>4
  <1>13. ASSUME NEW c \in Calls, Release(c)
         PROVE  TypeOK'
    <2>1. callBooking[c] \in Bookings
      BY <1>13 DEF Release, CallInv
    <2> QED
      BY <1>13, <2>1, LockUpdateTypes DEF Release, EndCall
  <1>14. ASSUME NEW c \in Calls, HangUpCall(c) \/ CrashCall(c)
         PROVE  TypeOK'
    BY <1>14, EndCallTypes DEF HangUpCall, CrashCall
  <1>15. CASE MoveDestination
    BY <1>15 DEF MoveDestination
  <1>16. CASE UNCHANGED vars
    BY <1>16 DEF vars
  <1> QED
    BY <1>1, <1>2, <1>3, <1>4, <1>5, <1>6, <1>7, <1>8, <1>9, <1>10,
       <1>11, <1>12, <1>13, <1>14, <1>15, <1>16
       DEF Next, CreateStep, CancelStep

-------------------------------------------------------------------------------
(***************************************************************************)
(* What the phase of a request says.                                       *)
(***************************************************************************)

\* A step that leaves alone everything that PhaseInv says of a booking.
LEMMA PhaseUntouched ==
    ASSUME NEW x \in Bookings, Phase(x), SameBooking(x)
    PROVE  Phase(x)'
  BY DEF Phase, Live, SameBooking

\* What a step of Create finds of its own booking.
LEMMA PhaseStep ==
    ASSUME TypeOK, PhaseInv, CallInv, [Next]_vars
    PROVE  PhaseInv'
  <1> SUFFICES ASSUME NEW x \in Bookings PROVE Phase(x)'
    BY DEF PhaseInv
  <1> USE EventsAreNaturals DEF TypeOK, Goto, storeVars, requestVars, callVars
  <1>0. Phase(x)
    BY DEF PhaseInv
  <1>1. CASE Submit(x)
    <2>1. /\ status[x] = "none" /\ guest[x] = "waiting" /\ made[x] = 0 /\ next[x] = 0
      BY <1>0, <1>1 DEF Submit, Phase
    <2>2. \/ at'[x] = "rejected"
          \/ at'[x] = "check" /\ cal'[x] \in Calendars
      BY <1>1 DEF Submit
    <2>3. UNCHANGED <<status, guest, made, next>>
      BY <1>1 DEF Submit
    <2> QED
      BY <2>1, <2>2, <2>3 DEF Phase, Live
  <1>2. CASE Recheck(x)
    <2>1. at[x] = "check" /\ at'[x] \in {"claim", "rejected"}
      BY <1>2 DEF Recheck
    <2>2. UNCHANGED <<status, event, guest, cal, made, next>>
      BY <1>2 DEF Recheck
    <2> QED
      BY <1>0, <2>1, <2>2 DEF Phase, Live
  <1>3. CASE ClaimSlot(x)
    <2>1. at[x] = "claim" /\ UNCHANGED <<event, guest, cal, made, next>>
      BY <1>3 DEF ClaimSlot
    <2>2. \/ at'[x] = "rejected"
          \/ at'[x] = "connect" /\ status'[x] = "pending"
      BY <1>3 DEF ClaimSlot, Outcomes, Done, Lost, Refused
    <2> QED
      BY <1>0, <2>1, <2>2 DEF Phase, Live
  <1>4. CASE Connect(x)
    <2>1. at[x] = "connect" /\ at'[x] \in {"insert", "fail"}
      BY <1>4 DEF Connect
    <2>2. UNCHANGED <<status, event, guest, cal, made, next>>
      BY <1>4 DEF Connect
    <2> QED
      BY <1>0, <2>1, <2>2 DEF Phase, Live
  <1>5. CASE Insert(x)
    <2>1. /\ at[x] = "insert" /\ status[x] = "pending"
          /\ made[x] \in Events /\ next[x] = 0 /\ cal[x] \in Calendars
          /\ guest[x] = "waiting"
          /\ \A e \in Events : e < made[x] => event[x][e] = "present"
      BY <1>0, <1>5 DEF Insert, Phase
    <2>2. PICK o \in Outcomes(alive[x], "insert") :
             /\ event' = IF o.applied
                         THEN [event EXCEPT ![x][made[x]] = "present"] ELSE event
             /\ \/ /\ o.ok
                   /\ made' = [made EXCEPT ![x] = made[x] + 1]
                   /\ Goto(x, IF LastToMake(x) THEN "confirm" ELSE "insert")
                \/ /\ ~o.ok
                   /\ Goto(x, AfterRefusal(x))
                   /\ UNCHANGED made
      BY <1>5 DEF Insert
    <2>3. UNCHANGED <<status, guest, cal, next>>
      BY <1>5 DEF Insert
    <2>4. CASE o.ok
      <3>1. o.applied
        BY <2>2, <2>4 DEF Outcomes, Done, Lost, Refused
      <3>2. event' = [event EXCEPT ![x][made[x]] = "present"]
        BY <2>2, <3>1
      <3>3. \A e \in Events : e < made[x] + 1 => event'[x][e] = "present"
        BY <2>1, <3>2 DEF Events
      <3>4. made'[x] = made[x] + 1
        BY <2>2, <2>4
      <3>5. \/ at'[x] = "confirm" /\ made[x] = Blockers
            \/ at'[x] = "insert" /\ made[x] # Blockers
        BY <2>2, <2>4 DEF LastToMake
      <3>6. made[x] # Blockers => made[x] + 1 \in Events
        BY <2>1 DEF Events
      <3> QED
        BY <2>1, <2>3, <3>3, <3>4, <3>5, <3>6 DEF Phase, Live
    <2>5. CASE ~o.ok
      <3>1. /\ UNCHANGED made
            /\ \/ at'[x] = "fail"
               \/ at'[x] = "undo" /\ made[x] > 0
        BY <2>1, <2>2, <2>5 DEF AfterRefusal
      <3> QED
        BY <2>1, <2>3, <3>1 DEF Phase, Live
    <2> QED
      BY <2>4, <2>5
  <1>6. CASE Confirm(x)
    <2>1. at[x] = "confirm" /\ UNCHANGED <<event, guest, cal, made, next>>
      BY <1>6 DEF Confirm
    <2>2. \/ at'[x] = "reply" /\ status'[x] = "confirmed"
          \/ at'[x] = "undo" /\ status'[x] \in {status[x], "confirmed"}
      BY <1>6 DEF Confirm, Outcomes, Done, Lost, Refused
    <2> QED
      BY <1>0, <2>1, <2>2 DEF Phase, Live
  <1>7. CASE Undo(x)
    <2>1. /\ at[x] = "undo" /\ Live(x) /\ next[x] < made[x]
          /\ cal[x] \in Calendars /\ guest[x] = "waiting"
      BY <1>0, <1>7 DEF Undo, Phase
    <2>2. /\ UNCHANGED <<status, guest, cal, made>>
          /\ next'[x] = next[x] + 1
          /\ \/ at'[x] = "fail"
             \/ at'[x] = "undo" /\ next[x] + 1 # made[x]
      BY <1>7 DEF Undo
    <2>3. next[x] \in Nat /\ made[x] \in Nat
      OBVIOUS
    <2>4. next[x] + 1 # made[x] => next[x] + 1 < made[x]
      BY <2>1, <2>3
    <2>5. Live(x)'
      BY <2>1, <2>2 DEF Live
    <2> QED
      BY <2>1, <2>2, <2>4, <2>5 DEF Phase
  <1>8. CASE Fail(x)
    <2>1. at[x] = "fail" /\ at'[x] = "rejected" /\ UNCHANGED guest
      BY <1>8 DEF Fail, AfterFail
    <2> QED
      BY <1>0, <2>1 DEF Phase, Live
  <1>9. CASE Reply(x)
    <2>1. at[x] = "reply" /\ at'[x] = "booked" /\ UNCHANGED <<status, cal>>
      BY <1>9 DEF Reply
    <2> QED
      BY <1>0, <2>1 DEF Phase, Live
  <1>10. CASE HangUp(x)
    BY <1>0, <1>10 DEF HangUp, Phase, Live
  <1>11. CASE Crash(x)
    <2>1. /\ at[x] \notin {"idle", "booked", "rejected"} /\ at'[x] = "dead"
          /\ UNCHANGED <<guest, cal>>
      BY <1>11 DEF Crash, Running
    <2> QED
      BY <1>0, <2>1 DEF Phase, Live
  <1>12. ASSUME NEW c \in Calls, Ask(c)
         PROVE  Phase(x)'
    <2>1. UNCHANGED <<storeVars, requestVars>> /\ (guest[x] = "waiting" => guest'[x] = "waiting")
      BY <1>12 DEF Ask
    <2> QED
      BY <1>0, <2>1 DEF Phase, Live
  <1>13. ASSUME NEW c \in Calls, callBooking[c] = x, DeleteNext(c) \/ Release(c)
         PROVE  Phase(x)'
    <2>1. guest[x] \in {"asked", "told"} /\ at[x] = "booked"
      BY <1>0, <1>13 DEF DeleteNext, Release, CallInv, Phase
    <2>2. status'[x] \in {status[x], "canceled"} /\ UNCHANGED requestVars
      BY <1>13 DEF DeleteNext, Release
    <2> QED
      BY <1>0, <2>1, <2>2 DEF Phase, Live
  <1> QED
    BY <1>0, <1>1, <1>2, <1>3, <1>4, <1>5, <1>6, <1>7, <1>8, <1>9, <1>10, <1>11,
       <1>12, <1>13, StepsOfBooking, PhaseUntouched DEF CreateStep

-------------------------------------------------------------------------------
(***************************************************************************)
(* What a cancellation in flight, and a booked booking, say.               *)
(***************************************************************************)

\* A cancellation keeps the booking it is about, whose guest has asked for good.
LEMMA CallInvStep ==
    ASSUME TypeOK, PhaseInv, CallInv, [Next]_vars
    PROVE  CallInv'
  <1> DEFINE Good(d) ==
        /\ callAt[d] # "idle" =>
              /\ callBooking[d] \in Bookings
              /\ guest[callBooking[d]] \in {"asked", "told"}
        /\ callAt[d] \in {"delete", "release"} => callCal[d] \in Calendars
        /\ callAt[d] \in {"idle", "meeting"} => callNext[d] = 0
  <1> SUFFICES ASSUME NEW d \in Calls PROVE Good(d)'
    BY DEF CallInv
  <1>0. Good(d)
    BY DEF CallInv
  <1>1. ASSUME UNCHANGED <<callAt[d], callBooking[d], callCal[d], callNext[d]>>
        PROVE  Good(d)'
    BY <1>0, <1>1, AskedStays
  <1>2. ASSUME EndCall(d)
        PROVE  Good(d)'
    BY <1>2 DEF EndCall, TypeOK
  <1>3. CASE Ask(d)
    <2>1. PICK b \in Bookings :
             /\ guest' = [guest EXCEPT ![b] = IF guest[b] = "told" THEN guest[b] ELSE "asked"]
             /\ \/ UNCHANGED <<callAt, callBooking>>
                \/ /\ callAt' = [callAt EXCEPT ![d] = "meeting"]
                   /\ callBooking' = [callBooking EXCEPT ![d] = b]
      BY <1>3 DEF Ask
    <2>2. UNCHANGED <<callCal, callNext>> /\ callAt[d] = "idle"
      BY <1>3 DEF Ask
    <2>3. CASE UNCHANGED <<callAt, callBooking>>
      BY <1>1, <2>2, <2>3
    <2>4. CASE ~UNCHANGED <<callAt, callBooking>>
      <3>1. callAt'[d] = "meeting" /\ callBooking'[d] = b
        BY <2>1, <2>4 DEF TypeOK
      <3>2. guest'[b] \in {"asked", "told"}
        BY <2>1 DEF TypeOK
      <3> QED
        BY <1>0, <2>2, <3>1, <3>2
    <2> QED
      BY <2>3, <2>4
  <1>4. CASE ReadMeeting(d)
    <2>1. CASE ~EndCall(d)
      <3>1. /\ callAt[d] = "meeting" /\ callAt'[d] = "delete" /\ callCal'[d] \in Calendars
            /\ UNCHANGED <<callBooking, guest>>
        BY <1>4, <2>1 DEF ReadMeeting, TypeOK
      <3> QED
        BY <1>0, <3>1
    <2> QED
      BY <1>2, <2>1
  <1>5. CASE DeleteNext(d)
    <2>1. CASE ~EndCall(d)
      <3>1. /\ callAt[d] = "delete" /\ callAt'[d] \in {"delete", "release"}
            /\ UNCHANGED <<callBooking, callCal, guest>>
        BY <1>5, <2>1 DEF DeleteNext, TypeOK
      <3> QED
        BY <1>0, <3>1
    <2> QED
      BY <1>2, <2>1
  <1>6. CASE Release(d) \/ CrashCall(d)
    BY <1>2, <1>6 DEF Release, CrashCall
  <1>7. CASE HangUpCall(d)
    BY <1>1, <1>7 DEF HangUpCall
  <1>8. CASE SameCall(d)
    BY <1>1, <1>8 DEF SameCall
  <1> QED
    BY <1>3, <1>4, <1>5, <1>6, <1>7, <1>8, StepsOfCall DEF CancelStep

\* Only a request all of whose events are inserted is answered 201, and no
\* event that was inserted is ever absent again.
LEMMA BookedInvStep ==
    ASSUME TypeOK, PhaseInv, CallInv, BookedInv, [Next]_vars
    PROVE  BookedInv'
  <1> SUFFICES ASSUME NEW x \in Bookings, at'[x] = "booked"
               PROVE  \A e \in Events : event'[x][e] # "absent"
    BY DEF BookedInv
  <1> USE DEF storeVars, requestVars
  <1>1. ASSUME at[x] = "booked", event'[x] = event[x]
        PROVE  \A e \in Events : event'[x][e] # "absent"
    BY <1>1 DEF BookedInv
  <1>2. CASE SameBooking(x)
    BY <1>1, <1>2 DEF SameBooking
  <1>3. CASE Submit(x) \/ CreateStep(x) \/ HangUp(x) \/ Crash(x)
    <2>1. Reply(x)
      <3>1. ~Submit(x) /\ ~Recheck(x) /\ ~Connect(x) /\ ~Crash(x)
        BY DEF Submit, Recheck, Connect, Crash, Goto, TypeOK
      <3>2. ~ClaimSlot(x) /\ ~Confirm(x)
        BY DEF ClaimSlot, Confirm, Goto, TypeOK
      <3>3. ~Insert(x) /\ ~Undo(x) /\ ~Fail(x)
        BY DEF Insert, Undo, Fail, AfterRefusal, AfterFail, Goto, TypeOK
      <3>4. ~HangUp(x)
        BY DEF HangUp, Running
      <3> QED
        BY <1>3, <3>1, <3>2, <3>3, <3>4 DEF CreateStep
    <2>2. \A e \in Events : event[x][e] = "present"
      BY <2>1, EventsAreNaturals DEF Reply, PhaseInv, Phase, Events
    <2> QED
      BY <2>1, <2>2 DEF Reply
  <1>4. ASSUME NEW c \in Calls, Ask(c) \/ Release(c)
        PROVE  \A e \in Events : event'[x][e] # "absent"
    BY <1>1, <1>4 DEF Ask, Release
  <1>5. ASSUME NEW c \in Calls, DeleteNext(c), callBooking[c] = x
        PROVE  \A e \in Events : event'[x][e] # "absent"
    <2>1. PICK o : event' = [event EXCEPT ![x][callNext[c]] =
                      EventAfterDelete(x, callNext[c], callCal[c], o)]
      BY <1>5 DEF DeleteNext
    <2>2. /\ callNext[c] \in Events /\ UNCHANGED at
          /\ EventAfterDelete(x, callNext[c], callCal[c], o) \in {"deleted", event[x][callNext[c]]}
      BY <1>5 DEF DeleteNext, EventAfterDelete, TypeOK
    <2>3. \A e \in Events : event[x][e] # "absent"
      BY <2>2 DEF BookedInv
    <2> QED
      BY <2>1, <2>2, <2>3 DEF TypeOK
  <1> QED
    BY <1>2, <1>3, <1>4, <1>5, StepsOfBooking

\* What holds of every reachable state whatever the calendar answers.
BaseInv == TypeOK /\ PhaseInv /\ CallInv /\ BookedInv /\ LocksHaveLiveOwners

\* Whoever releases, its own locks go with it; and only a claim adds locks.
LEMMA LockOwnersStep ==
    ASSUME BaseInv, [Next]_vars
    PROVE  LocksHaveLiveOwners'
  <1> USE DEF BaseInv, TypeOK, LocksHaveLiveOwners, Live, storeVars, requestVars, callVars
  <1>1. ASSUME UNCHANGED <<status, lock>>
        PROVE  LocksHaveLiveOwners'
    BY <1>1
  <1>2. ASSUME NEW b \in Bookings, lock' = Released(b), status' = [status EXCEPT ![b] = "failed"]
        PROVE  LocksHaveLiveOwners'
    BY <1>2 DEF Released
  <1>3. ASSUME NEW b \in Bookings, lock' = Released(b), status' = [status EXCEPT ![b] = "canceled"]
        PROVE  LocksHaveLiveOwners'
    BY <1>3 DEF Released
  <1>4. ASSUME NEW b \in Bookings, ClaimSlot(b)
        PROVE  LocksHaveLiveOwners'
    <2>1. \/ UNCHANGED <<status, lock>>
          \/ lock' = Locked(b) /\ status' = [status EXCEPT ![b] = "pending"]
      BY <1>4 DEF ClaimSlot, Outcomes, Done, Lost, Refused
    <2>2. ASSUME lock' = Locked(b), status' = [status EXCEPT ![b] = "pending"]
          PROVE  LocksHaveLiveOwners'
      BY <2>2, BookingAssumption DEF Locked
    <2> QED
      BY <1>1, <2>1, <2>2
  <1>5. ASSUME NEW b \in Bookings, Confirm(b)
        PROVE  LocksHaveLiveOwners'
    <2>1. /\ UNCHANGED lock
          /\ \/ UNCHANGED status
             \/ status' = [status EXCEPT ![b] = "confirmed"]
      BY <1>5 DEF Confirm
    <2> QED
      BY <2>1
  <1>6. ASSUME NEW b \in Bookings, Fail(b)
        PROVE  LocksHaveLiveOwners'
    <2>1. \/ UNCHANGED <<status, lock>>
          \/ lock' = Released(b) /\ status' = [status EXCEPT ![b] = "failed"]
      BY <1>6 DEF Fail, Outcomes, Done, Lost, Refused
    <2> QED
      BY <1>1, <1>2, <2>1
  <1>7. ASSUME NEW c \in Calls, Release(c)
        PROVE  LocksHaveLiveOwners'
    <2>1. callBooking[c] \in Bookings
      BY <1>7 DEF Release, CallInv
    <2>2. \/ UNCHANGED <<status, lock>>
          \/ /\ lock' = Released(callBooking[c])
             /\ status' = [status EXCEPT ![callBooking[c]] = "canceled"]
      BY <1>7 DEF Release, Outcomes, Done, Lost, Refused
    <2> QED
      BY <1>1, <1>3, <2>1, <2>2
  <1>8. ASSUME NEW b \in Bookings,
               Submit(b) \/ Recheck(b) \/ Connect(b) \/ Insert(b) \/ Undo(b)
                 \/ Reply(b) \/ HangUp(b) \/ Crash(b)
        PROVE  UNCHANGED <<status, lock>>
    BY <1>8 DEF Submit, Recheck, Connect, Insert, Undo, Reply, HangUp, Crash
  <1>9. ASSUME NEW c \in Calls, Ask(c) \/ ReadMeeting(c) \/ DeleteNext(c)
                 \/ HangUpCall(c) \/ CrashCall(c)
        PROVE  UNCHANGED <<status, lock>>
    BY <1>9 DEF Ask, ReadMeeting, DeleteNext, HangUpCall, CrashCall
  <1>10. ASSUME MoveDestination \/ UNCHANGED vars
         PROVE  UNCHANGED <<status, lock>>
    BY <1>10 DEF MoveDestination, vars
  <1> QED
    BY <1>1, <1>4, <1>5, <1>6, <1>7, <1>8, <1>9, <1>10
       DEF Next, CreateStep, CancelStep

LEMMA BaseInvariant == Spec => []BaseInv
  <1>1. Init => BaseInv
    BY InitBase DEF BaseInv, Init, LocksHaveLiveOwners
  <1>2. BaseInv /\ [Next]_vars => BaseInv'
    BY TypeOKStep, PhaseStep, CallInvStep, BookedInvStep, LockOwnersStep DEF BaseInv
  <1> QED
    BY <1>1, <1>2, PTL DEF Spec

\* Type correctness: in particular, no request walks past the last event.
THEOREM TypeCorrect == Spec => []TypeOK
  <1>1. BaseInv => TypeOK
    BY DEF BaseInv
  <1> QED
    BY <1>1, BaseInvariant, PTL

\* No slot stays locked for a booking that failed or was canceled, whatever
\* fails on the way and however cancellations overlap.
THEOREM NoOrphanLocks == Spec => []LocksHaveLiveOwners
  <1>1. BaseInv => LocksHaveLiveOwners
    BY DEF BaseInv
  <1> QED
    BY <1>1, BaseInvariant, PTL

\* A failed booking is never confirmed later and a canceled one stays canceled:
\* ConfirmBooking and FailBooking write the status without reading it, and it
\* is the order of the calls in Create and Cancel that makes this safe.
THEOREM EndsForGood == Spec => NeverRevived
  <1>1. BaseInv /\ [Next]_vars =>
           [\A b \in Bookings :
               status[b] \in {"failed", "canceled"} => status'[b] = status[b]]_vars
    <2> SUFFICES ASSUME BaseInv, Next, NEW x \in Bookings,
                        status[x] \in {"failed", "canceled"}
                 PROVE  status'[x] = status[x]
      BY DEF vars
    <2> USE DEF BaseInv, TypeOK, storeVars
    <2>1. ASSUME NEW b \in Bookings, ClaimSlot(b) \/ Confirm(b) \/ Fail(b)
          PROVE  status'[x] = status[x]
      <3>1. at[b] \in {"claim", "confirm", "fail"}
        BY <2>1 DEF ClaimSlot, Confirm, Fail
      <3>2. status[b] \in {"none", "pending", "confirmed"}
        BY <3>1 DEF PhaseInv, Phase, Live
      <3>3. x # b
        BY <3>2
      <3> QED
        BY <2>1, <3>3 DEF ClaimSlot, Confirm, Fail
    <2>2. ASSUME NEW c \in Calls, Release(c)
          PROVE  status'[x] = status[x]
      <3>1. callBooking[c] \in Bookings /\ guest[callBooking[c]] # "waiting"
        BY <2>2 DEF Release, CallInv
      <3>2. status[callBooking[c]] \in {"confirmed", "canceled"}
        BY <3>1 DEF PhaseInv, Phase
      <3> QED
        BY <2>2, <3>1, <3>2 DEF Release
    <2>3. ASSUME NEW b \in Bookings,
                 Submit(b) \/ Recheck(b) \/ Connect(b) \/ Insert(b) \/ Undo(b)
                   \/ Reply(b) \/ HangUp(b) \/ Crash(b)
          PROVE  UNCHANGED status
      BY <2>3 DEF Submit, Recheck, Connect, Insert, Undo, Reply, HangUp, Crash
    <2>4. ASSUME NEW c \in Calls, Ask(c) \/ ReadMeeting(c) \/ DeleteNext(c)
                   \/ HangUpCall(c) \/ CrashCall(c)
          PROVE  UNCHANGED status
      BY <2>4 DEF Ask, ReadMeeting, DeleteNext, HangUpCall, CrashCall
    <2>5. CASE MoveDestination
      BY <2>5 DEF MoveDestination
    <2> QED
      BY <2>1, <2>2, <2>3, <2>4, <2>5 DEF Next, CreateStep, CancelStep
  <1> QED
    BY <1>1, BaseInvariant, PTL DEF Spec, NeverRevived

-------------------------------------------------------------------------------
(***************************************************************************)
(* Mutual exclusion of the slots.  LiveHoldsLocks alone is not inductive:  *)
(* release deletes every lock the booking names, and a booking released    *)
(* twice could by then name the locks of another.  That is the only way to *)
(* lose a lock, and where the theorems below need a hypothesis.            *)
(***************************************************************************)

\* What CancelBooking does not check: no cancellation comes to release a
\* booking that another one has already released.
ReleasedWhileLive == \A c \in Calls : callAt[c] = "release" => Live(callBooking[c])

\* Each live booking keeps its locks: a claim takes free ones only, and a
\* release comes from a booking that still owns all of what it names.
LEMMA LiveHoldsLocksStep ==
    ASSUME BaseInv, ReleasedWhileLive, LiveHoldsLocks, [Next]_vars
    PROVE  LiveHoldsLocks'
  <1> USE DEF BaseInv, TypeOK, storeVars, requestVars, callVars
  <1>1. ASSUME UNCHANGED <<status, lock>>
        PROVE  LiveHoldsLocks'
    BY <1>1 DEF LiveHoldsLocks, Live
  <1>2. ASSUME NEW b \in Bookings, ClaimSlot(b)
        PROVE  LiveHoldsLocks'
    <2>1. \/ UNCHANGED <<status, lock>>
          \/ /\ lock' = Locked(b) /\ status' = [status EXCEPT ![b] = "pending"]
             /\ Claimable(b)
      BY <1>2 DEF ClaimSlot, Outcomes, Done, Lost, Refused
    <2>2. ASSUME lock' = Locked(b), status' = [status EXCEPT ![b] = "pending"], Claimable(b)
          PROVE  LiveHoldsLocks'
      <3> SUFFICES ASSUME NEW x \in Bookings, Live(x)', NEW k \in Claim(x)
                   PROVE  lock'[k] = x
        BY DEF LiveHoldsLocks
      <3>1. k \in Buckets
        BY DEF Buckets
      <3>2. CASE x = b
        BY <2>2, <3>1, <3>2 DEF Locked
      <3>3. CASE x # b
        <4>1. lock[k] = x
          BY <2>2, <3>3 DEF LiveHoldsLocks, Live
        <4>2. k \notin Claim(b)
          BY <2>2, <4>1, BookingAssumption DEF Claimable
        <4> QED
          BY <2>2, <3>1, <4>1, <4>2 DEF Locked
      <3> QED
        BY <3>2, <3>3
    <2> QED
      BY <1>1, <2>1, <2>2
  <1>3. ASSUME NEW b \in Bookings, Confirm(b)
        PROVE  LiveHoldsLocks'
    <2>1. status[b] = "pending"
      BY <1>3 DEF Confirm, PhaseInv, Phase
    <2>2. /\ UNCHANGED lock
          /\ \/ UNCHANGED status
             \/ status' = [status EXCEPT ![b] = "confirmed"]
      BY <1>3 DEF Confirm
    <2> QED
      BY <2>1, <2>2 DEF LiveHoldsLocks, Live
  <1>4. ASSUME NEW b \in Bookings, Live(b), lock' = Released(b),
               NEW end \in {"failed", "canceled"}, status' = [status EXCEPT ![b] = end]
        PROVE  LiveHoldsLocks'
    <2> SUFFICES ASSUME NEW x \in Bookings, Live(x)', NEW k \in Claim(x)
                 PROVE  lock'[k] = x
      BY DEF LiveHoldsLocks
    <2>1. x # b /\ Live(x)
      BY <1>4 DEF Live
    <2>2. lock[k] = x /\ k \notin Claim(b)
      BY <1>4, <2>1 DEF LiveHoldsLocks
    <2> QED
      BY <1>4, <2>2 DEF Released, Buckets
  <1>5. ASSUME NEW b \in Bookings, Fail(b)
        PROVE  LiveHoldsLocks'
    <2>1. Live(b)
      BY <1>5 DEF Fail, PhaseInv, Phase
    <2>2. \/ UNCHANGED <<status, lock>>
          \/ lock' = Released(b) /\ status' = [status EXCEPT ![b] = "failed"]
      BY <1>5 DEF Fail, Outcomes, Done, Lost, Refused
    <2> QED
      BY <1>1, <1>4, <2>1, <2>2
  <1>6. ASSUME NEW c \in Calls, Release(c)
        PROVE  LiveHoldsLocks'
    <2>1. callBooking[c] \in Bookings /\ Live(callBooking[c])
      BY <1>6 DEF Release, CallInv, ReleasedWhileLive
    <2>2. \/ UNCHANGED <<status, lock>>
          \/ /\ lock' = Released(callBooking[c])
             /\ status' = [status EXCEPT ![callBooking[c]] = "canceled"]
      BY <1>6 DEF Release, Outcomes, Done, Lost, Refused
    <2> QED
      BY <1>1, <1>4, <2>1, <2>2
  <1>7. ASSUME NEW b \in Bookings,
               Submit(b) \/ Recheck(b) \/ Connect(b) \/ Insert(b) \/ Undo(b)
                 \/ Reply(b) \/ HangUp(b) \/ Crash(b)
        PROVE  UNCHANGED <<status, lock>>
    BY <1>7 DEF Submit, Recheck, Connect, Insert, Undo, Reply, HangUp, Crash
  <1>8. ASSUME NEW c \in Calls, Ask(c) \/ ReadMeeting(c) \/ DeleteNext(c)
                 \/ HangUpCall(c) \/ CrashCall(c)
        PROVE  UNCHANGED <<status, lock>>
    BY <1>8 DEF Ask, ReadMeeting, DeleteNext, HangUpCall, CrashCall
  <1>9. ASSUME MoveDestination \/ UNCHANGED vars
        PROVE  UNCHANGED <<status, lock>>
    BY <1>9 DEF MoveDestination, vars
  <1> QED
    BY <1>1, <1>2, <1>3, <1>5, <1>6, <1>7, <1>8, <1>9
       DEF Next, CreateStep, CancelStep

LEMMA LocksAreKept == Spec /\ []ReleasedWhileLive => []LiveHoldsLocks
  <1>1. Init => LiveHoldsLocks
    BY DEF Init, LiveHoldsLocks, Live
  <1>2. BaseInv /\ ReleasedWhileLive /\ LiveHoldsLocks /\ [Next]_vars => LiveHoldsLocks'
    BY LiveHoldsLocksStep
  <1> QED
    BY <1>1, <1>2, BaseInvariant, PTL DEF Spec

\* No two pending or confirmed bookings overlap, buffers included, in any
\* interleaving, under every fault, on any calendars and whatever a second
\* delete is answered, unless a booking is released twice: of all that Create
\* and Cancel leave unchecked, only this can break the promise of README.md:18.
THEOREM MutualExclusion == Spec /\ []ReleasedWhileLive => []NoDoubleBooking
  <1>1. LiveHoldsLocks => NoDoubleBooking
    <2> SUFFICES ASSUME LiveHoldsLocks, NEW x \in Bookings, NEW y \in Bookings, x # y,
                        Live(x), Live(y), ClaimsOverlap(Slot[x], Slot[y])
                 PROVE  FALSE
      BY DEF NoDoubleBooking
    <2>1. /\ Slot[x] \in Window /\ Slot[x].start < Slot[x].end
          /\ Slot[y] \in Window /\ Slot[y].start < Slot[y].end
      BY BookingAssumption
    <2>2. PICK k : k \in Claim(x) /\ k \in Claim(y)
      BY <2>1, OverlapSharesLock DEF Claim
    <2> QED
      BY <2>2 DEF LiveHoldsLocks
  <1> QED
    BY <1>1, LocksAreKept, PTL

\* A lock goes only with the booking it belongs to, on the same hypothesis: no
\* release takes the slot of somebody else.
THEOREM ReleasesAreOwn == Spec /\ []ReleasedWhileLive => OnlyOwnerReleases
  <1>1. BaseInv /\ ReleasedWhileLive /\ LiveHoldsLocks /\ [Next]_vars =>
           [\A k \in Buckets : \A b \in Bookings :
               lock[k] = b /\ lock'[k] # b => Live(b) /\ ~Live(b)']_vars
    <2> SUFFICES ASSUME BaseInv, ReleasedWhileLive, LiveHoldsLocks, Next,
                        NEW k \in Buckets, NEW x \in Bookings,
                        lock[k] = x, lock'[k] # x
                 PROVE  Live(x) /\ ~Live(x)'
      BY DEF vars
    <2> USE DEF BaseInv, TypeOK, storeVars
    <2>1. ASSUME NEW b \in Bookings, Live(b), lock' = Released(b),
                 NEW end \in {"failed", "canceled"}, status' = [status EXCEPT ![b] = end]
          PROVE  Live(x) /\ ~Live(x)'
      <3>1. x = b
        BY <2>1 DEF Released, LiveHoldsLocks
      <3> QED
        BY <2>1, <3>1 DEF Live
    <2>2. ASSUME NEW b \in Bookings, ClaimSlot(b)
          PROVE  FALSE
      <3>1. Claimable(b) /\ lock' = Locked(b)
        BY <2>2 DEF ClaimSlot
      <3> QED
        BY <3>1, BookingAssumption DEF Claimable, Locked
    <2>3. ASSUME NEW b \in Bookings, Fail(b)
          PROVE  Live(x) /\ ~Live(x)'
      <3>1. Live(b)
        BY <2>3 DEF Fail, PhaseInv, Phase
      <3>2. lock' = Released(b) /\ status' = [status EXCEPT ![b] = "failed"]
        BY <2>3 DEF Fail, Outcomes, Done, Lost, Refused
      <3> QED
        BY <2>1, <3>1, <3>2
    <2>4. ASSUME NEW c \in Calls, Release(c)
          PROVE  Live(x) /\ ~Live(x)'
      <3>1. callBooking[c] \in Bookings /\ Live(callBooking[c])
        BY <2>4 DEF Release, CallInv, ReleasedWhileLive
      <3>2. /\ lock' = Released(callBooking[c])
            /\ status' = [status EXCEPT ![callBooking[c]] = "canceled"]
        BY <2>4 DEF Release, Outcomes, Done, Lost, Refused
      <3> QED
        BY <2>1, <3>1, <3>2
    <2>5. ASSUME NEW b \in Bookings,
                 Submit(b) \/ Recheck(b) \/ Connect(b) \/ Insert(b) \/ Confirm(b)
                   \/ Undo(b) \/ Reply(b) \/ HangUp(b) \/ Crash(b)
          PROVE  FALSE
      BY <2>5 DEF Submit, Recheck, Connect, Insert, Confirm, Undo, Reply, HangUp, Crash
    <2>6. ASSUME NEW c \in Calls, Ask(c) \/ ReadMeeting(c) \/ DeleteNext(c)
                   \/ HangUpCall(c) \/ CrashCall(c)
          PROVE  FALSE
      BY <2>6 DEF Ask, ReadMeeting, DeleteNext, HangUpCall, CrashCall
    <2>7. CASE MoveDestination
      BY <2>7 DEF MoveDestination
    <2> QED
      BY <2>2, <2>3, <2>4, <2>5, <2>6, <2>7 DEF Next, CreateStep, CancelStep
  <1> QED
    BY <1>1, BaseInvariant, LocksAreKept, PTL DEF Spec, OnlyOwnerReleases

-------------------------------------------------------------------------------
(***************************************************************************)
(* Why a booking is released once, although nothing checks it.  When the   *)
(* second delete of an event is an error, and cancellations look for the   *)
(* event where it was created, the guest's event is a token that only one  *)
(* cancellation can take.                                                  *)
(***************************************************************************)

\* A second delete of an event is never answered like a first one.
GoneIsAnError == GoneAnswers = {"gone"}

\* The booking does not say which calendar it was created on: a cancellation
\* looks on the one that its meeting type names by then.
LooksWhereCreated ==
    \A c \in Calls : callAt[c] = "delete" => callCal[c] = cal[callBooking[c]]

\* The event that a cancellation deletes is where it looks for it.
LEMMA StrictOutcome ==
    ASSUME GoneIsAnError, LooksWhereCreated, BaseInv, NEW c \in Calls, callAt[c] = "delete",
           NEW o \in DeleteOutcomes(callBooking[c], callNext[c], callCal[c], callAlive[c]),
           o.ok
    PROVE  /\ event[callBooking[c]][callNext[c]] = "present"
           /\ EventAfterDelete(callBooking[c], callNext[c], callCal[c], o) = "deleted"
  <1> DEFINE b == callBooking[c]
             e == callNext[c]
  <1>1. /\ b \in Bookings /\ e \in Events
        /\ guest[b] # "waiting" /\ callCal[c] \in Calendars
    BY DEF BaseInv, TypeOK, CallInv
  <1>2. at[b] = "booked" /\ cal[b] \in Calendars
    BY <1>1 DEF BaseInv, PhaseInv, Phase
  <1>3. callCal[c] = cal[b]
    BY DEF LooksWhereCreated
  <1>4. event[b][e] \in {"present", "deleted"}
    BY <1>1, <1>2 DEF BaseInv, TypeOK, BookedInv
  <1>5. Present(b, e, callCal[c])
    <2>1. CASE event[b][e] = "deleted"
      <3>1. AbsentOutcomes(b, e, callCal[c]) = {Refused}
        BY <1>3, <2>1 DEF AbsentOutcomes, GoneIsAnError, Done, Refused
      <3>2. o = Refused
        BY <2>1, <3>1 DEF DeleteOutcomes, Present
      <3> QED
        BY <3>2 DEF Refused
    <2>2. CASE event[b][e] = "present"
      BY <1>3, <2>2 DEF Present
    <2> QED
      BY <1>4, <2>1, <2>2
  <1>6. o = Done
    BY <1>5 DEF DeleteOutcomes, Outcomes, Done, Lost, Refused
  <1> QED
    BY <1>5, <1>6 DEF Present, EventAfterDelete, Done

\* Steps that leave cancellations and booked bookings alone.
LEMMA OnePassesKept ==
    ASSUME BaseInv, OnePasses, UNCHANGED callVars,
           \A b \in Bookings : \/ status'[b] = status[b] /\ event'[b] = event[b]
                               \/ at[b] # "booked" /\ status'[b] # "canceled"
    PROVE  OnePasses'
  <1>1. \A c \in Calls : Passed(c)' = Passed(c)
    BY DEF Passed, callVars
  <1>2. \A c \in Calls : Passed(c) =>
           callBooking[c] \in Bookings /\ at[callBooking[c]] = "booked"
    BY DEF BaseInv, CallInv, PhaseInv, Phase, Passed
  <1> QED
    BY <1>1, <1>2 DEF OnePasses, callVars

LEMMA OnePassesShrinks ==
    ASSUME OnePasses, UNCHANGED <<status, event>>,
           \A d \in Calls : Passed(d)' => Passed(d) /\ callBooking'[d] = callBooking[d]
    PROVE  OnePasses'
  <1>1. \A d \in Calls : Passed(d)' =>
           status'[callBooking'[d]] = "confirmed" /\ event'[callBooking'[d]][0] = "deleted"
    BY DEF OnePasses
  <1>2. \A d1, d2 \in Calls : d1 # d2 /\ Passed(d1)' /\ Passed(d2)'
           => callBooking'[d1] # callBooking'[d2]
    BY DEF OnePasses
  <1> QED
    BY <1>1, <1>2 DEF OnePasses

LEMMA OnePassesStep ==
    ASSUME GoneIsAnError, LooksWhereCreated, BaseInv, OnePasses, [Next]_vars
    PROVE  OnePasses'
  <1> USE DEF BaseInv, TypeOK, storeVars, requestVars, callVars
  <1>1. ASSUME UNCHANGED <<status, event, callVars>>
        PROVE  OnePasses'
    BY <1>1, OnePassesKept
  <1>2. ASSUME NEW b \in Bookings,
               Submit(b) \/ Recheck(b) \/ Connect(b) \/ Reply(b) \/ HangUp(b) \/ Crash(b)
        PROVE  OnePasses'
    BY <1>1, <1>2 DEF Submit, Recheck, Connect, Reply, HangUp, Crash
  <1>3. ASSUME NEW b \in Bookings,
               ClaimSlot(b) \/ Insert(b) \/ Confirm(b) \/ Undo(b) \/ Fail(b)
        PROVE  OnePasses'
    <2>1. UNCHANGED callVars
      BY <1>3 DEF ClaimSlot, Insert, Confirm, Undo, Fail
    <2>2. \A x \in Bookings \ {b} : status'[x] = status[x] /\ event'[x] = event[x]
      BY <1>3 DEF ClaimSlot, Insert, Confirm, Undo, Fail
    <2>3. at[b] \in {"claim", "insert", "confirm", "undo", "fail"}
      BY <1>3 DEF ClaimSlot, Insert, Confirm, Undo, Fail
    <2>4. status[b] # "canceled"
      BY <2>3 DEF PhaseInv, Phase, Live
    <2>5. status'[b] # "canceled"
      BY <1>3, <2>4 DEF ClaimSlot, Insert, Confirm, Undo, Fail
    <2> QED
      BY <2>1, <2>2, <2>3, <2>5, OnePassesKept
  <1>4. ASSUME NEW c \in Calls, UNCHANGED <<status, event>>, ~Passed(c)',
               \A d \in Calls \ {c} :
                   /\ callAt'[d] = callAt[d] /\ callNext'[d] = callNext[d]
                   /\ callClean'[d] = callClean[d] /\ callBooking'[d] = callBooking[d]
        PROVE  OnePasses'
    <2>1. \A d \in Calls : Passed(d)' =>
             Passed(d) /\ callBooking'[d] = callBooking[d]
      BY <1>4 DEF Passed
    <2> QED
      BY <1>4, <2>1, OnePassesShrinks
  <1>5. ASSUME NEW c \in Calls, Ask(c)
        PROVE  OnePasses'
    <2>1. /\ UNCHANGED <<status, event, callNext, callClean>>
          /\ \/ UNCHANGED <<callAt, callBooking>>
             \/ \E b : /\ callAt' = [callAt EXCEPT ![c] = "meeting"]
                       /\ callBooking' = [callBooking EXCEPT ![c] = b]
      BY <1>5 DEF Ask
    <2>2. callAt[c] = "idle"
      BY <1>5 DEF Ask
    <2> QED
      BY <1>4, <2>1, <2>2 DEF Passed
  <1>6. ASSUME NEW c \in Calls, EndCall(c), UNCHANGED <<status, event>>
        PROVE  OnePasses'
    BY <1>4, <1>6 DEF EndCall, Passed
  <1>7. ASSUME NEW c \in Calls, ReadMeeting(c)
        PROVE  OnePasses'
    <2>1. CASE EndCall(c)
      BY <1>6, <1>7, <2>1 DEF ReadMeeting
    <2>2. CASE ~EndCall(c)
      <3>1. /\ callAt' = [callAt EXCEPT ![c] = "delete"]
            /\ UNCHANGED <<status, event, callBooking, callNext, callClean>>
        BY <1>7, <2>2 DEF ReadMeeting
      <3>2. callNext[c] = 0
        BY <1>7 DEF ReadMeeting, CallInv
      <3> QED
        BY <1>4, <3>1, <3>2 DEF Passed
    <2> QED
      BY <2>1, <2>2
  <1>8. ASSUME NEW c \in Calls, HangUpCall(c) \/ CrashCall(c)
        PROVE  OnePasses'
    <2>1. CASE CrashCall(c)
      BY <1>6, <2>1 DEF CrashCall
    <2>2. CASE HangUpCall(c)
      <3>1. UNCHANGED <<status, event, callAt, callNext, callClean, callBooking>>
        BY <2>2 DEF HangUpCall
      <3> QED
        BY <3>1 DEF OnePasses, Passed
    <2> QED
      BY <1>8, <2>1, <2>2
  <1>9. CASE MoveDestination \/ UNCHANGED vars
    BY <1>1, <1>9 DEF MoveDestination, vars
  <1>10. ASSUME NEW c \in Calls, DeleteNext(c)
         PROVE  OnePasses'
    <2> DEFINE b == callBooking[c]
               e == callNext[c]
    <2>1. PICK o \in DeleteOutcomes(b, e, callCal[c], callAlive[c]) :
             /\ event' = [event EXCEPT ![b][e] = EventAfterDelete(b, e, callCal[c], o)]
             /\ \/ /\ callNext' = [callNext EXCEPT ![c] = callNext[c] + 1]
                   /\ callClean' = [callClean EXCEPT ![c] = AllClean(c, o.ok)]
                   /\ UNCHANGED <<callAt, callBooking>>
                \/ /\ AllClean(c, o.ok)
                   /\ callAt' = [callAt EXCEPT ![c] = "release"]
                   /\ UNCHANGED <<callBooking, callNext, callClean>>
                \/ EndCall(c)
      BY <1>10 DEF DeleteNext
    <2>2. /\ callAt[c] = "delete" /\ UNCHANGED status
          /\ b \in Bookings /\ e \in Events
      BY <1>10 DEF DeleteNext, CallInv
    <2>3. \A d \in Calls \ {c} :
             Passed(d)' = Passed(d) /\ callBooking'[d] = callBooking[d]
      BY <2>1 DEF EndCall, Passed
    <2>4. ASSUME Passed(c)'
          PROVE  /\ o.ok /\ callBooking'[c] = b
                 /\ e = 0 \/ Passed(c)
      <3>1. ~EndCall(c)
        BY <2>4 DEF EndCall, Passed
      <3>2. o.ok /\ callClean[c] /\ callBooking' = callBooking
        BY <2>1, <2>2, <2>4, <3>1 DEF AllClean, Passed
      <3>3. e = 0 \/ e > 0
        BY <2>2 DEF Events
      <3> QED
        BY <2>2, <3>2, <3>3 DEF Passed
    <2>5. \A x \in Bookings : event[x][0] = "deleted" => event'[x][0] = "deleted"
      <3>1. event[b][e] = "deleted" => EventAfterDelete(b, e, callCal[c], o) = "deleted"
        BY DEF EventAfterDelete
      <3> QED
        BY <2>1, <2>2, <3>1, EventsAreNaturals
    <2>6. ASSUME Passed(c)'
          PROVE  /\ status[b] = "confirmed" /\ event'[b][0] = "deleted"
                 /\ \A d \in Calls \ {c} : Passed(d) => callBooking[d] # b
      <3>1. CASE e = 0
        <4>1. event[b][0] = "present" /\ event'[b][0] = "deleted"
          BY <2>1, <2>2, <2>4, <2>6, <3>1, StrictOutcome, EventsAreNaturals
        <4>2. status[b] \in {"confirmed", "canceled"}
          BY <2>2 DEF CallInv, PhaseInv, Phase
        <4> QED
          BY <2>2, <4>1, <4>2 DEF OnePasses
      <3>2. CASE Passed(c)
        BY <2>2, <2>5, <3>2 DEF OnePasses
      <3> QED
        BY <2>4, <2>6, <3>1, <3>2
    <2>7. \A d \in Calls : Passed(d)' =>
             status'[callBooking'[d]] = "confirmed" /\ event'[callBooking'[d]][0] = "deleted"
      <3>1. ASSUME NEW d \in Calls \ {c}, Passed(d)
            PROVE  /\ callBooking[d] \in Bookings /\ status[callBooking[d]] = "confirmed"
                   /\ event[callBooking[d]][0] = "deleted"
        BY <3>1 DEF OnePasses, CallInv, Passed
      <3> SUFFICES ASSUME NEW d \in Calls, Passed(d)'
                   PROVE  /\ status'[callBooking'[d]] = "confirmed"
                          /\ event'[callBooking'[d]][0] = "deleted"
        OBVIOUS
      <3>2. CASE d = c
        BY <2>2, <2>4, <2>6, <3>2
      <3>3. CASE d # c
        BY <2>2, <2>3, <2>5, <3>1, <3>3
      <3> QED
        BY <3>2, <3>3
    <2>8. \A d1, d2 \in Calls : d1 # d2 /\ Passed(d1)' /\ Passed(d2)'
             => callBooking'[d1] # callBooking'[d2]
      BY <2>3, <2>4, <2>6 DEF OnePasses
    <2>9. \A x \in Bookings : status'[x] = "canceled" => event'[x][0] = "deleted"
      BY <2>2, <2>5 DEF OnePasses
    <2> QED
      BY <2>7, <2>8, <2>9 DEF OnePasses
  <1>11. ASSUME NEW c \in Calls, Release(c)
         PROVE  OnePasses'
    <2> DEFINE b == callBooking[c]
    <2>1. /\ EndCall(c) /\ UNCHANGED event /\ Passed(c) /\ b \in Bookings
          /\ status' = status \/ status' = [status EXCEPT ![b] = "canceled"]
      BY <1>11 DEF Release, Passed, CallInv
    <2>2. ~Passed(c)'
      BY <2>1 DEF EndCall, Passed
    <2>3. \A d \in Calls \ {c} :
             Passed(d)' = Passed(d) /\ callBooking'[d] = callBooking[d]
      BY <2>1 DEF EndCall, Passed
    <2>4. event[b][0] = "deleted"
          /\ \A d \in Calls \ {c} : Passed(d) => callBooking[d] # b
      BY <2>1 DEF OnePasses
    <2>5. \A d \in Calls \ {c} : Passed(d) => callBooking[d] \in Bookings
      BY DEF Passed, CallInv
    <2>6. \A d \in Calls : Passed(d)' =>
             status'[callBooking'[d]] = "confirmed" /\ event'[callBooking'[d]][0] = "deleted"
      <3> SUFFICES ASSUME NEW d \in Calls, Passed(d)'
                   PROVE  /\ status'[callBooking'[d]] = "confirmed"
                          /\ event'[callBooking'[d]][0] = "deleted"
        OBVIOUS
      <3>1. d # c /\ Passed(d) /\ callBooking'[d] = callBooking[d]
        BY <2>2, <2>3
      <3>2. callBooking[d] # b /\ callBooking[d] \in Bookings
        BY <2>4, <2>5, <3>1
      <3>3. status'[callBooking[d]] = status[callBooking[d]]
        BY <2>1, <3>2
      <3> QED
        BY <2>1, <3>1, <3>3 DEF OnePasses
    <2>7. \A d1, d2 \in Calls : d1 # d2 /\ Passed(d1)' /\ Passed(d2)'
             => callBooking'[d1] # callBooking'[d2]
      BY <2>2, <2>3 DEF OnePasses
    <2>8. \A x \in Bookings : status'[x] = "canceled" => event'[x][0] = "deleted"
      BY <2>1, <2>4 DEF OnePasses
    <2> QED
      BY <2>6, <2>7, <2>8 DEF OnePasses
  <1> QED
    BY <1>2, <1>3, <1>5, <1>7, <1>8, <1>9, <1>10, <1>11
       DEF Next, CreateStep, CancelStep

LEMMA PassedOnce == OnePasses => ReleasedWhileLive
  BY DEF OnePasses, Passed, ReleasedWhileLive, Live

LEMMA SlotsReleasedOnce == SlotInv => ReleasedWhileLive
  BY PassedOnce DEF SlotInv

\* SlotInv: each live booking keeps every lock it wrote, because only the one
\* cancellation that was answered the deletion of the guest's event releases it.
THEOREM SlotInvariant ==
    ASSUME GoneIsAnError
    PROVE  Spec /\ []LooksWhereCreated => []SlotInv
  <1>1. Init => OnePasses
    BY DEF Init, OnePasses, Passed
  <1>2. LooksWhereCreated /\ BaseInv /\ OnePasses /\ [Next]_vars => OnePasses'
    BY OnePassesStep
  <1>3. OnePasses => ReleasedWhileLive
    BY PassedOnce
  <1>4. BaseInv /\ OnePasses /\ LiveHoldsLocks => SlotInv
    BY DEF BaseInv, SlotInv
  <1> QED
    BY <1>1, <1>2, <1>3, <1>4, BaseInvariant, LocksAreKept, PTL DEF Spec

\* While the destination calendar stays what it is, everything that is created
\* and everything that is looked for is on it.
OnDestination ==
    /\ \A b \in Bookings : cal[b] \in {NoCalendar, dest}
    /\ \A c \in Calls : callCal[c] \in {NoCalendar, dest}

LEMMA OnDestinationStep ==
    ASSUME TypeOK, OnDestination, [Next]_vars, UNCHANGED dest
    PROVE  OnDestination'
  <1>1. ASSUME NEW x \in Bookings
        PROVE  cal'[x] \in {NoCalendar, dest}
    <2>1. cal[x] \in {NoCalendar, dest}
      BY DEF OnDestination
    <2>2. CASE SameBooking(x)
      BY <2>1, <2>2 DEF SameBooking
    <2>3. CASE Submit(x)
      BY <2>1, <2>3 DEF Submit, TypeOK
    <2>4. CASE CreateStep(x) \/ HangUp(x) \/ Crash(x)
      BY <2>1, <2>4 DEF CreateStep, Recheck, ClaimSlot, Connect, Insert, Confirm,
                        Undo, Fail, Reply, HangUp, Crash
    <2>5. ASSUME NEW c \in Calls, Ask(c) \/ CancelStep(c)
          PROVE  cal'[x] \in {NoCalendar, dest}
      BY <2>1, <2>5, CallFrame DEF requestVars
    <2> QED
      BY <2>2, <2>3, <2>4, <2>5, StepsOfBooking DEF CancelStep
  <1>2. ASSUME NEW d \in Calls
        PROVE  callCal'[d] \in {NoCalendar, dest}
    <2>1. callCal[d] \in {NoCalendar, dest}
      BY DEF OnDestination
    <2>2. CASE UNCHANGED callCal[d]
      BY <2>1, <2>2
    <2>3. CASE EndCall(d)
      BY <2>3 DEF EndCall, TypeOK
    <2>4. CASE ReadMeeting(d)
      BY <2>3, <2>4 DEF ReadMeeting, TypeOK
    <2>5. CASE Ask(d) \/ HangUpCall(d) \/ CrashCall(d)
      BY <2>2, <2>3, <2>5 DEF Ask, HangUpCall, CrashCall
    <2>6. CASE DeleteNext(d) \/ Release(d)
      BY <2>2, <2>3, <2>6 DEF DeleteNext, Release
    <2>7. CASE SameCall(d)
      BY <2>2, <2>7 DEF SameCall
    <2> QED
      BY <2>4, <2>5, <2>6, <2>7, StepsOfCall DEF CancelStep
  <1> QED
    BY <1>1, <1>2 DEF OnDestination

\* As long as no administrator moves the destination, every cancellation looks
\* where the events are: a request and a cancellation each read the meeting
\* type once and keep the calendar it names.
THEOREM SettledDestination == Spec /\ [][UNCHANGED dest]_vars => []LooksWhereCreated
  <1>1. Init => OnDestination
    BY DEF Init, OnDestination
  <1>2. BaseInv /\ OnDestination /\ [Next]_vars /\ [UNCHANGED dest]_vars => OnDestination'
    <2> SUFFICES ASSUME BaseInv, OnDestination, [Next]_vars, [UNCHANGED dest]_vars
                 PROVE  OnDestination'
      OBVIOUS
    <2>1. UNCHANGED dest
      BY DEF vars, storeVars
    <2> QED
      BY <2>1, OnDestinationStep DEF BaseInv
  <1>3. BaseInv /\ OnDestination => LooksWhereCreated
    <2> SUFFICES ASSUME BaseInv, OnDestination, NEW c \in Calls, callAt[c] = "delete"
                 PROVE  callCal[c] = cal[callBooking[c]]
      BY DEF LooksWhereCreated
    <2>1. /\ callBooking[c] \in Bookings /\ guest[callBooking[c]] # "waiting"
          /\ callCal[c] \in Calendars
      BY DEF BaseInv, CallInv
    <2>2. cal[callBooking[c]] \in Calendars
      BY <2>1 DEF BaseInv, PhaseInv, Phase
    <2> QED
      BY <2>1, <2>2, CalendarAssumption DEF OnDestination
  <1> QED
    BY <1>1, <1>2, <1>3, BaseInvariant, PTL DEF Spec

\* Nor can it be moved while there is only one calendar.
OneCalendar == \A x, y \in Calendars : x = y

LEMMA OneCalendarSettles ==
    ASSUME OneCalendar
    PROVE  Spec => [][UNCHANGED dest]_vars
  <1>1. TypeOK /\ [Next]_vars => [UNCHANGED dest]_vars
    <2> SUFFICES ASSUME TypeOK, Next
                 PROVE  UNCHANGED dest
      BY DEF vars
    <2>1. ASSUME NEW b \in Bookings, Submit(b) \/ CreateStep(b) \/ HangUp(b) \/ Crash(b)
          PROVE  UNCHANGED dest
      BY <2>1, RequestFrame
    <2>2. ASSUME NEW c \in Calls, Ask(c) \/ CancelStep(c) \/ HangUpCall(c) \/ CrashCall(c)
          PROVE  UNCHANGED dest
      BY <2>2, CallFrame
    <2>3. CASE MoveDestination
      BY <2>3 DEF MoveDestination, TypeOK, OneCalendar
    <2> QED
      BY <2>1, <2>2, <2>3 DEF Next
  <1> QED
    BY <1>1, TypeCorrect, PTL DEF Spec

\* In the deployment that the code is written for, where Google answers 410 for
\* what is gone and the destination stays, no two live bookings overlap and no
\* release takes the slot of somebody else, whatever else fails or overlaps.
THEOREM SettledDestinationIsSafe ==
    ASSUME GoneIsAnError
    PROVE  Spec /\ [][UNCHANGED dest]_vars => []NoDoubleBooking /\ OnlyOwnerReleases
  <1>1. SlotInv => ReleasedWhileLive
    BY SlotsReleasedOnce
  <1> QED
    BY <1>1, SettledDestination, SlotInvariant, MutualExclusion, ReleasesAreOwn, PTL

-------------------------------------------------------------------------------
(***************************************************************************)
(* What a guest was told.                                                  *)
(***************************************************************************)

\* The booking of a guest who holds the token, or used it, is left to the
\* cancellations of that booking.
LEMMA ConfirmationStep ==
    ASSUME BaseInv, ConfirmationKept, [Next]_vars
    PROVE  ConfirmationKept'
  <1> SUFFICES ASSUME NEW x \in Bookings, guest'[x] = "holds"
               PROVE  /\ status'[x] = "confirmed"
                      /\ \A e \in Events : event'[x][e] = "present"
    BY DEF ConfirmationKept
  <1> USE DEF BaseInv, TypeOK, storeVars, requestVars, callVars
  <1>1. ASSUME guest[x] = "holds", status'[x] = status[x], event'[x] = event[x]
        PROVE  /\ status'[x] = "confirmed"
               /\ \A e \in Events : event'[x][e] = "present"
    BY <1>1 DEF ConfirmationKept
  <1>2. ASSUME NEW b \in Bookings, Reply(b), x = b
        PROVE  /\ status'[x] = "confirmed"
               /\ \A e \in Events : event'[x][e] = "present"
    <2>1. status[b] = "confirmed" /\ made[b] = Blockers + 1
          /\ \A e \in Events : e < made[b] => event[b][e] = "present"
      BY <1>2 DEF Reply, PhaseInv, Phase
    <2> QED
      BY <1>2, <2>1, EventsAreNaturals DEF Reply, Events
  <1>3. ASSUME NEW b \in Bookings, Reply(b), x # b
        PROVE  guest[x] = "holds" /\ status'[x] = status[x] /\ event'[x] = event[x]
    BY <1>3 DEF Reply
  <1>4. ASSUME NEW b \in Bookings, ClaimSlot(b) \/ Insert(b) \/ Confirm(b) \/ Undo(b) \/ Fail(b)
        PROVE  guest[x] = "holds" /\ status'[x] = status[x] /\ event'[x] = event[x]
    <2>1. guest[x] = "holds"
      BY <1>4 DEF ClaimSlot, Insert, Confirm, Undo, Fail
    <2>2. at[x] = "booked" /\ at[b] # "booked"
      BY <1>4, <2>1 DEF ClaimSlot, Insert, Confirm, Undo, Fail, PhaseInv, Phase
    <2> QED
      BY <1>4, <2>1, <2>2 DEF ClaimSlot, Insert, Confirm, Undo, Fail
  <1>5. ASSUME NEW b \in Bookings,
               Submit(b) \/ Recheck(b) \/ Connect(b) \/ HangUp(b) \/ Crash(b)
        PROVE  guest[x] = "holds" /\ status'[x] = status[x] /\ event'[x] = event[x]
    BY <1>5 DEF Submit, Recheck, Connect, HangUp, Crash
  <1>6. ASSUME NEW c \in Calls, Ask(c)
        PROVE  guest[x] = "holds" /\ status'[x] = status[x] /\ event'[x] = event[x]
    BY <1>6 DEF Ask
  <1>7. ASSUME NEW c \in Calls, DeleteNext(c) \/ Release(c)
        PROVE  guest[x] = "holds" /\ status'[x] = status[x] /\ event'[x] = event[x]
    <2>1. callBooking[c] \in Bookings /\ guest[callBooking[c]] \in {"asked", "told"}
      BY <1>7 DEF DeleteNext, Release, CallInv
    <2>2. guest[x] = "holds"
      BY <1>7, <2>1 DEF DeleteNext, Release
    <2>3. x # callBooking[c]
      BY <2>1, <2>2
    <2> QED
      BY <1>7, <2>2, <2>3 DEF DeleteNext, Release
  <1>8. ASSUME NEW c \in Calls, ReadMeeting(c) \/ HangUpCall(c) \/ CrashCall(c)
        PROVE  guest[x] = "holds" /\ status'[x] = status[x] /\ event'[x] = event[x]
    BY <1>8 DEF ReadMeeting, HangUpCall, CrashCall
  <1>9. ASSUME MoveDestination \/ UNCHANGED vars
        PROVE  guest[x] = "holds" /\ status'[x] = status[x] /\ event'[x] = event[x]
    BY <1>9 DEF MoveDestination, vars
  <1> QED
    BY <1>1, <1>2, <1>3, <1>4, <1>5, <1>6, <1>7, <1>8, <1>9
       DEF Next, CreateStep, CancelStep

\* A guest who was told the booking is confirmed finds it so, with all of its
\* events on the calendar, until that guest asks to cancel it.
THEOREM ConfirmedGuestsKeepTheirMeeting == Spec => []ConfirmationKept
  <1>1. Init => ConfirmationKept
    BY DEF Init, ConfirmationKept
  <1>2. BaseInv /\ ConfirmationKept /\ [Next]_vars => ConfirmationKept'
    BY ConfirmationStep
  <1> QED
    BY <1>1, <1>2, BaseInvariant, PTL DEF Spec

\* A delete that was answered without an error leaves the event deleted where
\* it was looked for, whatever a second delete is answered.
LEMMA CleanOutcome ==
    ASSUME LooksWhereCreated, BaseInv, NEW c \in Calls, callAt[c] = "delete",
           NEW o \in DeleteOutcomes(callBooking[c], callNext[c], callCal[c], callAlive[c]),
           o.ok
    PROVE  EventAfterDelete(callBooking[c], callNext[c], callCal[c], o) = "deleted"
  <1> DEFINE b == callBooking[c]
             e == callNext[c]
  <1>1. /\ b \in Bookings /\ e \in Events
        /\ guest[b] # "waiting" /\ callCal[c] \in Calendars
    BY DEF BaseInv, TypeOK, CallInv
  <1>2. at[b] = "booked" /\ cal[b] \in Calendars
    BY <1>1 DEF BaseInv, PhaseInv, Phase
  <1>3. callCal[c] = cal[b]
    BY DEF LooksWhereCreated
  <1>4. event[b][e] \in {"present", "deleted"}
    BY <1>1, <1>2 DEF BaseInv, TypeOK, BookedInv
  <1>5. CASE event[b][e] = "deleted"
    BY <1>5 DEF EventAfterDelete
  <1>6. CASE event[b][e] = "present"
    <2>1. Present(b, e, callCal[c])
      BY <1>3, <1>6 DEF Present
    <2>2. o = Done
      BY <2>1 DEF DeleteOutcomes, Outcomes, Done, Lost, Refused
    <2> QED
      BY <2>1, <2>2 DEF EventAfterDelete, Done
  <1> QED
    BY <1>4, <1>5, <1>6

\* Steps that bring no cancellation further.
LEMMA CleanKept ==
    ASSUME BaseInv, CleanInv,
           \A b \in Bookings : status'[b] = "canceled" <=> status[b] = "canceled",
           \A b \in Bookings : guest'[b] = "told" => guest[b] = "told",
           \A b \in Bookings : at[b] = "booked" \/ status[b] = "canceled"
                                => event'[b] = event[b],
           \A c \in Calls : callAt'[c] \in {"delete", "release"} =>
               \/ callAt'[c] = "delete" /\ callNext'[c] = 0
               \/ /\ callAt'[c] = callAt[c] /\ callNext'[c] = callNext[c]
                  /\ callClean'[c] = callClean[c] /\ callBooking'[c] = callBooking[c]
    PROVE  CleanInv'
  <1> USE DEF BaseInv
  <1>1. \A c \in Calls : callAt[c] # "idle" =>
           callBooking[c] \in Bookings /\ at[callBooking[c]] = "booked"
    BY DEF CallInv, PhaseInv, Phase
  <1>2. ASSUME NEW c \in Calls, callAt'[c] = "delete", callClean'[c],
               NEW e \in Events, e < callNext'[c]
        PROVE  event'[callBooking'[c]][e] = "deleted"
    <2>1. callNext'[c] # 0
      BY <1>2, EventsAreNaturals
    <2> QED
      BY <1>1, <1>2, <2>1 DEF CleanInv
  <1>3. ASSUME NEW c \in Calls, callAt'[c] = "release", NEW e \in Events
        PROVE  event'[callBooking'[c]][e] = "deleted"
    BY <1>1, <1>3 DEF CleanInv
  <1> QED
    BY <1>2, <1>3 DEF CleanInv

LEMMA CleanStep ==
    ASSUME LooksWhereCreated, BaseInv, CleanInv, [Next]_vars
    PROVE  CleanInv'
  <1> USE DEF BaseInv, TypeOK, storeVars, requestVars, callVars
  <1>1. ASSUME NEW b \in Bookings, Submit(b) \/ CreateStep(b) \/ HangUp(b) \/ Crash(b)
        PROVE  CleanInv'
    <2>1. /\ UNCHANGED callVars
          /\ \A x \in Bookings \ {b} : /\ status'[x] = status[x] /\ event'[x] = event[x]
                                       /\ guest'[x] = guest[x]
      BY <1>1, RequestFrame DEF SameBooking
    <2>2. /\ guest'[b] = "told" => guest[b] = "told"
          /\ \/ status'[b] = status[b] /\ event'[b] = event[b]
             \/ /\ at[b] \in {"claim", "insert", "confirm", "undo", "fail"}
                /\ status'[b] = status[b] \/ status'[b] # "canceled"
      <3>1. CASE Submit(b) \/ Recheck(b) \/ Connect(b) \/ HangUp(b) \/ Crash(b)
        BY <3>1 DEF Submit, Recheck, Connect, HangUp, Crash
      <3>2. CASE ClaimSlot(b)
        BY <3>2 DEF ClaimSlot
      <3>3. CASE Insert(b) \/ Undo(b)
        BY <3>3 DEF Insert, Undo
      <3>4. CASE Confirm(b)
        BY <3>4 DEF Confirm
      <3>5. CASE Fail(b)
        BY <3>5 DEF Fail
      <3>6. CASE Reply(b)
        BY <3>6 DEF Reply
      <3> QED
        BY <1>1, <3>1, <3>2, <3>3, <3>4, <3>5, <3>6 DEF CreateStep
    <2>3. at[b] \in {"claim", "insert", "confirm", "undo", "fail"}
             => status[b] # "canceled"
      BY DEF PhaseInv, Phase, Live
    <2>4. \A x \in Bookings : status'[x] = "canceled" <=> status[x] = "canceled"
      BY <2>1, <2>2, <2>3
    <2>5. \A x \in Bookings : at[x] = "booked" \/ status[x] = "canceled"
                               => event'[x] = event[x]
      BY <2>1, <2>2, <2>3
    <2>6. \A x \in Bookings : guest'[x] = "told" => guest[x] = "told"
      BY <2>1, <2>2
    <2>7. ASSUME NEW c \in Calls
          PROVE  /\ callAt'[c] = callAt[c] /\ callNext'[c] = callNext[c]
                 /\ callClean'[c] = callClean[c] /\ callBooking'[c] = callBooking[c]
      BY <2>1
    <2> QED
      BY <2>4, <2>5, <2>6, <2>7, CleanKept
  <1>2. ASSUME NEW c \in Calls, UNCHANGED <<status, event>>,
               \A x \in Bookings : guest'[x] = "told" => guest[x] = "told",
               \A d \in Calls \ {c} :
                   /\ callAt'[d] = callAt[d] /\ callNext'[d] = callNext[d]
                   /\ callClean'[d] = callClean[d] /\ callBooking'[d] = callBooking[d],
               \/ callAt'[c] \in {"idle", "meeting"}
               \/ callAt'[c] = "delete" /\ callNext'[c] = 0
        PROVE  CleanInv'
    BY <1>2, CleanKept
  <1>3. ASSUME NEW c \in Calls, EndCall(c), UNCHANGED <<status, event, guest>>
        PROVE  CleanInv'
    BY <1>2, <1>3 DEF EndCall
  <1>4. ASSUME NEW c \in Calls, Ask(c)
        PROVE  CleanInv'
    <2>1. /\ UNCHANGED <<status, event, callNext, callClean>>
          /\ \A x \in Bookings : guest'[x] = "told" => guest[x] = "told"
          /\ \A d \in Calls \ {c} :
                callAt'[d] = callAt[d] /\ callBooking'[d] = callBooking[d]
          /\ callAt'[c] \in {"idle", "meeting"}
      BY <1>4 DEF Ask
    <2> QED
      BY <1>2, <2>1
  <1>5. ASSUME NEW c \in Calls, ReadMeeting(c)
        PROVE  CleanInv'
    <2>1. CASE EndCall(c)
      BY <1>3, <1>5, <2>1 DEF ReadMeeting
    <2>2. CASE ~EndCall(c)
      <3>1. /\ callAt' = [callAt EXCEPT ![c] = "delete"]
            /\ UNCHANGED <<status, event, guest, callBooking, callNext, callClean>>
        BY <1>5, <2>2 DEF ReadMeeting
      <3>2. callNext[c] = 0
        BY <1>5 DEF ReadMeeting, CallInv
      <3> QED
        BY <1>2, <3>1, <3>2
    <2> QED
      BY <2>1, <2>2
  <1>6. ASSUME NEW c \in Calls, HangUpCall(c) \/ CrashCall(c)
        PROVE  CleanInv'
    <2>1. CASE CrashCall(c)
      BY <1>3, <2>1 DEF CrashCall
    <2>2. CASE HangUpCall(c)
      BY <2>2 DEF HangUpCall, CleanInv
    <2> QED
      BY <1>6, <2>1, <2>2
  <1>7. CASE MoveDestination \/ UNCHANGED vars
    BY <1>7 DEF MoveDestination, vars, CleanInv
  <1>8. ASSUME NEW c \in Calls, DeleteNext(c)
        PROVE  CleanInv'
    <2> DEFINE b == callBooking[c]
               n == callNext[c]
    <2>1. PICK o \in DeleteOutcomes(b, n, callCal[c], callAlive[c]) :
             /\ event' = [event EXCEPT ![b][n] = EventAfterDelete(b, n, callCal[c], o)]
             /\ \/ /\ callNext' = [callNext EXCEPT ![c] = n + 1]
                   /\ callClean' = [callClean EXCEPT ![c] = AllClean(c, o.ok)]
                   /\ UNCHANGED <<callAt, callBooking>>
                \/ /\ n = Blockers /\ AllClean(c, o.ok)
                   /\ callAt' = [callAt EXCEPT ![c] = "release"]
                   /\ UNCHANGED <<callBooking, callNext, callClean>>
                \/ EndCall(c)
      BY <1>8 DEF DeleteNext
    <2>2. /\ callAt[c] = "delete" /\ UNCHANGED <<status, guest>>
          /\ b \in Bookings /\ n \in Events
      BY <1>8 DEF DeleteNext, CallInv
    <2>3. \A x \in Bookings : \A e \in Events :
             event[x][e] = "deleted" => event'[x][e] = "deleted"
      <3>1. event[b][n] = "deleted" => EventAfterDelete(b, n, callCal[c], o) = "deleted"
        BY DEF EventAfterDelete
      <3> QED
        BY <2>1, <2>2, <3>1
    <2>4. ASSUME callClean[c], o.ok, NEW e \in Events, e < n + 1
          PROVE  event'[b][e] = "deleted"
      <3>1. CASE e = n
        BY <2>1, <2>2, <2>4, <3>1, CleanOutcome
      <3>2. CASE e # n
        <4>1. e < n
          BY <2>2, <2>4, <3>2, CalendarAssumption DEF Events
        <4>2. event[b][e] = "deleted"
          BY <2>2, <2>4, <4>1 DEF CleanInv
        <4> QED
          BY <2>2, <2>3, <4>2
      <3> QED
        BY <3>1, <3>2
    <2>5. \A d \in Calls \ {c} :
             /\ callAt'[d] = callAt[d] /\ callNext'[d] = callNext[d]
             /\ callClean'[d] = callClean[d] /\ callBooking'[d] = callBooking[d]
      BY <2>1 DEF EndCall
    <2>6. \A d \in Calls : callAt[d] # "idle" => callBooking[d] \in Bookings
      BY DEF CallInv
    <2>7. ASSUME NEW d \in Calls, callAt'[d] = "delete", callClean'[d],
                 NEW e \in Events, e < callNext'[d]
          PROVE  event'[callBooking'[d]][e] = "deleted"
      <3>1. CASE d = c
        <4>1. /\ callNext'[c] = n + 1 /\ callBooking'[c] = b
              /\ AllClean(c, o.ok)
          BY <2>1, <2>2, <2>7, <3>1 DEF EndCall
        <4> QED
          BY <2>4, <2>7, <3>1, <4>1 DEF AllClean
      <3>2. CASE d # c
        BY <2>3, <2>5, <2>6, <2>7, <3>2 DEF CleanInv
      <3> QED
        BY <3>1, <3>2
    <2>8. ASSUME NEW d \in Calls, callAt'[d] = "release", NEW e \in Events
          PROVE  event'[callBooking'[d]][e] = "deleted"
      <3>1. CASE d = c
        <4>1. n = Blockers /\ AllClean(c, o.ok) /\ callBooking'[c] = b
          BY <2>1, <2>2, <2>8, <3>1 DEF EndCall
        <4>2. e < n + 1
          BY <2>8, <4>1, EventsAreNaturals
        <4> QED
          BY <2>4, <2>8, <3>1, <4>1, <4>2 DEF AllClean
      <3>2. CASE d # c
        BY <2>3, <2>5, <2>6, <2>8, <3>2 DEF CleanInv
      <3> QED
        BY <3>1, <3>2
    <2> QED
      BY <2>2, <2>3, <2>7, <2>8 DEF CleanInv
  <1>9. ASSUME NEW c \in Calls, Release(c)
        PROVE  CleanInv'
    <2> DEFINE b == callBooking[c]
    <2>1. PICK o \in Outcomes(callAlive[c], "store") :
             /\ status' = IF o.applied THEN [status EXCEPT ![b] = "canceled"] ELSE status
             /\ guest' = IF o.ok THEN [guest EXCEPT ![b] = "told"] ELSE guest
      BY <1>9 DEF Release
    <2>2. /\ EndCall(c) /\ UNCHANGED event /\ b \in Bookings
          /\ \A e \in Events : event[b][e] = "deleted"
      BY <1>9 DEF Release, CallInv, CleanInv
    <2>3. o.ok => o.applied
      BY <2>1 DEF Outcomes, Done, Lost, Refused
    <2>4. \A d \in Calls : callAt'[d] # "idle" =>
             /\ callAt'[d] = callAt[d] /\ callNext'[d] = callNext[d]
             /\ callClean'[d] = callClean[d] /\ callBooking'[d] = callBooking[d]
      BY <2>2 DEF EndCall
    <2>5. \A x \in Bookings : status'[x] = "canceled" =>
             \A e \in Events : event'[x][e] = "deleted"
      BY <2>1, <2>2 DEF CleanInv
    <2>6. \A x \in Bookings : guest'[x] = "told" => status'[x] = "canceled"
      BY <2>1, <2>2, <2>3 DEF CleanInv
    <2>7. ASSUME NEW d \in Calls, callAt'[d] = "delete", callClean'[d],
                 NEW e \in Events, e < callNext'[d]
          PROVE  event'[callBooking'[d]][e] = "deleted"
      BY <2>2, <2>4, <2>7 DEF CleanInv
    <2>8. ASSUME NEW d \in Calls, callAt'[d] = "release", NEW e \in Events
          PROVE  event'[callBooking'[d]][e] = "deleted"
      <3>1. callAt[d] = "release" /\ callBooking'[d] = callBooking[d]
        BY <2>4, <2>8
      <3>2. event[callBooking[d]][e] = "deleted"
        BY <2>8, <3>1 DEF CleanInv
      <3> QED
        BY <2>2, <3>1, <3>2
    <2> QED
      BY <2>5, <2>6, <2>7, <2>8 DEF CleanInv
  <1> QED
    BY <1>1, <1>4, <1>5, <1>6, <1>7, <1>8, <1>9 DEF Next, CancelStep

\* Where cancellations look for the events where they were created, what the
\* answers to a cancellation say is what is left there: one that still may
\* release the slot has deleted every event it has passed, and a canceled
\* booking, or one whose guest was told so, has none.
THEOREM AnswersAreTrue == Spec /\ []LooksWhereCreated => []CleanInv
  <1>1. Init => CleanInv
    BY DEF Init, CleanInv
  <1>2. LooksWhereCreated /\ BaseInv /\ CleanInv /\ [Next]_vars => CleanInv'
    BY CleanStep
  <1> QED
    BY <1>1, <1>2, BaseInvariant, PTL DEF Spec

\* A guest who was told that the booking is canceled has no event left on the
\* calendar, and none comes back, as long as the destination stays.
THEOREM ToldMeansCanceled ==
    Spec /\ [][UNCHANGED dest]_vars => []CleanInv /\ []ToldIsCanceled
  <1>1. CleanInv => ToldIsCanceled
    BY DEF CleanInv, ToldIsCanceled
  <1> QED
    BY <1>1, SettledDestination, AnswersAreTrue, PTL

-------------------------------------------------------------------------------
(***************************************************************************)
(* What a request that failed leaves behind.  It depends on what the       *)
(* answers to four of its own calls meant, and on nothing else.            *)
(***************************************************************************)

\* The claim, or an insert, that was answered with an error had no effect; the
\* deletes and FailBooking of the rollback had theirs, whatever was answered.
AnswersHold(b) ==
    /\ ClaimSlot(b) /\ at'[b] = "rejected" => UNCHANGED status[b]
    /\ Insert(b) /\ UNCHANGED made => UNCHANGED event
    /\ Undo(b) => event'[b][next[b]] # "present"
    /\ Fail(b) => ~Live(b)'

\* A step that leaves alone everything that Unmade says of one booking.
LEMMA UnmadeKept ==
    ASSUME NEW x \in Bookings, Unmade(x), SameBooking(x)
    PROVE  Unmade(x)'
  BY DEF Unmade, Live, SameBooking

\* Before the first insert there is nothing to walk back.
LEMMA NothingMade ==
    ASSUME BaseInv, NEW b \in Bookings, Unmade(b),
           at[b] \in {"idle", "check", "claim", "connect"}
    PROVE  /\ \A e \in Events : event[b][e] = "absent"
           /\ at[b] # "connect" => status[b] = "none"
  <1>1. made[b] = 0
    BY DEF BaseInv, PhaseInv, Phase
  <1>2. \A e \in Events : e >= 0
    BY EventsAreNaturals
  <1> QED
    BY <1>1, <1>2 DEF BaseInv, PhaseInv, Phase, Unmade

LEMMA Below ==
    \A m, n \in Nat : m < n + 1 /\ m # n => m < n
  OBVIOUS

\* The events inserted so far are deleted from the first on.
LEMMA UnmadeStep ==
    ASSUME BaseInv, NEW x \in Bookings, Unmade(x), [Next]_vars, [AnswersHold(x)]_vars
    PROVE  Unmade(x)'
  <1> USE EventsAreNaturals
      DEF BaseInv, TypeOK, Goto, storeVars, requestVars, callVars
  <1>0. Phase(x)
    BY DEF PhaseInv
  <1>1. SameBooking(x) \/ AnswersHold(x)
    BY DEF vars, SameBooking
  <1>2. CASE Submit(x) \/ Recheck(x)
    <2>1. /\ at[x] \in {"idle", "check"}
          /\ at'[x] \in {"check", "claim", "rejected"}
          /\ UNCHANGED <<status, event>>
      BY <1>2 DEF Submit, Recheck
    <2>2. status[x] = "none" /\ \A e \in Events : event[x][e] = "absent"
      BY <2>1, NothingMade
    <2> QED
      BY <2>1, <2>2 DEF Unmade, Live
  <1>3. CASE ClaimSlot(x) /\ AnswersHold(x)
    <2>1. /\ at[x] = "claim" /\ UNCHANGED event
          /\ at'[x] \in {"connect", "rejected"}
      BY <1>3 DEF ClaimSlot
    <2>2. at'[x] = "rejected" => status'[x] = status[x]
      BY <1>3 DEF AnswersHold
    <2>3. status[x] = "none" /\ \A e \in Events : event[x][e] = "absent"
      BY <2>1, NothingMade
    <2> QED
      BY <2>1, <2>2, <2>3 DEF Unmade, Live
  <1>4. CASE Connect(x)
    <2>1. at[x] = "connect" /\ at'[x] \in {"insert", "fail"} /\ UNCHANGED event
      BY <1>4 DEF Connect
    <2>2. \A e \in Events : event[x][e] = "absent"
      BY <2>1, NothingMade
    <2> QED
      BY <2>1, <2>2 DEF Unmade
  <1>5. CASE Insert(x) /\ AnswersHold(x)
    <2>1. at[x] = "insert" /\ made[x] \in Events /\ next[x] = 0
      BY <1>0, <1>5 DEF Insert, Phase
    <2>2. PICK o \in Outcomes(alive[x], "insert") :
             /\ event' = IF o.applied
                         THEN [event EXCEPT ![x][made[x]] = "present"] ELSE event
             /\ \/ /\ o.ok
                   /\ made' = [made EXCEPT ![x] = made[x] + 1]
                   /\ Goto(x, IF LastToMake(x) THEN "confirm" ELSE "insert")
                \/ /\ ~o.ok
                   /\ Goto(x, AfterRefusal(x))
                   /\ UNCHANGED made
      BY <1>5 DEF Insert
    <2>3. UNCHANGED next
      BY <1>5 DEF Insert
    <2>4. CASE o.ok
      <3>1. o.applied
        BY <2>4 DEF Outcomes, Done, Lost, Refused
      <3>2. event' = [event EXCEPT ![x][made[x]] = "present"]
        BY <2>2, <3>1
      <3>3. made'[x] = made[x] + 1 /\ at'[x] \in {"confirm", "insert"}
        BY <2>2, <2>4
      <3>4. \A e \in Events : e >= made[x] + 1 => event'[x][e] = "absent"
        BY <2>1, <3>2 DEF Unmade
      <3> QED
        BY <3>3, <3>4 DEF Unmade
    <2>5. CASE ~o.ok
      <3>1. made' = made
        BY <2>2, <2>5
      <3>2. event' = event
        BY <1>5, <3>1 DEF AnswersHold
      <3>3. \/ at'[x] = "fail" /\ made[x] = 0
            \/ at'[x] = "undo"
        BY <2>2, <2>5 DEF AfterRefusal
      <3>4. made[x] = 0 => \A e \in Events : event[x][e] = "absent"
        BY DEF Unmade
      <3> QED
        BY <2>1, <2>3, <3>1, <3>2, <3>3, <3>4 DEF Unmade
    <2> QED
      BY <2>4, <2>5
  <1>6. CASE Confirm(x)
    <2>1. at[x] = "confirm" /\ at'[x] \in {"reply", "undo"} /\ UNCHANGED <<event, made, next>>
      BY <1>6 DEF Confirm
    <2>2. next[x] = 0
      BY <1>0, <2>1 DEF Phase
    <2> QED
      BY <2>1, <2>2 DEF Unmade
  <1>7. CASE Undo(x) /\ AnswersHold(x)
    <2>1. /\ at[x] = "undo" /\ next[x] \in Nat /\ made[x] \in Nat
          /\ next[x] < made[x] /\ next[x] \in Events
      BY <1>0, <1>7 DEF Undo, Phase
    <2>2. PICK o : event' = [event EXCEPT ![x][next[x]] = o]
      BY <1>7 DEF Undo
    <2>3. /\ next'[x] = next[x] + 1 /\ UNCHANGED made
          /\ \/ at'[x] = "fail" /\ next[x] + 1 = made[x]
             \/ at'[x] = "undo"
      BY <1>7 DEF Undo
    <2>4. event'[x][next[x]] # "present"
      BY <1>7 DEF AnswersHold
    <2>5. \A e \in Events : e < next[x] + 1 => event'[x][e] # "present"
      <3> SUFFICES ASSUME NEW e \in Events, e < next[x] + 1, e # next[x]
                   PROVE  event'[x][e] # "present"
        BY <2>4
      <3>1. e \in Nat
        BY EventsAreNaturals
      <3>2. e < next[x]
        BY <2>1, <3>1, Below
      <3>3. event[x][e] # "present"
        BY <2>1, <3>2 DEF Unmade
      <3> QED
        BY <2>2, <3>3
    <2>6. \A e \in Events : e >= made[x] => event'[x][e] = "absent"
      BY <2>1, <2>2 DEF Unmade
    <2>7. ASSUME next[x] + 1 = made[x], NEW e \in Events
          PROVE  event'[x][e] # "present"
      BY <2>1, <2>5, <2>6, <2>7
    <2> QED
      BY <2>3, <2>5, <2>6, <2>7 DEF Unmade
  <1>8. CASE Fail(x) /\ AnswersHold(x)
    <2>1. /\ at[x] = "fail" /\ at'[x] = "rejected" /\ UNCHANGED <<event, made>>
      BY <1>8 DEF Fail, AfterFail
    <2>2. ~Live(x)'
      BY <1>8 DEF AnswersHold
    <2> QED
      BY <2>1, <2>2 DEF Unmade
  <1>9. CASE Reply(x) \/ Crash(x)
    <2>1. at'[x] \in {"booked", "dead"} /\ UNCHANGED <<event, made>>
      BY <1>9 DEF Reply, Crash
    <2> QED
      BY <2>1 DEF Unmade
  <1>10. CASE HangUp(x)
    BY <1>10 DEF HangUp, Unmade, Live
  <1>11. ASSUME NEW c \in Calls, Ask(c)
         PROVE  Unmade(x)'
    BY <1>11 DEF Ask, Unmade, Live
  <1>12. ASSUME NEW c \in Calls, callBooking[c] = x, DeleteNext(c) \/ Release(c)
         PROVE  Unmade(x)'
    <2>1. at[x] = "booked" /\ UNCHANGED requestVars
      BY <1>0, <1>12 DEF DeleteNext, Release, CallInv, Phase
    <2>2. \A e \in Events : event[x][e] = "absent" => event'[x][e] = "absent"
      <3>1. CASE DeleteNext(c)
        <4>1. PICK o : event' = [event EXCEPT ![x][callNext[c]] =
                          EventAfterDelete(x, callNext[c], callCal[c], o)]
          BY <1>12, <3>1 DEF DeleteNext
        <4>2. event[x][callNext[c]] = "absent"
                 => EventAfterDelete(x, callNext[c], callCal[c], o) = "absent"
          BY DEF EventAfterDelete, Present
        <4> QED
          BY <4>1, <4>2
      <3>2. CASE Release(c)
        BY <3>2 DEF Release
      <3> QED
        BY <1>12, <3>1, <3>2
    <2> QED
      BY <2>1, <2>2 DEF Unmade
  <1> QED
    BY <1>1, <1>2, <1>3, <1>4, <1>5, <1>6, <1>7, <1>8, <1>9, <1>10, <1>11,
       <1>12, StepsOfBooking, UnmadeKept DEF CreateStep

\* Before anything is made there is nothing to walk back.
LEMMA InitUnmade == Init => RollbackInv
  BY EventsAreNaturals DEF Init, RollbackInv, Unmade

LEMMA NothingIsLeft ==
    ASSUME BaseInv, NEW b \in Bookings, Unmade(b), at[b] = "rejected"
    PROVE  LeftNothing(b)
  <1>1. ~Live(b) /\ \A e \in Events : event[b][e] # "present"
    BY DEF Unmade
  <1>2. b # NoBooking
    BY BookingAssumption
  <1>3. \A k \in Buckets : lock[k] # b
    BY <1>1, <1>2 DEF BaseInv, LocksHaveLiveOwners
  <1> QED
    BY <1>1, <1>3 DEF LeftNothing

\* What README.md:38 and :163 promise of a request that was answered with an
\* error depends on four of its own answers: that the claim and the inserts it
\* was refused were not made, and that the deletes and FailBooking of its
\* rollback were.  What else fails, for it or for others, hang-ups and crashes
\* included, leaves no lock, no live booking and no event of it.
THEOREM FailureLeavesNothing ==
    ASSUME NEW b \in Bookings
    PROVE  Spec /\ [][AnswersHold(b)]_vars => [](at[b] = "rejected" => LeftNothing(b))
  <1>1. Init => Unmade(b)
    BY InitUnmade DEF RollbackInv
  <1>2. BaseInv /\ Unmade(b) /\ [Next]_vars /\ [AnswersHold(b)]_vars => Unmade(b)'
    BY UnmadeStep
  <1>3. BaseInv /\ Unmade(b) => (at[b] = "rejected" => LeftNothing(b))
    BY NothingIsLeft
  <1> QED
    BY <1>1, <1>2, <1>3, BaseInvariant, PTL DEF Spec

\* Calls may be refused an insert and the instance may die; nothing else fails.
OnlyInsertsRefused == Faults \subseteq {"insert", "crash"}

\* Only an insert can be answered with an error, and then it had no effect.
LEMMA CertainOutcomes ==
    ASSUME OnlyInsertsRefused, NEW b \in Bookings, alive[b]
    PROVE  /\ \A o \in Outcomes(alive[b], "store") : o.applied /\ o.ok
           /\ \A o \in Outcomes(alive[b], "delete") : o.applied /\ o.ok
           /\ \A o \in Outcomes(alive[b], "insert") : o.applied <=> o.ok
           /\ \A ok \in Reads(alive[b]) : ok
  <1>1. "store" \notin Faults /\ "delete" \notin Faults /\ "answer" \notin Faults
    BY DEF OnlyInsertsRefused
  <1>2. /\ \A o \in Outcomes(alive[b], "store") : o = Done
        /\ \A o \in Outcomes(alive[b], "delete") : o = Done
        /\ \A o \in Outcomes(alive[b], "insert") : o \in {Done, Refused}
    BY <1>1 DEF Outcomes, Done, Lost, Refused
  <1>3. /\ Done.applied = TRUE /\ Done.ok = TRUE
        /\ Refused.applied = FALSE /\ Refused.ok = FALSE
    BY DEF Done, Refused
  <1>4. \A ok \in Reads(alive[b]) : ok
    BY <1>2, <1>3, Zenon DEF Reads
  <1>5. \A o \in Outcomes(alive[b], "insert") : o.applied <=> o.ok
    <2> SUFFICES ASSUME NEW o \in Outcomes(alive[b], "insert")
                 PROVE  o.applied <=> o.ok
      OBVIOUS
    <2>1. o = Done \/ o = Refused
      BY <1>2
    <2> QED
      BY <2>1, <1>3, Zenon
  <1> QED
    BY <1>2, <1>3, <1>4, <1>5, Zenon

\* Then no client hangs up, and no answer of any request misleads it.
Connected == \A b \in Bookings : alive[b]

LEMMA ConnectedStep ==
    ASSUME OnlyInsertsRefused, TypeOK, Connected, [Next]_vars
    PROVE  Connected'
  <1> SUFFICES ASSUME NEW x \in Bookings PROVE alive'[x]
    BY DEF Connected
  <1>1. alive[x]
    BY DEF Connected
  <1>2. CASE SameBooking(x)
    BY <1>1, <1>2 DEF SameBooking
  <1>3. CASE Submit(x) \/ CreateStep(x) \/ Crash(x)
    BY <1>1, <1>3 DEF Submit, CreateStep, Recheck, ClaimSlot, Connect, Insert,
                      Confirm, Undo, Fail, Reply, Crash
  <1>4. ~HangUp(x)
    BY DEF HangUp, OnlyInsertsRefused
  <1>5. ASSUME NEW c \in Calls, Ask(c) \/ CancelStep(c)
        PROVE  alive'[x]
    BY <1>1, <1>5, CallFrame DEF requestVars
  <1> QED
    BY <1>2, <1>3, <1>4, <1>5, StepsOfBooking DEF CancelStep

LEMMA AnswersAllHold ==
    ASSUME OnlyInsertsRefused, BaseInv, Connected, NEW x \in Bookings
    PROVE  AnswersHold(x)
  <1> USE DEF BaseInv, TypeOK, Goto
  <1>0. alive[x]
    BY DEF Connected
  <1>1. ASSUME ClaimSlot(x), at'[x] = "rejected"
        PROVE  UNCHANGED status[x]
    BY <1>0, <1>1, CertainOutcomes DEF ClaimSlot
  <1>2. ASSUME Insert(x), UNCHANGED made
        PROVE  UNCHANGED event
    <2>1. PICK o \in Outcomes(alive[x], "insert") :
             /\ event' = IF o.applied
                         THEN [event EXCEPT ![x][made[x]] = "present"] ELSE event
             /\ o.ok => made' = [made EXCEPT ![x] = made[x] + 1]
      BY <1>2 DEF Insert
    <2>2. made[x] \in Nat
      BY EventsAreNaturals
    <2>3. ~o.ok
      BY <1>2, <2>1, <2>2
    <2>4. ~o.applied
      BY <1>0, <2>3, CertainOutcomes
    <2> QED
      BY <2>1, <2>4
  <1>3. ASSUME Undo(x)
        PROVE  event'[x][next[x]] # "present"
    <2>1. PICK o \in DeleteOutcomes(x, next[x], cal[x], alive[x]) :
             event' = [event EXCEPT ![x][next[x]] = EventAfterDelete(x, next[x], cal[x], o)]
      BY <1>3 DEF Undo
    <2>2. next[x] \in Events
      <3>1. next[x] < made[x]
        BY <1>3 DEF Undo, PhaseInv, Phase
      <3>2. next[x] \in Nat /\ made[x] \in Nat /\ made[x] <= Blockers + 1
        BY EventsAreNaturals
      <3> QED
        BY <3>1, <3>2, EventsAreNaturals
    <2>3. EventAfterDelete(x, next[x], cal[x], o) # "present"
      <3>1. CASE Present(x, next[x], cal[x])
        <4>1. o.applied
          BY <1>0, <3>1, CertainOutcomes DEF DeleteOutcomes
        <4> QED
          BY <3>1, <4>1 DEF EventAfterDelete
      <3>2. CASE ~Present(x, next[x], cal[x])
        BY <3>2 DEF EventAfterDelete, Present
      <3> QED
        BY <3>1, <3>2
    <2> QED
      BY <2>1, <2>2, <2>3
  <1>4. ASSUME Fail(x)
        PROVE  ~Live(x)'
    <2>1. status'[x] = "failed"
      BY <1>0, <1>4, CertainOutcomes DEF Fail
    <2> QED
      BY <2>1 DEF Live
  <1> QED
    BY <1>1, <1>2, <1>3, <1>4 DEF AnswersHold

\* As long as nothing fails but inserts, and an instance at most dies, what a
\* request has left to delete is what it inserted, whichever private block was
\* refused, whatever cancellations and other requests do meanwhile, and on
\* whichever calendar the events are.
THEOREM RollbacksAreExact ==
    ASSUME OnlyInsertsRefused
    PROVE  Spec => []RollbackInv
  <1>1. Init => Connected /\ RollbackInv
    BY InitUnmade DEF Init, Connected
  <1>2. BaseInv /\ Connected /\ [Next]_vars => Connected'
    BY ConnectedStep DEF BaseInv
  <1>3. BaseInv /\ Connected /\ RollbackInv /\ [Next]_vars => RollbackInv'
    BY AnswersAllHold, UnmadeStep DEF RollbackInv
  <1> QED
    BY <1>1, <1>2, <1>3, BaseInvariant, PTL DEF Spec

\* A request that was answered with an error leaves no live booking, no lock
\* and no event, as README.md:38 and :163 promise: true of refused inserts, and
\* of any number of private blocks.
THEOREM FailuresLeaveNothing ==
    ASSUME OnlyInsertsRefused
    PROVE  Spec => []RollbackComplete
  <1>1. BaseInv /\ RollbackInv => RollbackComplete
    BY NothingIsLeft DEF RollbackInv, RollbackComplete
  <1> QED
    BY <1>1, BaseInvariant, RollbacksAreExact, PTL
=============================================================================
