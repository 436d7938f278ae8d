----------------------------- MODULE BookingSaga -----------------------------
(***************************************************************************)
(* Creating and cancelling bookings (internal/booking/service.go) over the *)
(* two stores that share no transaction: Firestore, which holds bookings   *)
(* and slot locks, and Google Calendar, which holds the events.  Every     *)
(* HTTP request is a process; each of its calls to a store is one step.    *)
(*                                                                         *)
(* A call has one of three outcomes: it is done; it is refused, with no    *)
(* effect; or it takes effect and its answer is lost.  All calls of a      *)
(* request run under the context of that request, the compensating ones    *)
(* included, so once the client has hung up every later call is refused.   *)
(***************************************************************************)
EXTENDS Integers, LockBuckets

CONSTANTS
    Bookings,     \* one for each POST /api/bookings: ids are random, never shared
    Calls,        \* the cancellation requests in flight at one time
    Slot,         \* Slot[b]: the interval asked for, and its meeting type's buffers
    Blockers,     \* how many private blocker addresses the meeting type has
    Calendars,    \* calendars an administrator may choose as destination
    Watched,      \* those among the busy calendars that availability consults
    GoneAnswers,  \* answers to deleting an event twice: "notFound" and / or "gone"
    Faults,       \* what may go wrong, see FaultKinds
    NoBooking,
    NoCalendar

\* The calls refused by Firestore, by an insert or by a delete; the lost
\* answer; the client hanging up; the instance dying.
FaultKinds ==
    {"store", "insert", "delete", "answer", "disconnect", "crash"}

ASSUME BookingAssumption ==
    /\ NoBooking \notin Bookings
    /\ Slot \in [Bookings -> Window]
    /\ \A b \in Bookings : Slot[b].start < Slot[b].end

ASSUME CalendarAssumption ==
    /\ NoCalendar \notin Calendars
    /\ Calendars # {}
    /\ Watched \subseteq Calendars
    /\ Blockers \in Nat
    /\ GoneAnswers # {}
    /\ GoneAnswers \subseteq {"notFound", "gone"}

ASSUME FaultAssumption == Faults \subseteq FaultKinds

VARIABLES
    status,   \* bookings/<id>.status, "none" while there is no document
    lock,     \* slot_locks/<bucket>.booking_id
    event,    \* event[b][e] on the calendar b was created on
    dest,     \* meeting_types/<id>.destination_calendar_id
    guest,    \* what the guest knows of b
    \* The request that creates b:
    at,       \* where it is
    cal,      \* the destination in the meeting type it read
    made,     \* how many inserts were answered
    next,     \* the event to delete next while compensating
    alive,    \* its context is not canceled
    \* A cancellation request:
    callAt, callBooking, callCal, callNext,
    callClean,  \* no delete was answered with an error so far
    callAlive

storeVars   == <<status, lock, event, dest>>
requestVars == <<at, cal, made, next, alive>>
callVars    == <<callAt, callBooking, callCal, callNext, callClean, callAlive>>
vars == <<storeVars, guest, requestVars, callVars>>

\* The guest's event is 0, the private block with sequence number k is k + 1.
Events == 0 .. Blockers

Claim(b) == LockIDs(Slot[b])
Buckets == UNION {Claim(b) : b \in Bookings}

Init ==
    /\ status = [b \in Bookings |-> "none"]
    /\ lock = [k \in Buckets |-> NoBooking]
    /\ event = [b \in Bookings |-> [e \in Events |-> "absent"]]
    /\ dest \in Calendars
    /\ guest = [b \in Bookings |-> "waiting"]
    /\ at = [b \in Bookings |-> "idle"]
    /\ cal = [b \in Bookings |-> NoCalendar]
    /\ made = [b \in Bookings |-> 0]
    /\ next = [b \in Bookings |-> 0]
    /\ alive = [b \in Bookings |-> TRUE]
    /\ callAt = [c \in Calls |-> "idle"]
    /\ callBooking = [c \in Calls |-> NoBooking]
    /\ callCal = [c \in Calls |-> NoCalendar]
    /\ callNext = [c \in Calls |-> 0]
    /\ callClean = [c \in Calls |-> TRUE]
    /\ callAlive = [c \in Calls |-> TRUE]

-------------------------------------------------------------------------------
\* Outcomes of a call.

Done    == [applied |-> TRUE,  ok |-> TRUE]
Lost    == [applied |-> TRUE,  ok |-> FALSE]
Refused == [applied |-> FALSE, ok |-> FALSE]

\* What a call made under a context may come to; refusal is the fault that
\* makes the service called refuse it.
Outcomes(up, refusal) ==
    {o \in {Done, Lost, Refused} :
        /\ o = Done => up
        /\ o = Lost => up /\ "answer" \in Faults
        /\ o = Refused => ~up \/ refusal \in Faults}

\* Reads have no effect to lose.
Reads(up) == {o.ok : o \in Outcomes(up, "store")}

Present(b, e, where) == where = cal[b] /\ event[b][e] = "present"

\* Plausible slip: 410 is taken for success as well as 404.
GoneIsDone(b, e, where) == {Done}

\* Plausible slip: 404 is reported like any other error.
NotFoundIsError(b, e, where) == {Refused}

\* Deleting an event that is not on that calendar is answered 404, which
\* DeleteEvent takes for success; one already deleted there may be answered
\* otherwise (410), which it reports as an error.
AbsentOutcomes(b, e, where) ==
    IF where = cal[b] /\ event[b][e] = "deleted"
    THEN {o \in {Done, Refused} : \/ o = Done /\ "notFound" \in GoneAnswers
                                  \/ o = Refused /\ "gone" \in GoneAnswers}
    ELSE {Done}

DeleteOutcomes(b, e, where, up) ==
    IF Present(b, e, where) THEN Outcomes(up, "delete")
    ELSE (Outcomes(up, "delete") \cap {Refused})
         \cup (IF up THEN AbsentOutcomes(b, e, where) ELSE {})

EventAfterDelete(b, e, where, o) ==
    IF o.applied /\ Present(b, e, where) THEN "deleted" ELSE event[b][e]

-------------------------------------------------------------------------------
\* The slot locks.

\* Plausible slip: only the booking's own document is looked up.
ClaimIgnoringLocks(b) == status[b] = "none"

\* ClaimBooking: neither the booking nor any of its locks exists.
Claimable(b) ==
    /\ status[b] = "none"
    /\ \A k \in Claim(b) : lock[k] = NoBooking

Locked(b) == [k \in Buckets |-> IF k \in Claim(b) THEN b ELSE lock[k]]

\* Plausible slip: the walk over the locks starts at the second.
ReleasedExceptFirst(b) ==
    [k \in Buckets |->
        IF k \in Claim(b) /\ \E j \in Claim(b) : j < k THEN NoBooking ELSE lock[k]]

\* release: every lock the booking names goes, whoever it now belongs to.
Released(b) == [k \in Buckets |-> IF k \in Claim(b) THEN NoBooking ELSE lock[k]]

-------------------------------------------------------------------------------
(***************************************************************************)
(* Service.Create.                                                         *)
(***************************************************************************)

Running(b) == at[b] \notin {"idle", "booked", "rejected", "dead"}

Goto(b, where) == at' = [at EXCEPT ![b] = where]

\* GetMeetingType and the checks of the guest's details: the request keeps the
\* meeting type it read, destination calendar included, to the end.
Submit(b) ==
    /\ at[b] = "idle"
    /\ \/ Goto(b, "rejected") /\ UNCHANGED cal
       \/ /\ TRUE \in Reads(alive[b])
          /\ Goto(b, "check")
          /\ cal' = [cal EXCEPT ![b] = dest]
    /\ UNCHANGED <<storeVars, guest, made, next, alive, callVars>>

\* Free/busy shows no event of this service in the way.  It is asked from the
\* requested start on, so what ends before that is not seen even if it reaches
\* into the buffer before the meeting.
Free(b) ==
    \A other \in Bookings \ {b} : \A e \in Events :
        /\ cal[other] \in Watched
        /\ event[other][e] = "present"
        => \/ Slot[other].end <= Slot[b].start
           \/ ClaimEnd(Slot[b]) <= Slot[other].start

\* Availability, then contains.  The slot may be refused for commitments that
\* are not of this service, or because a read failed.
Recheck(b) ==
    /\ at[b] = "check"
    /\ \/ Goto(b, "rejected")
       \/ /\ TRUE \in Reads(alive[b])
          /\ Free(b)
          /\ Goto(b, "claim")
    /\ UNCHANGED <<storeVars, guest, cal, made, next, alive, callVars>>

\* ClaimBooking, one transaction.  On any error the request just returns.
ClaimSlot(b) ==
    /\ at[b] = "claim"
    /\ \/ /\ ~Claimable(b)
          /\ Goto(b, "rejected")
          /\ UNCHANGED <<status, lock>>
       \/ /\ Claimable(b)
          /\ \E o \in Outcomes(alive[b], "store") :
                /\ status' = IF o.applied THEN [status EXCEPT ![b] = "pending"] ELSE status
                /\ lock' = IF o.applied THEN Locked(b) ELSE lock
                /\ Goto(b, IF o.ok THEN "connect" ELSE "rejected")
    /\ UNCHANGED <<event, dest, guest, cal, made, next, alive, callVars>>

\* GetConnection of the destination's connection.
Connect(b) ==
    /\ at[b] = "connect"
    /\ \E ok \in Reads(alive[b]) : Goto(b, IF ok THEN "insert" ELSE "fail")
    /\ UNCHANGED <<storeVars, guest, cal, made, next, alive, callVars>>

\* Plausible slip: a refused private block fails the booking straight away.
FailOnRefusal(b) == "fail"

\* Plausible slip: a refused guest event just returns the error.
ReturnOnRefusal(b) == IF made[b] = 0 THEN "rejected" ELSE "undo"

\* Where a refused insert leads: nothing is deleted when it is the guest's
\* event, which is taken not to exist.
AfterRefusal(b) == IF made[b] = 0 THEN "fail" ELSE "undo"

\* Plausible slips: the last block is forgotten, or one too many is inserted.
AllButOneMade(b) == made[b] + 1 = Blockers
OneMoreToMake(b) == made[b] = Blockers + 1

\* The event being inserted is the last one.
LastToMake(b) == made[b] = Blockers

\* CreateEvent, then CreateBlockEvent for each blocker.  An insert that is
\* answered with an error is looked up by its deterministic id, so "Lost"
\* means that this lookup failed too.
Insert(b) ==
    /\ at[b] = "insert"
    /\ \E o \in Outcomes(alive[b], "insert") :
          /\ event' = IF o.applied THEN [event EXCEPT ![b][made[b]] = "present"] ELSE event
          /\ \/ /\ o.ok
                /\ made' = [made EXCEPT ![b] = @ + 1]
                /\ Goto(b, IF LastToMake(b) THEN "confirm" ELSE "insert")
             \/ /\ ~o.ok
                /\ Goto(b, AfterRefusal(b))
                /\ UNCHANGED made
    /\ UNCHANGED <<status, lock, dest, guest, cal, next, alive, callVars>>

\* ConfirmBooking: a plain update, whatever the status was.
Confirm(b) ==
    /\ at[b] = "confirm"
    /\ \E o \in Outcomes(alive[b], "store") :
          /\ status' = IF o.applied THEN [status EXCEPT ![b] = "confirmed"] ELSE status
          /\ Goto(b, IF o.ok THEN "reply" ELSE "undo")
    /\ UNCHANGED <<lock, event, dest, guest, cal, made, next, alive, callVars>>

\* deleteCalendarEvents over the events whose insert was answered: an error
\* does not stop the walk.
Undo(b) ==
    /\ at[b] = "undo"
    /\ \E o \in DeleteOutcomes(b, next[b], cal[b], alive[b]) :
          event' = [event EXCEPT ![b][next[b]] = EventAfterDelete(b, next[b], cal[b], o)]
    /\ next' = [next EXCEPT ![b] = @ + 1]
    /\ Goto(b, IF next[b] + 1 = made[b] THEN "fail" ELSE "undo")
    /\ UNCHANGED <<status, lock, dest, guest, cal, made, alive, callVars>>

\* Plausible slip: a confirmation that failed is tried again after the rollback.
ConfirmAgain(b) == IF made[b] > Blockers THEN "confirm" ELSE "rejected"

\* Create returns its error once the booking is failed, or could not be.
AfterFail(b) == "rejected"

\* FailBooking, one transaction, whose error is dropped.
Fail(b) ==
    /\ at[b] = "fail"
    /\ \E o \in Outcomes(alive[b], "store") :
          /\ status' = IF o.applied THEN [status EXCEPT ![b] = "failed"] ELSE status
          /\ lock' = IF o.applied THEN Released(b) ELSE lock
    /\ Goto(b, AfterFail(b))
    /\ UNCHANGED <<event, dest, guest, cal, made, next, alive, callVars>>

\* The 201 with the cancellation token, if there is still a client to read it.
Reply(b) ==
    /\ at[b] = "reply"
    /\ Goto(b, "booked")
    /\ guest' = IF alive[b] THEN [guest EXCEPT ![b] = "holds"] ELSE guest
    /\ UNCHANGED <<storeVars, cal, made, next, alive, callVars>>

CreateStep(b) ==
    \/ Recheck(b) \/ ClaimSlot(b) \/ Connect(b) \/ Insert(b)
    \/ Confirm(b) \/ Undo(b) \/ Fail(b) \/ Reply(b)

\* The client hangs up: the request goes on, its context canceled.
HangUp(b) ==
    /\ "disconnect" \in Faults
    /\ Running(b)
    /\ alive[b]
    /\ alive' = [alive EXCEPT ![b] = FALSE]
    /\ UNCHANGED <<storeVars, guest, at, cal, made, next, callVars>>

\* The instance is stopped or dies; nothing ever resumes the request.
Crash(b) ==
    /\ "crash" \in Faults
    /\ Running(b)
    /\ Goto(b, "dead")
    /\ UNCHANGED <<storeVars, guest, cal, made, next, alive, callVars>>

-------------------------------------------------------------------------------
(***************************************************************************)
(* Service.Cancel.                                                         *)
(***************************************************************************)

\* A guest who got the token cancels, or does so again.  The booking read here
\* has all its events, for the token is only answered once they are recorded;
\* its status is not looked at.
Ask(c) ==
    /\ callAt[c] = "idle"
    /\ \E b \in Bookings :
          /\ guest[b] # "waiting"
          /\ guest' = [guest EXCEPT ![b] = IF @ = "told" THEN @ ELSE "asked"]
          /\ \/ /\ FALSE \in Reads(callAlive[c])
                /\ UNCHANGED <<callAt, callBooking>>
             \/ /\ TRUE \in Reads(callAlive[c])
                /\ callAt' = [callAt EXCEPT ![c] = "meeting"]
                /\ callBooking' = [callBooking EXCEPT ![c] = b]
    /\ UNCHANGED <<storeVars, requestVars, callCal, callNext, callClean, callAlive>>

EndCall(c) ==
    /\ callAt' = [callAt EXCEPT ![c] = "idle"]
    /\ callBooking' = [callBooking EXCEPT ![c] = NoBooking]
    /\ callCal' = [callCal EXCEPT ![c] = NoCalendar]
    /\ callNext' = [callNext EXCEPT ![c] = 0]
    /\ callClean' = [callClean EXCEPT ![c] = TRUE]
    /\ callAlive' = [callAlive EXCEPT ![c] = TRUE]

\* GetMeetingTypeRecord, as the administrator has it now, and its connection.
ReadMeeting(c) ==
    /\ callAt[c] = "meeting"
    /\ \/ /\ FALSE \in Reads(callAlive[c])
          /\ EndCall(c)
       \/ /\ TRUE \in Reads(callAlive[c])
          /\ callAt' = [callAt EXCEPT ![c] = "delete"]
          /\ callCal' = [callCal EXCEPT ![c] = dest]
          /\ UNCHANGED <<callBooking, callNext, callClean, callAlive>>
    /\ UNCHANGED <<storeVars, guest, requestVars>>

\* Plausible slip: only the last delete decides.
LastAnswer(c, ok) == ok

\* errors.Join: one error makes the whole an error.
AllClean(c, ok) == callClean[c] /\ ok

\* deleteCalendarEvents over the guest's event and every private block.
DeleteNext(c) ==
    LET b == callBooking[c]
        e == callNext[c]
    IN  /\ callAt[c] = "delete"
        /\ \E o \in DeleteOutcomes(b, e, callCal[c], callAlive[c]) :
              /\ event' = [event EXCEPT ![b][e] = EventAfterDelete(b, e, callCal[c], o)]
              /\ \/ /\ e < Blockers
                    /\ callNext' = [callNext EXCEPT ![c] = @ + 1]
                    /\ callClean' = [callClean EXCEPT ![c] = AllClean(c, o.ok)]
                    /\ UNCHANGED <<callAt, callBooking, callCal, callAlive>>
                 \/ /\ e = Blockers
                    /\ AllClean(c, o.ok)
                    /\ callAt' = [callAt EXCEPT ![c] = "release"]
                    /\ UNCHANGED <<callBooking, callCal, callNext, callClean, callAlive>>
                 \/ /\ e = Blockers
                    /\ ~AllClean(c, o.ok)
                    /\ EndCall(c)
        /\ UNCHANGED <<status, lock, dest, guest, requestVars>>

\* CancelBooking, one transaction, and the answer to the guest.
Release(c) ==
    LET b == callBooking[c]
    IN  /\ callAt[c] = "release"
        /\ \E o \in Outcomes(callAlive[c], "store") :
              /\ status' = IF o.applied THEN [status EXCEPT ![b] = "canceled"] ELSE status
              /\ lock' = IF o.applied THEN Released(b) ELSE lock
              /\ guest' = IF o.ok THEN [guest EXCEPT ![b] = "told"] ELSE guest
        /\ EndCall(c)
        /\ UNCHANGED <<event, dest, requestVars>>

CancelStep(c) == ReadMeeting(c) \/ DeleteNext(c) \/ Release(c)

HangUpCall(c) ==
    /\ "disconnect" \in Faults
    /\ callAt[c] # "idle"
    /\ callAlive[c]
    /\ callAlive' = [callAlive EXCEPT ![c] = FALSE]
    /\ UNCHANGED <<storeVars, guest, requestVars, callAt, callBooking, callCal,
                   callNext, callClean>>

CrashCall(c) ==
    /\ "crash" \in Faults
    /\ callAt[c] # "idle"
    /\ EndCall(c)
    /\ UNCHANGED <<storeVars, guest, requestVars>>

-------------------------------------------------------------------------------
\* putMeetingType, as far as it matters here: another destination calendar.
MoveDestination ==
    /\ dest' \in Calendars \ {dest}
    /\ UNCHANGED <<status, lock, event, guest, requestVars, callVars>>

Next ==
    \/ \E b \in Bookings : Submit(b) \/ CreateStep(b) \/ HangUp(b) \/ Crash(b)
    \/ \E c \in Calls : Ask(c) \/ CancelStep(c) \/ HangUpCall(c) \/ CrashCall(c)
    \/ MoveDestination

\* A request that was accepted is run to its end; nobody has to send one.
Fairness ==
    /\ \A b \in Bookings : WF_vars(CreateStep(b))
    /\ \A c \in Calls : WF_vars(CancelStep(c))

Spec == Init /\ [][Next]_vars /\ Fairness

-------------------------------------------------------------------------------
(***************************************************************************)
(* Properties.                                                             *)
(***************************************************************************)

RequestStates == {"idle", "check", "claim", "connect", "insert", "confirm",
                  "undo", "fail", "reply", "booked", "rejected", "dead"}

\* Every variable keeps its shape; in particular no request walks past the
\* last event of its booking.
TypeOK ==
    /\ status \in [Bookings -> {"none", "pending", "confirmed", "failed", "canceled"}]
    /\ lock \in [Buckets -> Bookings \cup {NoBooking}]
    /\ event \in [Bookings -> [Events -> {"absent", "present", "deleted"}]]
    /\ dest \in Calendars
    /\ guest \in [Bookings -> {"waiting", "holds", "asked", "told"}]
    /\ at \in [Bookings -> RequestStates]
    /\ cal \in [Bookings -> Calendars \cup {NoCalendar}]
    /\ made \in [Bookings -> 0 .. Blockers + 1]
    /\ next \in [Bookings -> 0 .. Blockers + 1]
    /\ alive \in [Bookings -> BOOLEAN]
    /\ callAt \in [Calls -> {"idle", "meeting", "delete", "release"}]
    /\ callBooking \in [Calls -> Bookings \cup {NoBooking}]
    /\ callCal \in [Calls -> Calendars \cup {NoCalendar}]
    /\ callNext \in [Calls -> Events]
    /\ callClean \in [Calls -> BOOLEAN]
    /\ callAlive \in [Calls -> BOOLEAN]

Live(b) == status[b] \in {"pending", "confirmed"}

\* README.md:18.  No two bookings that are pending or confirmed want a common
\* instant, buffers included, however requests and cancellations interleave
\* and fail.
NoDoubleBooking ==
    \A b1, b2 \in Bookings :
        b1 # b2 /\ Live(b1) /\ Live(b2) => ~ClaimsOverlap(Slot[b1], Slot[b2])

\* What keeps NoDoubleBooking true: a live booking still owns each of the
\* locks that ClaimBooking wrote for it.
LiveHoldsLocks ==
    \A b \in Bookings : Live(b) => \A k \in Claim(b) : lock[k] = b

\* No slot is lost to a booking that is over: the owner of a lock is live.
LocksHaveLiveOwners ==
    \A k \in Buckets : lock[k] # NoBooking => Live(lock[k]) /\ k \in Claim(lock[k])

\* A guest who was answered 201 and has not asked to cancel has a confirmed
\* booking whose event and private blocks are all on the calendar, whatever
\* became of other requests.
ConfirmationKept ==
    \A b \in Bookings : guest[b] = "holds" =>
        /\ status[b] = "confirmed"
        /\ \A e \in Events : event[b][e] = "present"

\* A guest who was answered 204 has a canceled booking and no event left.
ToldIsCanceled ==
    \A b \in Bookings : guest[b] = "told" =>
        /\ status[b] = "canceled"
        /\ \A e \in Events : event[b][e] # "present"

LeftNothing(b) ==
    /\ ~Live(b)
    /\ \A e \in Events : event[b][e] # "present"
    /\ \A k \in Buckets : lock[k] # b

\* README.md:38 and :163.  A booking request that was answered with an error
\* leaves nothing: no live booking, no lock and no event.
RollbackComplete == \A b \in Bookings : at[b] = "rejected" => LeftNothing(b)

\* README.md:163.  When a private block could not be created, the booking is
\* rolled back and the guest's event canceled.
BlockFailureRollsBack ==
    \A b \in Bookings :
        at[b] = "rejected" /\ made[b] \in 1 .. Blockers =>
            ~Live(b) /\ event[b][0] # "present"

\* A booking that is over stays over: no late confirmation revives it, and a
\* failed one is never taken for a canceled one.
NeverRevived ==
    [][\A b \in Bookings :
          status[b] \in {"failed", "canceled"} => status'[b] = status[b]]_vars

\* A lock disappears only in the step that ends the booking it belongs to.
OnlyOwnerReleases ==
    [][\A k \in Buckets : \A b \in Bookings :
          lock[k] = b /\ lock'[k] # b => Live(b) /\ ~Live(b)']_vars

\* A pending booking does not stay pending: it holds its slot with no meeting.
PendingResolves ==
    \A b \in Bookings : status[b] = "pending" ~> status[b] # "pending"

\* README.md:20 and :159.  A guest who asks to cancel gets the booking canceled.
CancelTakesEffect ==
    \A b \in Bookings : guest[b] = "asked" ~> status[b] = "canceled"

SlotConflict(b1, b2) == ClaimsOverlap(Slot[b1], Slot[b2])

LedgerEntry ==
    [b \in Bookings |->
        CASE status[b] = "none" -> "absent"
          [] status[b] = "pending" -> "held"
          [] status[b] = "confirmed" -> "firm"
          [] OTHER -> "over"]

Ledger == INSTANCE SlotLedger WITH Conflicts <- SlotConflict, entry <- LedgerEntry

\* The saga implements the ledger: no step reserves a time that is taken, and
\* no step but a confirmation makes a booking firm.
ImplementsLedger == Ledger!Spec

-------------------------------------------------------------------------------
(***************************************************************************)
(* The inductive invariants behind the properties.                         *)
(***************************************************************************)

\* How far a request is tells the state of its booking and of its events.
Phase(b) ==
    /\ at[b] \in {"idle", "check", "claim"} => status[b] = "none"
    /\ at[b] \in {"connect", "insert", "confirm"} => status[b] = "pending"
    /\ at[b] \in {"undo", "fail"} => Live(b)
    /\ at[b] = "reply" => status[b] = "confirmed"
    /\ at[b] = "booked" => status[b] \in {"confirmed", "canceled"}
    /\ at[b] # "idle" /\ at[b] # "rejected" => cal[b] \in Calendars
    /\ at[b] \in {"idle", "check", "claim", "connect"} => made[b] = 0
    /\ at[b] = "insert" => made[b] \in Events
    /\ at[b] \in {"confirm", "reply"} => made[b] = Blockers + 1
    /\ at[b] \in {"idle", "check", "claim", "connect", "insert", "confirm"}
          => next[b] = 0
    /\ at[b] = "undo" => next[b] < made[b]
    /\ at[b] \in {"insert", "confirm", "reply"} =>
          \A e \in Events : e < made[b] => event[b][e] = "present"
    /\ guest[b] # "waiting" => at[b] = "booked"

PhaseInv == \A b \in Bookings : Phase(b)

\* A cancellation is of a booking whose guest has the token and used it.
CallInv ==
    \A c \in Calls :
        /\ callAt[c] # "idle" =>
              /\ callBooking[c] \in Bookings
              /\ guest[callBooking[c]] \in {"asked", "told"}
        /\ callAt[c] \in {"delete", "release"} => callCal[c] \in Calendars
        /\ callAt[c] \in {"idle", "meeting"} => callNext[c] = 0

\* The events of a booked booking were all inserted.
BookedInv ==
    \A b \in Bookings : at[b] = "booked" =>
        \A e \in Events : event[b][e] # "absent"

\* c deleted the guest's event itself and may still release the slot.
Passed(c) ==
    \/ callAt[c] = "release"
    \/ callAt[c] = "delete" /\ callNext[c] > 0 /\ callClean[c]

\* Where a second delete is an error, the guest's event is a token: the one
\* cancellation that was answered its deletion is the only one that can release
\* the slot.
OnePasses ==
    /\ \A c \in Calls : Passed(c) =>
          /\ status[callBooking[c]] = "confirmed"
          /\ event[callBooking[c]][0] = "deleted"
    /\ \A c, d \in Calls :
          c # d /\ Passed(c) /\ Passed(d) => callBooking[c] # callBooking[d]
    /\ \A b \in Bookings : status[b] = "canceled" => event[b][0] = "deleted"

\* What a cancellation was answered so far tells what is left on the calendar,
\* where it looks for the events on the calendar they were created on.
CleanInv ==
    /\ \A c \in Calls : callAt[c] = "delete" /\ callClean[c] =>
          \A e \in Events : e < callNext[c] => event[callBooking[c]][e] = "deleted"
    /\ \A c \in Calls : callAt[c] = "release" =>
          \A e \in Events : event[callBooking[c]][e] = "deleted"
    /\ \A b \in Bookings : status[b] = "canceled" =>
          \A e \in Events : event[b][e] = "deleted"
    /\ \A b \in Bookings : guest[b] = "told" => status[b] = "canceled"

\* made counts the events that exist and next those that were deleted again:
\* what a request that walks back has left to delete is what it left behind.
Unmade(b) ==
    /\ \A e \in Events : e >= made[b] => event[b][e] = "absent"
    /\ at[b] = "undo" => \A e \in Events : e < next[b] => event[b][e] # "present"
    /\ at[b] \in {"fail", "rejected"} => \A e \in Events : event[b][e] # "present"
    /\ at[b] = "rejected" => ~Live(b)

\* The strengthening of RollbackComplete, which needs the bookings' phases.
RollbackInv == \A b \in Bookings : Unmade(b)

\* The strengthening of NoDoubleBooking that every step preserves.
SlotInv ==
    /\ TypeOK
    /\ PhaseInv
    /\ CallInv
    /\ BookedInv
    /\ OnePasses
    /\ LiveHoldsLocks
    /\ LocksHaveLiveOwners
=============================================================================
