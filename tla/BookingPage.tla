---------------------------- MODULE BookingPage ----------------------------
(***************************************************************************)
(* The booking page (web/src/App.tsx) of one guest: choose a meeting type, *)
(* a time, fill in the form, done.  Requests are answered in any order,    *)
(* while the guest goes on; one flag, loading, is all that is known of the *)
(* requests for available times.                                           *)
(***************************************************************************)
EXTENDS Integers, FiniteSets

CONSTANTS
    Types,        \* the meeting types on the page, or at /meet/<slug>
    Direct,       \* the type the page was opened for, or NoType
    LastPage,     \* pages of 14 days in the booking window, counted from 0
    Submissions,  \* bound on the submissions in flight at one time
    NoType

ASSUME PageAssumption ==
    /\ NoType \notin Types
    /\ Direct \in Types \cup {NoType}
    /\ LastPage \in Nat

Pages == 0 .. LastPage

VARIABLES
    step,        \* "type", "time", "details" or "done"
    meeting,     \* the type chosen
    slots,       \* whose times are kept, and which page of them
    slot,        \* the time chosen, one of those
    loading,
    boot,        \* the first load: "list", "slots", and then "done" or "failed"
    loads,       \* availability requests in flight
    range,       \* the page the mounted TimePicker says it shows
    sent,        \* the bookings submitted and not answered yet
    submitting,  \* the mounted form waits for its answer
    shown,       \* the booking the page confirms
    \* What happened, for the properties:
    unloaded,    \* no request for times was answered since the type was chosen
    returned     \* the guest came back from the form to the times

loadVars == <<slots, loading, boot, loads, unloaded>>
formVars == <<slot, sent, submitting, shown>>
vars == <<step, meeting, range, returned, loadVars, formVars>>

NoSlots == [of |-> NoType, page |-> 0]
Idle    == [meeting |-> NoType, slot |-> NoSlots, mine |-> FALSE]

\* A request by loadAvailability; one by moveRange also moves the range of the
\* TimePicker that made it, if that is still mounted.
Load == [of : Types, page : Pages, moves : BOOLEAN]

Init ==
    /\ step = "type"
    /\ meeting = NoType
    /\ slots = NoSlots
    /\ slot = NoSlots
    /\ loading = TRUE
    /\ boot = "list"
    /\ loads = {}
    /\ range = 0
    /\ sent = [p \in Submissions |-> Idle]
    /\ submitting = FALSE
    /\ shown = Idle
    /\ unloaded = FALSE
    /\ returned = FALSE

\* What unmounts the TimePicker, or the form, forgets what it waits for.
PickerGone == {[l EXCEPT !.moves = FALSE] : l \in loads}
FormGone == [p \in Submissions |-> [sent[p] EXCEPT !.mine = FALSE]]

-------------------------------------------------------------------------------
\* The first load: the types, and for a direct link the times of its type.

\* got is "nothing", "list", or "direct": with the list the type of the link,
\* which takes a request of its own when it is hidden; a restart does not stop
\* that.  A link comes to "list" when its type is not found, or the guest has
\* restarted before the list arrived.
BootList(got) ==
    /\ boot = "list"
    /\ got = "direct" => Direct # NoType
    /\ boot' = CASE got = "nothing" -> "failed"
                 [] got = "list"    -> "done"
                 [] got = "direct"  -> "slots"
    /\ loading' = (got = "direct")
    /\ unloaded' = (got = "direct")
    /\ IF got = "direct" THEN meeting' = Direct /\ step' = "time"
                         ELSE UNCHANGED <<meeting, step>>
    /\ UNCHANGED <<range, slots, loads, returned, formVars>>

BootSlots(ok) ==
    /\ boot = "slots"
    /\ boot' = "done"
    /\ slots' = IF ok THEN [of |-> Direct, page |-> 0] ELSE slots
    /\ unloaded' = (unloaded /\ ~ok)
    /\ loading' = FALSE
    /\ UNCHANGED <<step, meeting, range, returned, loads, formVars>>

-------------------------------------------------------------------------------
\* Loading times.

Request(l) ==
    /\ loads' = PickerGone \cup {l}
    /\ loading' = TRUE
    /\ UNCHANGED <<slots, boot>>

\* Plausible slip: the list can be used while times are loading.
AnyTime == step = "type" /\ boot = "done"

CanChoose == step = "type" /\ boot = "done" /\ ~loading

ChooseMeeting(m) ==
    /\ CanChoose
    /\ meeting' = m
    /\ step' = "time"
    /\ range' = 0
    /\ returned' = FALSE
    /\ unloaded' = TRUE
    /\ Request([of |-> m, page |-> 0, moves |-> FALSE])
    /\ UNCHANGED formVars

\* Plausible slip: one page too many is offered.
OnePageMore(page) == page \in 0 .. LastPage + 1

InWindow(page) == page \in Pages

MoveRange(page) ==
    /\ step = "time"
    /\ ~loading
    /\ InWindow(page)
    /\ page \in {range - 1, range + 1}
    /\ Request([of |-> meeting, page |-> page, moves |-> TRUE])
    /\ UNCHANGED <<step, meeting, range, returned, unloaded, formVars>>

\* Plausible slip: the flag is cleared on success only.
UntilSuccess(ok) == IF ok THEN FALSE ELSE loading

LoadingAfter(ok) == FALSE

\* Plausible slip: the range moves whatever the answer was.
MovesAnyway(l, ok) == l.moves

Moves(l, ok) == l.moves /\ ok

\* loadAvailability gets its answer.  An error keeps the times there were.
Loaded(l, ok) ==
    /\ loads' = loads \ {l}
    /\ slots' = IF ok THEN [of |-> l.of, page |-> l.page] ELSE slots
    /\ range' = IF Moves(l, ok) THEN l.page ELSE range
    /\ unloaded' = (unloaded /\ ~ok)
    /\ returned' = IF ok THEN FALSE ELSE returned
    /\ loading' = LoadingAfter(ok)
    /\ UNCHANGED <<step, meeting, boot, formVars>>

-------------------------------------------------------------------------------
\* The form.

ChooseSlot ==
    /\ step = "time"
    /\ ~loading
    /\ slots # NoSlots
    /\ slot' = slots
    /\ step' = "details"
    /\ submitting' = FALSE
    /\ loads' = PickerGone
    /\ UNCHANGED <<meeting, range, returned, slots, loading, boot, unloaded, sent, shown>>

\* The TimePicker is mounted anew: its range is the first page again.
BackToTimes ==
    /\ step = "details"
    /\ step' = "time"
    /\ range' = 0
    /\ returned' = TRUE
    /\ sent' = FormGone
    /\ UNCHANGED <<meeting, loadVars, slot, submitting, shown>>

\* Plausible slip: the button stays enabled.
AlwaysSubmit == step = "details"

CanSubmit == step = "details" /\ ~submitting

Submit(p) ==
    /\ CanSubmit
    /\ sent[p] = Idle
    /\ sent' = [sent EXCEPT ![p] = [meeting |-> meeting, slot |-> slot, mine |-> TRUE]]
    /\ submitting' = TRUE
    /\ UNCHANGED <<step, meeting, range, returned, loadVars, slot, shown>>

\* A confirmation is shown whenever it arrives, wherever the guest is.
Answered(p, ok) ==
    /\ sent[p] # Idle
    /\ sent' = IF ok THEN [FormGone EXCEPT ![p] = Idle] ELSE [sent EXCEPT ![p] = Idle]
    /\ shown' = IF ok THEN sent[p] ELSE shown
    /\ step' = IF ok THEN "done" ELSE step
    /\ loads' = IF ok THEN PickerGone ELSE loads
    /\ submitting' = (submitting /\ ~sent[p].mine)
    /\ UNCHANGED <<meeting, range, returned, slots, loading, boot, unloaded, slot>>

\* The logo, Back from the times, and "Book another conversation".
Restart ==
    /\ step' = "type"
    /\ meeting' = NoType
    /\ slot' = NoSlots
    /\ shown' = Idle
    /\ loads' = PickerGone
    /\ sent' = FormGone
    /\ UNCHANGED <<range, returned, slots, loading, boot, unloaded, submitting>>

Next ==
    \/ \E got \in {"nothing", "list", "direct"} : BootList(got)
    \/ \E ok \in BOOLEAN : BootSlots(ok)
    \/ \E m \in Types : ChooseMeeting(m)
    \/ \E page \in 0 .. LastPage + 1 : MoveRange(page)
    \/ \E l \in loads, ok \in BOOLEAN : Loaded(l, ok)
    \/ ChooseSlot \/ BackToTimes \/ Restart
    \/ \E p \in Submissions : Submit(p)
    \/ \E p \in Submissions, ok \in BOOLEAN : Answered(p, ok)

Answers ==
    \/ \E got \in {"nothing", "list", "direct"} : BootList(got)
    \/ \E ok \in BOOLEAN : BootSlots(ok)
    \/ \E l \in loads, ok \in BOOLEAN : Loaded(l, ok)

\* The browser answers every fetch, with a response or an error.
Spec == Init /\ [][Next]_vars /\ WF_vars(Answers)

-------------------------------------------------------------------------------
(***************************************************************************)
(* Properties.                                                             *)
(***************************************************************************)

Slots == [of : Types \cup {NoType}, page : Pages]
Booking == [meeting : Types \cup {NoType}, slot : Slots, mine : BOOLEAN]

\* Types; and no page is asked for outside the booking window.
TypeOK ==
    /\ step \in {"type", "time", "details", "done"}
    /\ meeting \in Types \cup {NoType}
    /\ slots \in Slots
    /\ slot \in Slots
    /\ loading \in BOOLEAN
    /\ boot \in {"list", "slots", "done", "failed"}
    /\ loads \subseteq Load
    /\ range \in Pages
    /\ sent \in [Submissions -> Booking]
    /\ submitting \in BOOLEAN
    /\ shown \in Booking
    /\ unloaded \in BOOLEAN
    /\ returned \in BOOLEAN

\* Answers cannot overtake each other: while one is awaited the page offers no
\* way to ask for another, though any number of restarts may pass meanwhile.
OneLoad ==
    /\ Cardinality(loads) + (IF boot \in {"list", "slots"} THEN 1 ELSE 0) <= 1
    /\ loading <=> loads # {} \/ boot \in {"list", "slots"}

\* The times on offer are those of the type chosen, unless every request for
\* them failed: then the times of another type stay, and can be submitted.
SlotsBelongToMeeting ==
    /\ step = "time" /\ ~loading /\ slots # NoSlots =>
          slots.of = meeting \/ unloaded
    /\ step = "details" => slot.of = meeting \/ unloaded

\* The range in the heading is that of the times under it, unless the guest
\* came back from the form, which resets the heading, or chose the type again
\* and the request failed.
RangeMatchesSlots ==
    step = "time" /\ ~loading /\ slots.of = meeting =>
        slots.page = range \/ returned \/ unloaded

\* A form submits once until it is answered, and what it shows: so a
\* confirmation is of what the guest sees, unless the guest left the form.
OneSubmission ==
    \A p \in Submissions : sent[p].mine =>
        /\ step = "details" /\ submitting
        /\ sent[p].meeting = meeting /\ sent[p].slot = slot
        /\ \A q \in Submissions : sent[q].mine => p = q

\* Whatever the guest does meanwhile, the skeleton goes away.
LoadingEnds == loading ~> ~loading

-------------------------------------------------------------------------------
(***************************************************************************)
(* The inductive invariant.                                                *)
(***************************************************************************)

Booting == boot \in {"list", "slots"}

\* Until the first load is over there is nothing on the page to use.
BootInv ==
    Booting =>
        /\ step \in {"type", "time"}
        /\ step = "time" => boot = "slots" /\ meeting = Direct
        /\ boot = "slots" => Direct # NoType
        /\ loads = {}
        /\ range = 0
        /\ slots = NoSlots
        /\ \A p \in Submissions : sent[p] = Idle

\* The flag tells of one request, and one that a mounted TimePicker sees is for
\* its type, and for the page it shows or will show.
LoadInv ==
    /\ \A k, l \in loads : k = l
    /\ loading <=> loads # {} \/ Booting
    /\ step = "details" => ~loading
    /\ step = "time" => \A l \in loads : l.of = meeting /\ (l.moves \/ l.page = range)

\* The times kept are those of the type, or none of its were loaded.
SlotInv ==
    /\ step \in {"time", "details"} =>
          /\ meeting \in Types
          /\ slots = NoSlots \/ slots.of = meeting \/ unloaded
    /\ step = "details" => slot.of = meeting \/ unloaded
    /\ step = "time" /\ slots.of = meeting =>
          slots.page = range \/ returned \/ unloaded

PageInv ==
    /\ TypeOK
    /\ BootInv
    /\ LoadInv
    /\ SlotInv
    /\ OneSubmission
=============================================================================
