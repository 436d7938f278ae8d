------------------------- MODULE BookingPageProofs -------------------------
(***************************************************************************)
(* Proofs about the booking page, for any number of meeting types, pages   *)
(* of the booking window and submissions.                                  *)
(***************************************************************************)
EXTENDS BookingPage, TLAPS, FiniteSetTheorems

\* The heading starts at a page there is; nothing sent is a booking of the type.
LEMMA SentinelTypes ==
    /\ 0 \in Pages
    /\ NoSlots \in Slots /\ NoSlots.of = NoType
    /\ Idle \in Booking /\ ~Idle.mine
  <1>1. 0 \in Pages
    BY PageAssumption DEF Pages
  <1> QED
    BY <1>1 DEF Slots, Booking, NoSlots, Idle

\* The first state satisfies the inductive invariant.
LEMMA InitInv == Init => PageInv
  <1> SUFFICES ASSUME Init
               PROVE  PageInv
    OBVIOUS
  <1> USE PageAssumption DEF Init
  <1>1. TypeOK
    BY SentinelTypes DEF TypeOK
  <1>2. BootInv /\ LoadInv /\ SlotInv /\ OneSubmission
    BY DEF BootInv, Booting, LoadInv, SlotInv, OneSubmission, Idle
  <1> QED
    BY <1>1, <1>2 DEF PageInv

-------------------------------------------------------------------------------
\* What the helpers keep.

\* Requests whose TimePicker is gone are the same requests: as many, for the
\* same types.
LEMMA PickerGoneLoads ==
    ASSUME loads \subseteq Load
    PROVE  /\ PickerGone \subseteq Load
           /\ PickerGone = {} <=> loads = {}
           /\ (\A k, l \in loads : k = l) => \A k, l \in PickerGone : k = l
  BY DEF PickerGone, Load

\* A form that is gone has nothing of its own in flight.
LEMMA FormGoneSent ==
    ASSUME sent \in [Submissions -> Booking]
    PROVE  /\ FormGone \in [Submissions -> Booking]
           /\ \A p \in Submissions : ~FormGone[p].mine
           /\ \A p \in Submissions : sent[p] = Idle => FormGone[p] = Idle
  <1>1. \A b \in Booking : [b EXCEPT !.mine = FALSE] \in Booking
                             /\ [b EXCEPT !.mine = FALSE].mine = FALSE
    BY DEF Booking
  <1>2. \A b \in Booking : b.mine = FALSE => [b EXCEPT !.mine = FALSE] = b
    BY DEF Booking
  <1>3. Idle \in Booking /\ Idle.mine = FALSE
    BY SentinelTypes DEF Idle
  <1> QED
    BY <1>1, <1>2, <1>3 DEF FormGone

-------------------------------------------------------------------------------
\* Every step keeps the types.
LEMMA TypesInductive ==
    ASSUME PageInv, [Next]_vars
    PROVE  TypeOK'
  <1> USE PageAssumption, PickerGoneLoads, FormGoneSent, SentinelTypes
      DEF loadVars, formVars
  <1>1. TypeOK /\ BootInv /\ LoadInv /\ SlotInv
    BY DEF PageInv
  <1>2. CASE UNCHANGED vars
    BY <1>1, <1>2 DEF vars, TypeOK
  <1>3. ASSUME NEW got \in {"nothing", "list", "direct"}, BootList(got)
        PROVE  TypeOK'
    BY <1>1, <1>3 DEF BootList, TypeOK
  <1>4. ASSUME NEW ok \in BOOLEAN, BootSlots(ok)
        PROVE  TypeOK'
    <2>1. [of |-> Direct, page |-> 0] \in Slots
      BY DEF Slots
    <2> QED
      BY <1>1, <1>4, <2>1 DEF BootSlots, TypeOK
  <1>5. ASSUME NEW m \in Types, ChooseMeeting(m)
        PROVE  TypeOK'
    <2>1. [of |-> m, page |-> 0, moves |-> FALSE] \in Load
      BY DEF Load
    <2> QED
      BY <1>1, <1>5, <2>1 DEF ChooseMeeting, Request, TypeOK
  <1>6. ASSUME NEW page \in 0 .. LastPage + 1, MoveRange(page)
        PROVE  TypeOK'
    <2>1. [of |-> meeting, page |-> page, moves |-> TRUE] \in Load
      BY <1>1, <1>6 DEF MoveRange, InWindow, SlotInv, Load
    <2> QED
      BY <1>1, <1>6, <2>1 DEF MoveRange, Request, TypeOK
  <1>7. ASSUME NEW l \in loads, NEW ok \in BOOLEAN, Loaded(l, ok)
        PROVE  TypeOK'
    BY <1>1, <1>7 DEF Loaded, LoadingAfter, TypeOK, Load, Slots
  <1>8. CASE ChooseSlot \/ BackToTimes \/ Restart
    BY <1>1, <1>8 DEF ChooseSlot, BackToTimes, Restart, TypeOK
  <1>9. ASSUME NEW p \in Submissions, Submit(p)
        PROVE  TypeOK'
    BY <1>1, <1>9 DEF Submit, TypeOK, Booking
  <1>10. ASSUME NEW p \in Submissions, NEW ok \in BOOLEAN, Answered(p, ok)
         PROVE  TypeOK'
    BY <1>1, <1>10 DEF Answered, TypeOK, Booking
  <1> QED
    BY <1>2, <1>3, <1>4, <1>5, <1>6, <1>7, <1>8, <1>9, <1>10 DEF Next

-------------------------------------------------------------------------------
\* The first load is over before there is anything else.
LEMMA BootInductive ==
    ASSUME PageInv, [Next]_vars
    PROVE  BootInv'
  <1> USE SentinelTypes DEF loadVars, formVars, Booting
  <1>1. TypeOK /\ BootInv /\ LoadInv /\ SlotInv
    BY DEF PageInv
  <1>2. CASE UNCHANGED vars
    BY <1>1, <1>2 DEF vars, BootInv
  <1>3. ASSUME NEW got \in {"nothing", "list", "direct"}, BootList(got)
        PROVE  BootInv'
    BY <1>1, <1>3 DEF BootList, BootInv
  <1>4. ASSUME NEW ok \in BOOLEAN, BootSlots(ok)
        PROVE  BootInv'
    BY <1>4 DEF BootSlots, BootInv
  <1>5. ASSUME NEW m \in Types, ChooseMeeting(m)
        PROVE  BootInv'
    BY <1>5 DEF ChooseMeeting, CanChoose, Request, BootInv
  <1>6. ASSUME NEW page \in 0 .. LastPage + 1, MoveRange(page)
        PROVE  BootInv'
    BY <1>1, <1>6 DEF MoveRange, Request, LoadInv, BootInv
  <1>7. ASSUME NEW l \in loads, NEW ok \in BOOLEAN, Loaded(l, ok)
        PROVE  BootInv'
    BY <1>1, <1>7 DEF Loaded, BootInv
  <1>8. CASE ChooseSlot \/ BackToTimes
    BY <1>1, <1>8 DEF ChooseSlot, BackToTimes, LoadInv, BootInv
  <1>9. CASE Restart
    BY <1>1, <1>9, PickerGoneLoads, FormGoneSent DEF Restart, BootInv, TypeOK
  <1>10. ASSUME NEW p \in Submissions, Submit(p)
         PROVE  BootInv'
    BY <1>1, <1>10 DEF Submit, CanSubmit, BootInv
  <1>11. ASSUME NEW p \in Submissions, NEW ok \in BOOLEAN, Answered(p, ok)
         PROVE  BootInv'
    BY <1>1, <1>11 DEF Answered, BootInv
  <1> QED
    BY <1>2, <1>3, <1>4, <1>5, <1>6, <1>7, <1>8, <1>9, <1>10, <1>11 DEF Next

\* The one flag is enough: there is at most one request, and it is for what the
\* page will show it for.
LEMMA LoadsInductive ==
    ASSUME PageInv, [Next]_vars
    PROVE  LoadInv'
  <1> USE DEF loadVars, formVars, Booting
  <1>1. TypeOK /\ BootInv /\ LoadInv /\ SlotInv
    BY DEF PageInv
  <1>2. /\ PickerGone \subseteq Load
        /\ PickerGone = {} <=> loads = {}
        /\ \A k, l \in PickerGone : k = l
        /\ loads = {} => PickerGone = {}
    BY <1>1, PickerGoneLoads DEF TypeOK, LoadInv
  <1>3. CASE UNCHANGED vars
    BY <1>1, <1>3 DEF vars, LoadInv
  <1>4. ASSUME NEW got \in {"nothing", "list", "direct"}, BootList(got)
        PROVE  LoadInv'
    BY <1>1, <1>4 DEF BootList, BootInv, LoadInv
  <1>5. ASSUME NEW ok \in BOOLEAN, BootSlots(ok)
        PROVE  LoadInv'
    BY <1>1, <1>5 DEF BootSlots, BootInv, LoadInv
  <1>6. ASSUME NEW m \in Types, ChooseMeeting(m)
        PROVE  LoadInv'
    <2>1. /\ ~loading /\ step' = "time" /\ meeting' = m /\ range' = 0
          /\ loads' = PickerGone \cup {[of |-> m, page |-> 0, moves |-> FALSE]}
          /\ loading' = TRUE
      BY <1>6 DEF ChooseMeeting, CanChoose, Request
    <2>2. loads' = {[of |-> m, page |-> 0, moves |-> FALSE]}
      BY <1>1, <1>2, <2>1 DEF LoadInv
    <2>3. /\ \A l \in loads' : l.of = meeting' /\ (l.moves \/ l.page = range')
          /\ loads' # {}
      <3>1. loads' # {}
        BY <2>2
      <3>2. \A l \in loads' : l.of = meeting'
        BY <2>1, <2>2
      <3>3. \A l \in loads' : l.moves \/ l.page = range'
        BY <2>1, <2>2
      <3> QED
        BY <3>1, <3>2, <3>3
    <2>4. \A k, l \in loads' : k = l
      BY <2>2
    <2> QED
      BY <2>1, <2>3, <2>4 DEF LoadInv
  <1>7. ASSUME NEW page \in 0 .. LastPage + 1, MoveRange(page)
        PROVE  LoadInv'
    <2>1. /\ ~loading /\ step' = "time" /\ meeting' = meeting
          /\ loads' = PickerGone \cup {[of |-> meeting, page |-> page, moves |-> TRUE]}
          /\ loading' = TRUE
      BY <1>7 DEF MoveRange, Request
    <2>2. loads' = {[of |-> meeting, page |-> page, moves |-> TRUE]}
      BY <1>1, <1>2, <2>1 DEF LoadInv
    <2>3. /\ \A l \in loads' : l.of = meeting' /\ (l.moves \/ l.page = range')
          /\ loads' # {}
      <3>1. loads' # {}
        BY <2>2
      <3>2. \A l \in loads' : l.of = meeting'
        BY <2>1, <2>2
      <3>3. \A l \in loads' : l.moves \/ l.page = range'
        BY <2>1, <2>2
      <3> QED
        BY <3>1, <3>2, <3>3
    <2>4. \A k, l \in loads' : k = l
      BY <2>2
    <2> QED
      BY <2>1, <2>3, <2>4 DEF LoadInv
  <1>8. ASSUME NEW l \in loads, NEW ok \in BOOLEAN, Loaded(l, ok)
        PROVE  LoadInv'
    <2>1. loads' = {} /\ loading' = FALSE
      BY <1>1, <1>8 DEF Loaded, LoadingAfter, LoadInv
    <2>2. ~Booting /\ boot' = boot
      BY <1>1, <1>8 DEF Loaded, BootInv
    <2> QED
      BY <2>1, <2>2 DEF LoadInv
  <1>9. CASE ChooseSlot
    BY <1>1, <1>2, <1>9 DEF ChooseSlot, LoadInv
  <1>10. CASE BackToTimes
    BY <1>1, <1>10 DEF BackToTimes, LoadInv
  <1>11. CASE Restart
    BY <1>1, <1>2, <1>11 DEF Restart, LoadInv
  <1>12. ASSUME NEW p \in Submissions, Submit(p)
         PROVE  LoadInv'
    BY <1>1, <1>12 DEF Submit, LoadInv
  <1>13. ASSUME NEW p \in Submissions, NEW ok \in BOOLEAN, Answered(p, ok)
         PROVE  LoadInv'
    BY <1>1, <1>2, <1>13 DEF Answered, LoadInv
  <1> QED
    BY <1>3, <1>4, <1>5, <1>6, <1>7, <1>8, <1>9, <1>10, <1>11, <1>12, <1>13 DEF Next

\* The times kept are those of the type on the page and of the range over them,
\* but for the three cases the properties name.
LEMMA SlotsInductive ==
    ASSUME PageInv, [Next]_vars
    PROVE  SlotInv'
  <1> USE SentinelTypes DEF loadVars, formVars, Booting
  <1>1. TypeOK /\ BootInv /\ LoadInv /\ SlotInv
    BY DEF PageInv
  <1>2. CASE UNCHANGED vars
    BY <1>1, <1>2 DEF vars, SlotInv
  <1>3. ASSUME NEW got \in {"nothing", "list", "direct"}, BootList(got)
        PROVE  SlotInv'
    BY <1>1, <1>3, PageAssumption DEF BootList, BootInv, SlotInv
  <1>4. ASSUME NEW ok \in BOOLEAN, BootSlots(ok)
        PROVE  SlotInv'
    BY <1>1, <1>4 DEF BootSlots, BootInv, SlotInv
  <1>5. ASSUME NEW m \in Types, ChooseMeeting(m)
        PROVE  SlotInv'
    BY <1>5 DEF ChooseMeeting, SlotInv
  <1>6. ASSUME NEW page \in 0 .. LastPage + 1, MoveRange(page)
        PROVE  SlotInv'
    BY <1>1, <1>6 DEF MoveRange, Request, SlotInv
  <1>7. ASSUME NEW l \in loads, NEW ok \in BOOLEAN, Loaded(l, ok)
        PROVE  SlotInv'
    <2>1. step' = step /\ meeting' = meeting /\ slot' = slot /\ step # "details"
      BY <1>1, <1>7 DEF Loaded, LoadInv
    <2>2. CASE ok
      <3>1. slots' = [of |-> l.of, page |-> l.page]
            /\ range' = IF l.moves THEN l.page ELSE range
        BY <1>7, <2>2 DEF Loaded, Moves
      <3>2. step = "time" => l.of = meeting /\ (l.moves \/ l.page = range) /\ meeting \in Types
        BY <1>1 DEF LoadInv, SlotInv
      <3> QED
        BY <2>1, <3>1, <3>2 DEF SlotInv
    <2>3. CASE ~ok
      <3>1. UNCHANGED <<slots, range, unloaded, returned>>
        BY <1>1, <1>7, <2>3 DEF Loaded, Moves, TypeOK
      <3> QED
        BY <1>1, <2>1, <3>1 DEF SlotInv
    <2> QED
      BY <2>2, <2>3
  <1>8. CASE ChooseSlot
    BY <1>1, <1>8 DEF ChooseSlot, SlotInv
  <1>9. CASE BackToTimes
    BY <1>1, <1>9 DEF BackToTimes, SlotInv
  <1>10. CASE Restart
    BY <1>10 DEF Restart, SlotInv
  <1>11. ASSUME NEW p \in Submissions, Submit(p)
         PROVE  SlotInv'
    BY <1>1, <1>11 DEF Submit, SlotInv
  <1>12. ASSUME NEW p \in Submissions, NEW ok \in BOOLEAN, Answered(p, ok)
         PROVE  SlotInv'
    BY <1>1, <1>12 DEF Answered, SlotInv
  <1> QED
    BY <1>2, <1>3, <1>4, <1>5, <1>6, <1>7, <1>8, <1>9, <1>10, <1>11, <1>12 DEF Next

\* The mounted form has at most one submission in flight, of what it shows.
LEMMA SubmissionInductive ==
    ASSUME PageInv, [Next]_vars
    PROVE  OneSubmission'
  <1> USE DEF loadVars, formVars
  <1>1. TypeOK /\ BootInv /\ LoadInv /\ OneSubmission /\ sent \in [Submissions -> Booking]
    BY DEF PageInv, TypeOK
  <1>2. \A p \in Submissions : ~FormGone[p].mine
    BY <1>1, FormGoneSent
  <1>3. CASE UNCHANGED <<sent, step, submitting, meeting, slot>>
    BY <1>1, <1>3 DEF OneSubmission
  <1>4. CASE step # "details" /\ sent' = sent
    BY <1>1, <1>4 DEF OneSubmission
  <1>5. ASSUME NEW got \in {"nothing", "list", "direct"}, BootList(got)
        PROVE  step # "details" /\ sent' = sent
    BY <1>1, <1>5 DEF BootList, BootInv, Booting
  <1>6. CASE BackToTimes \/ Restart
    BY <1>2, <1>6 DEF BackToTimes, Restart, OneSubmission
  <1>7. ASSUME NEW p \in Submissions, Submit(p)
        PROVE  OneSubmission'
    <2>1. \A q \in Submissions : ~sent[q].mine
      BY <1>1, <1>7 DEF Submit, CanSubmit, OneSubmission
    <2> QED
      BY <1>1, <1>7, <2>1 DEF Submit, CanSubmit, OneSubmission
  <1>8. ASSUME NEW p \in Submissions, NEW ok \in BOOLEAN, Answered(p, ok)
        PROVE  OneSubmission'
    <2>1. CASE ok
      <3>1. \A q \in Submissions : ~sent'[q].mine
        BY <1>1, <1>2, <1>8, <2>1, FormGoneSent, SentinelTypes DEF Answered
      <3> QED
        BY <3>1 DEF OneSubmission
    <2>2. CASE ~ok
      <3>1. /\ UNCHANGED <<step, meeting, slot>>
            /\ sent' = [sent EXCEPT ![p] = Idle]
            /\ submitting' = (submitting /\ ~sent[p].mine)
        BY <1>8, <2>2 DEF Answered
      <3>2. \A q \in Submissions : sent'[q].mine => q # p /\ sent'[q] = sent[q]
        BY <1>1, <3>1, SentinelTypes
      <3> QED
        BY <1>1, <3>1, <3>2 DEF OneSubmission
    <2> QED
      BY <2>1, <2>2
  <1>9. CASE \/ UNCHANGED vars
             \/ \E ok \in BOOLEAN : BootSlots(ok)
             \/ \E page \in 0 .. LastPage + 1 : MoveRange(page)
             \/ \E l \in loads, ok \in BOOLEAN : Loaded(l, ok)
    BY <1>3, <1>9 DEF vars, BootSlots, MoveRange, Loaded
  <1>10. CASE ChooseSlot \/ \E m \in Types : ChooseMeeting(m)
    BY <1>4, <1>10 DEF ChooseSlot, ChooseMeeting, CanChoose
  <1> QED
    BY <1>4, <1>5, <1>6, <1>7, <1>8, <1>9, <1>10 DEF Next

-------------------------------------------------------------------------------
\* The theorems.

\* Every state of every run satisfies the inductive invariant.
THEOREM PageInvariant == Spec => []PageInv
  <1>1. PageInv /\ [Next]_vars => PageInv'
    BY TypesInductive, BootInductive, LoadsInductive, SlotsInductive, SubmissionInductive
    DEF PageInv
  <1> QED
    BY InitInv, <1>1, PTL DEF Spec

\* The types, of which: no page is asked for outside the booking window.
THEOREM PageTypes == Spec => []TypeOK
  <1>1. PageInv => TypeOK
    BY DEF PageInv
  <1> QED
    BY <1>1, PageInvariant, PTL

\* Answers cannot overtake each other: the buttons that ask for times wait for
\* one flag, and that is enough although a restart leaves a request behind.
THEOREM OneLoadAtATime == Spec => []OneLoad
  <1>1. PageInv => OneLoad
    <2> SUFFICES ASSUME PageInv
                 PROVE  OneLoad
      OBVIOUS
    <2>1. BootInv /\ LoadInv
      BY DEF PageInv
    <2>2. loads = {} \/ \E l : loads = {l}
      BY <2>1 DEF LoadInv
    <2>3. Cardinality(loads) = 0 \/ Cardinality(loads) = 1
      BY <2>2, FS_EmptySet, FS_Singleton
    <2>4. Booting => Cardinality(loads) = 0
      BY <2>1, FS_EmptySet DEF BootInv
    <2>5. Cardinality(loads) + (IF Booting THEN 1 ELSE 0) <= 1
      BY <2>3, <2>4
    <2> QED
      BY <2>1, <2>5 DEF OneLoad, LoadInv, Booting
  <1> QED
    BY <1>1, PageInvariant, PTL

\* What the guest chooses a time from, and submits, is of the type they chose,
\* unless every request for its times failed.
THEOREM TimesAreOfTheType == Spec => []SlotsBelongToMeeting
  <1>1. PageInv => SlotsBelongToMeeting
    BY DEF PageInv, SlotInv, SlotsBelongToMeeting
  <1> QED
    BY <1>1, PageInvariant, PTL

\* The heading names the range of the times under it, but after the form was
\* left or a request failed.
THEOREM HeadingIsOfTheTimes == Spec => []RangeMatchesSlots
  <1>1. PageInv => RangeMatchesSlots
    BY DEF PageInv, SlotInv, RangeMatchesSlots
  <1> QED
    BY <1>1, PageInvariant, PTL

\* A form submits once until it is answered, and what it submits is what it
\* still shows when the answer comes.
THEOREM FormSubmitsOnce == Spec => []OneSubmission
  <1>1. PageInv => OneSubmission
    BY DEF PageInv
  <1> QED
    BY <1>1, PageInvariant, PTL
=============================================================================
