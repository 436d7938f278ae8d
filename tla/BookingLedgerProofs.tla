------------------------- MODULE BookingLedgerProofs -------------------------
(***************************************************************************)
(* The saga implements the ledger: with locks, two stores, interleaved     *)
(* requests and every fault, what can be observed of the bookings is what  *)
(* SlotLedger allows.                                                      *)
(***************************************************************************)
EXTENDS BookingSagaProofs

\* The entry of a booking, by its status.
LEMMA EntryOf ==
    ASSUME NEW b \in Bookings
    PROVE  /\ status[b] = "none" => LedgerEntry[b] = "absent"
           /\ status[b] = "pending" => LedgerEntry[b] = "held"
           /\ status[b] = "confirmed" => LedgerEntry[b] = "firm"
           /\ status[b] \in {"failed", "canceled"} => LedgerEntry[b] = "over"
           /\ LedgerEntry[b] \in {"held", "firm"} => Live(b)
  BY DEF LedgerEntry, Live

\* Writing one status rewrites one entry.
LEMMA EntryUpdate ==
    ASSUME TypeOK, NEW b \in Bookings, NEW s, status' = [status EXCEPT ![b] = s]
    PROVE  /\ s = "pending" => LedgerEntry' = [LedgerEntry EXCEPT ![b] = "held"]
           /\ s = "confirmed" => LedgerEntry' = [LedgerEntry EXCEPT ![b] = "firm"]
           /\ s \in {"failed", "canceled"} => LedgerEntry' = [LedgerEntry EXCEPT ![b] = "over"]
  <1>1. status'[b] = s /\ \A x \in Bookings \ {b} : status'[x] = status[x]
    BY DEF TypeOK
  <1>2. ASSUME NEW v, LedgerEntry'[b] = v
        PROVE  LedgerEntry' = [LedgerEntry EXCEPT ![b] = v]
    <2>1. \A x \in Bookings \ {b} : LedgerEntry'[x] = LedgerEntry[x]
      BY <1>1 DEF LedgerEntry
    <2>2. /\ LedgerEntry = [x \in Bookings |-> LedgerEntry[x]]
          /\ LedgerEntry' = [x \in Bookings |-> LedgerEntry'[x]]
      BY DEF LedgerEntry
    <2> QED
      BY <1>2, <2>1, <2>2
  <1>3. /\ s = "pending" => LedgerEntry'[b] = "held"
        /\ s = "confirmed" => LedgerEntry'[b] = "firm"
        /\ s \in {"failed", "canceled"} => LedgerEntry'[b] = "over"
    BY <1>1 DEF LedgerEntry
  <1> QED
    BY <1>2, <1>3

\* Every step of the saga is one of the ledger's, or none.  That a claim is a
\* reservation needs mutual exclusion in the state it leads to.
LEMMA LedgerStep ==
    ASSUME BaseInv, ReleasedWhileLive, NoDoubleBooking', [Next]_vars
    PROVE  [Ledger!Next]_LedgerEntry
  <1> USE DEF BaseInv, storeVars
  <1>1. ASSUME UNCHANGED status
        PROVE  UNCHANGED LedgerEntry
    BY <1>1 DEF LedgerEntry
  <1>2. ASSUME NEW b \in Bookings, ClaimSlot(b)
        PROVE  [Ledger!Next]_LedgerEntry
    <2>1. CASE UNCHANGED status
      BY <1>1, <2>1
    <2>2. CASE ~UNCHANGED status
      <3>1. status' = [status EXCEPT ![b] = "pending"] /\ status[b] = "none"
        BY <1>2, <2>2 DEF ClaimSlot, Claimable
      <3>2. \A x \in Bookings \ {b} : LedgerEntry[x] \in {"held", "firm"}
               => ~SlotConflict(b, x)
        <4> SUFFICES ASSUME NEW x \in Bookings \ {b}, LedgerEntry[x] \in {"held", "firm"}
                     PROVE  ~SlotConflict(b, x)
          OBVIOUS
        <4>1. status[x] \in {"pending", "confirmed"}
          BY EntryOf DEF Live
        <4>2. status'[x] \in {"pending", "confirmed"} /\ status'[b] = "pending"
          BY <3>1, <4>1 DEF TypeOK
        <4>3. Live(x)' /\ Live(b)'
          BY <4>2 DEF Live
        <4> QED
          BY <4>3 DEF NoDoubleBooking, SlotConflict
      <3>3. Ledger!Reserve(b)
        BY <3>1, <3>2, EntryOf, EntryUpdate DEF Ledger!Reserve, Ledger!Holds
      <3> QED
        BY <3>3 DEF Ledger!Next
    <2> QED
      BY <2>1, <2>2
  <1>3. ASSUME NEW b \in Bookings, Confirm(b)
        PROVE  [Ledger!Next]_LedgerEntry
    <2>1. CASE UNCHANGED status
      BY <1>1, <2>1
    <2>2. CASE ~UNCHANGED status
      <3>1. status' = [status EXCEPT ![b] = "confirmed"] /\ status[b] = "pending"
        BY <1>3, <2>2 DEF Confirm, PhaseInv, Phase
      <3>2. Ledger!Settle(b)
        BY <3>1, EntryOf, EntryUpdate DEF Ledger!Settle
      <3> QED
        BY <3>2 DEF Ledger!Next
    <2> QED
      BY <2>1, <2>2
  <1>4. ASSUME NEW b \in Bookings, Live(b), NEW s \in {"failed", "canceled"},
               status' = [status EXCEPT ![b] = s]
        PROVE  [Ledger!Next]_LedgerEntry
    <2>1. LedgerEntry[b] \in {"held", "firm"}
      BY <1>4, EntryOf DEF Live
    <2>2. Ledger!Close(b)
      BY <1>4, <2>1, EntryUpdate DEF Ledger!Close, Ledger!Holds
    <2> QED
      BY <2>2 DEF Ledger!Next
  <1>5. ASSUME NEW b \in Bookings, Fail(b)
        PROVE  [Ledger!Next]_LedgerEntry
    <2>1. Live(b)
      BY <1>5 DEF Fail, PhaseInv, Phase
    <2>2. UNCHANGED status \/ status' = [status EXCEPT ![b] = "failed"]
      BY <1>5 DEF Fail
    <2> QED
      BY <1>1, <1>4, <2>1, <2>2
  <1>6. ASSUME NEW c \in Calls, Release(c)
        PROVE  [Ledger!Next]_LedgerEntry
    <2>1. callBooking[c] \in Bookings /\ Live(callBooking[c])
      BY <1>6 DEF Release, CallInv, ReleasedWhileLive
    <2>2. UNCHANGED status \/ status' = [status EXCEPT ![callBooking[c]] = "canceled"]
      BY <1>6 DEF Release
    <2> QED
      BY <1>1, <1>4, <2>1, <2>2
  <1>7. ASSUME NEW b \in Bookings,
               Submit(b) \/ Recheck(b) \/ Connect(b) \/ Insert(b) \/ Undo(b)
                 \/ Reply(b) \/ HangUp(b) \/ Crash(b)
        PROVE  UNCHANGED status
    BY <1>7 DEF Submit, Recheck, Connect, Insert, Undo, Reply, HangUp, Crash
  <1>8. ASSUME NEW c \in Calls, Ask(c) \/ ReadMeeting(c) \/ DeleteNext(c)
                 \/ HangUpCall(c) \/ CrashCall(c)
        PROVE  UNCHANGED status
    BY <1>8 DEF Ask, ReadMeeting, DeleteNext, HangUpCall, CrashCall
  <1>9. ASSUME MoveDestination \/ UNCHANGED vars
        PROVE  UNCHANGED status
    BY <1>9 DEF MoveDestination, vars
  <1> QED
    BY <1>1, <1>2, <1>3, <1>5, <1>6, <1>7, <1>8, <1>9
       DEF Next, CreateStep, CancelStep

\* Unless a booking is released twice, every behaviour of the two stores is one
\* of the ledger, under every fault: nothing is booked over a live booking,
\* nothing is confirmed that was not claimed, and nothing that is over comes
\* back.
THEOREM SagaImplementsLedger == Spec /\ []ReleasedWhileLive => ImplementsLedger
  <1>1. Init => Ledger!Init
    BY DEF Init, Ledger!Init, LedgerEntry
  <1>2. BaseInv /\ ReleasedWhileLive /\ NoDoubleBooking' /\ [Next]_vars
           => [Ledger!Next]_LedgerEntry
    BY LedgerStep
  <1> QED
    BY <1>1, <1>2, BaseInvariant, MutualExclusion, PTL
       DEF Spec, ImplementsLedger, Ledger!Spec

\* So it does where a second delete is an error and the destination stays.
THEOREM SettledSagaImplementsLedger ==
    ASSUME GoneIsAnError
    PROVE  Spec /\ [][UNCHANGED dest]_vars => ImplementsLedger
  <1>1. SlotInv => ReleasedWhileLive
    BY SlotsReleasedOnce
  <1> QED
    BY <1>1, SettledDestination, SlotInvariant, SagaImplementsLedger, PTL
=============================================================================
