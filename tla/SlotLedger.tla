----------------------------- MODULE SlotLedger -----------------------------
(***************************************************************************)
(* What booking promises, without saying how: a ledger in which a booking  *)
(* is written only while no other live entry conflicts with it, becomes    *)
(* firm at most once, and once over never comes back.  There are no locks, *)
(* no calendar and no failures here; BookingSaga implements it.            *)
(***************************************************************************)
CONSTANTS
    Bookings,           \* the entries that may ever be written
    Conflicts(_, _)     \* two bookings that want the same time

VARIABLE entry          \* entry[b]: "absent", "held", "firm" or "over"

Holds(b) == entry[b] \in {"held", "firm"}

Init == entry = [b \in Bookings |-> "absent"]

Reserve(b) ==
    /\ entry[b] = "absent"
    /\ \A other \in Bookings \ {b} : Holds(other) => ~Conflicts(b, other)
    /\ entry' = [entry EXCEPT ![b] = "held"]

Settle(b) ==
    /\ entry[b] = "held"
    /\ entry' = [entry EXCEPT ![b] = "firm"]

Close(b) ==
    /\ Holds(b)
    /\ entry' = [entry EXCEPT ![b] = "over"]

Next == \E b \in Bookings : Reserve(b) \/ Settle(b) \/ Close(b)

Spec == Init /\ [][Next]_entry
=============================================================================
