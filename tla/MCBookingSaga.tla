---------------------------- MODULE MCBookingSaga ----------------------------
(***************************************************************************)
(* Small instances of BookingSaga.  Slots are chosen so that only the      *)
(* buffers, or only the last bucket, make two bookings conflict.           *)
(***************************************************************************)
EXTENDS BookingSaga, TLC

CONSTANTS b1, b2, b3

\* A meeting that ends at 10 with 7 minutes after it, and one that starts
\* at 15: they meet in the bucket of minute 15 only.
TwoSlots == b1 :> [start |-> 5,  end |-> 10, before |-> 0, after |-> 7]
         @@ b2 :> [start |-> 15, end |-> 20, before |-> 0, after |-> 0]

OneSlot == b1 :> TwoSlots[b1]

\* The same, and a third that conflicts with the second but not the first.
ThreeSlots == b1 :> [start |-> 5,  end |-> 10, before |-> 0, after |-> 7]
           @@ b2 :> [start |-> 15, end |-> 20, before |-> 0, after |-> 0]
           @@ b3 :> [start |-> 20, end |-> 25, before |-> 3, after |-> 0]

CallSymmetry == Permutations(Calls)
=============================================================================
