------------------------------ MODULE MCStores ------------------------------
(***************************************************************************)
(* Small instances of Stores.                                              *)
(***************************************************************************)
EXTENDS Stores, TLC

CONSTANTS intro, other, chat, b1, b2

\* The document of intro comes before that of other.
IntroFirst == intro :> 1 @@ other :> 2

\* Two bookings that share one lock of two.
ShareOne == b1 :> {1, 2} @@ b2 :> {2, 3}

TabSymmetry == Permutations(Tabs)
=============================================================================
