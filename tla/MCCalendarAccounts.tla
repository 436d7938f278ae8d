------------------------- MODULE MCCalendarAccounts -------------------------
(***************************************************************************)
(* Small instances of CalendarAccounts.                                    *)
(***************************************************************************)
EXTENDS CalendarAccounts, TLC

CONSTANTS t1, t2, laptop

\* Two tabs of one browser: they share its cookies.
OneBrowser == t1 :> laptop @@ t2 :> laptop

\* The tabs of one browser are alike, and so are invitations.
Symmetry == Permutations({t1, t2}) \cup Permutations(Invites)
=============================================================================
