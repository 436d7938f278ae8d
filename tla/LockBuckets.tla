---------------------------- MODULE LockBuckets ----------------------------
(***************************************************************************)
(* The arithmetic behind the slot claim (internal/booking/service.go,      *)
(* lockIDs): the time a booking wants for itself is its meeting widened by *)
(* the two buffers, and it is locked through the five-minute buckets that  *)
(* the widened interval touches.                                           *)
(*                                                                         *)
(* Time is counted in minutes.  A bucket is named by its first minute, as  *)
(* the document id "slot-<unix time>" is.                                  *)
(***************************************************************************)
EXTENDS Integers

BucketMinutes == 5

\* A booking's interval and the buffers of its meeting type.
Window == [start : Int, end : Int, before : Nat, after : Nat]

ClaimStart(w) == w.start - w.before
ClaimEnd(w)   == w.end + w.after

\* time.Truncate: the last bucket boundary at or before t.
Truncate(t) == t - (t % BucketMinutes)

\* Plausible slip: the walk starts at the unrounded instant, so bookings whose
\* buffers are not multiples of five name different documents.
UnalignedLockIDs(w) ==
    {t \in ClaimStart(w) .. ClaimEnd(w) - 1 :
        (t - ClaimStart(w)) % BucketMinutes = 0}

\* The buckets from the truncated start, one every five minutes, up to but
\* not including the end of the widened interval.
LockIDs(w) ==
    {t \in Truncate(ClaimStart(w)) .. ClaimEnd(w) - 1 : t % BucketMinutes = 0}

\* The two widened intervals, half-open, have an instant in common.
ClaimsOverlap(v, w) == ClaimStart(v) < ClaimEnd(w) /\ ClaimStart(w) < ClaimEnd(v)
=============================================================================
