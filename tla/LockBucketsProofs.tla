------------------------- MODULE LockBucketsProofs -------------------------
(***************************************************************************)
(* Why disjoint lock sets are enough: the transaction that claims a        *)
(* booking looks at document names only, and these theorems relate the     *)
(* names to the times.                                                     *)
(***************************************************************************)
EXTENDS LockBuckets, TLAPS

\* Truncate gives the one bucket boundary in the five minutes up to t.
LEMMA TruncateBounds ==
    ASSUME NEW t \in Int
    PROVE  /\ Truncate(t) \in Int
           /\ Truncate(t) <= t
           /\ t < Truncate(t) + BucketMinutes
           /\ Truncate(t) % BucketMinutes = 0
  BY DEF Truncate, BucketMinutes

\* Rounding down keeps the order.
LEMMA TruncateMonotone ==
    ASSUME NEW s \in Int, NEW t \in Int, s <= t
    PROVE  Truncate(s) <= Truncate(t)
  BY DEF Truncate, BucketMinutes

\* A window's claim is an interval of integers that is not empty.
LEMMA ClaimIsInterval ==
    ASSUME NEW w \in Window, w.start < w.end
    PROVE  /\ ClaimStart(w) \in Int
           /\ ClaimEnd(w) \in Int
           /\ ClaimStart(w) < ClaimEnd(w)
  BY DEF Window, ClaimStart, ClaimEnd

\* lockIDs names the bucket of every instant of the widened interval.
LEMMA InstantsAreLocked ==
    ASSUME NEW w \in Window, w.start < w.end, NEW t \in Int,
           ClaimStart(w) <= t, t < ClaimEnd(w)
    PROVE  Truncate(t) \in LockIDs(w)
  <1>1. /\ ClaimStart(w) \in Int
        /\ ClaimEnd(w) \in Int
    BY ClaimIsInterval
  <1>2. /\ Truncate(t) \in Int
        /\ Truncate(t) < ClaimEnd(w)
        /\ Truncate(t) % BucketMinutes = 0
    BY <1>1, TruncateBounds
  <1>3. /\ Truncate(ClaimStart(w)) \in Int
        /\ Truncate(ClaimStart(w)) <= Truncate(t)
    BY <1>1, TruncateBounds, TruncateMonotone
  <1> QED
    BY <1>1, <1>2, <1>3 DEF LockIDs

\* Two bookings whose widened intervals have an instant in common ask for a
\* common lock document, whatever their lengths and buffers: the rounding
\* loses no conflict.
THEOREM OverlapSharesLock ==
    ASSUME NEW v \in Window, v.start < v.end,
           NEW w \in Window, w.start < w.end,
           ClaimsOverlap(v, w)
    PROVE  LockIDs(v) \cap LockIDs(w) # {}
  <1>1. /\ ClaimStart(v) \in Int /\ ClaimEnd(v) \in Int /\ ClaimStart(v) < ClaimEnd(v)
        /\ ClaimStart(w) \in Int /\ ClaimEnd(w) \in Int /\ ClaimStart(w) < ClaimEnd(w)
    BY ClaimIsInterval
  <1>2. ClaimStart(v) < ClaimEnd(w) /\ ClaimStart(w) < ClaimEnd(v)
    BY DEF ClaimsOverlap
  <1>3. CASE ClaimStart(v) <= ClaimStart(w)
    <2>1. Truncate(ClaimStart(w)) \in LockIDs(v)
      BY <1>1, <1>2, <1>3, InstantsAreLocked
    <2>2. Truncate(ClaimStart(w)) \in LockIDs(w)
      BY <1>1, InstantsAreLocked
    <2> QED
      BY <2>1, <2>2
  <1>4. CASE ClaimStart(w) <= ClaimStart(v)
    <2>1. Truncate(ClaimStart(v)) \in LockIDs(w)
      BY <1>1, <1>2, <1>4, InstantsAreLocked
    <2>2. Truncate(ClaimStart(v)) \in LockIDs(v)
      BY <1>1, InstantsAreLocked
    <2> QED
      BY <2>1, <2>2
  <1> QED
    BY <1>1, <1>3, <1>4
=============================================================================
