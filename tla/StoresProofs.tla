---------------------------- MODULE StoresProofs ----------------------------
(***************************************************************************)
(* Proofs about the two stores, for any number of meeting types, slugs,    *)
(* tabs, external blocks, bookings and locks.                              *)
(***************************************************************************)
EXTENDS Stores, TLAPS

\* The first state is of the types.
LEMMA InitTypeOK == Init => TypeOK
  <1> USE StoreAssumption DEF Init, TypeOK
  <1>1. Init => {booked, kept} \subseteq
          [status : [Bookings -> {"none", "pending", "confirmed", "failed", "canceled"}],
           lock : [Locks -> Bookings \cup {NoBooking}]]
    BY DEF NothingBooked
  <1>2. Init => /\ docs \in [Ids -> Record \cup {NoRecord}]
                /\ entries \in [Slugs -> Record \cup {NoRecord}]
                /\ \A i \in Ids : docs[i] = NoRecord
                /\ \A s \in Slugs : entries[s] = NoRecord
                /\ draft \in [Tabs -> Ids \cup {NoId}]
                /\ stale = {} /\ clashed = FALSE
    OBVIOUS
  <1>3. Init => blocks \in [Blocks -> Spans \cup {NoBlock}]
    OBVIOUS
  <1> QED
    BY <1>1, <1>2, <1>3

-------------------------------------------------------------------------------
\* Meeting types.

\* What Memory's put and delete keep: an entry is under its slug, and its id is
\* under no other.
Keyed(e) ==
    /\ e \in [Slugs -> Record \cup {NoRecord}]
    /\ \A s \in Slugs : e[s] # NoRecord => e[s].slug = s
    /\ \A r, s \in Slugs : e[r] # NoRecord /\ e[s] # NoRecord /\ e[r].id = e[s].id => r = s

\* Keyed says of entries what the types say of them.
LEMMA EntriesKeyed ==
    ASSUME NEW e
    PROVE  Keyed(e) <=>
             /\ e \in [Slugs -> Record \cup {NoRecord}]
             /\ \A s \in Slugs : e[s] # NoRecord =>
                   /\ e[s].slug = s
                   /\ {m \in {e[r] : r \in Slugs} \ {NoRecord} : m.id = e[s].id} = {e[s]}
  <1>1. ASSUME NEW r \in Slugs, NEW s \in Slugs, e[r] # NoRecord, e[s] # NoRecord,
               e[r].id = e[s].id,
               \A u \in Slugs : e[u] # NoRecord =>
                  /\ e[u].slug = u
                  /\ {m \in {e[v] : v \in Slugs} \ {NoRecord} : m.id = e[u].id} = {e[u]}
        PROVE  r = s
    <2>1. e[r] \in {m \in {e[v] : v \in Slugs} \ {NoRecord} : m.id = e[s].id}
      BY <1>1
    <2> QED
      BY <1>1, <2>1
  <1>2. ASSUME Keyed(e), NEW s \in Slugs, e[s] # NoRecord
        PROVE  {m \in {e[r] : r \in Slugs} \ {NoRecord} : m.id = e[s].id} = {e[s]}
    BY <1>2 DEF Keyed
  <1> QED
    BY <1>1, <1>2 DEF Keyed

\* A record that is put is the only one with its id and the only one at its slug.
LEMMA MemoryPutKeyed ==
    ASSUME Keyed(entries), NEW m \in Record, MemoryPut(m)
    PROVE  Keyed(entries')
  BY SentinelAssumption DEF Keyed, MemoryPut, Record

\* A delete only marks entries.
LEMMA MemoryDeleteKeyed ==
    ASSUME Keyed(entries), NEW id \in Ids, MemoryDelete(id)
    PROVE  Keyed(entries')
  <1>1. entries \in [Slugs -> Record \cup {NoRecord}]
    BY DEF Keyed
  <1>2. ASSUME NEW s \in Slugs
        PROVE  /\ entries'[s] \in Record \cup {NoRecord}
               /\ entries'[s] # NoRecord =>
                     /\ entries[s] # NoRecord
                     /\ entries'[s].id = entries[s].id
                     /\ entries'[s].slug = entries[s].slug
    <2>1. CASE entries[s] # NoRecord /\ entries[s].id = id
      <3>1. entries'[s] = [entries[s] EXCEPT !.deleted = TRUE] /\ entries[s] \in Record
        BY <1>1, <2>1 DEF MemoryDelete
      <3> QED
        BY <2>1, <3>1 DEF Record
    <2>2. CASE ~(entries[s] # NoRecord /\ entries[s].id = id)
      BY <1>1, <2>2 DEF MemoryDelete
    <2> QED
      BY <2>1, <2>2
  <1>3. entries' \in [Slugs -> Record \cup {NoRecord}]
    BY <1>2 DEF MemoryDelete
  <1> QED
    BY <1>2, <1>3 DEF Keyed

\* A document is stored under its id.
LEMMA FirestorePutTyped ==
    ASSUME docs \in [Ids -> Record \cup {NoRecord}],
           \A i \in Ids : docs[i] # NoRecord => docs[i].id = i,
           NEW m \in Record, FirestorePut(m)
    PROVE  /\ docs' \in [Ids -> Record \cup {NoRecord}]
           /\ \A i \in Ids : docs'[i] # NoRecord => docs'[i].id = i
  BY SentinelAssumption DEF FirestorePut, Record

\* A deleted document keeps its id.
LEMMA FirestoreDeleteTyped ==
    ASSUME docs \in [Ids -> Record \cup {NoRecord}],
           \A i \in Ids : docs[i] # NoRecord => docs[i].id = i,
           NEW id \in Ids, docs[id] # NoRecord, FirestoreDelete(id)
    PROVE  /\ docs' \in [Ids -> Record \cup {NoRecord}]
           /\ \A i \in Ids : docs'[i] # NoRecord => docs'[i].id = i
           /\ docs'[id] = [docs[id] EXCEPT !.deleted = TRUE]
           /\ docs'[id] \in Record
           /\ \A i \in Ids \ {id} : docs'[i] = docs[i]
  BY SentinelAssumption DEF FirestoreDelete, Record

\* What a tab sends is a record.
LEMMA SentRecord ==
    ASSUME TypeOK, NEW t \in Tabs, NEW slug \in Slugs, NEW active \in BOOLEAN,
           NEW hidden \in BOOLEAN, Save(t, slug, active, hidden)
    PROVE  \E m \in Record :
              /\ m.id = draft[t] /\ m.slug = slug /\ ~m.deleted
              /\ FirestorePut(m)
              /\ MemoryPut(m)
  <1>1. draft[t] \in Ids
    BY DEF TypeOK, Save
  <1>2. [id |-> draft[t], slug |-> slug, active |-> active, hidden |-> hidden,
         deleted |-> FALSE] \in Record
    BY <1>1 DEF Record
  <1> QED
    BY <1>2 DEF Save

\* What the administration page does keeps the types.
LEMMA PageTypeOK ==
    ASSUME TypeOK, NEW t \in Tabs,
           \/ \E id \in Ids : Load(t, id) \/ New(t, id)
           \/ \E slug \in Slugs, active, hidden \in BOOLEAN : Save(t, slug, active, hidden)
           \/ Delete(t) \/ Close(t)
    PROVE  TypeOK'
  <1> USE StoreAssumption DEF bookingVars
  <1>1. /\ docs \in [Ids -> Record \cup {NoRecord}]
        /\ \A i \in Ids : docs[i] # NoRecord => docs[i].id = i
        /\ draft \in [Tabs -> Ids \cup {NoId}]
        /\ Keyed(entries)
    BY EntriesKeyed DEF TypeOK, MemoryRecord, Entries
  <1>2. ASSUME docs' \in [Ids -> Record \cup {NoRecord}],
               \A i \in Ids : docs'[i] # NoRecord => docs'[i].id = i,
               Keyed(entries'),
               draft' \in [Tabs -> Ids \cup {NoId}],
               stale' \in SUBSET {u \in Tabs : draft'[u] # NoId},
               clashed' \in BOOLEAN,
               UNCHANGED <<blocks, bookingVars>>
        PROVE  TypeOK'
    <2>1. /\ entries' \in [Slugs -> Record \cup {NoRecord}]
          /\ (\A s \in Slugs : entries[s] # NoRecord =>
                entries[s].slug = s /\ MemoryRecord(entries[s].id) = {entries[s]})'
      BY <1>2, EntriesKeyed DEF MemoryRecord, Entries
    <2> QED
      BY <1>2, <2>1 DEF TypeOK
  <1>3. ASSUME NEW id \in Ids, Load(t, id) \/ New(t, id)
        PROVE  TypeOK'
    <2>1. /\ draft' = [draft EXCEPT ![t] = id]
          /\ draft[t] = NoId
          /\ UNCHANGED <<docs, entries, stale, clashed, blocks, bookingVars>>
      BY <1>3 DEF Load, New
    <2>2. draft' \in [Tabs -> Ids \cup {NoId}]
      BY <1>1, <2>1
    <2>3. stale' \in SUBSET {u \in Tabs : draft'[u] # NoId}
      <3>1. stale \in SUBSET {u \in Tabs : draft[u] # NoId}
        BY DEF TypeOK
      <3>2. id # NoId
        OBVIOUS
      <3> QED
        BY <1>1, <2>1, <3>1, <3>2
    <2>4. clashed' \in BOOLEAN
      BY <2>1 DEF TypeOK
    <2> QED
      BY <1>1, <1>2, <2>1, <2>2, <2>3, <2>4
  <1>4. CASE Close(t)
    BY <1>1, <1>2, <1>4 DEF Close, TypeOK
  <1>5. CASE Delete(t)
    BY <1>1, <1>2, <1>5, FirestoreDeleteTyped, MemoryDeleteKeyed
    DEF Delete, OthersEditing, TypeOK
  <1>6. ASSUME NEW slug \in Slugs, NEW active \in BOOLEAN, NEW hidden \in BOOLEAN,
               Save(t, slug, active, hidden)
        PROVE  TypeOK'
    <2>1. stale' \in SUBSET {u \in Tabs : draft'[u] # NoId} /\ clashed' \in BOOLEAN
      BY <1>6 DEF Save, OthersEditing, TypeOK
    <2> QED
      BY <1>1, <1>2, <1>6, <2>1, SentRecord, FirestorePutTyped, MemoryPutKeyed DEF Save
  <1> QED
    BY <1>3, <1>4, <1>5, <1>6

\* The bridge's calls, and those of the booking service, keep the types; and the
\* two stores keep the same bookings.
LEMMA OthersTypeOK ==
    ASSUME TypeOK, BookingsAgree,
           \/ \E k \in Blocks, span \in Spans : PutExternalBlock(k, span)
           \/ \E k \in Blocks : DeleteExternalBlock(k)
           \/ \E b \in Bookings :
                 ClaimBooking(b) \/ ConfirmBooking(b) \/ FailBooking(b) \/ CancelBooking(b)
    PROVE  TypeOK' /\ BookingsAgree'
  <1> USE StoreAssumption
  <1> DEFINE BookingType ==
          [status : [Bookings -> {"none", "pending", "confirmed", "failed", "canceled"}],
           lock : [Locks -> Bookings \cup {NoBooking}]]
  <1>1. /\ blocks \in [Blocks -> Spans \cup {NoBlock}]
        /\ booked \in BookingType /\ kept = booked
    BY DEF TypeOK, BookingsAgree
  <1>2. ASSUME UNCHANGED <<docs, entries, draft, stale, clashed>>,
               blocks' \in [Blocks -> Spans \cup {NoBlock}],
               booked' \in BookingType, kept' = booked'
        PROVE  TypeOK' /\ BookingsAgree'
    BY <1>2 DEF TypeOK, BookingsAgree, MemoryRecord, Entries
  <1>3. ASSUME NEW k \in Blocks, NEW span \in Spans, PutExternalBlock(k, span)
        PROVE  TypeOK' /\ BookingsAgree'
    BY <1>1, <1>2, <1>3 DEF PutExternalBlock, typeVars, bookingVars
  <1>4. ASSUME NEW k \in Blocks, DeleteExternalBlock(k)
        PROVE  TypeOK' /\ BookingsAgree'
    BY <1>1, <1>2, <1>4 DEF DeleteExternalBlock, typeVars, bookingVars
  <1>5. ASSUME NEW b \in Bookings, ClaimBooking(b)
        PROVE  TypeOK' /\ BookingsAgree'
    <2>1. Claimed(booked, b) \in BookingType
      BY <1>1 DEF Claimed
    <2>2. booked' \in {booked, Claimed(booked, b)} /\ kept' = booked'
      BY <1>1, <1>5 DEF ClaimBooking, FirestoreClaim, MemoryClaim
    <2> QED
      BY <1>1, <1>2, <1>5, <2>1, <2>2 DEF ClaimBooking, typeVars
  <1>6. ASSUME NEW b \in Bookings, ConfirmBooking(b)
        PROVE  TypeOK' /\ BookingsAgree'
    <2>1. Confirmed(booked, b) \in BookingType
      BY <1>1 DEF Confirmed
    <2> QED
      BY <1>1, <1>2, <1>6, <2>1 DEF ConfirmBooking, typeVars
  <1>7. ASSUME NEW b \in Bookings, FailBooking(b) \/ CancelBooking(b)
        PROVE  TypeOK' /\ BookingsAgree'
    <2>1. \A status \in {"failed", "canceled"} : FirestoreRelease(b, status) \in BookingType
      BY <1>1 DEF FirestoreRelease
    <2>2. \E status \in {"failed", "canceled"} : 
             booked' = FirestoreRelease(b, status) /\ kept' = booked'
      BY <1>1, <1>7 DEF FailBooking, CancelBooking, FirestoreRelease, MemoryRelease
    <2> QED
      BY <1>1, <1>2, <1>7, <2>1, <2>2 DEF FailBooking, CancelBooking, typeVars
  <1> QED
    BY <1>3, <1>4, <1>5, <1>6, <1>7

-------------------------------------------------------------------------------
\* Records are written by putMeetingType and deleteMeetingType only.
LEMMA RecordSteps ==
    ASSUME [Next]_vars
    PROVE  \/ UNCHANGED <<docs, entries, clashed>>
           \/ \E t \in Tabs, slug \in Slugs, active, hidden \in BOOLEAN :
                 Save(t, slug, active, hidden)
           \/ \E t \in Tabs : Delete(t)
  <1> USE DEF vars, typeVars
  <1>1. ASSUME \/ UNCHANGED vars
               \/ \E t \in Tabs, id \in Ids : Load(t, id) \/ New(t, id)
               \/ \E t \in Tabs : Close(t)
               \/ \E k \in Blocks, span \in Spans : PutExternalBlock(k, span)
               \/ \E k \in Blocks : DeleteExternalBlock(k)
               \/ \E b \in Bookings :
                     ClaimBooking(b) \/ ConfirmBooking(b) \/ FailBooking(b) \/ CancelBooking(b)
        PROVE  UNCHANGED <<docs, entries, clashed>>
    BY <1>1 DEF Load, New, Close, PutExternalBlock, DeleteExternalBlock, ClaimBooking,
      ConfirmBooking, FailBooking, CancelBooking
  <1> QED
    BY <1>1 DEF Next

-------------------------------------------------------------------------------
\* Memory has no record that Firestore has not.

\* What Memory has under s after a put is what was put, or was there before and
\* has another id.
LEMMA PutEntries ==
    ASSUME NEW m \in Record, MemoryPut(m), NEW s \in Slugs, entries'[s] # NoRecord
    PROVE  \/ s = m.slug /\ entries'[s] = m
           \/ entries'[s] = entries[s] /\ entries[s].id # m.id
  BY DEF MemoryPut

\* A put replaces the record with its id in both.
LEMMA PutInventsNone ==
    ASSUME TypeOK, NoneInvented, NEW m \in Record, FirestorePut(m), MemoryPut(m)
    PROVE  NoneInvented'
  <1>1. /\ docs \in [Ids -> Record \cup {NoRecord}]
        /\ \A i \in Ids : docs[i] # NoRecord => docs[i].id = i
        /\ m.id \in Ids /\ m # NoRecord
    BY SentinelAssumption DEF TypeOK, Record
  <1>2. docs' = [docs EXCEPT ![m.id] = m]
    BY DEF FirestorePut
  <1>3. m \in Documents'
    BY <1>1, <1>2 DEF Documents
  <1>4. \A n \in Documents : n.id # m.id => n \in Documents'
    BY <1>1, <1>2 DEF Documents
  <1>5. ASSUME NEW s \in Slugs, entries'[s] # NoRecord
        PROVE  entries'[s] \in Documents'
    <2>1. CASE entries'[s] = m
      BY <1>3, <2>1
    <2>2. CASE entries'[s] = entries[s] /\ entries[s].id # m.id
      <3>1. entries[s] \in Documents
        BY <1>5, <2>2 DEF NoneInvented, Entries
      <3> QED
        BY <1>4, <2>2, <3>1
    <2> QED
      BY <1>5, <2>1, <2>2, PutEntries
  <1> QED
    BY <1>5 DEF NoneInvented, Entries

\* A delete marks the record with its id in both.
LEMMA DeleteInventsNone ==
    ASSUME TypeOK, NoneInvented, NEW id \in Ids, docs[id] # NoRecord,
           FirestoreDelete(id), MemoryDelete(id)
    PROVE  NoneInvented'
  <1>1. /\ docs \in [Ids -> Record \cup {NoRecord}]
        /\ \A i \in Ids : docs[i] # NoRecord => docs[i].id = i
    BY DEF TypeOK
  <1>2. /\ docs'[id] = [docs[id] EXCEPT !.deleted = TRUE]
        /\ docs'[id] \in Record
        /\ \A i \in Ids \ {id} : docs'[i] = docs[i]
    BY <1>1, FirestoreDeleteTyped
  <1>3. docs'[id] \in Documents'
    BY <1>2, SentinelAssumption DEF Documents
  <1>4. \A n \in Documents : n.id # id => n \in Documents'
    BY <1>1, <1>2 DEF Documents
  <1>5. \A n \in Documents : n.id = id => n = docs[id]
    BY <1>1 DEF Documents
  <1>6. ASSUME NEW s \in Slugs, entries'[s] # NoRecord
        PROVE  entries'[s] \in Documents'
    <2>1. entries[s] # NoRecord => entries[s] \in Documents
      BY DEF NoneInvented, Entries
    <2>2. CASE entries[s] # NoRecord /\ entries[s].id = id
      <3>1. entries'[s] = [entries[s] EXCEPT !.deleted = TRUE] /\ entries[s] = docs[id]
        BY <1>5, <2>1, <2>2 DEF MemoryDelete
      <3> QED
        BY <1>2, <1>3, <3>1
    <2>3. CASE ~(entries[s] # NoRecord /\ entries[s].id = id)
      <3>1. entries'[s] = entries[s]
        BY <2>3 DEF MemoryDelete
      <3> QED
        BY <1>4, <1>6, <2>1, <2>3, <3>1
    <2> QED
      BY <2>2, <2>3
  <1> QED
    BY <1>6 DEF NoneInvented, Entries

\* Whatever names clash, Memory never has a record that Firestore has not.
LEMMA NoneInventedInductive ==
    ASSUME TypeOK, NoneInvented, [Next]_vars
    PROVE  NoneInvented'
  <1>1. ASSUME NEW t \in Tabs, NEW slug \in Slugs, NEW active \in BOOLEAN,
               NEW hidden \in BOOLEAN, Save(t, slug, active, hidden)
        PROVE  NoneInvented'
    BY <1>1, SentRecord, PutInventsNone
  <1>2. ASSUME NEW t \in Tabs, Delete(t)
        PROVE  NoneInvented'
    <2>1. /\ draft[t] \in Ids /\ docs[draft[t]] # NoRecord
          /\ FirestoreDelete(draft[t]) /\ MemoryDelete(draft[t])
      BY <1>2 DEF Delete, TypeOK
    <2> QED
      BY <2>1, DeleteInventsNone
  <1>3. CASE UNCHANGED <<docs, entries, clashed>>
    BY <1>3 DEF NoneInvented, Documents, Entries
  <1> QED
    BY <1>1, <1>2, <1>3, RecordSteps

-------------------------------------------------------------------------------
\* The two stores have the same records.

\* A put keeps them the same, unless it gives a name another record has.
LEMMA PutKeepsSame ==
    ASSUME TypeOK, DistinctNames, SameRecords, NEW m \in Record,
           ~Clash(m.id, m.slug), FirestorePut(m), MemoryPut(m)
    PROVE  DistinctNames' /\ SameRecords'
  <1> USE SentinelAssumption
  <1>1. /\ docs \in [Ids -> Record \cup {NoRecord}]
        /\ \A i \in Ids : docs[i] # NoRecord => docs[i].id = i
        /\ entries \in [Slugs -> Record \cup {NoRecord}]
        /\ \A s \in Slugs : entries[s] # NoRecord => entries[s].slug = s
        /\ m.id \in Ids /\ m.slug \in Slugs /\ m # NoRecord
    BY DEF TypeOK, Record
  <1>2. /\ docs' \in [Ids -> Record \cup {NoRecord}]
        /\ docs'[m.id] = m
        /\ \A i \in Ids \ {m.id} : docs'[i] = docs[i]
    BY <1>1 DEF FirestorePut
  <1>3. \A s \in Slugs : entries'[s] = IF s = m.slug THEN m
                                       ELSE IF entries[s] # NoRecord /\ entries[s].id = m.id
                                            THEN NoRecord ELSE entries[s]
    BY DEF MemoryPut
  <1>4. \A n \in Documents' : n = m \/ (n \in Documents /\ n.id # m.id)
    BY <1>1, <1>2 DEF Documents
  <1>5. \A n \in Documents : n.id # m.id =>
           n.slug # m.slug /\ n.id # m.slug /\ n.slug # m.id
    BY DEF Clash
  <1>6. DistinctNames'
    BY <1>4, <1>5 DEF DistinctNames
  <1>7. \A n \in Documents' : entries'[n.slug] = n
    <2>1. \A n \in Documents : n \in Record /\ n.slug \in Slugs /\ n # NoRecord
      BY <1>1 DEF Documents, Record
    <2> QED
      BY <1>1, <1>3, <1>4, <1>5, <2>1 DEF SameRecords
  <1> QED
    BY <1>6, <1>7 DEF SameRecords

\* A delete marks the same record in both.
LEMMA DeleteKeepsSame ==
    ASSUME TypeOK, DistinctNames, SameRecords, NEW id \in Ids, docs[id] # NoRecord,
           FirestoreDelete(id), MemoryDelete(id)
    PROVE  DistinctNames' /\ SameRecords'
  <1> USE SentinelAssumption
  <1> DEFINE gone == [docs[id] EXCEPT !.deleted = TRUE]
  <1>1. /\ docs \in [Ids -> Record \cup {NoRecord}]
        /\ \A i \in Ids : docs[i] # NoRecord => docs[i].id = i
        /\ entries \in [Slugs -> Record \cup {NoRecord}]
    BY DEF TypeOK
  <1>2. /\ docs'[id] = gone
        /\ gone \in Record
        /\ \A i \in Ids \ {id} : docs'[i] = docs[i]
    BY <1>1, FirestoreDeleteTyped
  <1>3. gone.id = id /\ gone.slug = docs[id].slug /\ gone # NoRecord
    BY <1>1, <1>2 DEF Record
  <1>4. \A s \in Slugs : entries'[s] = IF entries[s] # NoRecord /\ entries[s].id = id
                                       THEN [entries[s] EXCEPT !.deleted = TRUE]
                                       ELSE entries[s]
    BY DEF MemoryDelete
  <1>5. \A n \in Documents' : n = gone \/ (n \in Documents /\ n.id # id)
    BY <1>1, <1>2 DEF Documents
  <1>6. gone \in Documents' /\ docs[id] \in Documents
    BY <1>2, <1>3 DEF Documents
  <1>7. DistinctNames'
    BY <1>1, <1>3, <1>5, <1>6 DEF DistinctNames
  <1>8. \A n \in Documents : n.slug \in Slugs /\ n # NoRecord
    BY <1>1 DEF Documents, Record
  <1>9. \A n \in Documents' : entries'[n.slug] = n
    <2>1. entries[docs[id].slug] = docs[id] /\ docs[id].slug \in Slugs /\ docs[id].id = id
      BY <1>1, <1>6, <1>8 DEF SameRecords
    <2>2. entries'[gone.slug] = gone
      BY <1>3, <1>4, <2>1
    <2>3. \A n \in Documents : n.id # id => entries'[n.slug] = n
      BY <1>4, <1>8 DEF SameRecords
    <2> QED
      BY <1>5, <2>2, <2>3
  <1> QED
    BY <1>7, <1>9 DEF SameRecords

\* The stores have the same records for as long as no name was given twice.
LEMMA SameInductive ==
    ASSUME TypeOK, ~clashed => DistinctNames /\ SameRecords, [Next]_vars, ~clashed'
    PROVE  DistinctNames' /\ SameRecords'
  <1>1. ASSUME NEW t \in Tabs, NEW slug \in Slugs, NEW active \in BOOLEAN,
               NEW hidden \in BOOLEAN, Save(t, slug, active, hidden)
        PROVE  DistinctNames' /\ SameRecords'
    <2>1. ~clashed /\ ~Clash(draft[t], slug)
      BY <1>1 DEF Save
    <2> QED
      BY <1>1, <2>1, SentRecord, PutKeepsSame
  <1>2. ASSUME NEW t \in Tabs, Delete(t)
        PROVE  DistinctNames' /\ SameRecords'
    <2>1. /\ draft[t] \in Ids /\ docs[draft[t]] # NoRecord /\ ~clashed
          /\ FirestoreDelete(draft[t]) /\ MemoryDelete(draft[t])
      BY <1>2 DEF Delete, TypeOK
    <2> QED
      BY <2>1, DeleteKeepsSame
  <1>3. CASE UNCHANGED <<docs, entries, clashed>>
    BY <1>3 DEF DistinctNames, SameRecords, Documents, Entries
  <1> QED
    BY <1>1, <1>2, <1>3, RecordSteps

-------------------------------------------------------------------------------
\* Tabs.

\* Whoever still edits a type that is deleted has been overtaken: no page
\* offers a tombstone, and a delete marks every other tab that edits the type.
LEMMA StaleInductive ==
    ASSUME TypeOK, StaleInv, [Next]_vars
    PROVE  StaleInv'
  <1> USE StoreAssumption, SentinelAssumption DEF vars, typeVars
  <1>1. /\ docs \in [Ids -> Record \cup {NoRecord}]
        /\ \A i \in Ids : docs[i] # NoRecord => docs[i].id = i
        /\ draft \in [Tabs -> Ids \cup {NoId}]
    BY DEF TypeOK
  <1>2. CASE UNCHANGED <<docs, draft, stale>>
    BY <1>2 DEF StaleInv
  <1>3. ASSUME NEW t \in Tabs, NEW id \in Ids, Load(t, id)
        PROVE  StaleInv'
    <2>1. docs[id] # NoRecord /\ ~docs[id].deleted
      BY <1>1, <1>3 DEF Load, FirestoreListAll, Documents
    <2> QED
      BY <1>1, <1>3, <2>1 DEF Load, StaleInv
  <1>4. ASSUME NEW t \in Tabs, NEW id \in Ids, New(t, id)
        PROVE  StaleInv'
    BY <1>1, <1>4 DEF New, StaleInv
  <1>5. ASSUME NEW t \in Tabs, Close(t)
        PROVE  StaleInv'
    BY <1>1, <1>5 DEF Close, StaleInv
  <1>6. ASSUME NEW t \in Tabs, Delete(t)
        PROVE  StaleInv'
    <2>1. /\ draft[t] \in Ids
          /\ docs[draft[t]] # NoRecord
          /\ FirestoreDelete(draft[t])
          /\ draft' = [draft EXCEPT ![t] = NoId]
          /\ stale' = (stale \cup OthersEditing(t)) \ {t}
      BY <1>1, <1>6 DEF Delete
    <2>2. ASSUME NEW u \in Tabs, draft'[u] # NoId, docs'[draft'[u]] # NoRecord,
                 docs'[draft'[u]].deleted
          PROVE  u \in stale'
      <3>1. u # t /\ draft'[u] = draft[u] /\ draft[u] \in Ids
        BY <1>1, <2>1, <2>2
      <3>2. CASE draft[u] = draft[t]
        BY <2>1, <3>1, <3>2 DEF OthersEditing
      <3>3. CASE draft[u] # draft[t]
        BY <1>1, <2>1, <2>2, <3>1, <3>3 DEF FirestoreDelete, StaleInv
      <3> QED
        BY <3>2, <3>3
    <2> QED
      BY <2>2 DEF StaleInv
  <1>7. ASSUME NEW t \in Tabs, NEW slug \in Slugs, NEW active \in BOOLEAN,
               NEW hidden \in BOOLEAN, Save(t, slug, active, hidden)
        PROVE  StaleInv'
    <2>1. PICK m \in Record : m.id = draft[t] /\ ~m.deleted /\ FirestorePut(m)
      BY <1>7, SentRecord
    <2>2. draft' = draft /\ stale \subseteq stale' \cup {t} /\ draft[t] \in Ids
      BY <1>1, <1>7 DEF Save
    <2>3. docs'[draft[t]] = m /\ \A i \in Ids \ {draft[t]} : docs'[i] = docs[i]
      BY <1>1, <2>1, <2>2 DEF FirestorePut
    <2> QED
      BY <1>1, <2>1, <2>2, <2>3 DEF StaleInv
  <1>8. CASE \/ UNCHANGED vars
             \/ \E k \in Blocks, span \in Spans : PutExternalBlock(k, span)
             \/ \E k \in Blocks : DeleteExternalBlock(k)
             \/ \E b \in Bookings :
                   ClaimBooking(b) \/ ConfirmBooking(b) \/ FailBooking(b) \/ CancelBooking(b)
    BY <1>2, <1>8 DEF PutExternalBlock, DeleteExternalBlock, ClaimBooking, ConfirmBooking,
      FailBooking, CancelBooking
  <1> QED
    BY <1>3, <1>4, <1>5, <1>6, <1>7, <1>8 DEF Next

-------------------------------------------------------------------------------
\* The theorems.

\* Every state of every run satisfies the inductive invariant.
THEOREM StoresInvariant == Spec => []StoresInv
  <1>1. Init => StoresInv
    <2> SUFFICES ASSUME Init
                 PROVE  StoresInv
      OBVIOUS
    <2>1. TypeOK
      BY InitTypeOK
    <2>2. Documents = {} /\ Entries = {}
      BY DEF Init, Documents, Entries
    <2>3. NoneInvented /\ DistinctNames /\ SameRecords
      BY <2>2 DEF NoneInvented, DistinctNames, SameRecords
    <2>4. StaleInv /\ BookingsAgree
      BY DEF Init, StaleInv, BookingsAgree
    <2> QED
      BY <2>1, <2>3, <2>4 DEF StoresInv
  <1>2. StoresInv /\ [Next]_vars => StoresInv'
    <2> SUFFICES ASSUME StoresInv, [Next]_vars
                 PROVE  StoresInv'
      OBVIOUS
    <2> USE DEF StoresInv
    <2>1. TypeOK' /\ BookingsAgree'
      <3>1. CASE UNCHANGED vars
        BY <3>1 DEF vars, typeVars, bookingVars, TypeOK, MemoryRecord, Entries,
          BookingsAgree
      <3>2. ASSUME NEW t \in Tabs,
                   \/ \E id \in Ids : Load(t, id) \/ New(t, id)
                   \/ \E slug \in Slugs, active, hidden \in BOOLEAN :
                        Save(t, slug, active, hidden)
                   \/ Delete(t) \/ Close(t)
            PROVE  TypeOK' /\ BookingsAgree'
        BY <3>2, PageTypeOK
        DEF BookingsAgree, bookingVars, Load, New, Save, Delete, Close
      <3> QED
        BY <3>1, <3>2, OthersTypeOK DEF Next
    <2>2. ~clashed' => DistinctNames' /\ SameRecords'
      BY SameInductive
    <2>3. StaleInv'
      BY StaleInductive
    <2>4. NoneInvented'
      BY NoneInventedInductive
    <2> QED
      BY <2>1, <2>2, <2>3, <2>4
  <1> QED
    BY <1>1, <1>2, PTL DEF Spec

\* The types, of which: a record is under its own key in either store, and in
\* Memory under no other.
THEOREM StoreTypes == Spec => []TypeOK
  <1>1. StoresInv => TypeOK
    BY DEF StoresInv
  <1> QED
    BY <1>1, StoresInvariant, PTL

\* The sequence of calls the booking service makes leaves both stores with the
\* same bookings and locks: what the tests see in Memory is what Firestore does.
THEOREM BookingsStayTheSame == Spec => []BookingsAgree
  <1>1. StoresInv => BookingsAgree
    BY DEF StoresInv
  <1> QED
    BY <1>1, StoresInvariant, PTL

\* Firestore's lookup by id and then by slug, and Memory's by slug and then by
\* id, find the same record when names are distinct.
LEMMA GetsAgree ==
    ASSUME TypeOK, NoneInvented, DistinctNames, SameRecords, NEW name \in Names
    PROVE  FirestoreGet(name) = MemoryGet(name)
  <1> USE StoreAssumption, SentinelAssumption
  <1>1. /\ docs \in [Ids -> Record \cup {NoRecord}]
        /\ \A i \in Ids : docs[i] # NoRecord => docs[i].id = i
        /\ entries \in [Slugs -> Record \cup {NoRecord}]
        /\ \A s \in Slugs : entries[s] # NoRecord => entries[s].slug = s
    BY DEF TypeOK
  <1>2. \A m \in Documents : m.id \in Ids /\ m.slug \in Slugs /\ m # NoRecord /\ m = docs[m.id]
    BY <1>1 DEF Documents, Record
  <1>3. Entries = Documents
    BY <1>2 DEF NoneInvented, SameRecords, Entries
  <1>4. \A m, n \in Documents : m.slug = n.slug \/ m.slug = n.id => m = n
    BY <1>2 DEF DistinctNames
  <1>5. \A s \in Slugs : entries[s] # NoRecord => entries[s] \in Documents
    BY DEF NoneInvented, Entries
  <1>6. CASE name \in Ids /\ docs[name] # NoRecord /\ Live(docs[name])
    <2>1. docs[name] \in Documents /\ docs[name].id = name
      BY <1>1, <1>6 DEF Documents
    <2>2. MemoryRecord(name) = {docs[name]}
      BY <1>2, <1>3, <2>1 DEF MemoryRecord
    <2>3. name \in Slugs /\ entries[name] # NoRecord => entries[name] = docs[name]
      BY <1>1, <1>4, <1>5, <2>1
    <2>4. MemoryGet(name) = {docs[name]}
      BY <1>6, <2>2, <2>3 DEF MemoryGet
    <2> QED
      BY <1>6, <2>4 DEF FirestoreGet
  <1>7. CASE ~(name \in Ids /\ docs[name] # NoRecord /\ Live(docs[name]))
    <2>1. FirestoreGet(name) = {m \in Documents : m.slug = name /\ Live(m)}
      <3>1. FirestoreGet(name) = {m \in FirstActive(name) : ~m.deleted}
        BY <1>7 DEF FirestoreGet
      <3>2. ASSUME NEW m \in Documents, m.slug = name, m.active,
                   NEW other \in Documents, other.slug = name
            PROVE  Rank[m.id] <= Rank[other.id]
        BY <1>2, <1>4, <3>2
      <3>3. FirstActive(name) = {m \in Documents : m.slug = name /\ m.active}
        BY <3>2 DEF FirstActive
      <3> QED
        BY <3>1, <3>3 DEF Live
    <2>2. ASSUME NEW m \in MemoryRecord(name), Live(m)
          PROVE  FALSE
      BY <1>2, <1>3, <1>7, <2>2 DEF MemoryRecord
    <2>3. CASE name \in Slugs /\ entries[name] # NoRecord
      <3>1. MemoryGet(name) = {m \in {entries[name]} : Live(m)}
        BY <2>3 DEF MemoryGet
      <3>2. \A m \in Documents : m.slug = name <=> m = entries[name]
        BY <1>1, <1>2, <1>5, <2>3 DEF SameRecords
      <3> QED
        BY <1>5, <2>1, <2>3, <3>1, <3>2
    <2>4. CASE ~(name \in Slugs /\ entries[name] # NoRecord)
      <3>1. MemoryGet(name) = {}
        BY <2>2, <2>4 DEF MemoryGet
      <3>2. \A m \in Documents : m.slug # name
        BY <1>2, <2>4 DEF SameRecords
      <3> QED
        BY <2>1, <3>1, <3>2
    <2> QED
      BY <2>3, <2>4
  <1> QED
    BY <1>6, <1>7

\* Memory answers no list and no lookup by id with what Firestore has not; and as
\* long as no type was given a name another one has, the two stores answer every
\* read alike, in every state the administration page can bring about.
THEOREM StoresAnswerAlike == Spec => []StoresAgree
  <1>1. StoresInv => StoresAgree
    <2> SUFFICES ASSUME StoresInv
                 PROVE  StoresAgree
      OBVIOUS
    <2>1. TypeOK /\ Entries \subseteq Documents
      BY DEF StoresInv, NoneInvented
    <2>2. \A m \in Documents : m.slug \in Slugs /\ m # NoRecord /\ m = docs[m.id]
      BY <2>1, SentinelAssumption DEF TypeOK, Documents, Record
    <2>3. /\ MemoryList \subseteq FirestoreList
          /\ MemoryListAll \subseteq FirestoreListAll
          /\ \A id \in Ids : MemoryRecord(id) \subseteq FirestoreRecord(id)
      BY <2>1, <2>2
      DEF FirestoreList, MemoryList, FirestoreListAll, MemoryListAll, FirestoreRecord, MemoryRecord
    <2>4. ASSUME ~clashed
          PROVE  /\ FirestoreList = MemoryList
                 /\ FirestoreListAll = MemoryListAll
                 /\ \A id \in Ids : FirestoreRecord(id) = MemoryRecord(id)
                 /\ \A name \in Names : FirestoreGet(name) = MemoryGet(name)
      <3>1. NoneInvented /\ DistinctNames /\ SameRecords
        BY <2>4 DEF StoresInv
      <3>2. Entries = Documents
        BY <2>1, <2>2, <3>1 DEF SameRecords, Entries
      <3>3. FirestoreList = MemoryList /\ FirestoreListAll = MemoryListAll
        BY <3>2 DEF FirestoreList, MemoryList, FirestoreListAll, MemoryListAll
      <3>4. ASSUME NEW id \in Ids
            PROVE  FirestoreRecord(id) = MemoryRecord(id)
        <4>1. docs[id] # NoRecord => docs[id] \in Documents /\ docs[id].id = id
          BY <2>1 DEF TypeOK, Documents
        <4> QED
          BY <2>2, <3>2, <4>1 DEF FirestoreRecord, MemoryRecord
      <3> QED
        BY <2>1, <3>1, <3>3, <3>4, GetsAgree
    <2> QED
      BY <2>3, <2>4 DEF StoresAgree
  <1> QED
    BY <1>1, StoresInvariant, PTL

\* PutMeetingType of Memory removes another type only from the slug it takes, and
\* nothing else removes any.
THEOREM LostToTheSlugOnly == Spec => LostOnlyToItsSlug
  <1>1. TypeOK /\ [Next]_vars =>
          [\A id \in Ids : \A m \in MemoryRecord(id) :
             MemoryRecord(id)' = {} =>
                 /\ entries'[m.slug] # NoRecord
                 /\ entries'[m.slug].id # id]_vars
    <2> SUFFICES ASSUME TypeOK, [Next]_vars, NEW id \in Ids, NEW m \in MemoryRecord(id),
                        MemoryRecord(id)' = {}
                 PROVE  entries'[m.slug] # NoRecord /\ entries'[m.slug].id # id
      OBVIOUS
    <2>1. /\ entries \in [Slugs -> Record \cup {NoRecord}]
          /\ m # NoRecord /\ m.id = id /\ m.slug \in Slugs
          /\ entries[m.slug] = m
      BY DEF TypeOK, MemoryRecord, Entries
    <2>2. \A s \in Slugs : entries'[s] # NoRecord => entries'[s].id # id
      BY DEF MemoryRecord, Entries
    <2>3. ASSUME NEW t \in Tabs, NEW slug \in Slugs, NEW active \in BOOLEAN,
                 NEW hidden \in BOOLEAN, Save(t, slug, active, hidden)
          PROVE  entries'[m.slug] # NoRecord
      <3>1. PICK n \in Record : MemoryPut(n)
        BY <2>3, SentRecord
      <3>2. n # NoRecord /\ n.slug \in Slugs /\ entries'[n.slug] = n
        BY <3>1, SentinelAssumption DEF MemoryPut, Record
      <3>3. n.id # id
        BY <2>2, <3>2
      <3>4. m.slug # n.slug => entries'[m.slug] = m
        BY <2>1, <3>1, <3>3 DEF MemoryPut
      <3> QED
        BY <2>1, <3>2, <3>4
    <2>4. ASSUME NEW t \in Tabs, Delete(t)
          PROVE  entries'[m.slug] # NoRecord
      <3>1. entries'[m.slug] \in {m, [m EXCEPT !.deleted = TRUE]}
        BY <2>1, <2>4 DEF Delete, MemoryDelete
      <3>2. m \in Record /\ [m EXCEPT !.deleted = TRUE] \in Record
        BY <2>1 DEF Record
      <3> QED
        BY <3>1, <3>2, SentinelAssumption
    <2>5. CASE UNCHANGED <<docs, entries, clashed>>
      BY <2>1, <2>2, <2>5
    <2> QED
      BY <2>1, <2>2, <2>3, <2>4, <2>5, RecordSteps
  <1> QED
    BY <1>1, StoreTypes, PTL DEF Spec, LostOnlyToItsSlug

\* An active type is found at its own address, in Firestore, unless another active
\* record has its slug or a type on offer its slug for id: be it hidden, and
\* whatever names clash elsewhere.
THEOREM TypesReachable == Spec => []ReachableAtSlug
  <1>1. TypeOK => ReachableAtSlug
    <2> SUFFICES ASSUME TypeOK, NEW m \in Documents, Live(m),
                        \A other \in Documents \ {m} :
                            /\ other.active => other.slug # m.slug
                            /\ Live(other) => other.id # m.slug
                 PROVE  FirestoreGet(m.slug) = {m}
      BY DEF ReachableAtSlug
    <2>1. /\ docs \in [Ids -> Record \cup {NoRecord}]
          /\ \A i \in Ids : docs[i] # NoRecord => docs[i].id = i
      BY DEF TypeOK
    <2>2. m.id \in Ids /\ Rank[m.id] <= Rank[m.id]
      BY <2>1, StoreAssumption, SentinelAssumption DEF Documents, Record
    <2>3. FirstActive(m.slug) = {m}
      BY <2>2 DEF FirstActive, Live
    <2>4. m.slug \in Ids /\ docs[m.slug] # NoRecord /\ Live(docs[m.slug]) => docs[m.slug] = m
      BY <2>1 DEF Documents
    <2> QED
      BY <2>3, <2>4 DEF FirestoreGet, Live
  <1> QED
    BY <1>1, StoreTypes, PTL

\* No list and no lookup of either store gives a deleted type.
THEOREM TombstonesHidden == Spec => []DeletedIsGone
  <1>1. DeletedIsGone
    BY DEF DeletedIsGone, FirestoreList, FirestoreListAll, MemoryList, MemoryListAll,
      FirestoreGet, MemoryGet, FirstActive, Live
  <1> QED
    BY <1>1, PTL

\* A record, once made, stays for the cancellations that need it: the page's
\* delete leaves a tombstone, and its save overwrites the record.
THEOREM RecordsStay == Spec => TombstonesKept
  <1>1. StoresInv /\ [Next]_vars =>
          [\A id \in Ids : FirestoreRecord(id) # {} => FirestoreRecord(id)' # {}]_vars
    <2> SUFFICES ASSUME StoresInv, [Next]_vars, NEW id \in Ids, docs[id] # NoRecord
                 PROVE  docs'[id] # NoRecord
      BY DEF FirestoreRecord
    <2> USE SentinelAssumption DEF vars, typeVars
    <2>1. TypeOK /\ docs \in [Ids -> Record \cup {NoRecord}]
      BY DEF StoresInv, TypeOK
    <2>2. ASSUME NEW t \in Tabs, NEW slug \in Slugs, NEW active \in BOOLEAN,
                 NEW hidden \in BOOLEAN, Save(t, slug, active, hidden)
          PROVE  docs'[id] # NoRecord
      BY <2>1, <2>2, SentRecord DEF FirestorePut
    <2>3. ASSUME NEW t \in Tabs, Delete(t)
          PROVE  docs'[id] # NoRecord
      <3>1. draft[t] \in Ids /\ docs[draft[t]] # NoRecord /\ FirestoreDelete(draft[t])
        BY <2>1, <2>3 DEF Delete, TypeOK
      <3>2. PICK i \in Ids : i = draft[t]
        BY <3>1
      <3>3. docs'[i] \in Record /\ \A j \in Ids \ {i} : docs'[j] = docs[j]
        <4>1. \A j \in Ids : docs[j] # NoRecord => docs[j].id = j
          BY <2>1 DEF TypeOK
        <4> QED
          BY <2>1, <3>1, <3>2, <4>1, FirestoreDeleteTyped
      <3> QED
        BY <3>3
    <2>4. CASE \/ UNCHANGED vars
               \/ \E t \in Tabs, i \in Ids : Load(t, i) \/ New(t, i)
               \/ \E t \in Tabs : Close(t)
               \/ \E k \in Blocks, span \in Spans : PutExternalBlock(k, span)
               \/ \E k \in Blocks : DeleteExternalBlock(k)
               \/ \E b \in Bookings :
                    ClaimBooking(b) \/ ConfirmBooking(b) \/ FailBooking(b) \/ CancelBooking(b)
      BY <2>4 DEF Load, New, Close, PutExternalBlock, DeleteExternalBlock, ClaimBooking,
        ConfirmBooking, FailBooking, CancelBooking
    <2> QED
      BY <2>2, <2>3, <2>4 DEF Next
  <1> QED
    BY <1>1, StoresInvariant, PTL DEF Spec, TombstonesKept

\* putMeetingType brings a deleted type back only when the tab that saves had
\* loaded it before another deleted it.
THEOREM OnlyStaleTabsRevive == Spec => RevivedOnlyByStaleTab
  <1>1. StoresInv /\ [Next]_vars =>
          [\A id \in Ids :
             docs[id] # NoRecord /\ docs[id].deleted /\ ~docs'[id].deleted =>
                 \E t \in stale : draft[t] = id /\ t \notin stale']_vars
    <2> SUFFICES ASSUME StoresInv, [Next]_vars, NEW id \in Ids,
                        docs[id] # NoRecord, docs[id].deleted, ~docs'[id].deleted
                 PROVE  \E t \in stale : draft[t] = id /\ t \notin stale'
      OBVIOUS
    <2> USE DEF vars, typeVars
    <2>1. /\ TypeOK /\ StaleInv
          /\ docs \in [Ids -> Record \cup {NoRecord}]
          /\ \A i \in Ids : docs[i] # NoRecord => docs[i].id = i
          /\ draft \in [Tabs -> Ids \cup {NoId}]
      BY DEF StoresInv, TypeOK
    <2>2. docs' # docs
      OBVIOUS
    <2>3. ASSUME NEW t \in Tabs, NEW slug \in Slugs, NEW active \in BOOLEAN,
                 NEW hidden \in BOOLEAN, Save(t, slug, active, hidden)
          PROVE  \E u \in stale : draft[u] = id /\ u \notin stale'
      <3>1. /\ docs' = [docs EXCEPT ![draft[t]] =
                          [id |-> draft[t], slug |-> slug, active |-> active,
                           hidden |-> hidden, deleted |-> FALSE]]
            /\ draft[t] # NoId
            /\ t \notin stale'
        BY <2>3 DEF Save, FirestorePut
      <3>2. draft[t] = id
        BY <2>1, <3>1
      <3>3. t \in stale
        BY <3>1, <3>2, <2>1 DEF StaleInv
      <3> QED
        BY <3>1, <3>2, <3>3
    <2>4. ASSUME NEW t \in Tabs, Delete(t)
          PROVE  FALSE
      <3>1. PICK i \in Ids : i = draft[t] /\ docs[i] # NoRecord /\ FirestoreDelete(i)
        BY <2>1, <2>4 DEF Delete, TypeOK
      <3>2. /\ docs'[i] = [docs[i] EXCEPT !.deleted = TRUE]
            /\ docs[i] \in Record
            /\ \A j \in Ids \ {i} : docs'[j] = docs[j]
        BY <2>1, <3>1, FirestoreDeleteTyped
      <3>3. docs'[i].deleted
        BY <3>2 DEF Record
      <3> QED
        BY <3>2, <3>3
    <2>5. CASE \/ UNCHANGED vars
               \/ \E t \in Tabs, i \in Ids : Load(t, i) \/ New(t, i)
               \/ \E t \in Tabs : Close(t)
               \/ \E k \in Blocks, span \in Spans : PutExternalBlock(k, span)
               \/ \E k \in Blocks : DeleteExternalBlock(k)
               \/ \E b \in Bookings :
                    ClaimBooking(b) \/ ConfirmBooking(b) \/ FailBooking(b) \/ CancelBooking(b)
      BY <2>2, <2>5 DEF Load, New, Close, PutExternalBlock, DeleteExternalBlock, ClaimBooking,
        ConfirmBooking, FailBooking, CancelBooking
    <2> QED
      BY <2>3, <2>4, <2>5 DEF Next
  <1> QED
    BY <1>1, StoresInvariant, PTL DEF Spec, RevivedOnlyByStaleTab

=============================================================================
