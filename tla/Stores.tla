------------------------------- MODULE Stores -------------------------------
(***************************************************************************)
(* The two implementations of store.Store, Firestore (production) and      *)
(* Memory (development and tests), given the same calls: meeting types     *)
(* edited in several tabs of the administration page, external blocks put  *)
(* and deleted by a bridge, and bookings with their slot locks.  Firestore *)
(* keys meeting types by id and finds a slug with a query; Memory keys     *)
(* them by slug and looks for an id.                                       *)
(***************************************************************************)
EXTENDS Integers

CONSTANTS
    Ids,       \* ids of meeting types
    Slugs,     \* addresses under /meet/; an id may be a slug as well
    Rank,      \* [Ids -> Nat]: the order of document names
    Tabs,      \* tabs of the administration page, each editing one type
    Blocks,    \* ids of external blocks
    Spans,     \* their intervals
    Bookings,
    Locks,     \* documents of slot_locks
    LockIDs,   \* [Bookings -> SUBSET Locks]: booking.LockIDs
    NoId, NoRecord, NoBlock, NoBooking

ASSUME StoreAssumption ==
    /\ Rank \in [Ids -> Nat]
    /\ \A i, j \in Ids : Rank[i] = Rank[j] => i = j
    /\ NoId \notin Ids
    /\ LockIDs \in [Bookings -> SUBSET Locks]
    /\ NoBooking \notin Bookings

Names == Ids \cup Slugs

\* A meeting type, without what only the saga and the slots read.
Record ==
    [id : Ids, slug : Slugs, active : BOOLEAN, hidden : BOOLEAN, deleted : BOOLEAN]

ASSUME SentinelAssumption == NoRecord \notin Record

VARIABLES
    docs,     \* Firestore: meeting_types/<id>
    entries,  \* Memory: meetings[slug]
    blocks,   \* the interval of external_blocks/<id>: Memory keeps them the same way
    booked,   \* Firestore: the status of bookings/<id>, and who holds slot_locks/<id>
    kept,     \* Memory: bookings and locks
    draft,    \* the type a tab edits
    stale,    \* tabs whose type another tab has written since they loaded it
    clashed   \* a type was given a name another one has, a tombstone included

typeVars  == <<docs, entries, draft, stale, clashed>>
bookingVars == <<booked, kept>>
vars == <<typeVars, blocks, bookingVars>>

NothingBooked ==
    [status |-> [b \in Bookings |-> "none"], lock |-> [k \in Locks |-> NoBooking]]

Init ==
    /\ docs = [i \in Ids |-> NoRecord]
    /\ entries = [s \in Slugs |-> NoRecord]
    /\ blocks = [k \in Blocks |-> NoBlock]
    /\ booked = NothingBooked
    /\ kept = NothingBooked
    /\ draft = [t \in Tabs |-> NoId]
    /\ stale = {}
    /\ clashed = FALSE

-------------------------------------------------------------------------------
\* Firestore.

Documents == {docs[i] : i \in Ids} \ {NoRecord}

Live(m) == m.active /\ ~m.deleted

FirestoreList == {m \in Documents : m.active /\ ~m.hidden /\ ~m.deleted}

\* Plausible slip: tombstones are listed to the administrator.
FirestoreEverything == Documents

FirestoreListAll == {m \in Documents : ~m.deleted}

\* where slug == and active ==, the first by document name.
FirstActive(slug) ==
    LET found == {m \in Documents : m.slug = slug /\ m.active} IN
    {m \in found : \A other \in found : Rank[m.id] <= Rank[other.id]}

\* Plausible slip: the document found by the query may be a tombstone.
FirestoreAnyActive(name) ==
    IF name \in Ids /\ docs[name] # NoRecord /\ Live(docs[name])
    THEN {docs[name]}
    ELSE FirstActive(name)

\* Plausible slip: hidden types are hidden from their own address.
FirestoreShown(name) ==
    IF name \in Ids /\ docs[name] # NoRecord /\ Live(docs[name])
    THEN {docs[name]}
    ELSE {m \in FirstActive(name) : ~m.deleted /\ ~m.hidden}

\* GetMeetingType: what is found under an id or a slug, {} for ErrNotFound.
FirestoreGet(name) ==
    IF name \in Ids /\ docs[name] # NoRecord /\ Live(docs[name])
    THEN {docs[name]}
    ELSE {m \in FirstActive(name) : ~m.deleted}

FirestoreRecord(id) == {docs[id]} \ {NoRecord}

FirestorePut(m) == docs' = [docs EXCEPT ![m.id] = m]

\* Plausible slip: no tombstone is kept.
FirestoreRemove(id) == docs' = [docs EXCEPT ![id] = NoRecord]

FirestoreDelete(id) == docs' = [docs EXCEPT ![id].deleted = TRUE]

-------------------------------------------------------------------------------
\* Memory.

Entries == {entries[s] : s \in Slugs} \ {NoRecord}

MemoryList == {m \in Entries : m.active /\ ~m.hidden /\ ~m.deleted}

MemoryListAll == {m \in Entries : ~m.deleted}

MemoryRecord(id) == {m \in Entries : m.id = id}

MemoryGet(name) ==
    LET found == IF name \in Slugs /\ entries[name] # NoRecord
                 THEN {entries[name]} ELSE MemoryRecord(name)
    IN {m \in found : Live(m)}

\* Plausible slip: a renamed type stays under its old slug as well.
KeepsOldSlug(m) == entries' = [entries EXCEPT ![m.slug] = m]

\* The type leaves its old slug, and takes the new one from whoever has it.
MemoryPut(m) ==
    entries' = [s \in Slugs |->
        IF s = m.slug THEN m
        ELSE IF entries[s] # NoRecord /\ entries[s].id = m.id THEN NoRecord
        ELSE entries[s]]

\* Plausible slip: no tombstone is kept.
MemoryRemove(id) ==
    entries' = [s \in Slugs |->
        IF entries[s] # NoRecord /\ entries[s].id = id THEN NoRecord ELSE entries[s]]

MemoryDelete(id) ==
    entries' = [s \in Slugs |->
        IF entries[s] # NoRecord /\ entries[s].id = id
        THEN [entries[s] EXCEPT !.deleted = TRUE] ELSE entries[s]]

-------------------------------------------------------------------------------
\* The administration page.  A tab loads the list, and edits a copy.

Load(t, id) ==
    /\ draft[t] = NoId
    /\ \E m \in FirestoreListAll : m.id = id
    /\ draft' = [draft EXCEPT ![t] = id]
    /\ UNCHANGED <<docs, entries, stale, clashed, blocks, bookingVars>>

\* A new type has a fresh id; it is nobody's yet.
New(t, id) ==
    /\ draft[t] = NoId
    /\ docs[id] = NoRecord
    /\ \A other \in Tabs : draft[other] # id
    /\ draft' = [draft EXCEPT ![t] = id]
    /\ UNCHANGED <<docs, entries, stale, clashed, blocks, bookingVars>>

OthersEditing(t) == {other \in Tabs \ {t} : draft[other] = draft[t]}

\* A slug is another type's slug, be it deleted, or another type's id.
Clash(id, slug) ==
    \E m \in Documents : m.id # id /\ (m.slug = slug \/ m.id = slug \/ m.slug = id)

\* putMeetingType stores what the tab has, all of it: a deleted type comes
\* back, for "deleted" is not part of what a tab sends.  A request that a check
\* of the type or of its calendars refuses changes nothing.
Save(t, slug, active, hidden) ==
    LET m == [id |-> draft[t], slug |-> slug, active |-> active, hidden |-> hidden,
              deleted |-> FALSE] IN
    /\ draft[t] # NoId
    /\ FirestorePut(m)
    /\ MemoryPut(m)
    /\ stale' = (stale \cup OthersEditing(t)) \ {t}
    /\ clashed' = (clashed \/ Clash(draft[t], slug))
    /\ UNCHANGED <<draft, blocks, bookingVars>>

\* deleteMeetingType: 404 when there is no document; the page then keeps it.
Delete(t) ==
    /\ draft[t] # NoId
    /\ docs[draft[t]] # NoRecord
    /\ FirestoreDelete(draft[t])
    /\ MemoryDelete(draft[t])
    /\ draft' = [draft EXCEPT ![t] = NoId]
    /\ stale' = (stale \cup OthersEditing(t)) \ {t}
    /\ UNCHANGED <<clashed, blocks, bookingVars>>

Close(t) ==
    /\ draft[t] # NoId
    /\ draft' = [draft EXCEPT ![t] = NoId]
    /\ stale' = stale \ {t}
    /\ UNCHANGED <<docs, entries, clashed, blocks, bookingVars>>

-------------------------------------------------------------------------------
\* The bridge.  Its calls may be repeated and may arrive in any order.

PutExternalBlock(k, span) ==
    /\ blocks' = [blocks EXCEPT ![k] = span]
    /\ UNCHANGED <<typeVars, bookingVars>>

DeleteExternalBlock(k) ==
    /\ blocks' = [blocks EXCEPT ![k] = NoBlock]
    /\ UNCHANGED <<typeVars, bookingVars>>

-------------------------------------------------------------------------------
\* Bookings, under the calls the booking service makes.

Taken(store, b) == \E k \in LockIDs[b] : store.lock[k] # NoBooking

Claimed(store, b) ==
    [status |-> [store.status EXCEPT ![b] = "pending"],
     lock |-> [k \in Locks |-> IF k \in LockIDs[b] THEN b ELSE store.lock[k]]]

\* ClaimBooking: Firestore refuses an id it has, Memory looks at the locks only.
FirestoreClaim(b) ==
    IF booked.status[b] # "none" \/ Taken(booked, b) THEN booked ELSE Claimed(booked, b)

MemoryClaim(b) == IF Taken(kept, b) THEN kept ELSE Claimed(kept, b)

Confirmed(store, b) == [store EXCEPT !.status[b] = "confirmed"]

\* FailBooking and CancelBooking delete the locks the booking names, whoever
\* holds them by now.
FirestoreRelease(b, status) ==
    [status |-> [booked.status EXCEPT ![b] = status],
     lock |-> [k \in Locks |-> IF k \in LockIDs[b] THEN NoBooking ELSE booked.lock[k]]]

\* Plausible slip: only the locks the booking still holds are deleted.
MemoryReleaseOwn(b, status) ==
    [status |-> [kept.status EXCEPT ![b] = status],
     lock |-> [k \in Locks |-> IF kept.lock[k] = b THEN NoBooking ELSE kept.lock[k]]]

MemoryRelease(b, status) ==
    [status |-> [kept.status EXCEPT ![b] = status],
     lock |-> [k \in Locks |-> IF k \in LockIDs[b] THEN NoBooking ELSE kept.lock[k]]]

\* Create draws a new id for every claim.
ClaimBooking(b) ==
    /\ booked.status[b] = "none"
    /\ booked' = FirestoreClaim(b)
    /\ kept' = MemoryClaim(b)
    /\ UNCHANGED <<typeVars, blocks>>

ConfirmBooking(b) ==
    /\ booked.status[b] = "pending"
    /\ booked' = Confirmed(booked, b)
    /\ kept' = Confirmed(kept, b)
    /\ UNCHANGED <<typeVars, blocks>>

\* Also when the answer to ConfirmBooking was lost.
FailBooking(b) ==
    /\ booked.status[b] \in {"pending", "confirmed"}
    /\ booked' = FirestoreRelease(b, "failed")
    /\ kept' = MemoryRelease(b, "failed")
    /\ UNCHANGED <<typeVars, blocks>>

\* Cancel does not look at the status.
CancelBooking(b) ==
    /\ booked.status[b] # "none"
    /\ booked' = FirestoreRelease(b, "canceled")
    /\ kept' = MemoryRelease(b, "canceled")
    /\ UNCHANGED <<typeVars, blocks>>

Next ==
    \/ \E t \in Tabs, id \in Ids : Load(t, id) \/ New(t, id)
    \/ \E t \in Tabs, slug \in Slugs, active, hidden \in BOOLEAN :
          Save(t, slug, active, hidden)
    \/ \E t \in Tabs : Delete(t) \/ Close(t)
    \/ \E k \in Blocks, span \in Spans : PutExternalBlock(k, span)
    \/ \E k \in Blocks : DeleteExternalBlock(k)
    \/ \E b \in Bookings :
          ClaimBooking(b) \/ ConfirmBooking(b) \/ FailBooking(b) \/ CancelBooking(b)

Spec == Init /\ [][Next]_vars

-------------------------------------------------------------------------------
(***************************************************************************)
(* Properties.                                                             *)
(***************************************************************************)

\* Types; and every record is under its own key, in Memory under no other.
TypeOK ==
    /\ docs \in [Ids -> Record \cup {NoRecord}]
    /\ \A i \in Ids : docs[i] # NoRecord => docs[i].id = i
    /\ entries \in [Slugs -> Record \cup {NoRecord}]
    /\ \A s \in Slugs : entries[s] # NoRecord =>
          entries[s].slug = s /\ MemoryRecord(entries[s].id) = {entries[s]}
    /\ blocks \in [Blocks -> Spans \cup {NoBlock}]
    /\ draft \in [Tabs -> Ids \cup {NoId}]
    /\ stale \in SUBSET {t \in Tabs : draft[t] # NoId}
    /\ clashed \in BOOLEAN
    /\ {booked, kept} \subseteq
          [status : [Bookings -> {"none", "pending", "confirmed", "failed", "canceled"}],
           lock : [Locks -> Bookings \cup {NoBooking}]]

\* What is tested against Memory holds of Firestore: it never shows a record that
\* Firestore has not, or not so; and as long as no type was given a name of
\* another, the two give the same answer to every read.
StoresAgree ==
    /\ MemoryList \subseteq FirestoreList
    /\ MemoryListAll \subseteq FirestoreListAll
    /\ \A id \in Ids : MemoryRecord(id) \subseteq FirestoreRecord(id)
    /\ ~clashed =>
        /\ FirestoreList = MemoryList
        /\ FirestoreListAll = MemoryListAll
        /\ \A id \in Ids : FirestoreRecord(id) = MemoryRecord(id)
        /\ \A name \in Names : FirestoreGet(name) = MemoryGet(name)

\* Memory loses a record, which the cancellations of its bookings need, only to
\* another type that takes its slug, however types are renamed, deleted and
\* saved again; a tombstone may be lost that way, too.
LostOnlyToItsSlug ==
    [][\A id \in Ids : \A m \in MemoryRecord(id) :
          MemoryRecord(id)' = {} =>
              /\ entries'[m.slug] # NoRecord
              /\ entries'[m.slug].id # id]_vars

\* The tests book in Memory: whatever ends, and is ended again after its slot was
\* given away, the two stores keep the same bookings and the same locks.
BookingsAgree == booked = kept

\* README.md:159.  An active type, hidden or not, is found at its own address,
\* whatever else goes by that name, but for two cases: another active record has
\* the slug, as
\* a deleted type does (firestore.go:84), or it is the id of a type on offer.  A
\* tombstone with that id, and an inactive type, are in nobody's way.
ReachableAtSlug ==
    \A m \in Documents :
        /\ Live(m)
        /\ \A other \in Documents \ {m} :
              /\ other.active => other.slug # m.slug
              /\ Live(other) => other.id # m.slug
        => FirestoreGet(m.slug) = {m}

\* README.md:159.  A deleted type is on no page and at no address, in either
\* store and whatever names clash.
DeletedIsGone ==
    \A m \in FirestoreList \cup FirestoreListAll \cup MemoryList \cup MemoryListAll
            \cup UNION {FirestoreGet(name) \cup MemoryGet(name) : name \in Names} :
        ~m.deleted

\* README.md:159.  The record a cancellation needs stays, whatever is saved or
\* deleted after the booking was made.
TombstonesKept ==
    [][\A id \in Ids : FirestoreRecord(id) # {} => FirestoreRecord(id)' # {}]_vars

\* A deleted type comes back only through a tab that had loaded it before it
\* was deleted: no page offers a tombstone for editing.
RevivedOnlyByStaleTab ==
    [][\A id \in Ids :
          docs[id] # NoRecord /\ docs[id].deleted /\ ~docs'[id].deleted =>
              \E t \in stale : draft[t] = id /\ t \notin stale']_vars

-------------------------------------------------------------------------------
(***************************************************************************)
(* The inductive invariant.                                                *)
(***************************************************************************)

\* No record goes by a name of another.
DistinctNames ==
    \A m, n \in Documents : m.id # n.id => m.slug \notin {n.slug, n.id}

\* Memory has no record that Firestore has not.
NoneInvented == Entries \subseteq Documents

\* Memory has every record of Firestore, under its slug.
SameRecords == \A m \in Documents : entries[m.slug] = m

\* A tab that still edits a type another has deleted is stale.
StaleInv ==
    \A t \in Tabs :
        /\ draft[t] # NoId
        /\ docs[draft[t]] # NoRecord
        /\ docs[draft[t]].deleted
        => t \in stale

StoresInv ==
    /\ TypeOK
    /\ NoneInvented
    /\ ~clashed => DistinctNames /\ SameRecords
    /\ StaleInv
    /\ BookingsAgree
=============================================================================
