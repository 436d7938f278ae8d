# A TLA+ model of Bookings

Bookings is a scheduling service: guests pick a time on a page, the service
writes the booking to Firestore and the meeting to Google Calendar, and the two
share no transaction. This directory models the parts of the program where that
matters, checks them with TLC and proves the central results with TLAPS. Around
the booking itself are accounts that are connected through Google, meeting types
that are edited in several tabs, and the page of the guest; they are modelled as
well. Paths such as `service.go:141` are relative to the packages in
`src/internal/`, `App.tsx:97` to `src/web/src/`; `README.md:18` is the
repository's own README.

## 1. The system

| Component | State it keeps | Operations | What makes it correct |
| --- | --- | --- | --- |
| Booking saga (`booking/service.go`) | none of its own; a request's local variables | `Availability`, `Create`, `Cancel` | no double booking; an error leaves nothing; a confirmed guest keeps the meeting; a canceled one has none |
| Store (`store/firestore.go`, `store/memory.go`) | `bookings`, `slot_locks`, `meeting_types`, `calendar_connections`, `calendar_invitations`, `external_blocks` | `ClaimBooking`, `ConfirmBooking`, `FailBooking`, `CancelBooking`; puts, gets and deletes; `UseCalendarInvitation` | transactions claim and release all locks at once; an invitation is used once |
| Calendar provider (`calendar/google.go`) | events and free/busy at Google | `Busy`, `Calendars`, `CreateEvent`, `CreateBlockEvent`, `DeleteEvent` | deterministic ids make an insert repeatable; deletes tolerate what is gone |
| Availability (`availability/availability.go`) | none | `Slots` | exactly the bookable starts, in local time |
| HTTP API (`httpapi/server.go`) | none | public, administrator, external-block and OAuth handlers | each handler is a sequence of store calls that others may interleave: none may lose what another wrote unless they overlap |
| Sessions (`auth/auth.go`) | signed cookies in the browser: session, invitation bridge, OAuth state | issue, read, clear | a bridge admits only its invitation's account, within ten minutes |
| Booking page (`web/src/App.tsx`) | step, meeting type, slots, page, requests in flight | choose, page, submit, go back, restart | what is shown belongs to what was chosen; the page never waits for ever |
| Administration and connect pages (`Admin.tsx`, `Connect.tsx`) | copies of meeting types, forms | load, save, delete; invite, connect | a copy is stored as a whole, however old |
| Spam check, tokens, encryption, configuration, telemetry, assets, infrastructure | forms, stateless calls, wiring | | |

A guest's `POST /api/public/bookings` runs `Create`: read the meeting type;
ask Google and the external blocks what is busy and recompute the slots; claim
the booking and its five-minute lock documents in one Firestore transaction;
insert the guest's event and one private block per blocker address; confirm.
When a later step fails it deletes the events whose insert was answered and
marks the booking failed, which releases the locks. `Cancel` reads the booking
and the meeting type as it is now, deletes the events, and releases. Nothing
runs in the background (ADR 0001): whatever a request leaves behind stays.

What is hard here: two requests between recheck and claim; a call that took
effect and whose answer is lost; a client that hangs up, which cancels the
context of all later calls, the compensating ones too; an instance that stops;
two cancellations of one booking; an administrator who changes the destination
calendar meanwhile; buffers that are not multiples of five minutes; local time
on the days the clocks change. Then: cookies that all tabs of a browser share,
read when a request is sent and set when its answer arrives; an OAuth callback
of five calls in a row, between which the invitation is used or revoked and the
connection written; documents that are replaced as a whole from an old copy;
names that belong to two meeting types; answers that overtake each other on the
page. `PROJECT.json` lists each at its line.

## 2. Modules

```
LockBuckets            bucket arithmetic of lockIDs
  LockBucketsProofs      overlapping claims share a lock
  BookingSaga            Create and Cancel over Firestore and Google Calendar
    MCBookingSaga          instances for TLC
    BookingSagaProofs      invariants, for all constants   (uses LockBucketsProofs)
      BookingLedgerProofs    BookingSaga implements SlotLedger
SlotLedger             abstract specification: reserve, settle, close
Availability           Slots, the page limits and the recheck, over a clock
  MCAvailability         meeting types, zones and commitments for TLC
  AvailabilityProofs     slots are bookable, on half hours, and free
    AvailabilityWalkProofs  what is bookable is found; the recheck; the pages
InvitationGrant        abstract specification: offer, withdraw, lapse, connect, redeem
CalendarAccounts       invitations, sign in, callback, connections; implements it
  MCCalendarAccounts     two tabs of one browser
  CalendarAccountsProofs invariants, and that it implements InvitationGrant
Stores                 Firestore and Memory side by side
  MCStores               names that clash, locks that are shared
  StoresProofs           the stores agree; tombstones
BookingPage            the guest's page and its requests
  BookingPageProofs      one load at a time, and what is shown
```

### LockBuckets

`LockIDs(w)` is `lockIDs` (`service.go:203`): the start of the claim (meeting
and buffers) is rounded down to five minutes, the end is not, and every bucket
before the end is locked. Time is in whole minutes: starts are multiples of a
minute because slots are, and so are buffers and durations.

### BookingSaga

State, and what it stands for:

- `status[b]`, `lock[k]`: the documents `bookings/<id>` and `slot_locks/<bucket>`.
- `event[b][e]`: event 0 is the guest's, event `k + 1` the private block with
  sequence `k`. "deleted" differs from "absent" because Google answers 410 to
  deleting an event a second time and 404 to one it never had.
- `dest`: the destination calendar of the meeting type, which `MoveDestination`
  (`putMeetingType`) changes at any time.
- `guest[b]`: what the guest was told: nothing yet, 201 ("holds"), asked to
  cancel, 204 ("told").
- `at`, `cal`, `made`, `next`, `alive`: the request that creates `b`, where it
  is in `Create`, the destination it read, how many inserts were answered, how
  far the compensation is, and whether its context is canceled.
- `callAt`, ..., `callAlive`: the same of a cancellation request.

Every call to Firestore or Google is one action: `Submit` (the meeting type),
`Recheck`, `ClaimSlot`, `Connect`, `Insert` (once for each event), `Confirm`,
`Undo` (once for each event), `Fail`, `Reply`; and `Ask`, `ReadMeeting`,
`DeleteNext`, `Release`. A call is done, refused without effect, or done with
its answer lost; once the client has hung up it is refused. `Faults` chooses
which of these may happen in a run. Consecutive reads with nothing written
between them are one action where their order cannot be told apart (`GetBooking`
with the token check, `GetMeetingTypeRecord` with `GetConnection`, the reads of
`Availability`). An insert answered with an error is followed in the code by a
lookup of the deterministic id; if that finds the event the insert counts as
answered, so the outcome "lost" of `Insert` is: applied, and the lookup failed
as well.

`Recheck` may refuse for reasons that are not modelled here (other people's
commitments), and accepts only if free/busy shows no event of this service in
the way, on the calendars in `Watched`. The set may be empty: an administrator
need not count the destination calendar as busy, and free/busy may lag. Then
the locks alone keep bookings apart, which is what `saga_faults` checks.

Left out: guest details and their validation (a refused request has read the
meeting type and nothing else), Turnstile, the meeting type's own buffers
changing between two bookings (each booking has its own `Slot`, buffers
included), the one-day time-to-live of lock documents (`main.tf:83`; it ends
after the meeting does), an administrator adding or removing blockers, and a
client that retries `POST` (that is another booking: ids are drawn at random).

### SlotLedger

What booking promises without saying how: an entry is reserved only while no
live entry conflicts with it, settles at most once, and once over never comes
back. `BookingSaga!Ledger` is the refinement mapping: "pending" is held,
"confirmed" is firm, "failed" and "canceled" are over.

### Availability

`Slots` and its helpers, written as sets; the order of the result is left out.
A zone is two offsets and the instant of the change; `Date` and `AddDate` are
modelled on Go's package time, with its double guess of the offset when a wall
time is skipped or repeated. `Busy` is what `Service.Availability` asks: the
accounts of the destination and of the attendees, and the external blocks, from
`from` to 14 days later. The small machine around it moves the clock and lets
commitments come and go, so that a page and its recheck see different things.

### InvitationGrant

What an invitation promises: it names one account, and while it is neither
withdrawn nor past its time that account redeems it, once, and only when its
calendars are connected. Connecting an account is always allowed: signing in
does it without an invitation.

### CalendarAccounts

State: `invitation`, `connection` are the documents of `calendar_invitations`
and `calendar_connections`; a token is the number Google gave it out under, so
that an older one can be told from a newer; `state`, `bridge`, `session` are the
cookies of a browser; `callback[t]` is the local state of the `googleCallback`
of tab `t`, with the cookies its request carried; `desk[d]` is an administrator's
request between a read and a write. `flow` (what a tab left for Google with),
`redeemed` and `overlapped` (requests whose connection another has written since
they began) only record what happened.

Actions: `AskInvitation`, `PutCalendarInvitation` (`createCalendarInvitation`),
`DeleteCalendarInvitation`, `ReadConnection`, `SaveSelection` (`putConnection`:
the document is read, Google asked, and all of it written), `GiveUp` (either of
them refused halfway), `CalendarInvitationStart`, `GoogleStart`, and of
`googleCallback`: `Callback` (state, code, email), `Check` (who may go on),
`ReadExisting`, `PutConnection`, `UseCalendarInvitation`, `Answer` (what the
response sets). Between any two of them the clock may tick, a session end, and
everybody else act. A write is done, refused, or done with its answer lost; a
read may fail; a handler may die.

Left out: a lost answer to `PutCalendarInvitation` (the document is there, but
nobody has its link), guessed invitation tokens, cookies with a forged signature,
the development mode without sign in, and the calendars a selection names.

### Stores

The same calls go to both implementations of `store.Store` at once. `docs` is
`meeting_types/<id>` of Firestore, `entries` the map of `Memory` from slug to
meeting type; `FirestoreGet` and `MemoryGet` are the two lookups, first by id
or by slug, then by the other. `booked` and `kept` are the bookings and slot
locks of the two. External blocks are kept the same way by both, so `blocks` is
one variable, and only their interval is kept: the time of creation, which an
update preserves, is read by nobody. `draft` is the type a
tab of the administration page edits, `stale` the tabs whose copy another tab
has overtaken, `clashed` whether a name was ever given twice. `Save`
(`putMeetingType`) stores all of the copy, and as `deleted` is never sent to the
page, what it stores is not deleted.

The Go map and the order of Firestore's documents (`Rank`) matter only when
two records have one name. The connections and invitations of `Memory` are maps
written under one mutex; they are those of `CalendarAccounts` and not repeated.

### BookingPage

`step`, `meeting`, `slots`, `slot`, `loading` are the state of `App`; `range` is
that of the mounted `TimePicker`, `submitting` that of the mounted form. `loads`
and `sent` are the requests in flight, `boot` the first load, which for a direct
link `/meet/<slug>` goes on to ask for the times. Times are abstracted to the
type and the page they are of. A component that is unmounted forgets its state
while its request goes on, hence `PickerGone` and `FormGone`. The guest may go
back or restart at any moment; answers come in any order, or as errors.

## 3. Runs

| Run | Instance | What it shows |
| --- | --- | --- |
| `saga_faults` | 3 bookings, 2 cancellations, 1 block, every fault, one calendar, 410 for a second delete, free/busy shows nothing | safety, the inductive invariants, and the ledger |
| `saga_rollback` | 2 bookings, 1 cancellation at a time, 2 blocks, refused inserts, moving destination, both answers to a second delete | an error leaves nothing, for what is left to delete is what was inserted; no confirmed guest without a meeting, with no assumption on deletes; nothing stays pending; a cancellation takes effect |
| `saga_double_cancel` | 3 bookings, 1 cancellation at a time, two calendars, no fault | **violated**: a second cancellation removes another booking's locks |
| `saga_hang_up` | 2 bookings, 1 block, hang-ups only | **violated**: no rollback after a hang-up |
| `saga_two_cancels` | 1 booking, 1 block, 2 cancellations, no fault | **violated**: both are refused, the booking stays confirmed |
| `saga_moved_calendar` | 1 booking, two calendars, no fault | **violated**: 204, and the events stay |
| `accounts` | 2 tabs of one browser, 1 administrator's request at a time, 1 invitation, 2 accounts, one of them an administrator's, 2 selections, every fault | redeemed as `InvitationGrant` says; only administrators have sessions; cookies of two flows do not mix; used means connected; a lone request loses nothing |
| `stores` | 2 meeting types, one whose id is a slug, 2 slugs, 2 tabs, 1 block, 2 bookings that share one lock of two | the in-memory store shows nothing Firestore does not, and agrees with it outside clashes of names; a record is lost only to the type that takes its slug; tombstones stay, stay hidden, and come back only through a stale tab; a type is found at its address |
| `booking_page` | a direct link to one of 2 types, 3 pages, 2 submissions in flight | answers do not overtake each other; times match type and range; one submission per form; the skeleton goes away |
| `availability_offers` | 6 meeting types, one with a window of whole pages, 3 zones, 3 clock readings, 6 pages, up to 3 of 5 commitments | the slots are exact; offers are accepted; paging |
| `availability_recheck` | the same | **violated**: the buffer before the meeting is not rechecked |
| `availability_midnight` | a zone whose clocks skip midnight | **violated**: the last day of the window is lost |

Bounds. Three slots suffice for the hazards of locking: one ends at minute 10
with seven minutes after it, the next starts at 15 (they meet only in the bucket
of minute 15, and only because of the buffer), and the third conflicts with the
second only through three minutes before it. Double booking after a stale
release takes three bookings: one whose locks are released twice, one that
claimed between, one that claims after. Two cancellations in flight are enough
for one to overtake another, and each may be repeated without bound, for a call
that ended is idle again. One block gives a first and a last event; two give a
middle one, which the rollback needs. `MaxCommitments` is 3 of 5. Deadlock is not
checked in the saga, which ends when every request has.

The inductive invariants of the proofs are checked as well: `SlotInv`, `CleanInv`
and `RollbackInv` in the saga, and `AccountsInv`, `StoresInv` and `PageInv`, of
which the type invariant of their module is the first conjunct.

In `accounts` two tabs are what it takes for one to overwrite the cookies of the
other, and a callback with a second callback, an administrator's request or a
revocation is every pair of readers and writers of one document. Three tokens
(`MaxTokens`) allow a callback to come late twice. The clock has three readings
(`MaxTime` 2); invitations live two ticks and cookies one, so that a cookie can
end before its invitation and an invitation while a callback is under way; a
bridge lasts through the tick at which it ends, as in `auth.go:89`. In `stores`
the names `intro` (an id and a slug) and `chat` produce every clash: slug with
slug, slug with id, id with slug, tombstone or not; renaming, deleting and
saving again are unbounded, and so are puts and deletes of a block. Two
bookings sharing a lock, either of which may end and end again after the other
took its place, cover what release does to locks. In `booking_page` three pages
have one in the middle; submissions beyond two at a time are held back by the
model, not by the page, and are alike. Symmetry is used for tabs, calls and
invitations, never together with a liveness property.

Fairness. `Spec` of the saga assumes weak fairness of each request's own steps and of
nothing else: net/http runs the handler of an accepted request to its end.
Nobody has to send a request, hang up, crash or change a calendar. The
liveness properties are checked in runs without store faults and without
crashes, because with them they are false in the code by design: nothing
retries. `BookingPage` assumes that the answers to requests for times arrive, as
a response or as an error (`Answers`): a browser settles every fetch. Bookings
may stay unanswered, and the guest need not do anything. `CalendarAccounts` and
`Stores` have only safety properties and assume no fairness.

`Availability` is checked with intervals of 30 to 90 minutes (and one below 30,
which is normalised), hours that begin and end off the grid, a zone at +5:45,
and New York on both of its days of change.

## 4. What the violated runs say

1. **A second cancellation can free somebody else's slot** (`saga_double_cancel`).
   `release` (`firestore.go:380`) deletes lock documents by name, and `Cancel`
   does not read the status. What usually prevents harm is that the second
   delete of an event fails with 410; after the destination calendar was changed
   it is answered 404, which counts as success. `README.md:18`.
2. **A hang-up during a private block leaves the booking pending**
   (`saga_hang_up`): the compensation uses the canceled context
   (`service.go:141`, `server.go:198`). `README.md:163`.
3. **Two cancellations can defeat each other** (`saga_two_cancels`): only 404 is
   tolerated (`google.go:192`), so each is refused the event that the other
   deleted, and so is every later one. `README.md:20`.
4. **A cancellation after the destination was changed deletes nothing and
   succeeds** (`saga_moved_calendar`): the calendar is not stored with the
   booking (`service.go:177`). `README.md:159`.
5. **The recheck does not see the buffer before the meeting**
   (`availability_recheck`): `Create` asks from the requested start on
   (`service.go:87`), so a commitment that ends inside the buffer and before the
   start is filtered out. `README.md:17`, `:150`.
6. **A skipped midnight loses a day** (`availability_midnight`): in a zone west
   of Greenwich `startOfDay` of such a day is 23:00 of the day before, and the
   walk by `AddDate` stays at 23:00 (`availability.go:32`).

Some limits are stated in the passing properties instead, as their exceptions:

- starts that lie across the border of two pages are shown on neither
  (`PagesMissOnlyStraddlers`), and a start whose buffer reaches past the
  fortnight asked may be offered and then refused (`OfferedIsAccepted`);
- the browser ends the booking window after days of 24 hours
  (`dateTime.ts:29`), the server on the local clock. With a window of 28 days
  and the clocks set back in its first fortnight, the starts of the window's
  last hour are on no page (`PagesMissOnlyStraddlers` excepts them; the proof
  showed that it must);
- of two overlapping writers of a connection the later wins with what it read
  before, and a callback that cannot read the connection resets the selection
  to the primary calendar (`NothingLostAlone`, `server.go:559`);
- ADR 0003 has the callback consume the invitation and then store the token.
  The code stores first (`server.go:563`, `:568`): so what is marked used is
  connected (`UsedIsConnected`), and an account may be connected through an
  invitation that is then refused as used, revoked or expired;
- a tab opened before a deletion brings the meeting type back when it saves
  (`RevivedOnlyByStaleTab`);
- a meeting type that shares its slug with another active record may not be
  found at its address, and a deleted type stays active: where its tombstone
  comes first, a type created with its slug is listed and cannot be opened
  (`ReachableAtSlug`, `firestore.go:84`). In the in-memory store, on which the
  tests run, the new type replaces the record of the other, a tombstone or not,
  and is found (`LostOnlyToItsSlug`, `memory.go:98`). In this
  case, and in no other, the stores differ; even then what the in-memory store
  lists, or has under an id, Firestore has as well (`StoresAgree`);
- after a failed request the page shows the times of the type chosen before
  (`SlotsBelongToMeeting`), and after Back from the form the heading of the
  first page over the times of a later one (`RangeMatchesSlots`).

## 5. Proofs

`tlapm` checks every theorem below to the last leaf. The constants are arbitrary
under the named assumptions of the modules, which TLC evaluates on the instances:
sentinels are not values, maps have the domains they should, durations and
lifetimes are numbers (`BookingAssumption`, `CalendarAssumption`,
`FaultAssumption`, `AccountAssumption`, `LifeAssumption`, `StoreAssumption`,
`SentinelAssumption`, `PageAssumption`, `MeetingAssumption`,
`CommitmentAssumption`, `InstantAssumption`). What a theorem supposes beyond them
is in the column "if"; each of these is explained below.

| Theorem | If | Says |
| --- | --- | --- |
| `OverlapSharesLock` | | overlapping claims have a bucket in common |
| `TypeCorrect` | | `[]TypeOK` of the saga |
| `NoOrphanLocks` | | `[]LocksHaveLiveOwners` |
| `EndsForGood` | | `NeverRevived` |
| `ConfirmedGuestsKeepTheirMeeting` | | `[]ConfirmationKept` |
| `MutualExclusion` | `[]ReleasedWhileLive` | `[]NoDoubleBooking` |
| `ReleasesAreOwn` | `[]ReleasedWhileLive` | `OnlyOwnerReleases` |
| `SagaImplementsLedger` | `[]ReleasedWhileLive` | `ImplementsLedger` |
| `SlotInvariant` | `GoneIsAnError`, `[]LooksWhereCreated` | `[]SlotInv`, hence `[]ReleasedWhileLive` |
| `AnswersAreTrue` | `[]LooksWhereCreated` | `[]CleanInv` |
| `SettledDestination` | `[][UNCHANGED dest]_vars` | `[]LooksWhereCreated` |
| `SettledDestinationIsSafe` | `GoneIsAnError`, `[][UNCHANGED dest]_vars` | `[]NoDoubleBooking`, `OnlyOwnerReleases` |
| `SettledSagaImplementsLedger` | the same | `ImplementsLedger` |
| `ToldMeansCanceled` | `[][UNCHANGED dest]_vars` | `[]CleanInv`, `[]ToldIsCanceled` |
| `FailureLeavesNothing` | `[][AnswersHold(b)]_vars` | whenever `b` is rejected, `LeftNothing(b)` |
| `RollbacksAreExact`, `FailuresLeaveNothing` | `OnlyInsertsRefused` | `[]RollbackInv`, `[]RollbackComplete` |
| `AccountsInvariant`, `AccountTypes` | | `[]AccountsInv`, `[]TypeOK` |
| `OnlyAdminsHoldSessions` | | `[]SessionsAreAdmins` |
| `CallbacksKeepTheirFlow` | | `[]BridgeBelongsToFlow` |
| `UsedInvitationsAreConnected` | | `[]UsedIsConnected` |
| `OnlyOverlapsLoseWrites` | | `NothingLostAlone` |
| `AccountsImplementGrant` | | `ImplementsGrant` |
| `StoresInvariant`, `StoreTypes` | | `[]StoresInv`, `[]TypeOK` |
| `StoresAnswerAlike`, `BookingsStayTheSame` | | `[]StoresAgree`, `[]BookingsAgree` |
| `TypesReachable`, `TombstonesHidden` | | `[]ReachableAtSlug`, `[]DeletedIsGone` |
| `RecordsStay`, `OnlyStaleTabsRevive` | | `TombstonesKept`, `RevivedOnlyByStaleTab` |
| `LostToTheSlugOnly` | | `LostOnlyToItsSlug` |
| `PageInvariant`, `PageTypes` | | `[]PageInv`, `[]TypeOK` |
| `OneLoadAtATime`, `FormSubmitsOnce` | | `[]OneLoad`, `[]OneSubmission` |
| `TimesAreOfTheType`, `HeadingIsOfTheTimes` | | `[]SlotsBelongToMeeting`, `[]RangeMatchesSlots` |
| `AcceptedStartsAreFree` | `BuffersFitAPage` | `[]AcceptedIsFree` |
| `StartsOnHalfHours` | `HalfHourChanges` | `[]OnLocalHalfHours` |
| `SlotsExactly` | `ChangesWithinADay`, `QuarterHourOffsets` | `[]SlotsAreExact` |
| `OffersStand` | `ChangesWithinADay` | `[]OfferedIsAccepted` |
| `PagesCover` | `ChangesWithinADay` | `[]PagesMissOnlyStraddlers` |

### The saga

`BaseInv` (types; `PhaseInv`, how far a request is tells the state of its booking
and events; `CallInv`; `BookedInv`; `LocksHaveLiveOwners`) is inductive without
any assumption. Its proofs rest on four frame lemmas (`RequestFrame`,
`CallFrame`, `StepsOfBooking`, `StepsOfCall`): a step changes one booking and one
cancellation at most, and of these only what its actor may.

`NoDoubleBooking` follows from `LiveHoldsLocks`, that a live booking still owns
each of its locks, and `OverlapSharesLock`. But `LiveHoldsLocks` is not
inductive: `Released` takes locks by name, so a cancellation of `b` must not
reach `Release` after `b` was canceled and its slot rebooked. The code has no
check for that. The theorems say in three layers what stands in for it.

1. `MutualExclusion`, `ReleasesAreOwn` and `SagaImplementsLedger` assume nothing of
   the constants, and of the behaviour only `ReleasedWhileLive`: when a
   cancellation is about to release, its booking is still live. A second release
   is the only thing that can break the promise, under every fault and with any
   number of calendars. `saga_double_cancel` is a behaviour where one does.
2. `SlotInvariant` derives `ReleasedWhileLive`. Google answers the deletion of
   the guest's event without an error once and 410 from then on
   (`GoneIsAnError`), so the event is a token and one cancellation passes:
   `OnePasses`. This needs a cancellation to look on the calendar on which the
   events are (`LooksWhereCreated`), for `Cancel` reads the meeting type again
   (`service.go:165`).
3. `SettledDestination` derives `LooksWhereCreated` where nobody changes the
   destination of the meeting type: request and cancellation read it once each
   and keep it (`OnDestination`, an invariant of those behaviours). One calendar is
   the special case in which a move changes nothing (`OneCalendarSettles`).
   `saga_moved_calendar` is what a move does otherwise.

So `SettledDestinationIsSafe` and `SettledSagaImplementsLedger` hold of a deployment
whose calendar answers 410 and whose destination stays, with any number of
calendars and under every fault. `CleanInv`, and with it that "canceled" is never
told too early, needs the second and third layer only, and not `GoneIsAnError`.

That an error leaves nothing is `Unmade(b)`, beside `BaseInv`: `made` counts the
events that exist, for each insert is recorded before the next; when a request
walks back, `next` of them are gone again; and after the walk none is left.
Calendars may change meanwhile, since a request keeps the one it read.
`FailureLeavesNothing` names the answers that this rests on (`AnswersHold`), all
of them the request's own: a refused claim and a refused insert had no effect,
and the deletes of its rollback and its `FailBooking` had theirs. Everything
else may fail, of this request and of every other: a refused recheck, connection
or confirmation, an instance that dies, a guest who hangs up and whose rollback
goes through all the same. The number of private blocks is arbitrary. Where only
inserts are refused and instances die (`OnlyInsertsRefused`) those answers
always hold, which gives `RollbacksAreExact` and `FailuresLeaveNothing` without a
condition on the behaviour. Without them there are the counterexamples of section
4: a lost answer leaves an event that `made` does not count, and a hang-up stops
the walk (`saga_hang_up`).

### Invitations and connections

`AccountsInv` is inductive without an assumption. `CookieInv`: a cookie is of a
tab of its own browser. `CallbackInv`, for every point between two calls of
`googleCallback`: whose account it is; past `Check` without an invitation there
is a session or an administrator's account; past `PutConnection` the account is
connected. `DeskInv`, the same of an administrator's request. `InvitationInv`:
a use is written at most once, and only for a connected account. `FreshInv`: a
request that nobody overlapped holds what is stored now. `SessionsAreAdmins`
and `BridgeBelongsToFlow` are conjuncts, since each rests on what a callback in
flight carries.

`ImplementsGrant` is proved step by step: a write is the abstract step when it
takes effect, answered or not; the callback's use of the invitation is the
redemption, and `CallbackInv` says that it is for the invited, connected account.

### The stores

`StoresInv`: the in-memory store has no record that Firestore has not
(`NoneInvented`); as long as no name was given twice (`~clashed`), names are
distinct and it has all of them; a tab whose type is deleted is stale;
the bookings of both are the same. From the first, its lists are part of
Firestore's even after a clash; from the second, the lookup by id and then by slug
and the lookup by slug and then by id have the same answers.

### The booking page

`PageInv`: `BootInv`, while the first load is on its way nothing else is;
`LoadInv`, at most one request for times is in flight, `loading` is true exactly
then, and while times are shown it is for the type chosen; `SlotInv`, what is
shown is of that type and page, with the exceptions of section 4; and
`OneSubmission`. Answers cannot overtake each other because nothing that asks
can be pressed while `loading`, and this is why none of them needs a sequence
number.

### Availability

`DateShows` says what `time.Date` gives: an instant at which the wall shows what
was asked, or, in the skipped hour, one that is off by the change. From it, a
time of day is on its day (`ClockIsOnItsDay`), days never go back (`DaysGoOn`),
midnight is shown at midnight and comes first (`MidnightShows`,
`MidnightIsFirst`), and `AddDate` leads from midnight to midnight. So a slot is
bookable (`SlotIsBookable`). For the converse the walk must come to the day of
every bookable start: its k-th day is the midnight of the k-th local day, by
induction on the recursive function that `Days` is. The library's induction
theorems cannot be used for that, since they have an operator as parameter, but
its theorem that a well-founded relation has minimal elements can: no k is the
least at which the walk is wrong (`LeastNatural`, `WalkIsMidnights`). That the
function exists at all follows from the midnights being one. On that day the
start is some steps after the first candidate (`StepsBetween`).

The conditions:

- `ChangesWithinADay`: the change of the clocks, and twice its width before and
  after, is within one local day. `availability_midnight` is the counterexample
  without it.
- `QuarterHourOffsets` is in `SlotsExactly` because `SlotsAreExact` looks for
  bookable starts on quarters of an hour only, as TLC needs a finite set; the
  lemma `OfferedIsBookable` says the same of all instants without it.
- `HalfHourChanges`: by a change of twenty minutes a start that was on a half
  hour would leave it.
- `BuffersFitAPage`: `validateMeetingType` bounds the buffer after a meeting
  from below only (`server.go:717`). With one longer than the fortnight that the
  calendars are asked about, the recheck would not see a commitment at its end.

### Only model-checked

The liveness properties `PendingResolves`, `CancelTakesEffect` and `LoadingEnds`:
fairness and `ENABLED` are out of the prover's reach. Every safety invariant and
action property of the passing runs is stated by a theorem.

## 6. Not modelled, and the plan

Not modelled: the spam check, token hashing and KMS encryption (stateless),
configuration and telemetry, static assets and themes, the OpenTofu modules,
forms and messages of the administration pages. Of `putMeetingType`, the checks
against the connected accounts are left out: they refuse a request and store
nothing, but they look at accounts that may be connected later, so a blocker
address may become a connected account (`server.go:649`); no property is stated
about that.

Next:

1. Frame lemmas for the steps of `CalendarAccountsProofs`, as `BookingSagaProofs`
   has them.
2. The blocker addresses of `server.go:649`, with connections and meeting types
   in one module.
