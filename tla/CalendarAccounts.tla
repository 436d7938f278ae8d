-------------------------- MODULE CalendarAccounts --------------------------
(***************************************************************************)
(* Connecting Google accounts (internal/httpapi/server.go, auth/auth.go):  *)
(* an administrator invites an account or signs in; the browser goes to    *)
(* Google and comes back to the callback, which is known by two cookies    *)
(* all tabs of the browser share, the OAuth state and the invitation       *)
(* bridge; the callback and the calendar selection of an administrator     *)
(* both read a connection and later write all of it.                       *)
(*                                                                         *)
(* A request carries the cookies the browser had when it was sent, and     *)
(* what its answer sets is set when the answer arrives.                    *)
(***************************************************************************)
EXTENDS Integers

CONSTANTS
    Tabs, Browsers,
    BrowserOf,       \* [Tabs -> Browsers]
    Desks,           \* requests of administrators in flight at one time
    Invites,         \* invitations: ids are random, never drawn twice
    Accounts,        \* Google accounts; a connection's id is the hash of its email
    Admins,          \* those in BOOKINGS_ADMIN_EMAILS
    Selections,      \* sets of calendars an administrator may count as busy
    Primary,         \* the selection a new connection starts with
    InvitationLife,  \* 7 days, and
    CookieLife,      \* 10 minutes, in ticks of the clock
    MaxTime,         \* bound on the clock
    MaxTokens,       \* bound on the authorization codes exchanged
    Faults,          \* what may go wrong, see FaultKinds
    NoAccount, NoInvite, NoTab

\* A write refused, a read refused, a write that took effect and whose answer
\* was lost, a handler that never answers its browser.
FaultKinds == {"store", "read", "answer", "crash"}

ASSUME AccountAssumption ==
    /\ BrowserOf \in [Tabs -> Browsers]
    /\ Admins \subseteq Accounts
    /\ Primary \in Selections
    /\ NoAccount \notin Accounts
    /\ NoInvite \notin Invites
    /\ NoTab \notin Tabs
    /\ Tabs \cap Desks = {}

ASSUME LifeAssumption ==
    /\ InvitationLife \in Nat \ {0}
    /\ CookieLife \in Nat
    /\ MaxTime \in Nat
    /\ MaxTokens \in Nat
    /\ Faults \subseteq FaultKinds

VARIABLES
    now,
    minted,      \* tokens Google has given out, numbered in their order
    invitation,  \* calendar_invitations/<id>; kept with stored = FALSE when deleted
    redeemed,    \* how often its use was written
    connection,  \* calendar_connections/<id>; token 0 while there is none
    state,       \* cookie bookings_oauth_state: the tab whose flow it names
    bridge,      \* cookie bookings_calendar_invite
    session,     \* cookie bookings_admin
    flow,        \* what a tab left for Google with: an invitation or NoInvite
    callback,    \* the callback request a tab waits for
    desk,        \* an administrator's request
    overlapped   \* requests whose connection another has written since they began

storeVars  == <<invitation, redeemed, connection>>
cookieVars == <<state, bridge, session>>
vars == <<now, minted, storeVars, cookieVars, flow, callback, desk, overlapped>>

NoBridge == [invite |-> NoInvite, until |-> 0]
NoState  == [tab |-> NoTab, until |-> 0]

Undrawn   == [email |-> NoAccount, until |-> 0, stored |-> FALSE, used |-> FALSE]
Unwritten == [token |-> 0, calendars |-> Primary]

\* A tab with no callback in flight: never left for Google, or may return from
\* there, a first time or again.
Resting(where) ==
    [at |-> where, account |-> NoAccount, bridge |-> NoBridge, session |-> NoAccount,
     token |-> 0, calendars |-> Primary, blind |-> FALSE]

IdleDesk == [at |-> "idle", account |-> NoAccount, read |-> Unwritten]

Init ==
    /\ now = 0
    /\ minted = 0
    /\ invitation = [i \in Invites |-> Undrawn]
    /\ redeemed = [i \in Invites |-> 0]
    /\ connection = [a \in Accounts |-> Unwritten]
    /\ state = [b \in Browsers |-> NoState]
    /\ bridge = [b \in Browsers |-> NoBridge]
    /\ session = [b \in Browsers |-> NoAccount]
    /\ flow = [t \in Tabs |-> NoInvite]
    /\ callback = [t \in Tabs |-> Resting("idle")]
    /\ desk = [d \in Desks |-> IdleDesk]
    /\ overlapped = {}

Tick ==
    /\ now < MaxTime
    /\ now' = now + 1
    /\ UNCHANGED <<minted, storeVars, cookieVars, flow, callback, desk, overlapped>>

-------------------------------------------------------------------------------
\* Outcomes of a write, and of a read.

Done    == [applied |-> TRUE,  ok |-> TRUE]
Lost    == [applied |-> TRUE,  ok |-> FALSE]
Refused == [applied |-> FALSE, ok |-> FALSE]

Outcomes ==
    {o \in {Done, Lost, Refused} :
        /\ o = Lost => "answer" \in Faults
        /\ o = Refused => "store" \in Faults}

Reads == IF "read" \in Faults THEN BOOLEAN ELSE {TRUE}

Connected(a) == connection[a].token # 0

\* The requests, other than p, that are yet to write the connection of a.
OthersOf(a, p) ==
    ({t \in Tabs : callback[t].account = a /\ callback[t].at \in {"check", "read", "store"}}
        \cup {d \in Desks : desk[d].account = a /\ desk[d].at = "save"}) \ {p}

\* p writes the connection of a: all of the document.
Written(p, a, token, calendars) ==
    /\ connection' = [connection EXCEPT ![a] = [token |-> token, calendars |-> calendars]]
    /\ overlapped' = (overlapped \cup OthersOf(a, p)) \ {p}

NotWritten(p) ==
    /\ UNCHANGED connection
    /\ overlapped' = overlapped \ {p}

-------------------------------------------------------------------------------
\* Administrators' requests.  The session is read when the request arrives.

SignedIn == \E b \in Browsers : session[b] # NoAccount

\* A session is over after twelve hours; nothing here waits that long for it.
SessionEnds(b) ==
    /\ session[b] # NoAccount
    /\ session' = [session EXCEPT ![b] = NoAccount]
    /\ UNCHANGED <<now, minted, storeVars, state, bridge, flow, callback, desk, overlapped>>

\* createCalendarInvitation looks for a connection of that account ...
AskInvitation(d, a) ==
    /\ desk[d].at = "idle"
    /\ SignedIn
    /\ ~Connected(a)
    /\ desk' = [desk EXCEPT ![d].at = "invite", ![d].account = a]
    /\ UNCHANGED <<now, minted, storeVars, cookieVars, flow, callback, overlapped>>

\* ... and creates the document.
PutCalendarInvitation(d, i) ==
    /\ desk[d].at = "invite"
    /\ invitation[i] = Undrawn
    /\ invitation' = [invitation EXCEPT ![i] =
          [email |-> desk[d].account, until |-> now + InvitationLife,
           stored |-> TRUE, used |-> FALSE]]
    /\ desk' = [desk EXCEPT ![d] = IdleDesk]
    /\ overlapped' = overlapped \ {d}
    /\ UNCHANGED <<now, minted, redeemed, connection, cookieVars, flow, callback>>

DeleteCalendarInvitation(i) ==
    /\ SignedIn
    /\ invitation[i].stored
    /\ invitation' = [invitation EXCEPT ![i].stored = FALSE]
    /\ UNCHANGED <<now, minted, redeemed, connection, cookieVars, flow, callback, desk,
                   overlapped>>

\* putConnection reads the connection and asks Google which calendars there
\* are, with the token it read ...
ReadConnection(d, a) ==
    /\ desk[d].at = "idle"
    /\ SignedIn
    /\ Connected(a)
    /\ desk' = [desk EXCEPT ![d] = [at |-> "save", account |-> a, read |-> connection[a]]]
    /\ UNCHANGED <<now, minted, storeVars, cookieVars, flow, callback, overlapped>>

\* ... and writes what it read, with another selection.
SaveSelection(d, selection) ==
    /\ desk[d].at = "save"
    /\ \E o \in Outcomes :
          IF o.applied THEN Written(d, desk[d].account, desk[d].read.token, selection)
                       ELSE NotWritten(d)
    /\ desk' = [desk EXCEPT ![d] = IdleDesk]
    /\ UNCHANGED <<now, minted, invitation, redeemed, cookieVars, flow, callback>>

\* A request that ends before it writes: an unknown calendar, a refused call.
GiveUp(d) ==
    /\ desk[d].at # "idle"
    /\ desk' = [desk EXCEPT ![d] = IdleDesk]
    /\ overlapped' = overlapped \ {d}
    /\ UNCHANGED <<now, minted, storeVars, cookieVars, flow, callback>>

-------------------------------------------------------------------------------
\* Leaving for Google.

Leave(t, i, newBridge) ==
    LET b == BrowserOf[t] IN
    /\ callback[t].at \in {"idle", "away"}
    /\ state' = [state EXCEPT ![b] = [tab |-> t, until |-> now + CookieLife]]
    /\ bridge' = [bridge EXCEPT ![b] = newBridge]
    /\ flow' = [flow EXCEPT ![t] = i]
    /\ callback' = [callback EXCEPT ![t] = Resting("away")]
    /\ UNCHANGED <<now, minted, storeVars, session, desk, overlapped>>

Usable(i) ==
    /\ invitation[i].stored
    /\ ~invitation[i].used
    /\ now < invitation[i].until

\* The holder of the link posts its token; who has another is refused.
CalendarInvitationStart(t, i) ==
    /\ Usable(i)
    /\ Leave(t, i, [invite |-> i, until |-> now + CookieLife])

\* Plausible slip: the bridge of an earlier invitation is left in place.
StartKeepsBridge(t) == Leave(t, NoInvite, bridge[BrowserOf[t]])

GoogleStart(t) == Leave(t, NoInvite, NoBridge)

-------------------------------------------------------------------------------
\* googleCallback.

At(t, where) == callback[t].at = where

Go(t, where) == callback' = [callback EXCEPT ![t].at = where]

\* The handler is over, and its browser learns nothing from it.
End(t) ==
    /\ callback' = [callback EXCEPT ![t] = Resting("away")]
    /\ overlapped' = overlapped \ {t}

VerifyState(t) ==
    LET s == state[BrowserOf[t]] IN s.tab = t /\ now <= s.until

\* Google sends the tab back with a code for the account a consented to; the
\* code is exchanged and the account's email read.  A callback whose state is
\* not that of the cookie, or whose code is refused, changes nothing.
Callback(t, a) ==
    /\ At(t, "away")
    /\ VerifyState(t)
    /\ minted < MaxTokens
    /\ minted' = minted + 1
    /\ callback' = [callback EXCEPT ![t] =
          [Resting("check") EXCEPT
              !.account = a, !.bridge = bridge[BrowserOf[t]],
              !.session = session[BrowserOf[t]], !.token = minted + 1]]
    /\ UNCHANGED <<now, storeVars, cookieVars, flow, desk, overlapped>>

Bridged(t) == callback[t].bridge # NoBridge /\ now <= callback[t].bridge.until

\* Whoever has neither a bridge nor a session must be an administrator; a
\* bridge must be for an invitation that is usable and for this account.
Check(t) ==
    /\ At(t, "check")
    /\ \/ /\ ~Bridged(t)
          /\ callback[t].session = NoAccount
          /\ callback[t].account \notin Admins
          /\ End(t)
       \/ /\ ~Bridged(t)
          /\ callback[t].session # NoAccount \/ callback[t].account \in Admins
          /\ callback' = [callback EXCEPT ![t].at = "read", ![t].bridge = NoBridge]
          /\ UNCHANGED overlapped
       \/ /\ Bridged(t)
          /\ LET i == callback[t].bridge.invite IN
             \E ok \in Reads :
                Go(t, IF ok /\ Usable(i) /\ invitation[i].email = callback[t].account
                      THEN "read" ELSE "refused")
          /\ UNCHANGED overlapped
    /\ UNCHANGED <<now, minted, storeVars, cookieVars, flow, desk>>

\* Plausible slip: the selection of an existing connection is not looked up.
ReadNothing(t) ==
    /\ At(t, "read")
    /\ Go(t, "store")
    /\ UNCHANGED <<now, minted, storeVars, cookieVars, flow, desk, overlapped>>

\* GetConnection, for the selection to keep.  Any error is taken for "there
\* is none", the callback is then blind to a selection there may be.
ReadExisting(t) ==
    /\ At(t, "read")
    /\ \E ok \in Reads :
          callback' = [callback EXCEPT
              ![t].at = "store",
              ![t].blind = ~ok,
              ![t].calendars = IF ok THEN connection[callback[t].account].calendars
                                     ELSE Primary]
    /\ UNCHANGED <<now, minted, storeVars, cookieVars, flow, desk, overlapped>>

\* With a bridge the invitation is next, else the session.
StoredNext(c) ==
    [Resting(IF c.bridge = NoBridge THEN "issue" ELSE "use") EXCEPT
        !.bridge = c.bridge, !.session = c.session, !.account = c.account]

\* Plausible slip: the error of PutConnection is not returned.
GoesOnAfterError(c, ok) == StoredNext(c)

AfterStore(c, ok) == IF ok THEN StoredNext(c) ELSE Resting("away")

PutConnection(t) ==
    LET c == callback[t] IN
    /\ At(t, "store")
    /\ \E o \in Outcomes :
          /\ IF o.applied THEN Written(t, c.account, c.token, c.calendars)
                          ELSE NotWritten(t)
          /\ callback' = [callback EXCEPT ![t] = AfterStore(c, o.ok)]
    /\ UNCHANGED <<now, minted, invitation, redeemed, cookieVars, flow, desk>>

\* Plausible slips: what the callback has checked before is not checked again.
ForgetsTheUse(i, a) ==
    /\ invitation[i].stored
    /\ now < invitation[i].until
    /\ invitation[i].email = a

ForgetsTheTime(i, a) ==
    /\ invitation[i].stored
    /\ ~invitation[i].used
    /\ invitation[i].email = a

Redeemable(i, a) == Usable(i) /\ invitation[i].email = a

\* UseCalendarInvitation: the transaction checks it all again.
UseCalendarInvitation(t) ==
    LET i == callback[t].bridge.invite
        ok == Redeemable(i, callback[t].account) IN
    /\ At(t, "use")
    /\ \E o \in Outcomes :
          /\ IF ok /\ o.applied
             THEN /\ invitation' = [invitation EXCEPT ![i].used = TRUE]
                  /\ redeemed' = [redeemed EXCEPT ![i] = @ + 1]
             ELSE UNCHANGED <<invitation, redeemed>>
          /\ Go(t, IF ok /\ o.ok THEN "connected" ELSE "refused")
    /\ UNCHANGED <<now, minted, connection, cookieVars, flow, desk, overlapped>>

\* Plausible slip: the session is always that of the account just connected.
SessionOfAccount(t) == callback[t].account

\* An administrator who adds another account stays who they are.
SessionIssued(t) ==
    IF callback[t].session # NoAccount THEN callback[t].session ELSE callback[t].account

\* The answer arrives: both ends of the invitation branch clear the bridge, the
\* end of the other one issues a session.
Answer(t) ==
    LET b == BrowserOf[t] IN
    /\ \/ /\ At(t, "connected") \/ At(t, "refused")
          /\ bridge' = [bridge EXCEPT ![b] = NoBridge]
          /\ UNCHANGED session
       \/ /\ At(t, "issue")
          /\ session' = [session EXCEPT ![b] = SessionIssued(t)]
          /\ UNCHANGED bridge
    /\ End(t)
    /\ UNCHANGED <<now, minted, storeVars, state, flow, desk>>

\* The instance dies, or the browser is gone before the answer.
Crash(t) ==
    /\ "crash" \in Faults
    /\ callback[t].at \notin {"idle", "away"}
    /\ End(t)
    /\ UNCHANGED <<now, minted, storeVars, cookieVars, flow, desk>>

CallbackStep(t) ==
    Check(t) \/ ReadExisting(t) \/ PutConnection(t) \/ UseCalendarInvitation(t) \/ Answer(t)

Next ==
    \/ Tick
    \/ \E b \in Browsers : SessionEnds(b)
    \/ \E d \in Desks : GiveUp(d)
    \/ \E d \in Desks, a \in Accounts : AskInvitation(d, a) \/ ReadConnection(d, a)
    \/ \E d \in Desks, i \in Invites : PutCalendarInvitation(d, i)
    \/ \E d \in Desks, s \in Selections : SaveSelection(d, s)
    \/ \E i \in Invites : DeleteCalendarInvitation(i)
    \/ \E t \in Tabs, i \in Invites : CalendarInvitationStart(t, i)
    \/ \E t \in Tabs : GoogleStart(t)
    \/ \E t \in Tabs, a \in Accounts : Callback(t, a)
    \/ \E t \in Tabs : CallbackStep(t) \/ Crash(t)

Spec == Init /\ [][Next]_vars

-------------------------------------------------------------------------------
(***************************************************************************)
(* Properties.                                                             *)
(***************************************************************************)

Invitation ==
    [email : Accounts \cup {NoAccount}, until : 0 .. MaxTime + InvitationLife,
     stored : BOOLEAN, used : BOOLEAN]

Connection == [token : 0 .. minted, calendars : Selections]

Bridge ==
    [invite : Invites \cup {NoInvite}, until : 0 .. MaxTime + CookieLife]

CallbackStates ==
    {"idle", "away", "check", "read", "store", "use", "connected", "refused", "issue"}

CallbackRequest ==
    [at : CallbackStates, account : Accounts \cup {NoAccount}, bridge : Bridge,
     session : Accounts \cup {NoAccount}, token : 0 .. minted,
     calendars : Selections, blind : BOOLEAN]

\* Types; a use is written at most once, and no stored token is one that was
\* never given out.
TypeOK ==
    /\ now \in 0 .. MaxTime
    /\ minted \in 0 .. MaxTokens
    /\ invitation \in [Invites -> Invitation]
    /\ redeemed \in [Invites -> 0 .. 1]
    /\ connection \in [Accounts -> Connection]
    /\ state \in [Browsers -> [tab : Tabs \cup {NoTab}, until : 0 .. MaxTime + CookieLife]]
    /\ bridge \in [Browsers -> Bridge]
    /\ session \in [Browsers -> Accounts \cup {NoAccount}]
    /\ flow \in [Tabs -> Invites \cup {NoInvite}]
    /\ callback \in [Tabs -> CallbackRequest]
    /\ desk \in [Desks ->
          [at : {"idle", "invite", "save"}, account : Accounts \cup {NoAccount},
           read : Connection]]
    /\ overlapped \subseteq Tabs \cup Desks

\* README.md:142.  Whoever holds a session is an administrator: connecting
\* through an invitation, or adding an account under a session, makes no other.
SessionsAreAdmins ==
    \A b \in Browsers : session[b] # NoAccount => session[b] \in Admins

\* An accepted callback acts for what its own tab left for Google with: of the
\* flows of one browser, the cookies never pair the state of one with the
\* invitation of another.
BridgeBelongsToFlow ==
    /\ \A b \in Browsers :
          state[b] # NoState /\ bridge[b] # NoBridge =>
              flow[state[b].tab] = bridge[b].invite
    /\ \A t \in Tabs :
          callback[t].bridge # NoBridge => flow[t] = callback[t].bridge.invite

\* An invitation the administration page shows as "Connected" has connected its
\* account: this is why the token is stored before the invitation is used.
UsedIsConnected ==
    /\ \A i \in Invites : invitation[i].used => Connected(invitation[i].email)
    /\ \A t \in Tabs : At(t, "connected") => Connected(callback[t].account)

\* d, or t, writes the connection of a in this step.
Saves(d, a) ==
    desk[d].at = "save" /\ desk[d].account = a /\ desk'[d].at = "idle"

Stores(t, a) ==
    At(t, "store") /\ callback[t].account = a /\ callback'[t].at # "store"

\* What a step may do to the connections there are.
OverwritesOnlyRead ==
    \A a \in Accounts : Connected(a) /\ connection'[a] # connection[a] =>
        \/ \E d \in Desks :
              /\ Saves(d, a)
              /\ d \in overlapped \/ connection'[a].token = connection[a].token
        \/ \E t \in Tabs :
              /\ Stores(t, a)
              /\ \/ t \in overlapped
                 \/ /\ connection'[a].token > connection[a].token
                    /\ callback[t].blind \/ connection'[a].calendars = connection[a].calendars

\* A selection of calendars, or a newer token, is overwritten only by a request
\* another write has overtaken since it began, or by a callback that could not
\* read the connection: requests one after the other lose nothing.
NothingLostAlone == [][OverwritesOnlyRead]_vars

Drawn(i) == invitation[i].email # NoAccount

Granted(i) ==
    IF ~Drawn(i) THEN "none" ELSE IF invitation[i].stored THEN "open" ELSE "closed"

Past(i) == Drawn(i) /\ now >= invitation[i].until

Grant == INSTANCE InvitationGrant WITH
    grant <- [i \in Invites |-> Granted(i)],
    address <- [i \in Invites |-> invitation[i].email],
    past <- {i \in Invites : Past(i)},
    connected <- {a \in Accounts : Connected(a)}

\* Invitations are redeemed once, by the account they name, while they are
\* neither revoked nor expired, however callbacks, tabs and revocations cross.
ImplementsGrant == Grant!Spec

-------------------------------------------------------------------------------
(***************************************************************************)
(* The inductive invariant.                                                *)
(***************************************************************************)

\* A browser's cookies are of its own tabs and of real invitations.
CookieInv ==
    \A b \in Browsers :
        /\ state[b] # NoState => state[b].tab \in Tabs /\ BrowserOf[state[b].tab] = b
        /\ bridge[b] # NoBridge => bridge[b].invite \in Invites

\* What a callback has established by the call it is at.
Established(c) ==
    /\ c.bridge # NoBridge => c.bridge.invite \in Invites
    /\ c.session # NoAccount => c.session \in Admins
    /\ c.at \notin {"idle", "away"} => c.account \in Accounts
    /\ c.at \in {"check", "read", "store"} => c.token > 0
    /\ c.at \in {"read", "store", "issue"} /\ c.bridge = NoBridge =>
          c.session # NoAccount \/ c.account \in Admins
    /\ c.at = "issue" => c.bridge = NoBridge
    /\ c.at = "use" => c.bridge # NoBridge
    /\ c.at \in {"use", "connected"} => Connected(c.account)

CallbackInv == \A t \in Tabs : Established(callback[t])

\* An administrator's request saves a connection that existed when it was read.
DeskInv ==
    \A d \in Desks :
        /\ desk[d].at # "idle" => desk[d].account \in Accounts
        /\ desk[d].at = "save" => desk[d].read.token > 0

InvitationInv ==
    \A i \in Invites :
        /\ redeemed[i] = IF invitation[i].used THEN 1 ELSE 0
        /\ invitation[i].stored \/ invitation[i].used => invitation[i].email \in Accounts
        /\ invitation[i].used => Connected(invitation[i].email)

\* What a request has read of a connection still holds, or it is overlapped.
FreshInv ==
    /\ \A d \in Desks \ overlapped :
          desk[d].at = "save" => desk[d].read = connection[desk[d].account]
    /\ \A t \in Tabs \ overlapped : LET c == callback[t] IN
          /\ c.at \in {"check", "read", "store"} => c.token > connection[c.account].token
          /\ c.at = "store" => c.blind \/ c.calendars = connection[c.account].calendars

AccountsInv ==
    /\ TypeOK
    /\ CookieInv
    /\ CallbackInv
    /\ DeskInv
    /\ InvitationInv
    /\ FreshInv
    /\ SessionsAreAdmins
    /\ BridgeBelongsToFlow
=============================================================================
