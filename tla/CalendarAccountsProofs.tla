----------------------- MODULE CalendarAccountsProofs -----------------------
(***************************************************************************)
(* Proofs about connecting accounts, for any number of browsers, tabs,     *)
(* administrators' requests, invitations and accounts.                     *)
(***************************************************************************)
EXTENDS CalendarAccounts, TLAPS

\* The first state is of the types.
LEMMA InitTypeOK == Init => TypeOK
  BY AccountAssumption, LifeAssumption
  DEF Init, TypeOK, Undrawn, Unwritten, Resting, IdleDesk, NoState, NoBridge, Invitation,
      Connection, Bridge, CallbackRequest, CallbackStates

\* Every step of the clock, of a session and of an administrator keeps the types.
LEMMA DeskTypeOK ==
    ASSUME TypeOK,
           \/ Tick
           \/ \E b \in Browsers : SessionEnds(b)
           \/ \E d \in Desks : GiveUp(d)
           \/ \E d \in Desks, a \in Accounts : AskInvitation(d, a) \/ ReadConnection(d, a)
           \/ \E d \in Desks, i \in Invites : PutCalendarInvitation(d, i)
           \/ \E d \in Desks, s \in Selections : SaveSelection(d, s)
           \/ \E i \in Invites : DeleteCalendarInvitation(i)
    PROVE  TypeOK'
  <1> USE AccountAssumption, LifeAssumption
      DEF TypeOK, Invitation, Connection, Bridge, CallbackRequest, CallbackStates, storeVars, cookieVars,
          IdleDesk, Unwritten
  <1>1. CASE Tick
    BY <1>1 DEF Tick
  <1>2. ASSUME NEW b \in Browsers, SessionEnds(b)
        PROVE  TypeOK'
    BY <1>2 DEF SessionEnds
  <1>3. ASSUME NEW d \in Desks, GiveUp(d)
        PROVE  TypeOK'
    BY <1>3 DEF GiveUp
  <1>4. ASSUME NEW d \in Desks, NEW a \in Accounts, AskInvitation(d, a)
        PROVE  TypeOK'
    <2>1. /\ UNCHANGED <<now, minted, invitation, redeemed, connection, cookieVars, flow,
                         callback, overlapped>>
          /\ desk' = [desk EXCEPT ![d] = [desk[d] EXCEPT !.at = "invite", !.account = a]]
      BY <1>4 DEF AskInvitation
    <2>2. [desk[d] EXCEPT !.at = "invite", !.account = a]
            \in [at : {"idle", "invite", "save"}, account : Accounts \cup {NoAccount},
                 read : Connection]
      <3> HIDE DEF Connection
      <3>1. desk[d] \in [at : {"idle", "invite", "save"}, account : Accounts \cup {NoAccount},
                         read : Connection]
        BY DEF TypeOK
      <3>2. a \in Accounts \cup {NoAccount} /\ "invite" \in {"idle", "invite", "save"}
        OBVIOUS
      <3> QED
        BY ONLY <3>1, <3>2
    <2>3. desk' \in [Desks -> [at : {"idle", "invite", "save"},
                               account : Accounts \cup {NoAccount}, read : Connection]]
      BY <2>1, <2>2
    <2> QED
      BY <2>1, <2>3
  <1>5. ASSUME NEW d \in Desks, NEW a \in Accounts, ReadConnection(d, a)
        PROVE  TypeOK'
    BY <1>5 DEF ReadConnection
  <1>6. ASSUME NEW d \in Desks, NEW i \in Invites, PutCalendarInvitation(d, i)
        PROVE  TypeOK'
    BY <1>6 DEF PutCalendarInvitation
  <1>7. ASSUME NEW d \in Desks, NEW s \in Selections, SaveSelection(d, s)
        PROVE  TypeOK'
    <2>1. /\ UNCHANGED <<now, minted, invitation, redeemed, cookieVars, flow, callback>>
          /\ desk' = [desk EXCEPT ![d] = IdleDesk]
          /\ desk[d].account \in Accounts \cup {NoAccount}
          /\ desk[d].read.token \in 0 .. minted
      BY <1>7 DEF SaveSelection
    <2>2. \/ Written(d, desk[d].account, desk[d].read.token, s)
          \/ NotWritten(d)
      BY <1>7 DEF SaveSelection
    <2>3. connection' \in [Accounts -> Connection]
      <3>1. [token |-> desk[d].read.token, calendars |-> s] \in Connection
        BY <2>1
      <3>2. connection \in [Accounts -> Connection]
        BY DEF TypeOK
      <3> HIDE DEF Connection
      <3> QED
        BY <2>2, <3>1, <3>2 DEF Written, NotWritten
    <2>4. overlapped' \subseteq Tabs \cup Desks
      BY <2>2 DEF Written, NotWritten, OthersOf
    <2> QED
      BY <2>1, <2>3, <2>4
  <1>8. ASSUME NEW i \in Invites, DeleteCalendarInvitation(i)
        PROVE  TypeOK'
    <2>1. invitation' \in [Invites -> Invitation]
      <3>1. invitation[i] \in Invitation
        OBVIOUS
      <3>2. [invitation[i] EXCEPT !.stored = FALSE] \in Invitation
        BY <3>1
      <3> QED
        BY <1>8, <3>2 DEF DeleteCalendarInvitation
    <2> QED
      BY <1>8, <2>1 DEF DeleteCalendarInvitation
  <1> QED
    BY <1>1, <1>2, <1>3, <1>4, <1>5, <1>6, <1>7, <1>8

\* A tab is at rest with a callback of the type.
LEMMA RestingType ==
    ASSUME TypeOK, NEW where \in {"idle", "away"}
    PROVE  Resting(where) \in CallbackRequest
  BY AccountAssumption, LifeAssumption
  DEF TypeOK, Resting, CallbackRequest, CallbackStates, NoBridge, Bridge

\* Moving one callback, within the type, keeps the types.
LEMMA CallbackMoves ==
    ASSUME TypeOK, NEW t \in Tabs, NEW c \in CallbackRequest,
           callback' = [callback EXCEPT ![t] = c]
    PROVE  callback' \in [Tabs -> CallbackRequest]
  BY DEF TypeOK

\* A callback goes on to another call.
LEMMA CallbackGoes ==
    ASSUME TypeOK, NEW t \in Tabs, NEW where \in CallbackStates
    PROVE  /\ callback[t] \in CallbackRequest
           /\ [callback[t] EXCEPT !.at = where] \in CallbackRequest
           /\ [callback EXCEPT ![t].at = where] = 
                [callback EXCEPT ![t] = [callback[t] EXCEPT !.at = where]]
  <1>1. callback[t] \in CallbackRequest
    BY DEF TypeOK
  <1> QED
    BY <1>1 DEF CallbackRequest, TypeOK

\* Every step of a tab keeps the types; that a use is written once is
\* InvitationInv's, that there is an account and an invitation CallbackInv's.
LEMMA TabTypeOK ==
    ASSUME TypeOK, CallbackInv, InvitationInv, NEW t \in Tabs,
           \/ \E i \in Invites : CalendarInvitationStart(t, i)
           \/ GoogleStart(t)
           \/ \E a \in Accounts : Callback(t, a)
           \/ CallbackStep(t)
           \/ Crash(t)
    PROVE  TypeOK'
  <1> USE AccountAssumption, LifeAssumption DEF storeVars, cookieVars
  <1>r. Resting("away") \in CallbackRequest
    BY RestingType
  <1>e. ASSUME End(t)
        PROVE  /\ callback' \in [Tabs -> CallbackRequest]
               /\ overlapped' \subseteq Tabs \cup Desks
    BY <1>e, <1>r, CallbackMoves DEF End, TypeOK
  <1>b. NoBridge \in Bridge
    BY DEF NoBridge, Bridge
  <1>n. now \in 0 .. MaxTime /\ minted \in 0 .. MaxTokens
    BY DEF TypeOK
  <1>c. /\ BrowserOf[t] \in Browsers
        /\ bridge \in [Browsers -> Bridge]
        /\ session \in [Browsers -> Accounts \cup {NoAccount}]
        /\ callback[t] \in CallbackRequest
    BY DEF TypeOK
  <1>1. ASSUME NEW i \in Invites \cup {NoInvite}, NEW n \in Bridge, Leave(t, i, n)
        PROVE  TypeOK'
    <2>1. UNCHANGED <<now, minted, storeVars, session, desk, overlapped>>
      BY <1>1 DEF Leave
    <2>2. callback' \in [Tabs -> CallbackRequest]
      BY <1>1, <1>r, CallbackMoves DEF Leave
    <2>3. bridge' \in [Browsers -> Bridge]
      BY <1>1, <1>c DEF Leave
    <2>4. flow' \in [Tabs -> Invites \cup {NoInvite}]
      BY <1>1 DEF Leave, TypeOK
    <2>5. state' \in [Browsers -> [tab : Tabs \cup {NoTab}, until : 0 .. MaxTime + CookieLife]]
      <3>1. [tab |-> t, until |-> now + CookieLife]
              \in [tab : Tabs \cup {NoTab}, until : 0 .. MaxTime + CookieLife]
        BY <1>n
      <3> QED
        BY <1>1, <1>c, <3>1 DEF Leave, TypeOK
    <2> QED
      BY <2>1, <2>2, <2>3, <2>4, <2>5 DEF TypeOK, CallbackRequest, Connection
  <1>2. ASSUME NEW a \in Accounts, Callback(t, a)
        PROVE  TypeOK'
    <2>1. minted' = minted + 1 /\ minted' \in 0 .. MaxTokens
      <3>1. minted < MaxTokens /\ minted' = minted + 1
        BY <1>2 DEF Callback
      <3> QED
        BY <3>1, <1>n
    <2>2. [Resting("check") EXCEPT
              !.account = a, !.bridge = bridge[BrowserOf[t]],
              !.session = session[BrowserOf[t]], !.token = minted + 1] \in CallbackRequest'
      <3>1. Resting("check") \in CallbackRequest'
        BY <2>1, <1>b, <1>n DEF Resting, CallbackRequest, CallbackStates
      <3>2. minted + 1 \in 0 .. minted'
        BY <2>1, <1>n
      <3> QED
        BY <3>1, <3>2, <1>c DEF CallbackRequest, CallbackStates
    <2>3. callback' \in [Tabs -> CallbackRequest']
      <3>1. callback \in [Tabs -> CallbackRequest']
        BY <2>1, <1>n DEF TypeOK, CallbackRequest
      <3> QED
        BY <1>2, <2>2, <3>1 DEF Callback
    <2>4. Connection \subseteq Connection'
      BY <2>1, <1>n DEF Connection
    <2>5. connection' \in [Accounts -> Connection']
      BY <1>2, <2>4 DEF Callback, TypeOK
    <2>6. desk' \in [Desks -> [at : {"idle", "invite", "save"},
                               account : Accounts \cup {NoAccount}, read : Connection']]
      BY <1>2, <2>4 DEF Callback, TypeOK
    <2> QED
      BY <1>2, <2>1, <2>3, <2>5, <2>6 DEF Callback, TypeOK
  <1>3. CASE Check(t)
    <2>1. UNCHANGED <<now, minted, storeVars, cookieVars, flow, desk>>
      BY <1>3 DEF Check
    <2>2. ASSUME NEW where \in CallbackStates, Go(t, where)
          PROVE  callback' \in [Tabs -> CallbackRequest]
      BY <2>2, CallbackGoes, CallbackMoves DEF Go
    <2>3. ASSUME callback' = [callback EXCEPT ![t].at = "read", ![t].bridge = NoBridge]
          PROVE  callback' \in [Tabs -> CallbackRequest]
      <3>1. [callback[t] EXCEPT !.at = "read", !.bridge = NoBridge] \in CallbackRequest
        BY <1>c, <1>b DEF CallbackRequest, CallbackStates
      <3>2. callback' = [callback EXCEPT
                           ![t] = [callback[t] EXCEPT !.at = "read", !.bridge = NoBridge]]
        BY <2>3 DEF TypeOK, CallbackRequest
      <3> QED
        BY <3>1, <3>2, CallbackMoves
    <2>4. callback' \in [Tabs -> CallbackRequest] /\ overlapped' \subseteq Tabs \cup Desks
      <3>1. "read" \in CallbackStates /\ "refused" \in CallbackStates
        BY DEF CallbackStates
      <3> QED
        BY <1>3, <1>e, <2>2, <2>3, <3>1 DEF Check, TypeOK
    <2> QED
      BY <2>1, <2>4 DEF TypeOK, CallbackRequest, Connection
  <1>4. CASE ReadExisting(t)
    <2>1. UNCHANGED <<now, minted, storeVars, cookieVars, flow, desk, overlapped>>
      BY <1>4 DEF ReadExisting
    <2>2. PICK ok \in BOOLEAN :
            callback' = [callback EXCEPT
              ![t].at = "store",
              ![t].blind = ~ok,
              ![t].calendars = IF ok THEN connection[callback[t].account].calendars
                                     ELSE Primary]
      BY <1>4 DEF ReadExisting, Reads
    <2>3. callback[t].account \in Accounts
      BY <1>4 DEF ReadExisting, At, CallbackInv, Established
    <2>4. (IF ok THEN connection[callback[t].account].calendars ELSE Primary) \in Selections
      BY <2>3 DEF TypeOK, Connection
    <2>5. callback' \in [Tabs -> CallbackRequest]
      <3> DEFINE c == [callback[t] EXCEPT !.at = "store", !.blind = ~ok,
                         !.calendars = IF ok THEN connection[callback[t].account].calendars
                                             ELSE Primary]
      <3>1. c \in CallbackRequest
        BY <1>c, <2>4 DEF CallbackRequest, CallbackStates
      <3>2. callback' = [callback EXCEPT ![t] = c]
        BY <2>2 DEF TypeOK, CallbackRequest
      <3> QED
        BY <3>1, <3>2, CallbackMoves
    <2> QED
      BY <2>1, <2>5 DEF TypeOK, CallbackRequest, Connection
  <1>5. CASE PutConnection(t)
    <2>1. UNCHANGED <<now, minted, invitation, redeemed, cookieVars, flow, desk>>
      BY <1>5 DEF PutConnection
    <2>2. PICK o \in Outcomes :
            /\ IF o.applied
               THEN Written(t, callback[t].account, callback[t].token, callback[t].calendars)
               ELSE NotWritten(t)
            /\ callback' = [callback EXCEPT ![t] = AfterStore(callback[t], o.ok)]
      BY <1>5 DEF PutConnection
    <2>3. AfterStore(callback[t], o.ok) \in CallbackRequest
      BY <1>c, <1>r DEF AfterStore, StoredNext, Resting, CallbackRequest, CallbackStates
    <2>4. callback' \in [Tabs -> CallbackRequest]
      BY <2>2, <2>3, CallbackMoves
    <2>5. connection' \in [Accounts -> Connection]
      <3>1. [token |-> callback[t].token, calendars |-> callback[t].calendars] \in Connection
        BY <1>c DEF CallbackRequest, Connection
      <3> QED
        BY <2>2, <3>1 DEF Written, NotWritten, TypeOK
    <2>6. overlapped' \subseteq Tabs \cup Desks
      BY <2>2 DEF Written, NotWritten, OthersOf, TypeOK
    <2> QED
      BY <2>1, <2>4, <2>5, <2>6 DEF TypeOK, CallbackRequest, Connection
  <1>6. CASE UseCalendarInvitation(t)
    <2> DEFINE i == callback[t].bridge.invite
    <2>1. UNCHANGED <<now, minted, connection, cookieVars, flow, desk, overlapped>>
      BY <1>6 DEF UseCalendarInvitation
    <2>2. callback' \in [Tabs -> CallbackRequest]
      <3>1. "connected" \in CallbackStates /\ "refused" \in CallbackStates
        BY DEF CallbackStates
      <3>2. \E where \in CallbackStates : Go(t, where)
        BY <1>6, <3>1 DEF UseCalendarInvitation
      <3> QED
        BY <3>2, CallbackGoes, CallbackMoves DEF Go
    <2>3. CASE UNCHANGED <<invitation, redeemed>>
      BY <2>1, <2>2, <2>3 DEF TypeOK, CallbackRequest, Connection
    <2>4. CASE /\ Redeemable(i, callback[t].account)
               /\ invitation' = [invitation EXCEPT ![i].used = TRUE]
               /\ redeemed' = [redeemed EXCEPT ![i] = @ + 1]
      <3>1. i \in Invites
        BY <1>6 DEF UseCalendarInvitation, At, CallbackInv, Established
      <3>2. invitation[i] \in Invitation /\ redeemed[i] = 0
        BY <2>4, <3>1 DEF Redeemable, Usable, InvitationInv, TypeOK
      <3>3. [invitation[i] EXCEPT !.used = TRUE] \in Invitation
        BY <3>2 DEF Invitation
      <3>4. invitation' \in [Invites -> Invitation] /\ redeemed' \in [Invites -> 0 .. 1]
        BY <2>4, <3>1, <3>2, <3>3 DEF TypeOK
      <3> QED
        BY <2>1, <2>2, <3>4 DEF TypeOK, CallbackRequest, Connection
    <2> QED
      BY <1>6, <2>3, <2>4 DEF UseCalendarInvitation
  <1>7. CASE Answer(t)
    <2>1. UNCHANGED <<now, minted, storeVars, state, flow, desk>> /\ End(t)
      BY <1>7 DEF Answer
    <2>2. SessionIssued(t) \in Accounts \cup {NoAccount}
      BY <1>c DEF SessionIssued, CallbackRequest
    <2>3. /\ bridge' \in [Browsers -> Bridge]
          /\ session' \in [Browsers -> Accounts \cup {NoAccount}]
      BY <1>7, <1>b, <1>c, <2>2 DEF Answer
    <2> QED
      BY <2>1, <2>3, <1>e DEF TypeOK, CallbackRequest, Connection
  <1>8. CASE Crash(t)
    BY <1>8, <1>e DEF Crash, TypeOK, CallbackRequest, Connection
  <1> QED
    <2>1. \A i \in Invites : [invite |-> i, until |-> now + CookieLife] \in Bridge
      BY <1>n DEF Bridge
    <2> QED
      BY <1>1, <1>2, <1>3, <1>4, <1>5, <1>6, <1>7, <1>8, <1>b, <2>1
      DEF CalendarInvitationStart, GoogleStart, CallbackStep

-------------------------------------------------------------------------------
\* What a step of a tab leaves alone.

\* A tab's step moves no other tab's callback.
LEMMA OtherTabsRest ==
    ASSUME TypeOK, NEW t \in Tabs, NEW u \in Tabs, u # t,
           \/ \E i \in Invites : CalendarInvitationStart(t, i)
           \/ GoogleStart(t)
           \/ \E a \in Accounts : Callback(t, a)
           \/ CallbackStep(t)
           \/ Crash(t)
    PROVE  callback'[u] = callback[u]
  <1>1. callback \in [Tabs -> CallbackRequest]
    BY DEF TypeOK
  <1>2. callback' = [callback EXCEPT ![t] = callback'[t]]
    BY <1>1 DEF CallbackStep, CalendarInvitationStart, GoogleStart, Callback, Check,
      ReadExisting, PutConnection, UseCalendarInvitation, Answer, Crash, Leave, End, Go
  <1> QED
    BY <1>1, <1>2

\* A connection is written by a request that saves a selection, with the token
\* it read, or by a callback that stores its token.
LEMMA ConnectionSteps ==
    ASSUME TypeOK, [Next]_vars
    PROVE  \/ connection' = connection
           \/ \E d \in Desks, s \in Selections :
                 /\ SaveSelection(d, s)
                 /\ Written(d, desk[d].account, desk[d].read.token, s)
           \/ \E t \in Tabs :
                 /\ PutConnection(t)
                 /\ Written(t, callback[t].account, callback[t].token, callback[t].calendars)
  <1> USE DEF vars, storeVars
  <1>1. CASE UNCHANGED vars
    BY <1>1
  <1>2. ASSUME NEW d \in Desks, NEW s \in Selections, SaveSelection(d, s)
        PROVE  connection' = connection \/ Written(d, desk[d].account, desk[d].read.token, s)
    BY <1>2 DEF SaveSelection, NotWritten
  <1>3. ASSUME NEW t \in Tabs, PutConnection(t)
        PROVE  \/ connection' = connection
               \/ Written(t, callback[t].account, callback[t].token, callback[t].calendars)
    BY <1>3 DEF PutConnection, NotWritten
  <1>4. ASSUME NEW t \in Tabs,
               \/ \E i \in Invites : CalendarInvitationStart(t, i)
               \/ GoogleStart(t)
               \/ \E a \in Accounts : Callback(t, a)
               \/ Check(t) \/ ReadExisting(t) \/ UseCalendarInvitation(t) \/ Answer(t)
               \/ Crash(t)
        PROVE  connection' = connection
    BY <1>4 DEF CalendarInvitationStart, GoogleStart, Callback, Check,
      ReadExisting, UseCalendarInvitation, Answer, Crash, Leave
  <1>5. CASE \/ Tick
             \/ \E b \in Browsers : SessionEnds(b)
             \/ \E d \in Desks : GiveUp(d)
             \/ \E d \in Desks, a \in Accounts : AskInvitation(d, a) \/ ReadConnection(d, a)
             \/ \E d \in Desks, i \in Invites : PutCalendarInvitation(d, i)
             \/ \E i \in Invites : DeleteCalendarInvitation(i)
    BY <1>5 DEF Tick, SessionEnds, GiveUp, AskInvitation, ReadConnection,
      PutCalendarInvitation, DeleteCalendarInvitation
  <1> QED
    BY <1>1, <1>2, <1>3, <1>4, <1>5 DEF Next, CallbackStep

\* No connection is ever taken away.
LEMMA ConnectedStays ==
    ASSUME TypeOK, CallbackInv, DeskInv, [Next]_vars, NEW a \in Accounts, Connected(a)
    PROVE  Connected(a)'
  <1>1. connection \in [Accounts -> Connection]
    BY DEF TypeOK
  <1>2. ASSUME NEW d \in Desks, NEW s \in Selections, SaveSelection(d, s),
               Written(d, desk[d].account, desk[d].read.token, s)
        PROVE  Connected(a)'
    <2>1. desk[d].read.token # 0
      BY <1>2 DEF SaveSelection, DeskInv
    <2> QED
      BY <1>1, <1>2, <2>1 DEF Written, Connected
  <1>3. ASSUME NEW t \in Tabs, PutConnection(t),
               Written(t, callback[t].account, callback[t].token, callback[t].calendars)
        PROVE  Connected(a)'
    <2>1. callback[t].token # 0
      BY <1>3 DEF PutConnection, At, CallbackInv, Established
    <2> QED
      BY <1>1, <1>3, <2>1 DEF Written, Connected
  <1>4. CASE connection' = connection
    BY <1>4 DEF Connected
  <1> QED
    BY <1>2, <1>3, <1>4, ConnectionSteps

-------------------------------------------------------------------------------
\* The cookies.

\* Cookies are set for the tab that leaves, and otherwise only deleted.
LEMMA CookieSteps ==
    ASSUME TypeOK, [Next]_vars
    PROVE  \/ UNCHANGED <<state, bridge, flow>>
           \/ \E t \in Tabs, i \in Invites \cup {NoInvite}, n \in Bridge :
                 /\ Leave(t, i, n)
                 /\ n # NoBridge => n.invite = i /\ i \in Invites
           \/ \E b \in Browsers :
                 /\ bridge' = [bridge EXCEPT ![b] = NoBridge]
                 /\ UNCHANGED <<state, flow>>
  <1> USE DEF vars, storeVars, cookieVars
  <1>1. CASE UNCHANGED vars
    BY <1>1
  <1>2. ASSUME NEW t \in Tabs, NEW i \in Invites, CalendarInvitationStart(t, i)
        PROVE  \E n \in Bridge : Leave(t, i, n) /\ n.invite = i
    <2>1. now \in 0 .. MaxTime
      BY DEF TypeOK
    <2>2. [invite |-> i, until |-> now + CookieLife] \in Bridge
      BY <2>1, LifeAssumption DEF Bridge
    <2> QED
      BY <1>2, <2>2 DEF CalendarInvitationStart
  <1>3. ASSUME NEW t \in Tabs, GoogleStart(t)
        PROVE  Leave(t, NoInvite, NoBridge) /\ NoBridge \in Bridge
    BY <1>3, LifeAssumption DEF GoogleStart, NoBridge, Bridge
  <1>4. ASSUME NEW t \in Tabs, Answer(t)
        PROVE  /\ \/ bridge' = bridge
                  \/ bridge' = [bridge EXCEPT ![BrowserOf[t]] = NoBridge]
               /\ UNCHANGED <<state, flow>>
               /\ BrowserOf[t] \in Browsers
    BY <1>4, AccountAssumption DEF Answer
  <1>5. ASSUME NEW t \in Tabs,
               \/ \E a \in Accounts : Callback(t, a)
               \/ Check(t) \/ ReadExisting(t) \/ PutConnection(t) \/ UseCalendarInvitation(t)
               \/ Crash(t)
        PROVE  UNCHANGED <<state, bridge, flow>>
    BY <1>5 DEF Callback, Check, ReadExisting, PutConnection, UseCalendarInvitation, Crash
  <1>6. CASE \/ Tick
             \/ \E b \in Browsers : SessionEnds(b)
             \/ \E d \in Desks : GiveUp(d)
             \/ \E d \in Desks, a \in Accounts : AskInvitation(d, a) \/ ReadConnection(d, a)
             \/ \E d \in Desks, i \in Invites : PutCalendarInvitation(d, i)
             \/ \E d \in Desks, s \in Selections : SaveSelection(d, s)
             \/ \E i \in Invites : DeleteCalendarInvitation(i)
    BY <1>6 DEF Tick, SessionEnds, GiveUp, AskInvitation, ReadConnection,
      PutCalendarInvitation, DeleteCalendarInvitation, SaveSelection
  <1> QED
    BY <1>1, <1>2, <1>3, <1>4, <1>5, <1>6 DEF Next, CallbackStep

\* A callback takes its cookies when it arrives; afterwards it can only lose them.
LEMMA CallbackCookies ==
    ASSUME TypeOK, [Next]_vars, NEW u \in Tabs
    PROVE  \/ \E a \in Accounts : Callback(u, a)
           \/ /\ callback'[u].bridge \in {NoBridge, callback[u].bridge}
              /\ callback'[u].session \in {NoAccount, callback[u].session}
  <1> USE DEF vars
  <1>1. callback \in [Tabs -> CallbackRequest]
    BY DEF TypeOK
  <1>2. \A where \in CallbackStates :
           /\ Resting(where).bridge = NoBridge
           /\ Resting(where).session = NoAccount
    BY DEF Resting
  <1>3. ASSUME NEW t \in Tabs, t # u,
               \/ \E i \in Invites : CalendarInvitationStart(t, i)
               \/ GoogleStart(t)
               \/ \E a \in Accounts : Callback(t, a)
               \/ CallbackStep(t) \/ Crash(t)
        PROVE  callback'[u] = callback[u]
    BY <1>3, OtherTabsRest
  <1>4. CASE (\E i \in Invites : CalendarInvitationStart(u, i)) \/ GoogleStart(u) \/ Crash(u)
             \/ Answer(u)
    <2>1. callback' = [callback EXCEPT ![u] = Resting("away")]
      BY <1>4 DEF CalendarInvitationStart, GoogleStart, Leave, Crash, Answer, End
    <2> QED
      BY <1>1, <1>2, <2>1 DEF CallbackStates
  <1>5. CASE Check(u)
    BY <1>1, <1>5 DEF Check, End, Go, Resting, CallbackRequest
  <1>6. CASE ReadExisting(u)
    BY <1>1, <1>6 DEF ReadExisting, CallbackRequest
  <1>7. CASE PutConnection(u)
    BY <1>1, <1>7 DEF PutConnection, AfterStore, StoredNext, Resting
  <1>8. CASE UseCalendarInvitation(u)
    BY <1>1, <1>8 DEF UseCalendarInvitation, Go, CallbackRequest
  <1>9. CASE \/ UNCHANGED vars
             \/ Tick
             \/ \E b \in Browsers : SessionEnds(b)
             \/ \E d \in Desks : GiveUp(d)
             \/ \E d \in Desks, a \in Accounts : AskInvitation(d, a) \/ ReadConnection(d, a)
             \/ \E d \in Desks, i \in Invites : PutCalendarInvitation(d, i)
             \/ \E d \in Desks, s \in Selections : SaveSelection(d, s)
             \/ \E i \in Invites : DeleteCalendarInvitation(i)
    BY <1>9 DEF Tick, SessionEnds, GiveUp, AskInvitation, ReadConnection,
      PutCalendarInvitation, DeleteCalendarInvitation, SaveSelection
  <1> QED
    BY <1>3, <1>4, <1>5, <1>6, <1>7, <1>8, <1>9 DEF Next, CallbackStep

\* A tab's flow changes only as the tab leaves for Google, its callback at rest.
LEMMA FlowSteps ==
    ASSUME TypeOK, [Next]_vars, NEW u \in Tabs, flow'[u] # flow[u]
    PROVE  callback'[u].bridge = NoBridge
  <1>1. PICK t \in Tabs, i \in Invites \cup {NoInvite}, n \in Bridge : Leave(t, i, n)
    BY CookieSteps
  <1>2. flow \in [Tabs -> Invites \cup {NoInvite}] /\ callback \in [Tabs -> CallbackRequest]
    BY DEF TypeOK
  <1>3. t = u
    BY <1>1, <1>2 DEF Leave
  <1> QED
    BY <1>1, <1>2, <1>3 DEF Leave, Resting

\* The cookies of one browser, and those a callback carries, stay those of one
\* flow.
LEMMA CookiesInductive ==
    ASSUME TypeOK, CookieInv, BridgeBelongsToFlow, [Next]_vars
    PROVE  CookieInv' /\ BridgeBelongsToFlow'
  <1> USE AccountAssumption
  <1>1. /\ state \in [Browsers -> [tab : Tabs \cup {NoTab}, until : 0 .. MaxTime + CookieLife]]
        /\ bridge \in [Browsers -> Bridge]
        /\ flow \in [Tabs -> Invites \cup {NoInvite}]
    BY DEF TypeOK
  <1>2. ASSUME NEW t \in Tabs, NEW i \in Invites \cup {NoInvite}, NEW n \in Bridge,
               Leave(t, i, n), n # NoBridge => n.invite = i /\ i \in Invites,
               NEW b \in Browsers
        PROVE  /\ state'[b] # NoState => state'[b].tab \in Tabs /\ BrowserOf[state'[b].tab] = b
               /\ bridge'[b] # NoBridge => bridge'[b].invite \in Invites
               /\ state'[b] # NoState /\ bridge'[b] # NoBridge =>
                    flow'[state'[b].tab] = bridge'[b].invite
    <2>1. CASE b = BrowserOf[t]
      BY <1>1, <1>2, <2>1 DEF Leave
    <2>2. CASE b # BrowserOf[t]
      <3>1. state'[b] = state[b] /\ bridge'[b] = bridge[b]
        BY <1>1, <1>2, <2>2 DEF Leave
      <3>2. state[b] # NoState =>
              /\ state[b].tab \in Tabs
              /\ BrowserOf[state[b].tab] = b
              /\ flow'[state[b].tab] = flow[state[b].tab]
        BY <1>1, <1>2, <2>2 DEF Leave, CookieInv
      <3> QED
        BY <3>1, <3>2 DEF CookieInv, BridgeBelongsToFlow
    <2> QED
      BY <2>1, <2>2
  <1>3. ASSUME NEW b \in Browsers, bridge' = [bridge EXCEPT ![b] = NoBridge],
               UNCHANGED <<state, flow>>, NEW c \in Browsers
        PROVE  bridge'[c] # NoBridge => bridge'[c] = bridge[c]
    BY <1>1, <1>3
  <1>4. CookieInv'
    BY <1>2, <1>3, CookieSteps DEF CookieInv
  <1>5. ASSUME NEW b \in Browsers, state'[b] # NoState, bridge'[b] # NoBridge
        PROVE  flow'[state'[b].tab] = bridge'[b].invite
    BY <1>2, <1>3, <1>5, CookieSteps DEF BridgeBelongsToFlow
  <1>6. ASSUME NEW u \in Tabs, callback'[u].bridge # NoBridge
        PROVE  flow'[u] = callback'[u].bridge.invite
    <2>1. flow'[u] = flow[u]
      BY <1>6, FlowSteps
    <2>2. ASSUME NEW a \in Accounts, Callback(u, a)
          PROVE  flow[u] = callback'[u].bridge.invite
      <3>1. callback'[u].bridge = bridge[BrowserOf[u]]
        BY <2>2 DEF Callback, TypeOK, Resting
      <3>2. state[BrowserOf[u]].tab = u /\ state[BrowserOf[u]] # NoState
        BY <2>2 DEF Callback, VerifyState, NoState
      <3> QED
        BY <1>6, <3>1, <3>2 DEF BridgeBelongsToFlow
    <2>3. CASE callback'[u].bridge = callback[u].bridge
      BY <1>6, <2>1, <2>3 DEF BridgeBelongsToFlow
    <2> QED
      BY <1>6, <2>1, <2>2, <2>3, CallbackCookies
  <1> QED
    BY <1>4, <1>5, <1>6 DEF BridgeBelongsToFlow

-------------------------------------------------------------------------------
\* Sessions.

\* A session is issued to an administrator, or to no one.
LEMMA SessionsInductive ==
    ASSUME TypeOK, CallbackInv, SessionsAreAdmins, [Next]_vars
    PROVE  SessionsAreAdmins'
  <1> USE DEF vars, cookieVars
  <1>1. session \in [Browsers -> Accounts \cup {NoAccount}]
    BY DEF TypeOK
  <1>2. CASE session' = session
    BY <1>2 DEF SessionsAreAdmins
  <1>3. ASSUME NEW b \in Browsers, SessionEnds(b)
        PROVE  SessionsAreAdmins'
    BY <1>1, <1>3 DEF SessionEnds, SessionsAreAdmins
  <1>4. ASSUME NEW t \in Tabs, Answer(t)
        PROVE  SessionsAreAdmins'
    <2>1. CASE session' = session
      BY <2>1, <1>2
    <2>2. CASE At(t, "issue") /\ session' = [session EXCEPT ![BrowserOf[t]] = SessionIssued(t)]
      <3>1. SessionIssued(t) \in Admins
        BY <2>2 DEF SessionIssued, At, CallbackInv, Established
      <3> QED
        BY <1>1, <2>2, <3>1 DEF SessionsAreAdmins
    <2> QED
      BY <1>4, <2>1, <2>2 DEF Answer
  <1>5. CASE \/ UNCHANGED vars
             \/ Tick
             \/ \E d \in Desks : GiveUp(d)
             \/ \E d \in Desks, a \in Accounts : AskInvitation(d, a) \/ ReadConnection(d, a)
             \/ \E d \in Desks, i \in Invites : PutCalendarInvitation(d, i)
             \/ \E d \in Desks, s \in Selections : SaveSelection(d, s)
             \/ \E i \in Invites : DeleteCalendarInvitation(i)
             \/ \E t \in Tabs, i \in Invites : CalendarInvitationStart(t, i)
             \/ \E t \in Tabs : GoogleStart(t)
             \/ \E t \in Tabs, a \in Accounts : Callback(t, a)
             \/ \E t \in Tabs : \/ Check(t) \/ ReadExisting(t) \/ PutConnection(t)
                                \/ UseCalendarInvitation(t) \/ Crash(t)
    BY <1>2, <1>5 DEF Tick, GiveUp, AskInvitation, ReadConnection, PutCalendarInvitation,
      SaveSelection, DeleteCalendarInvitation, CalendarInvitationStart, GoogleStart, Leave,
      Callback, Check, ReadExisting, PutConnection, UseCalendarInvitation, Crash
  <1> QED
    BY <1>3, <1>4, <1>5 DEF Next, CallbackStep

-------------------------------------------------------------------------------
\* Requests under way.

\* An administrator's request keeps what it has read.
LEMMA DesksInductive ==
    ASSUME TypeOK, DeskInv, [Next]_vars
    PROVE  DeskInv'
  <1> USE DEF vars
  <1>1. desk \in [Desks -> [at : {"idle", "invite", "save"},
                            account : Accounts \cup {NoAccount}, read : Connection]]
    BY DEF TypeOK
  <1>2. CASE desk' = desk
    BY <1>2 DEF DeskInv
  <1>3. ASSUME NEW d \in Desks, desk' = [desk EXCEPT ![d] = IdleDesk]
        PROVE  DeskInv'
    BY <1>1, <1>3 DEF DeskInv, IdleDesk
  <1>4. ASSUME NEW d \in Desks, NEW a \in Accounts, AskInvitation(d, a)
        PROVE  DeskInv'
    BY <1>1, <1>4 DEF AskInvitation, DeskInv
  <1>5. ASSUME NEW d \in Desks, NEW a \in Accounts, ReadConnection(d, a)
        PROVE  DeskInv'
    <2>1. connection[a].token > 0
      BY <1>5 DEF ReadConnection, Connected, TypeOK, Connection
    <2> QED
      BY <1>1, <1>5, <2>1 DEF ReadConnection, DeskInv
  <1>6. CASE \/ UNCHANGED vars
             \/ Tick
             \/ \E b \in Browsers : SessionEnds(b)
             \/ \E i \in Invites : DeleteCalendarInvitation(i)
             \/ \E t \in Tabs, i \in Invites : CalendarInvitationStart(t, i)
             \/ \E t \in Tabs : GoogleStart(t)
             \/ \E t \in Tabs, a \in Accounts : Callback(t, a)
             \/ \E t \in Tabs : CallbackStep(t) \/ Crash(t)
    BY <1>2, <1>6 DEF Tick, SessionEnds, DeleteCalendarInvitation, CalendarInvitationStart,
      GoogleStart, Leave, Callback, CallbackStep, Check, ReadExisting, PutConnection,
      UseCalendarInvitation, Answer, Crash
  <1>7. CASE \/ \E d \in Desks : GiveUp(d)
             \/ \E d \in Desks, i \in Invites : PutCalendarInvitation(d, i)
             \/ \E d \in Desks, s \in Selections : SaveSelection(d, s)
    BY <1>3, <1>7 DEF GiveUp, PutCalendarInvitation, SaveSelection
  <1> QED
    BY <1>4, <1>5, <1>6, <1>7 DEF Next

\* A callback has established what its next call relies on.
LEMMA CallbacksInductive ==
    ASSUME TypeOK, CookieInv, CallbackInv, DeskInv, InvitationInv, SessionsAreAdmins,
           [Next]_vars
    PROVE  CallbackInv'
  <1> SUFFICES ASSUME NEW u \in Tabs
               PROVE  Established(callback[u])'
    BY DEF CallbackInv
  <1> USE DEF vars
  <1> DEFINE c == callback[u]
  <1>1. callback \in [Tabs -> CallbackRequest] /\ c \in CallbackRequest
    BY DEF TypeOK
  <1>2. Established(c)
    BY DEF CallbackInv
  <1>3. \A a \in Accounts : Connected(a) => Connected(a)'
    BY ConnectedStays
  <1>4. CASE callback'[u] = callback[u]
    BY <1>2, <1>3, <1>4 DEF Established
  <1>5. CASE callback'[u] = Resting("away")
    BY <1>5 DEF Established, Resting
  <1>6. ASSUME NEW a \in Accounts, Callback(u, a)
        PROVE  Established(callback[u])'
    <2>1. /\ callback'[u].at = "check"
          /\ callback'[u].bridge = bridge[BrowserOf[u]]
          /\ callback'[u].session = session[BrowserOf[u]]
          /\ callback'[u].account = a
          /\ callback'[u].token > 0
      BY <1>1, <1>6 DEF Callback, Resting, TypeOK
    <2>2. /\ bridge[BrowserOf[u]] # NoBridge => bridge[BrowserOf[u]].invite \in Invites
          /\ session[BrowserOf[u]] # NoAccount => session[BrowserOf[u]] \in Admins
      BY AccountAssumption DEF CookieInv, SessionsAreAdmins
    <2> QED
      BY <2>1, <2>2 DEF Established
  <1>7. CASE Check(u)
    BY <1>1, <1>2, <1>7, <1>5
    DEF Check, End, Go, Established, At, Bridged, CallbackRequest
  <1>8. CASE ReadExisting(u)
    BY <1>1, <1>2, <1>8 DEF ReadExisting, Established, At, CallbackRequest
  <1>9. CASE PutConnection(u)
    <2>1. PICK o \in Outcomes :
            /\ o.applied => Written(u, c.account, c.token, c.calendars)
            /\ callback' = [callback EXCEPT ![u] = AfterStore(c, o.ok)]
      BY <1>9 DEF PutConnection
    <2>2. callback'[u] = AfterStore(c, o.ok)
      BY <1>1, <2>1
    <2>3. CASE ~o.ok
      BY <1>5, <2>2, <2>3 DEF AfterStore
    <2>4. CASE o.ok
      <3>1. /\ callback'[u].at = IF c.bridge = NoBridge THEN "issue" ELSE "use"
            /\ callback'[u].bridge = c.bridge
            /\ callback'[u].session = c.session
            /\ callback'[u].account = c.account
        BY <2>2, <2>4 DEF AfterStore, StoredNext, Resting
      <3>2. c.at = "store" /\ c.account \in Accounts /\ c.token > 0
        BY <1>2, <1>9 DEF PutConnection, At, Established
      <3>3. Written(u, c.account, c.token, c.calendars)
        BY <2>1, <2>4 DEF Outcomes, Done, Lost, Refused
      <3>4. connection'[c.account].token = c.token
        BY <3>2, <3>3 DEF Written, TypeOK
      <3>5. connection'[callback'[u].account].token # 0
        BY <3>1, <3>2, <3>4, <1>1 DEF CallbackRequest
      <3> QED
        BY <1>2, <3>1, <3>2, <3>5 DEF Established, Connected
    <2> QED
      BY <2>3, <2>4 DEF Outcomes, Done, Lost, Refused
  <1>10. CASE UseCalendarInvitation(u)
    <2>1. PICK where \in {"connected", "refused"} : Go(u, where)
      BY <1>10 DEF UseCalendarInvitation
    <2>2. /\ callback'[u].at = where
          /\ callback'[u].bridge = c.bridge
          /\ callback'[u].session = c.session
          /\ callback'[u].account = c.account
      BY <1>1, <2>1 DEF Go, CallbackRequest
    <2>3. c.at = "use" /\ c.account \in Accounts /\ connection'[c.account].token # 0
      BY <1>2, <1>3, <1>10 DEF UseCalendarInvitation, At, Established, Connected
    <2> QED
      BY <1>2, <2>2, <2>3 DEF Established, Connected
  <1>11. CASE \/ \E i \in Invites : CalendarInvitationStart(u, i)
              \/ GoogleStart(u) \/ Crash(u) \/ Answer(u)
    <2>1. callback' = [callback EXCEPT ![u] = Resting("away")]
      BY <1>11 DEF CalendarInvitationStart, GoogleStart, Leave, Crash, Answer, End
    <2> QED
      BY <1>1, <1>5, <2>1
  <1>12. ASSUME NEW t \in Tabs, t # u,
                \/ \E i \in Invites : CalendarInvitationStart(t, i)
                \/ GoogleStart(t)
                \/ \E a \in Accounts : Callback(t, a)
                \/ CallbackStep(t) \/ Crash(t)
         PROVE  Established(callback[u])'
    BY <1>4, <1>12, OtherTabsRest
  <1>13. CASE \/ UNCHANGED vars
              \/ Tick
              \/ \E b \in Browsers : SessionEnds(b)
              \/ \E d \in Desks : GiveUp(d)
              \/ \E d \in Desks, a \in Accounts : AskInvitation(d, a) \/ ReadConnection(d, a)
              \/ \E d \in Desks, i \in Invites : PutCalendarInvitation(d, i)
              \/ \E d \in Desks, s \in Selections : SaveSelection(d, s)
              \/ \E i \in Invites : DeleteCalendarInvitation(i)
    BY <1>4, <1>13 DEF Tick, SessionEnds, GiveUp, AskInvitation, ReadConnection,
      PutCalendarInvitation, DeleteCalendarInvitation, SaveSelection
  <1> QED
    BY <1>6, <1>7, <1>8, <1>9, <1>10, <1>11, <1>12, <1>13 DEF Next, CallbackStep

-------------------------------------------------------------------------------
\* Invitations.

\* An invitation is created, deleted, or used by a callback that may redeem it.
LEMMA InvitationSteps ==
    ASSUME [Next]_vars
    PROVE  \/ UNCHANGED <<invitation, redeemed>>
           \/ \E d \in Desks, i \in Invites : PutCalendarInvitation(d, i)
           \/ \E i \in Invites : DeleteCalendarInvitation(i)
           \/ \E t \in Tabs :
                 /\ UseCalendarInvitation(t)
                 /\ Redeemable(callback[t].bridge.invite, callback[t].account)
                 /\ invitation' = [invitation EXCEPT ![callback[t].bridge.invite].used = TRUE]
                 /\ redeemed' = [redeemed EXCEPT ![callback[t].bridge.invite] = @ + 1]
  <1> USE DEF vars, storeVars
  <1>1. ASSUME NEW t \in Tabs, UseCalendarInvitation(t)
        PROVE  \/ UNCHANGED <<invitation, redeemed>>
               \/ /\ Redeemable(callback[t].bridge.invite, callback[t].account)
                  /\ invitation' = [invitation EXCEPT ![callback[t].bridge.invite].used = TRUE]
                  /\ redeemed' = [redeemed EXCEPT ![callback[t].bridge.invite] = @ + 1]
    BY <1>1 DEF UseCalendarInvitation
  <1>2. CASE \/ UNCHANGED vars
             \/ Tick
             \/ \E b \in Browsers : SessionEnds(b)
             \/ \E d \in Desks : GiveUp(d)
             \/ \E d \in Desks, a \in Accounts : AskInvitation(d, a) \/ ReadConnection(d, a)
             \/ \E d \in Desks, s \in Selections : SaveSelection(d, s)
             \/ \E t \in Tabs, i \in Invites : CalendarInvitationStart(t, i)
             \/ \E t \in Tabs : GoogleStart(t)
             \/ \E t \in Tabs, a \in Accounts : Callback(t, a)
             \/ \E t \in Tabs : \/ Check(t) \/ ReadExisting(t) \/ PutConnection(t)
                                \/ Answer(t) \/ Crash(t)
    BY <1>2 DEF Tick, SessionEnds, GiveUp, AskInvitation, ReadConnection, SaveSelection,
      CalendarInvitationStart, GoogleStart, Leave, Callback, Check, ReadExisting,
      PutConnection, Answer, Crash
  <1> QED
    BY <1>1, <1>2 DEF Next, CallbackStep

\* What is stored or used is for an account, what is used has connected it, and
\* its uses are counted.
LEMMA InvitationsInductive ==
    ASSUME TypeOK, CallbackInv, DeskInv, InvitationInv, [Next]_vars
    PROVE  InvitationInv'
  <1>1. invitation \in [Invites -> Invitation] /\ redeemed \in [Invites -> 0 .. 1]
    BY DEF TypeOK
  <1>2. \A a \in Accounts : Connected(a) => Connected(a)'
    BY ConnectedStays
  <1>3. ASSUME NEW i \in Invites,
               /\ redeemed'[i] = redeemed[i]
               /\ invitation'[i].used = invitation[i].used
               /\ invitation'[i].email = invitation[i].email
               /\ invitation'[i].stored => invitation[i].stored
        PROVE  /\ redeemed'[i] = IF invitation'[i].used THEN 1 ELSE 0
               /\ invitation'[i].stored \/ invitation'[i].used =>
                    invitation'[i].email \in Accounts
               /\ invitation'[i].used => Connected(invitation[i].email)'
    <2>1. invitation[i].used => invitation[i].email \in Accounts
                                  /\ Connected(invitation[i].email)
      BY DEF InvitationInv
    <2>2. invitation[i].used => connection'[invitation[i].email].token # 0
      BY <1>2, <2>1 DEF Connected
    <2> QED
      BY <1>3, <2>2 DEF InvitationInv, Connected
  <1>4. CASE UNCHANGED <<invitation, redeemed>>
    BY <1>3, <1>4 DEF InvitationInv
  <1>5. ASSUME NEW i \in Invites, DeleteCalendarInvitation(i)
        PROVE  InvitationInv'
    <2>1. \A j \in Invites : /\ redeemed'[j] = redeemed[j]
                             /\ invitation'[j].used = invitation[j].used
                             /\ invitation'[j].email = invitation[j].email
                             /\ invitation'[j].stored => invitation[j].stored
      BY <1>1, <1>5 DEF DeleteCalendarInvitation, Invitation
    <2> QED
      BY <1>3, <2>1 DEF InvitationInv
  <1>6. ASSUME NEW d \in Desks, NEW i \in Invites, PutCalendarInvitation(d, i)
        PROVE  InvitationInv'
    <2>1. desk[d].account \in Accounts
      BY <1>6 DEF PutCalendarInvitation, DeskInv
    <2>2. ~invitation[i].used /\ redeemed[i] = 0
      BY <1>6 DEF PutCalendarInvitation, Undrawn, InvitationInv
    <2>3. /\ invitation'[i].email = desk[d].account
          /\ ~invitation'[i].used
          /\ redeemed'[i] = 0
      BY <1>1, <1>6, <2>2 DEF PutCalendarInvitation
    <2>4. \A j \in Invites \ {i} : invitation'[j] = invitation[j] /\ redeemed'[j] = redeemed[j]
      BY <1>1, <1>6 DEF PutCalendarInvitation
    <2> QED
      BY <1>3, <2>1, <2>3, <2>4 DEF InvitationInv
  <1>7. ASSUME NEW t \in Tabs,
               UseCalendarInvitation(t),
               Redeemable(callback[t].bridge.invite, callback[t].account),
               invitation' = [invitation EXCEPT ![callback[t].bridge.invite].used = TRUE],
               redeemed' = [redeemed EXCEPT ![callback[t].bridge.invite] = @ + 1]
        PROVE  InvitationInv'
    <2> DEFINE i == callback[t].bridge.invite
    <2>1. /\ i \in Invites
          /\ callback[t].account \in Accounts
          /\ Connected(callback[t].account)
      BY <1>7 DEF UseCalendarInvitation, At, CallbackInv, Established
    <2>2. redeemed[i] = 0 /\ invitation[i].email = callback[t].account
      BY <1>7, <2>1 DEF Redeemable, Usable, InvitationInv
    <2>3. /\ redeemed'[i] = 1
          /\ invitation'[i].used
          /\ invitation'[i].email = callback[t].account
      BY <1>1, <1>7, <2>1, <2>2 DEF Invitation
    <2>4. \A j \in Invites \ {i} : invitation'[j] = invitation[j] /\ redeemed'[j] = redeemed[j]
      BY <1>1, <1>7, <2>1
    <2>5. connection'[callback[t].account].token # 0
      BY <1>2, <2>1 DEF Connected
    <2> QED
      BY <1>3, <2>1, <2>3, <2>4, <2>5 DEF InvitationInv, Connected
  <1> QED
    BY <1>4, <1>5, <1>6, <1>7, InvitationSteps

-------------------------------------------------------------------------------
\* What is read and later written.

\* A request that is to save a connection has just read it, or is as it was and
\* no less overlapped.
LEMMA SavingDesk ==
    ASSUME TypeOK, [Next]_vars, NEW d \in Desks, desk'[d].at = "save"
    PROVE  \/ \E a \in Accounts : ReadConnection(d, a)
           \/ /\ desk'[d] = desk[d]
              /\ d \in overlapped => d \in overlapped'
              /\ \A s \in Selections : ~SaveSelection(d, s)
  <1> USE AccountAssumption DEF vars
  <1>1. desk \in [Desks -> [at : {"idle", "invite", "save"},
                            account : Accounts \cup {NoAccount}, read : Connection]]
    BY DEF TypeOK
  <1>2. ASSUME NEW e \in Desks, desk' = [desk EXCEPT ![e] = IdleDesk],
               overlapped \subseteq overlapped' \cup {e}
        PROVE  desk'[d] = desk[d] /\ (d \in overlapped => d \in overlapped')
    BY <1>1, <1>2 DEF IdleDesk
  <1>3. \A s \in Selections : ~SaveSelection(d, s)
    BY <1>1 DEF SaveSelection, IdleDesk
  <1>4. ASSUME NEW e \in Desks,
               \/ GiveUp(e)
               \/ \E i \in Invites : PutCalendarInvitation(e, i)
               \/ \E s \in Selections : SaveSelection(e, s)
        PROVE  desk'[d] = desk[d] /\ (d \in overlapped => d \in overlapped')
    BY <1>2, <1>4
    DEF GiveUp, PutCalendarInvitation, SaveSelection, Written, NotWritten
  <1>5. ASSUME NEW e \in Desks, NEW a \in Accounts, AskInvitation(e, a)
        PROVE  desk'[d] = desk[d] /\ overlapped' = overlapped
    BY <1>1, <1>5 DEF AskInvitation
  <1>6. ASSUME NEW e \in Desks, NEW a \in Accounts, ReadConnection(e, a)
        PROVE  \/ ReadConnection(d, a)
               \/ desk'[d] = desk[d] /\ overlapped' = overlapped
    BY <1>1, <1>6 DEF ReadConnection
  <1>7. ASSUME NEW t \in Tabs,
               \/ \E i \in Invites : CalendarInvitationStart(t, i)
               \/ GoogleStart(t)
               \/ \E a \in Accounts : Callback(t, a)
               \/ CallbackStep(t) \/ Crash(t)
        PROVE  desk' = desk /\ overlapped \subseteq overlapped' \cup {t} /\ t # d
    BY <1>7 DEF CalendarInvitationStart, GoogleStart, Leave, Callback, CallbackStep, Check,
      ReadExisting, PutConnection, UseCalendarInvitation, Answer, Crash, End, Written,
      NotWritten
  <1>8. CASE \/ UNCHANGED vars
             \/ Tick
             \/ \E b \in Browsers : SessionEnds(b)
             \/ \E i \in Invites : DeleteCalendarInvitation(i)
    BY <1>3, <1>8 DEF Tick, SessionEnds, DeleteCalendarInvitation
  <1> QED
    BY <1>3, <1>4, <1>5, <1>6, <1>7, <1>8 DEF Next

\* A callback that is to store its token has just arrived, or has made one more
\* read, or is as it was; and it is no less overlapped.
LEMMA StoringCallback ==
    ASSUME TypeOK, [Next]_vars, NEW u \in Tabs,
           callback'[u].at \in {"check", "read", "store"}
    PROVE  /\ u \in overlapped => u \in overlapped'
           /\ ~PutConnection(u)
           /\ \/ \E a \in Accounts : Callback(u, a)
              \/ ReadExisting(u)
              \/ Check(u)
              \/ callback'[u] = callback[u]
  <1> USE AccountAssumption DEF vars
  <1>1. callback \in [Tabs -> CallbackRequest]
    BY DEF TypeOK
  <1>2. callback'[u] # Resting("away")
    BY DEF Resting
  <1>3. ~PutConnection(u)
    <2>1. ASSUME NEW o \in Outcomes
          PROVE  AfterStore(callback[u], o.ok).at \notin {"check", "read", "store"}
      BY DEF AfterStore, StoredNext, Resting
    <2> QED
      BY <1>1, <2>1 DEF PutConnection
  <1>4. ASSUME NEW t \in Tabs, t # u,
               \/ \E i \in Invites : CalendarInvitationStart(t, i)
               \/ GoogleStart(t)
               \/ \E a \in Accounts : Callback(t, a)
               \/ CallbackStep(t) \/ Crash(t)
        PROVE  callback'[u] = callback[u] /\ (u \in overlapped => u \in overlapped')
    <2>1. overlapped \subseteq overlapped' \cup {t}
      BY <1>4 DEF CalendarInvitationStart, GoogleStart, Leave, Callback, CallbackStep, Check,
        ReadExisting, PutConnection, UseCalendarInvitation, Answer, Crash, End, Written,
        NotWritten
    <2> QED
      BY <1>4, <2>1, OtherTabsRest
  <1>5. ~(\E i \in Invites : CalendarInvitationStart(u, i)) /\ ~GoogleStart(u)
    BY <1>1, <1>2 DEF CalendarInvitationStart, GoogleStart, Leave
  <1>6. ~Answer(u) /\ ~Crash(u)
    BY <1>1, <1>2 DEF Answer, Crash, End
  <1>7. ~UseCalendarInvitation(u)
    BY <1>1 DEF UseCalendarInvitation, Go, CallbackRequest
  <1>8. ASSUME (\E a \in Accounts : Callback(u, a)) \/ ReadExisting(u)
        PROVE  overlapped' = overlapped
    BY <1>8 DEF Callback, ReadExisting
  <1>9. ASSUME Check(u)
        PROVE  overlapped' = overlapped
    BY <1>1, <1>2, <1>9 DEF Check, End
  <1>10. ASSUME NEW d \in Desks,
                \/ GiveUp(d)
                \/ \E a \in Accounts : AskInvitation(d, a) \/ ReadConnection(d, a)
                \/ \E i \in Invites : PutCalendarInvitation(d, i)
                \/ \E s \in Selections : SaveSelection(d, s)
         PROVE  callback' = callback /\ overlapped \subseteq overlapped' \cup {d} /\ d # u
    BY <1>10 DEF GiveUp, AskInvitation, ReadConnection, PutCalendarInvitation, SaveSelection,
      Written, NotWritten
  <1>11. CASE \/ UNCHANGED vars
              \/ Tick
              \/ \E b \in Browsers : SessionEnds(b)
              \/ \E i \in Invites : DeleteCalendarInvitation(i)
    BY <1>3, <1>11 DEF Tick, SessionEnds, DeleteCalendarInvitation
  <1> QED
    BY <1>3, <1>4, <1>5, <1>6, <1>7, <1>8, <1>9, <1>10, <1>11 DEF Next, CallbackStep

\* Whatever no one has overtaken still agrees with the store.
LEMMA FreshInductive ==
    ASSUME TypeOK, CallbackInv, DeskInv, FreshInv, [Next]_vars
    PROVE  FreshInv'
  <1>1. /\ connection \in [Accounts -> Connection]
        /\ minted \in Nat
        /\ callback \in [Tabs -> CallbackRequest]
        /\ desk \in [Desks -> [at : {"idle", "invite", "save"},
                               account : Accounts \cup {NoAccount}, read : Connection]]
    BY DEF TypeOK
  <1>2. ASSUME NEW d \in Desks, d \notin overlapped', desk'[d].at = "save"
        PROVE  desk'[d].read = connection'[desk'[d].account]
    <2>1. ASSUME NEW a \in Accounts, ReadConnection(d, a)
          PROVE  desk'[d].read = connection'[desk'[d].account]
      BY <1>1, <2>1 DEF ReadConnection, storeVars
    <2>2. CASE /\ desk'[d] = desk[d]
               /\ d \notin overlapped
               /\ \A s \in Selections : ~SaveSelection(d, s)
      <3> DEFINE a == desk[d].account
      <3>1. a \in Accounts /\ desk[d].at = "save" /\ desk[d].read = connection[a]
        BY <1>2, <2>2 DEF DeskInv, FreshInv
      <3>2. ASSUME NEW p, NEW k, NEW s, Written(p, a, k, s)
            PROVE  p = d
        BY <1>2, <3>1, <3>2 DEF Written, OthersOf
      <3>3. connection'[a] = connection[a]
        <4>1. ASSUME NEW p, NEW b \in Accounts, NEW k, NEW s, Written(p, b, k, s), b # a
              PROVE  connection'[a] = connection[a]
          BY <1>1, <3>1, <4>1 DEF Written
        <4>2. ASSUME NEW e \in Desks, NEW s \in Selections, SaveSelection(e, s),
                     Written(e, desk[e].account, desk[e].read.token, s)
              PROVE  connection'[a] = connection[a]
          <5>1. desk[e].account \in Accounts
            BY <4>2 DEF DeskInv, SaveSelection
          <5>2. desk[e].account # a
            BY <2>2, <3>2, <4>2
          <5> QED
            BY <4>1, <4>2, <5>1, <5>2
        <4>3. ASSUME NEW t \in Tabs, PutConnection(t),
                     Written(t, callback[t].account, callback[t].token, callback[t].calendars)
              PROVE  connection'[a] = connection[a]
          <5>1. callback[t].account \in Accounts
            BY <4>3 DEF CallbackInv, PutConnection, At, Established
          <5>2. callback[t].account # a
            BY <1>2, <3>2, <4>3, AccountAssumption
          <5> QED
            BY <4>1, <4>3, <5>1, <5>2
        <4> QED
          BY <4>2, <4>3, ConnectionSteps
      <3> QED
        BY <2>2, <3>1, <3>3
    <2> QED
      BY <1>2, <2>1, <2>2, SavingDesk
  <1>3. ASSUME NEW u \in Tabs, u \notin overlapped',
               callback'[u].at \in {"check", "read", "store"}
        PROVE  /\ callback'[u].token > connection'[callback'[u].account].token
               /\ callback'[u].at = "store" =>
                    \/ callback'[u].blind
                    \/ callback'[u].calendars = connection'[callback'[u].account].calendars
    <2>1. u \notin overlapped /\ ~PutConnection(u)
      BY <1>3, StoringCallback
    <2>2. ASSUME NEW a \in Accounts, Callback(u, a)
          PROVE  /\ callback'[u].token > connection'[a].token
                 /\ callback'[u].account = a
                 /\ callback'[u].at = "check"
      <3>1. connection[a].token \in 0 .. minted
        BY <1>1 DEF Connection
      <3>2. /\ callback'[u].token = minted + 1
            /\ callback'[u].account = a
            /\ callback'[u].at = "check"
            /\ connection' = connection
        BY <1>1, <2>2 DEF Callback, Resting, storeVars
      <3> QED
        BY <1>1, <3>1, <3>2
    <2>3. ASSUME NEW a \in Accounts, callback[u].account = a,
                 callback[u].at \in {"check", "read", "store"}
          PROVE  connection'[a] = connection[a]
      <3>1. ASSUME NEW p, NEW k, NEW s, Written(p, a, k, s)
            PROVE  p = u
        BY <1>3, <2>3, <3>1 DEF Written, OthersOf
      <3> QED
        BY <1>1, <2>1, <2>3, <3>1, ConnectionSteps, AccountAssumption DEF Written
    <2>4. CASE Check(u)
      <3>1. /\ callback[u].at = "check"
            /\ callback[u].account \in Accounts
            /\ callback[u].token > connection[callback[u].account].token
        BY <2>1, <2>4 DEF Check, At, CallbackInv, Established, FreshInv
      <3>2. /\ callback'[u].at # "store"
            /\ callback'[u].account = callback[u].account
            /\ callback'[u].token = callback[u].token
        BY <1>1, <1>3, <2>4 DEF Check, Go, End, Resting, CallbackRequest
      <3> QED
        BY <2>3, <3>1, <3>2
    <2>5. CASE ReadExisting(u)
      <3>1. /\ callback[u].at = "read"
            /\ callback[u].account \in Accounts
            /\ callback[u].token > connection[callback[u].account].token
        BY <2>1, <2>5 DEF ReadExisting, At, CallbackInv, Established, FreshInv
      <3>2. /\ callback'[u].account = callback[u].account
            /\ callback'[u].token = callback[u].token
            /\ \/ callback'[u].blind
               \/ callback'[u].calendars = connection[callback[u].account].calendars
        BY <1>1, <2>5 DEF ReadExisting, CallbackRequest
      <3> QED
        BY <2>3, <3>1, <3>2
    <2>6. CASE callback'[u] = callback[u]
      <3>1. /\ callback[u].account \in Accounts
            /\ callback[u].token > connection[callback[u].account].token
            /\ callback[u].at = "store" =>
                 \/ callback[u].blind
                 \/ callback[u].calendars = connection[callback[u].account].calendars
        BY <1>3, <2>1, <2>6 DEF CallbackInv, Established, FreshInv
      <3> QED
        BY <1>3, <2>3, <2>6, <3>1
    <2> QED
      BY <1>3, <2>2, <2>4, <2>5, <2>6, StoringCallback
  <1> QED
    BY <1>2, <1>3 DEF FreshInv

-------------------------------------------------------------------------------
\* The theorems.

\* Every state of every run satisfies the inductive invariant.
THEOREM AccountsInvariant == Spec => []AccountsInv
  <1>1. Init => AccountsInv
    <2> SUFFICES ASSUME Init
                 PROVE  AccountsInv
      OBVIOUS
    <2>1. TypeOK
      BY InitTypeOK
    <2>2. CookieInv /\ BridgeBelongsToFlow /\ SessionsAreAdmins
      BY DEF Init, CookieInv, BridgeBelongsToFlow, SessionsAreAdmins, Resting
    <2>3. CallbackInv /\ DeskInv /\ InvitationInv
      BY AccountAssumption DEF Init, CallbackInv, Established, Resting, DeskInv, IdleDesk,
        InvitationInv, Undrawn
    <2>4. FreshInv
      BY DEF Init, FreshInv, Resting, IdleDesk
    <2> QED
      BY <2>1, <2>2, <2>3, <2>4 DEF AccountsInv
  <1>2. AccountsInv /\ [Next]_vars => AccountsInv'
    <2> SUFFICES ASSUME AccountsInv, [Next]_vars
                 PROVE  AccountsInv'
      OBVIOUS
    <2> USE DEF AccountsInv
    <2>1. TypeOK'
      <3>1. CASE UNCHANGED vars
        BY <3>1 DEF vars, storeVars, cookieVars, TypeOK, CallbackRequest, Connection
      <3>2. CASE Next
        BY <3>2, DeskTypeOK, TabTypeOK DEF Next
      <3> QED
        BY <3>1, <3>2
    <2>2. CookieInv' /\ BridgeBelongsToFlow'
      BY CookiesInductive
    <2>3. SessionsAreAdmins'
      BY SessionsInductive
    <2>4. CallbackInv'
      BY CallbacksInductive
    <2>5. DeskInv'
      BY DesksInductive
    <2>6. InvitationInv'
      BY InvitationsInductive
    <2>7. FreshInv'
      BY FreshInductive
    <2> QED
      BY <2>1, <2>2, <2>3, <2>4, <2>5, <2>6, <2>7
  <1> QED
    BY <1>1, <1>2, PTL DEF Spec

\* Whatever callbacks, tabs and administrators do, nobody but an administrator
\* holds a session: README.md:142, for googleCallback.
THEOREM OnlyAdminsHoldSessions == Spec => []SessionsAreAdmins
  <1>1. AccountsInv => SessionsAreAdmins
    BY DEF AccountsInv
  <1> QED
    BY <1>1, AccountsInvariant, PTL

\* A callback that is accepted carries the invitation its own tab left with, or
\* none: the two cookies of a browser stay those of one flow.
THEOREM CallbacksKeepTheirFlow == Spec => []BridgeBelongsToFlow
  <1>1. AccountsInv => BridgeBelongsToFlow
    BY DEF AccountsInv
  <1> QED
    BY <1>1, AccountsInvariant, PTL

\* googleCallback uses an invitation only after it has stored the connection,
\* and no request ever takes a connection away.
THEOREM UsedInvitationsAreConnected == Spec => []UsedIsConnected
  <1>1. AccountsInv => UsedIsConnected
    BY DEF AccountsInv, InvitationInv, CallbackInv, Established, UsedIsConnected, At
  <1> QED
    BY <1>1, AccountsInvariant, PTL

\* The types, of which: a use is written at most once, and no stored token is
\* one that was never given out.
THEOREM AccountTypes == Spec => []TypeOK
  <1>1. AccountsInv => TypeOK
    BY DEF AccountsInv
  <1> QED
    BY <1>1, AccountsInvariant, PTL

\* A connection is overwritten with what was read of it before another write
\* only by a request that other write has overtaken, and by a callback that
\* could not read it: the read and the write of putConnection and of
\* googleCallback lose nothing otherwise.
THEOREM OnlyOverlapsLoseWrites == Spec => NothingLostAlone
  <1>1. AccountsInv /\ [Next]_vars => [OverwritesOnlyRead]_vars
    <2> SUFFICES ASSUME AccountsInv, [Next]_vars, NEW a \in Accounts,
                        connection'[a] # connection[a]
                 PROVE  \/ \E d \in Desks :
                             /\ Saves(d, a)
                             /\ d \in overlapped \/ connection'[a].token = connection[a].token
                        \/ \E t \in Tabs :
                             /\ Stores(t, a)
                             /\ \/ t \in overlapped
                                \/ /\ connection'[a].token > connection[a].token
                                   /\ \/ callback[t].blind
                                      \/ connection'[a].calendars = connection[a].calendars
      BY DEF OverwritesOnlyRead
    <2>1. /\ connection \in [Accounts -> Connection]
          /\ callback \in [Tabs -> CallbackRequest]
          /\ desk \in [Desks -> [at : {"idle", "invite", "save"},
                                 account : Accounts \cup {NoAccount}, read : Connection]]
      BY DEF AccountsInv, TypeOK
    <2>2. ASSUME NEW d \in Desks, NEW s \in Selections, SaveSelection(d, s),
                 Written(d, desk[d].account, desk[d].read.token, s)
          PROVE  /\ Saves(d, a)
                 /\ d \in overlapped \/ connection'[a].token = connection[a].token
      <3>1. /\ desk[d].at = "save"
            /\ desk[d].account = a
            /\ desk'[d].at = "idle"
            /\ connection'[a].token = desk[d].read.token
        BY <2>1, <2>2 DEF SaveSelection, Written, IdleDesk
      <3> QED
        BY <3>1 DEF Saves, AccountsInv, FreshInv
    <2>3. ASSUME NEW t \in Tabs, PutConnection(t),
                 Written(t, callback[t].account, callback[t].token, callback[t].calendars)
          PROVE  /\ Stores(t, a)
                 /\ \/ t \in overlapped
                    \/ /\ connection'[a].token > connection[a].token
                       /\ \/ callback[t].blind
                          \/ connection'[a].calendars = connection[a].calendars
      <3>1. /\ callback[t].at = "store"
            /\ callback[t].account = a
            /\ connection'[a].token = callback[t].token
            /\ connection'[a].calendars = callback[t].calendars
        BY <2>1, <2>3 DEF PutConnection, At, Written
      <3>2. callback'[t].at # "store"
        BY <2>3, StoringCallback DEF AccountsInv
      <3> QED
        BY <3>1, <3>2 DEF Stores, At, AccountsInv, FreshInv
    <2> QED
      BY <2>2, <2>3, ConnectionSteps DEF AccountsInv
  <1> QED
    BY <1>1, AccountsInvariant, PTL DEF Spec, NothingLostAlone

-------------------------------------------------------------------------------
\* The refinement.

\* An invitation is drawn as long as it has an account: it is deleted, never
\* forgotten.
LEMMA StoredIsDrawn ==
    ASSUME InvitationInv, NEW i \in Invites, invitation[i].stored
    PROVE  Drawn(i)
  BY AccountAssumption DEF InvitationInv, Drawn

\* What the invitations of the store, the clock and the connections promise:
\* each step of the code keeps the promise of InvitationGrant.
THEOREM AccountsImplementGrant == Spec => ImplementsGrant
  <1> USE AccountAssumption
  <1>1. Init => Grant!Init
    BY DEF Init, Grant!Init, Undrawn, Unwritten, Granted, Past, Drawn, Connected
  <1>2. AccountsInv /\ AccountsInv' /\ [Next]_vars => [Grant!Next]_(Grant!vars)
    <2> SUFFICES ASSUME AccountsInv, AccountsInv', [Next]_vars
                 PROVE  Grant!Next \/ UNCHANGED Grant!vars
      OBVIOUS
    <2>1. /\ TypeOK /\ CallbackInv /\ DeskInv /\ InvitationInv
          /\ invitation \in [Invites -> Invitation]
          /\ connection \in [Accounts -> Connection]
          /\ redeemed \in [Invites -> 0 .. 1]
          /\ now \in Nat /\ InvitationLife \in Nat \ {0}
          /\ \A i \in Invites : invitation[i].until \in Nat
      BY LifeAssumption DEF AccountsInv, TypeOK, Invitation
    <2>2. CASE UNCHANGED <<invitation, redeemed, connection, now>>
      BY <2>2 DEF Grant!vars, Granted, Past, Drawn, Connected
    <2>3. CASE Tick
      <3> DEFINE I == {i \in Invites : Past(i)'}
      <3>1. UNCHANGED <<invitation, redeemed, connection>> /\ now' = now + 1
        BY <2>3 DEF Tick, storeVars
      <3>2. {i \in Invites : Past(i)}' = {i \in Invites : Past(i)} \cup I
        BY <2>1, <3>1 DEF Drawn, Past
      <3>3. Grant!Lapse(I)
        BY <3>1, <3>2 DEF Grant!Lapse, Granted, Drawn, Connected
      <3> QED
        BY <3>3 DEF Grant!Next
    <2>4. ASSUME NEW d \in Desks, NEW i \in Invites, PutCalendarInvitation(d, i)
          PROVE  \E a \in Accounts : Grant!Offer(i, a)
      <3>1. PICK a \in Accounts : a = desk[d].account
        BY <2>1, <2>4 DEF PutCalendarInvitation, DeskInv
      <3>2. /\ ~Drawn(i)
            /\ Drawn(i)'
            /\ invitation'[i].stored
            /\ invitation'[i].email = a
            /\ ~Past(i) /\ ~Past(i)'
            /\ UNCHANGED <<now, redeemed, connection>>
            /\ \A j \in Invites \ {i} : invitation'[j] = invitation[j]
        BY <2>1, <2>4, <3>1 DEF PutCalendarInvitation, Drawn, Past, Undrawn
      <3>3. \A j \in Invites : Granted(j)' = IF j = i THEN "open" ELSE Granted(j)
        BY <3>2 DEF Granted, Past, Drawn
      <3>4. \A j \in Invites :
               /\ invitation'[j].email = IF j = i THEN a ELSE invitation[j].email
               /\ Past(j)' <=> Past(j)
        BY <3>2 DEF Granted, Past, Drawn
      <3>5. [j \in Invites |-> Granted(j)]' = [[j \in Invites |-> Granted(j)] EXCEPT ![i] = "open"]
        BY <3>3
      <3>6. Granted(i) = "none"
        BY <3>2 DEF Granted
      <3>7. [j \in Invites |-> invitation[j].email]'
              = [[j \in Invites |-> invitation[j].email] EXCEPT ![i] = a]
        BY <3>4
      <3>8. {j \in Invites : Past(j)}' = {j \in Invites : Past(j)}
        BY <3>4
      <3> QED
        BY <3>1, <3>2, <3>5, <3>6, <3>7, <3>8 DEF Grant!Offer, Connected
    <2>5. ASSUME NEW i \in Invites, DeleteCalendarInvitation(i)
          PROVE  Grant!Withdraw(i)
      <3>1. /\ invitation[i].stored
            /\ ~invitation'[i].stored
            /\ invitation'[i].email = invitation[i].email
            /\ invitation'[i].until = invitation[i].until
            /\ UNCHANGED <<now, redeemed, connection>>
            /\ \A j \in Invites \ {i} : invitation'[j] = invitation[j]
        BY <2>1, <2>5 DEF DeleteCalendarInvitation, Invitation
      <3>2. Drawn(i)
        BY <2>1, <3>1, StoredIsDrawn
      <3>3. \A j \in Invites : Granted(j)' = IF j = i THEN "closed" ELSE Granted(j)
        BY <3>1, <3>2 DEF Granted, Drawn
      <3>4. \A j \in Invites :
               /\ invitation'[j].email = invitation[j].email
               /\ Past(j)' <=> Past(j)
        BY <3>1 DEF Past, Drawn
      <3>5. Granted(i) = "open"
        BY <3>1, <3>2 DEF Granted
      <3>6. [j \in Invites |-> Granted(j)]'
              = [[j \in Invites |-> Granted(j)] EXCEPT ![i] = "closed"]
        BY <3>3
      <3>7. [j \in Invites |-> invitation[j].email]' = [j \in Invites |-> invitation[j].email]
        BY <3>4
      <3>8. {j \in Invites : Past(j)}' = {j \in Invites : Past(j)}
        BY <3>4
      <3> QED
        BY <3>1, <3>5, <3>6, <3>7, <3>8 DEF Grant!Withdraw, Connected
    <2>6. ASSUME NEW t \in Tabs,
                 UseCalendarInvitation(t),
                 Redeemable(callback[t].bridge.invite, callback[t].account),
                 invitation' = [invitation EXCEPT ![callback[t].bridge.invite].used = TRUE],
                 redeemed' = [redeemed EXCEPT ![callback[t].bridge.invite] = @ + 1]
          PROVE  \E i \in Invites : Grant!Redeem(i)
      <3> DEFINE i == callback[t].bridge.invite
      <3>1. /\ i \in Invites
            /\ callback[t].account \in Accounts
            /\ Connected(callback[t].account)
            /\ UNCHANGED <<now, connection>>
        BY <2>1, <2>6 DEF UseCalendarInvitation, At, CallbackInv, Established
      <3>2. /\ invitation[i].stored
            /\ redeemed[i] = 0
            /\ invitation[i].email = callback[t].account
            /\ ~Past(i)
        BY <2>1, <2>6, <3>1 DEF Redeemable, Usable, InvitationInv, Past
      <3>3. /\ redeemed' = [redeemed EXCEPT ![i] = 1]
            /\ \A j \in Invites : /\ invitation'[j].email = invitation[j].email
                                  /\ invitation'[j].until = invitation[j].until
                                  /\ invitation'[j].stored = invitation[j].stored
        <4>1. redeemed' = [redeemed EXCEPT ![i] = 1]
          BY <2>1, <2>6, <3>1, <3>2
        <4>2. /\ invitation' = [invitation EXCEPT ![i] = [invitation[i] EXCEPT !.used = TRUE]]
              /\ invitation \in [Invites -> Invitation]
          BY <2>1, <2>6
        <4>3. ASSUME NEW j \in Invites
              PROVE  /\ invitation'[j].email = invitation[j].email
                     /\ invitation'[j].until = invitation[j].until
                     /\ invitation'[j].stored = invitation[j].stored
          <5>1. CASE j = i
            <6>1. invitation'[j] = [invitation[j] EXCEPT !.used = TRUE]
              BY <4>2, <5>1
            <6> QED
              BY <4>2, <6>1 DEF Invitation
          <5>2. CASE j # i
            BY <4>2, <5>2
          <5> QED
            BY <5>1, <5>2
        <4> QED
          BY <4>1, <4>3
      <3>4. Drawn(i) /\ Granted(i) = "open"
        BY <2>1, <3>1, <3>2, StoredIsDrawn DEF Granted
      <3>5. \A j \in Invites : Granted(j)' = Granted(j) /\ (Past(j)' <=> Past(j))
        BY <3>1, <3>3 DEF Granted, Past, Drawn
      <3>6. /\ [j \in Invites |-> Granted(j)]' = [j \in Invites |-> Granted(j)]
            /\ [j \in Invites |-> invitation[j].email]' = [j \in Invites |-> invitation[j].email]
            /\ {j \in Invites : Past(j)}' = {j \in Invites : Past(j)}
        BY <3>3, <3>5
      <3> QED
        BY <3>1, <3>2, <3>3, <3>4, <3>6 DEF Grant!Redeem, Connected
    <2>7. ASSUME NEW p, NEW a \in Accounts, NEW k, NEW s, k # 0, Written(p, a, k, s),
                 UNCHANGED <<now, invitation, redeemed>>
          PROVE  Grant!Connect(a)
      <3>1. {b \in Accounts : Connected(b)}' = {b \in Accounts : Connected(b)} \cup {a}
        BY <2>1, <2>7 DEF Written, Connected
      <3> QED
        BY <2>7, <3>1 DEF Grant!Connect, Granted, Past, Drawn
    <2>8. ASSUME NEW d \in Desks, NEW s \in Selections, SaveSelection(d, s),
                 Written(d, desk[d].account, desk[d].read.token, s)
          PROVE  \E a \in Accounts : Grant!Connect(a)
      <3>1. desk[d].account \in Accounts /\ desk[d].read.token # 0
        BY <2>1, <2>8 DEF SaveSelection, DeskInv
      <3> QED
        BY <2>7, <2>8, <3>1 DEF SaveSelection
    <2>9. ASSUME NEW t \in Tabs, PutConnection(t),
                 Written(t, callback[t].account, callback[t].token, callback[t].calendars)
          PROVE  \E a \in Accounts : Grant!Connect(a)
      <3>1. callback[t].account \in Accounts /\ callback[t].token # 0
        BY <2>1, <2>9 DEF PutConnection, At, CallbackInv, Established
      <3> QED
        BY <2>7, <2>9, <3>1 DEF PutConnection
    <2>10. Tick \/ now' = now
      BY DEF Next, vars, SessionEnds, GiveUp, AskInvitation, ReadConnection,
        PutCalendarInvitation, SaveSelection, DeleteCalendarInvitation,
        CalendarInvitationStart, GoogleStart, Leave, Callback, CallbackStep, Check,
        ReadExisting, PutConnection, UseCalendarInvitation, Answer, Crash
    <2>11. CASE ~UNCHANGED <<invitation, redeemed>>
      <3>1. \/ \E i \in Invites, a \in Accounts : Grant!Offer(i, a)
            \/ \E i \in Invites : Grant!Withdraw(i) \/ Grant!Redeem(i)
        <4>1. CASE \E d \in Desks, i \in Invites : PutCalendarInvitation(d, i)
          BY <4>1, <2>4
        <4>2. CASE \E i \in Invites : DeleteCalendarInvitation(i)
          BY <4>2, <2>5
        <4>3. CASE \E t \in Tabs :
                 /\ UseCalendarInvitation(t)
                 /\ Redeemable(callback[t].bridge.invite, callback[t].account)
                 /\ invitation' = [invitation EXCEPT ![callback[t].bridge.invite].used = TRUE]
                 /\ redeemed' = [redeemed EXCEPT ![callback[t].bridge.invite] = @ + 1]
          BY <4>3, <2>6
        <4> QED
          BY <2>11, <4>1, <4>2, <4>3, InvitationSteps
      <3> QED
        BY <3>1 DEF Grant!Next
    <2>12. CASE connection' # connection
      <3>1. \E a \in Accounts : Grant!Connect(a)
        BY <2>1, <2>8, <2>9, <2>12, ConnectionSteps
      <3> QED
        BY <3>1 DEF Grant!Next
    <2> QED
      BY <2>2, <2>3, <2>10, <2>11, <2>12
  <1> QED
    BY <1>1, <1>2, AccountsInvariant, PTL DEF Spec, ImplementsGrant, Grant!Spec
=============================================================================
