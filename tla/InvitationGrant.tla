-------------------------- MODULE InvitationGrant --------------------------
(***************************************************************************)
(* What a calendar invitation promises: it names one Google account, and   *)
(* while it is neither withdrawn nor past its time that account can redeem *)
(* it, once, and only when the account's calendars are connected.          *)
(***************************************************************************)
EXTENDS Naturals

CONSTANTS Invites,   \* invitations that may ever be made
          Accounts,  \* Google accounts
          NoAccount

VARIABLES
    grant,      \* [Invites -> {"none", "open", "closed"}]
    address,    \* [Invites -> Accounts \cup {NoAccount}]: whom it is for
    past,       \* invitations whose time is over
    redeemed,   \* [Invites -> Nat]: how often each was redeemed
    connected   \* accounts whose calendars are connected

vars == <<grant, address, past, redeemed, connected>>

Init ==
    /\ grant = [i \in Invites |-> "none"]
    /\ address = [i \in Invites |-> NoAccount]
    /\ past = {}
    /\ redeemed = [i \in Invites |-> 0]
    /\ connected = {}

Offer(i, a) ==
    /\ grant[i] = "none"
    /\ grant' = [grant EXCEPT ![i] = "open"]
    /\ address' = [address EXCEPT ![i] = a]
    /\ UNCHANGED <<past, redeemed, connected>>

Withdraw(i) ==
    /\ grant[i] = "open"
    /\ grant' = [grant EXCEPT ![i] = "closed"]
    /\ UNCHANGED <<address, past, redeemed, connected>>

Lapse(I) ==
    /\ past' = past \cup I
    /\ UNCHANGED <<grant, address, redeemed, connected>>

Connect(a) ==
    /\ connected' = connected \cup {a}
    /\ UNCHANGED <<grant, address, past, redeemed>>

Redeem(i) ==
    /\ grant[i] = "open"
    /\ i \notin past
    /\ redeemed[i] = 0
    /\ address[i] \in connected
    /\ redeemed' = [redeemed EXCEPT ![i] = 1]
    /\ UNCHANGED <<grant, address, past, connected>>

Next ==
    \/ \E i \in Invites, a \in Accounts : Offer(i, a)
    \/ \E i \in Invites : Withdraw(i) \/ Redeem(i)
    \/ \E I \in SUBSET Invites : Lapse(I)
    \/ \E a \in Accounts : Connect(a)

Spec == Init /\ [][Next]_vars
=============================================================================
