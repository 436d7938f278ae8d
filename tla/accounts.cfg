SPECIFICATION Spec
CONSTANTS
    t1 = t1
    t2 = t2
    laptop = laptop
    Tabs = {t1, t2}
    Browsers = {laptop}
    BrowserOf <- OneBrowser
    Desks = {d1}
    Invites = {i1}
    Accounts = {owner, guest}
    Admins = {owner}
    Selections = {primary, all}
    Primary = primary
    InvitationLife = 2
    CookieLife = 1
    MaxTime = 2
    MaxTokens = 3
    Faults = {"store", "read", "answer", "crash"}
    NoAccount = NoAccount
    NoInvite = NoInvite
    NoTab = NoTab
INVARIANTS
    AccountsInv
    SessionsAreAdmins
    BridgeBelongsToFlow
    UsedIsConnected
PROPERTIES
    NothingLostAlone
    ImplementsGrant
SYMMETRY Symmetry
