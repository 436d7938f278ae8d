SPECIFICATION Spec
CONSTANTS
    intro = intro
    other = other
    chat = chat
    Ids = {intro, other}
    Slugs = {intro, chat}
    Rank <- IntroFirst
    Tabs = {t1, t2}
    Blocks = {k1}
    Spans = {early}
    b1 = b1
    b2 = b2
    Bookings = {b1, b2}
    Locks = {1, 2, 3}
    LockIDs <- ShareOne
    NoBooking = NoBooking
    NoId = NoId
    NoRecord = NoRecord
    NoBlock = NoBlock
INVARIANTS
    StoresInv
    StoresAgree
    ReachableAtSlug
    DeletedIsGone
    BookingsAgree
PROPERTIES
    TombstonesKept
    RevivedOnlyByStaleTab
    LostOnlyToItsSlug
SYMMETRY TabSymmetry
