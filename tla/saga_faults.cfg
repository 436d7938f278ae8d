SPECIFICATION Spec
CONSTANTS
    b1 = b1
    b2 = b2
    b3 = b3
    Bookings = {b1, b2, b3}
    Calls = {c1, c2}
    Slot <- ThreeSlots
    Blockers = 1
    Calendars = {main}
    Watched = {}
    GoneAnswers = {"gone"}
    Faults = {"store", "insert", "delete", "answer", "disconnect", "crash"}
    NoBooking = NoBooking
    NoCalendar = NoCalendar
INVARIANTS
    TypeOK
    NoDoubleBooking
    SlotInv
    LocksHaveLiveOwners
    ConfirmationKept
    ToldIsCanceled
    CleanInv
PROPERTIES
    NeverRevived
    OnlyOwnerReleases
    ImplementsLedger
SYMMETRY CallSymmetry
CHECK_DEADLOCK FALSE
