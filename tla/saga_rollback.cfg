SPECIFICATION Spec
CONSTANTS
    b1 = b1
    b2 = b2
    b3 = b3
    Bookings = {b1, b2}
    Calls = {c1}
    Slot <- TwoSlots
    Blockers = 2
    Calendars = {main, other}
    Watched = {main}
    GoneAnswers = {"notFound", "gone"}
    Faults = {"insert"}
    NoBooking = NoBooking
    NoCalendar = NoCalendar
INVARIANTS
    RollbackComplete
    RollbackInv
    ConfirmationKept
PROPERTIES
    PendingResolves
    CancelTakesEffect
CHECK_DEADLOCK FALSE
