SPECIFICATION Spec
CONSTANTS
    b1 = b1
    b2 = b2
    b3 = b3
    Bookings = {b1}
    Calls = {c1}
    Slot <- OneSlot
    Blockers = 1
    Calendars = {main, other}
    Watched = {main}
    GoneAnswers = {"gone"}
    Faults = {}
    NoBooking = NoBooking
    NoCalendar = NoCalendar
INVARIANTS
    ToldIsCanceled
CHECK_DEADLOCK FALSE
