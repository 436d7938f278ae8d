SPECIFICATION Spec
CONSTANTS
    b1 = b1
    b2 = b2
    b3 = b3
    Bookings = {b1, b2, b3}
    Calls = {c1}
    Slot <- ThreeSlots
    Blockers = 0
    Calendars = {main, other}
    Watched = {main, other}
    GoneAnswers = {"gone"}
    Faults = {}
    NoBooking = NoBooking
    NoCalendar = NoCalendar
INVARIANTS
    NoDoubleBooking
CHECK_DEADLOCK FALSE
