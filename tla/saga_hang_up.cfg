SPECIFICATION Spec
CONSTANTS
    b1 = b1
    b2 = b2
    b3 = b3
    Bookings = {b1, b2}
    Calls = {c1}
    Slot <- TwoSlots
    Blockers = 1
    Calendars = {main}
    Watched = {main}
    GoneAnswers = {"gone"}
    Faults = {"disconnect"}
    NoBooking = NoBooking
    NoCalendar = NoCalendar
INVARIANTS
    BlockFailureRollsBack
CHECK_DEADLOCK FALSE
