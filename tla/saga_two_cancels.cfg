SPECIFICATION Spec
CONSTANTS
    b1 = b1
    b2 = b2
    b3 = b3
    Bookings = {b1}
    Calls = {c1, c2}
    Slot <- OneSlot
    Blockers = 1
    Calendars = {main}
    Watched = {main}
    GoneAnswers = {"gone"}
    Faults = {}
    NoBooking = NoBooking
    NoCalendar = NoCalendar
PROPERTIES
    CancelTakesEffect
CHECK_DEADLOCK FALSE
