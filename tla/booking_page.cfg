SPECIFICATION Spec
CONSTANTS
    Types = {quick, deep}
    Direct = deep
    LastPage = 2
    Submissions = {p1, p2}
    NoType = NoType
INVARIANTS
    PageInv
    OneLoad
    SlotsBelongToMeeting
    RangeMatchesSlots
    OneSubmission
PROPERTIES
    LoadingEnds
