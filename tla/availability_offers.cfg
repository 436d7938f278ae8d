SPECIFICATION Spec
CONSTANTS
    Meetings <- SomeMeetings
    Commitments <- SomeCommitments
    Instants <- SomeInstants
    Froms <- SomeFroms
    MaxCommitments = 3
INVARIANTS
    SlotsAreExact
    OnLocalHalfHours
    OfferedIsAccepted
    AcceptedIsFree
    PagesMissOnlyStraddlers
