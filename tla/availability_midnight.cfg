SPECIFICATION Spec
CONSTANTS
    Meetings <- SkippedMidnight
    Commitments <- SomeCommitments
    Instants <- SomeInstants
    Froms <- SomeFroms
    MaxCommitments = 3
INVARIANTS
    SlotsAreExact
