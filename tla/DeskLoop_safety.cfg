\* Two instances; three trades, read two at a time.
CONSTANTS
    Instances = {i1, i2}
    Nobody = Nobody
    Ghost = Ghost
    MaxId = 3
    Batch = 2
    MaxFaults = 3

SPECIFICATION FairSpec
INVARIANTS
    BookIsItsCursor
PROPERTIES
    NothingIsUndone
    IntakeResumes
