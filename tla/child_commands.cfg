SPECIFICATION FairSpec

CONSTANTS
    Header = 2
    MaxBytes = 2
    Puttable = 1

INVARIANTS CommitIsWhole OutcomeIsTold
PROPERTY EveryCommandEnds

CHECK_DEADLOCK FALSE
