\* Two servers of each engine, changed twice, and audited at any time
CONSTANTS
    None = None
    Snapshots <- MCSnapshots
    Levels <- MCLevels
    Scale <- MCScale
    NewNames <- MCNewNames
    MaxChanges = 2
    MaxCounted = 7
SPECIFICATION Spec
INVARIANTS TypeOK ScoreInRange
PROPERTIES MoreIsNotBetter WorseIsNotBetter MissingIsModest AdviceHolds
CHECK_DEADLOCK FALSE
