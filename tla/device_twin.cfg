SPECIFICATION TwinFairSpec
CONSTANTS
    HistoryMax = 3
    MaxSeq = 10
    TwinFaultSets <- AllFaultSets
CHECK_DEADLOCK FALSE
INVARIANTS HistoryIsUnbroken SeqIsUnique
PROPERTIES KeepsTicking
