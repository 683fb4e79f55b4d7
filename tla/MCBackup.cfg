SPECIFICATION BackupSpec
CONSTANTS
    WeekDays = 3
    FirstWeekday = 1
    MaxTime = 5
    MaxStops = 1
INVARIANTS BackupInv
PROPERTIES ChainRestorable CatchUp
CHECK_DEADLOCK FALSE
