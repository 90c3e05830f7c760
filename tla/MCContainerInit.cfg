\* Three processes at a time, any number of them one after the other.
SPECIFICATION FairSpec
CONSTANTS
    Pids = {p1, p2, p3}
    MainPid = p1
    Statuses <- MCStatuses
    None = None
    Signals = {TERM}
    Chld = CHLD
    InitPid = init
INVARIANTS NoLostWakeup NeverStrays
PROPERTIES Supervises ExitsInTheEnd
\* The container stops when init has returned.
CHECK_DEADLOCK FALSE
