SPECIFICATION FairSpec

CONSTANTS
    q1 = q1
    q2 = q2
    q3 = q3
    watcher = watcher
    checker = checker
    Requests <- MCRequests
    Watchers <- MCWatchers
    Others <- MCOthers

\* The process ends.
CHECK_DEADLOCK FALSE

INVARIANTS
    DrainedUnderRunners
    ExitIsClean
    LateAnswerIsOne

PROPERTIES
    Terminates
