CONSTANTS
    MAX_TERMINALS = 3
    MAX_NUM_PIDS = 4
    Statuses <- MCStatuses
    FrameBit = 0
    ExecInBackground = TRUE
    ExecDuringBoot = FALSE
SPECIFICATION Spec
INVARIANTS
    ParentIsCaller
CHECK_DEADLOCK FALSE
