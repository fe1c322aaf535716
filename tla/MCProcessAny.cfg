CONSTANTS
    MAX_TERMINALS = 3
    MAX_NUM_PIDS = 5
    Statuses <- MCStatuses
    FrameBit = 1
    ExecInBackground = TRUE
    ExecDuringBoot = TRUE
SPECIFICATION Spec
INVARIANTS
    RunningPidUsed
CHECK_DEADLOCK FALSE
