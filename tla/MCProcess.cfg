CONSTANTS
    MAX_TERMINALS = 3
    MAX_NUM_PIDS = 5
    Statuses <- MCStatuses
    FrameBit = 0
    ExecInBackground = FALSE
    ExecDuringBoot = FALSE
SPECIFICATION FairSpec
INVARIANTS
    IInv
    Coherent
    NeverWild
    ParentIsCaller
    NoLeakedPid
    CallersGetAnAnswer
    ShellKept
PROPERTIES
    BootCompletes
    EveryTerminalScheduled
    StatusNotStale
    OtherStacksUntouched
