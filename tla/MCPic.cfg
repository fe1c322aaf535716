SPECIFICATION FairSpec
CONSTANTS
    PrefixCodes = TRUE
INVARIANTS
    InServiceMatches
PROPERTIES
    TimerServed
    RequestsServed
