CONSTANTS
    Callers = {1}
    MaxCalls = 3
    MaxDeaths = 1
SPECIFICATION GenSpec
CHECK_DEADLOCK FALSE
INVARIANT NoSecondCall
