SPECIFICATION Spec
CONSTANTS
    t1 = t1
    t2 = t2
    read = read
    exec = exec
    old = old
    new = new
    Nothing = Nothing
    Turns = {t1, t2}
    Calls = {read, exec}
    Refused = {exec}
    Results <- MCResults
    HistorySize = 6
    WarningThreshold = 2
    CriticalThreshold = 4
    CircuitBreakerThreshold = 6
SYMMETRY TurnSymmetry
INVARIANT
    VerdictIsHighest
