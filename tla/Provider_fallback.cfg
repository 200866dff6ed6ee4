SPECIFICATION Spec
CONSTANTS
    t1 = t1
    t2 = t2
    p = p
    q = q
    k1 = k1
    k2 = k2
    NoKey = NoKey
    Turns = {t1, t2}
    Candidates <- MCCandidates
    Keys <- MCKeys
    Standard <- MCStandard
    Billing <- MCBilling
    Window = 3
    MaxRetries = 1
    MaxFailures = 2
SYMMETRY TurnSymmetry
INVARIANTS
    NoHammering
    KeysRotate
PROPERTIES
    NeverShortened
