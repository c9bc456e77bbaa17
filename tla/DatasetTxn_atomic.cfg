SPECIFICATION FairSpec
CONSTANTS
    g1 = g1
    g2 = g2
    g3 = g3
    a1 = a1
    a2 = a2
    r1 = r1
    r2 = r2
    Writer <- MCMixed
    Guarded <- MCMixedGuarded
    Recoverer <- MCOneRecoverer
    Initial = Initial
    Saved = Saved
    None = None
    Torn = Torn
    MaxSaves = 0
    QuietWrites = TRUE
    QuietRecovers = TRUE
PROPERTIES AllOrNothing HalfWriteIsCompleted
CHECK_DEADLOCK FALSE
