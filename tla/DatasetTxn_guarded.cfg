SPECIFICATION Spec
CONSTANTS
    g1 = g1
    g2 = g2
    g3 = g3
    a1 = a1
    a2 = a2
    r1 = r1
    r2 = r2
    Writer <- MCGuarded
    Guarded <- MCGuarded
    Recoverer <- MCRecoverer
    Initial = Initial
    Saved = Saved
    None = None
    Torn = Torn
    MaxSaves = 2
    QuietWrites = FALSE
    QuietRecovers = TRUE
INVARIANTS TypeOK NeverTorn OneWriterInside
SYMMETRY TxnSymmetry
CHECK_DEADLOCK FALSE
