SPECIFICATION Spec
CONSTANTS
    t1 = t1
    t2 = t2
    r1 = r1
    r2 = r2
    d1 = d1
    d2 = d2
    Groups = groups
    Probe = probe
    Report = {r1, r2}
    Thread = {t1, t2}
    Doc = {d1, d2}
    Absent = Absent
    Torn = Torn
    NoDoc = NoDoc
    Mounts <- AnyMount
    Flaky <- Posix
    MaxCrashes = 1
SYMMETRY Symmetry
INVARIANT TypeOK
PROPERTY ImplementsVolume
INVARIANT ACopyIsLeft
INVARIANT RenameIsCrashSafe
INVARIANT LadderSuffices
