SPECIFICATION Spec
CONSTANTS
    k1 = k1
    k2 = k2
    w1 = w1
    w2 = w2
    None = None
    Key = {k1, k2}
    Worker = {w1, w2}
    MaxRemembered = 1
    MaxHeldInMemory = 1
    Panels = 1
    Faults = {"render", "write", "partial", "shutdown"}
    MaxJobs = 3
    MaxBoots = 2
SYMMETRY Symmetry
INVARIANT TypeOK
INVARIANT SingleFlight
INVARIANT KeysLeadToJoinable
INVARIANT DoneHasReport
INVARIANT NoPartialReport
PROPERTY ImplementsSharedRender
PROPERTY RunsGoOn
