SPECIFICATION FairSpec
CONSTANTS
    k1 = k1
    k2 = k2
    w1 = w1
    w2 = w2
    None = None
    Key = {k1, k2}
    Worker = {w1, w2}
    MaxRemembered = 2
    MaxHeldInMemory = 1
    Panels = 0
    Faults = {"render", "write", "unlink", "shutdown"}
    MaxJobs = 3
    MaxBoots = 1
PROPERTY QueuedResolves
