SPECIFICATION FairSpec
CONSTANTS
    loop = loop
    w1 = w1
    Loop = loop
    Workers = {w1}
    None = None
    Cost = 2
    Capacity = 3
    Providers = 2
    MaxGets = 2
    Horizon = 4
INVARIANT TypeOK
INVARIANT WindowBudget
PROPERTY ReadinessIsAnswered
PROPERTY ProbeIsWhole
