SPECIFICATION Spec
CONSTANTS
    c1 = c1
    c2 = c2
    Client = {c1, c2}
    Name = {n1, n2}
    Seed = n1
    None = None
    Absent = Absent
    Torn = Torn
    MaxGroups = 3
    MaxRev = 4
    MaxBoots = 2
SYMMETRY Symmetry
INVARIANT TypeOK
INVARIANT LiveNamesUnique
INVARIANT NoSilentOverwrite
PROPERTY ImplementsSharedDocument
PROPERTY EvidenceIsKept
