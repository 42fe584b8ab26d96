SPECIFICATION Spec
CONSTANTS
    g1 = g1
    g2 = g2
    g3 = g3
    r1 = r1
    r2 = r2
    Id = {g1, g2, g3}
    Slot = {r1, r2}
    None = None
    MaxReloads = 1
SYMMETRY Symmetry
INVARIANT TypeOK
INVARIANT SelectionIsListed
PROPERTY ChoicesSurviveLoads
PROPERTY ChoicesSurviveReloads
