SPECIFICATION Spec
CONSTANTS
    g1 = g1
    g2 = g2
    s1 = s1
    s2 = s2
    r1 = r1
    r2 = r2
    Id = {g1, g2}
    Sat = {s1, s2}
    Slot = {r1, r2}
    None = None
    MaxRev = 3
SYMMETRY Symmetry
INVARIANT TypeOK
INVARIANT EditorIsWhole
PROPERTY FreshEditsAreSafe
