SPECIFICATION HSpec
CONSTANTS
    Id = {g1, g2}
    Sat = {s1, s2}
    Slot = {r1}
    None = None
    MaxRev = 4
PROPERTY NoEditIsLost
