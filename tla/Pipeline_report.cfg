SPECIFICATION Spec
CONSTANTS
    g1 = g1
    g2 = g2
    g3 = g3
    a = a
    b = b
    c = c
    none = none
    p = p
    real = real
    sim = sim
    leolabs = leolabs
    None = none
    Elsets = elsets
    Unattributed = unattributed
    Group = {g1, g2, g3}
    Sat = {a, b, c}
    Providers = {p}
    Mode = {real, sim}
    SourceLists <- MCSources
    Active <- MCActive
    Contents <- MCContents
    MaxGroups = 2
    Bad = "bad"
    Short = "short"
    Record <- MCRecord
    ModeLists <- MCModes
    IdLists <- MCIds
    Feed <- MCFeed
INVARIANT TypeOK
INVARIANT NewestIsKept
INVARIANT GroupsAccountedFor
INVARIANT DisagreementsAreShown
INVARIANT DefaultsAreDrawn
PROPERTY SameObjectSameData
