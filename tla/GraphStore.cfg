SPECIFICATION Spec
CONSTANTS
    Conns = {c1, c2}
    Names = {a, b}
    Slots = {s1}
    Hash <- MCHash
    Tabs <- MCTabs
    EdgeTabs = {"text"}
    MaxNode = 2
    MaxEdge = 1
    MaxCalls = 4
    Interleave = FALSE
    KeepKeys = TRUE
    MayFail <- MCLoud
    None = None
SYMMETRY Symm
INVARIANTS ReadsLastSet OneValue NothingDangles
