SPECIFICATION Spec
CONSTANTS
    s1 = s1  s2 = s2
    None = None
    Paths <- Family
    Staff = {"a"}
    Slots = {s1, s2}
SYMMETRY SaveSymmetry
INVARIANTS TypeOK StopKeepsTree LiveRowsReturn
