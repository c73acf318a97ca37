SPECIFICATION Spec
CONSTANTS
    b1 = b1
    c1 = c1  c2 = c2
    None = None
    Browsers = {b1}
    Customers = {c1, c2}
    Keys = {1}
    MaxEvent = 3
SYMMETRY Symmetry
INVARIANTS TypeOK TierIsOwn TierFollows KeysHaveUser
