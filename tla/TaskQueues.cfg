SPECIFICATION Spec
CONSTANTS
    u1 = u1  u2 = u2
    plain = plain  thrifty = thrifty
    None = None
    MaxTask = 2
    MaxSession = 2
    Users = {u1, u2}
    Settings = {plain, thrifty}
SYMMETRY Symmetry
INVARIANTS TypeOK NoStrayWork SettingsAgree
PROPERTIES BegunInOrder KeepsTaskPromise
