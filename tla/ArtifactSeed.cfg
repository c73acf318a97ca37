SPECIFICATION Spec
CONSTANTS
    r1 = r1  r2 = r2
    f1 = f1  f2 = f2
    None = None
    Files = {f1, f2}
    Declared = {f1, f2}
    MaxRecord = 2
    MaxFiled = 1
    Runs = {r1, r2}
INVARIANT DeclaredAreStored
