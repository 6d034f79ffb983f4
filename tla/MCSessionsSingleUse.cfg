SPECIFICATION Spec
CONSTANTS
    Users = {u1}
    Jtis = {j1, j2, j3}
    Codes = {c1}
    States = {s1}
    Reqs = {r1, r2}
    None = None
    Granted = Granted
INVARIANTS SingleUseRotation
