SPECIFICATION PSpec
CONSTANTS
    c1 = c1
    c2 = c2
    c3 = c3
    r1 = r1
    r2 = r2
    r3 = r3
    r4 = r4
    Items = {r1, r2, r3, r4}
    Consumers = {c1, c2, c3}
    max = 2
    Default = Default
INVARIANTS
    AcceptedIsKept
