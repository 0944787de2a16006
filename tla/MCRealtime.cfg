SPECIFICATION Spec
CONSTANTS
    Readers = {r1, r2, r3}
    Writers = {w1, w2}
    Impatient = {r1, w1, w2}
    Jobs = {j1}
    Faults = {"encode", "train"}
    MaxIngests = 2
    r1 = r1
    r2 = r2
    r3 = r3
    w1 = w1
    w2 = w2
    j1 = j1
INVARIANTS TypeOK FreshKV ServesWhole
PROPERTIES Exclusion EveryoneServed
CHECK_DEADLOCK FALSE
