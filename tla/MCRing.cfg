CONSTANTS
    Spinners = {s1}
    Droppers = {d1}
    Consumers = {c1, c2}
    Pollers = {p1}
    SPollers = {q1}
    Buffers = {b1}
    Opaques = {0, 1}
    RequestedSize = 3
    NULL = NULL
    None = None
    NoThread = NoThread
SPECIFICATION Spec
INVARIANTS TypeOK MutualExclusion FreeSlotsCleared NoLostWakeup OutsideUnlocked
PROPERTIES ImplementsQueue
