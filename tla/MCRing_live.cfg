CONSTANTS
    Spinners = {s1}
    Droppers = {}
    Consumers = {c1}
    Pollers = {}
    SPollers = {}
    Buffers = {b1}
    Opaques = {0, 1}
    RequestedSize = 3
    NULL = NULL
    None = None
    NoThread = NoThread
SPECIFICATION FairSpec
PROPERTIES EveryEntryDelivered 
