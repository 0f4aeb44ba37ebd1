\* Two writers and a reader over a ring of two bytes; the first writer and the
\* reader are stoppable.  Writes of two bytes are atomic, writes of three not.
CONSTANTS
    w1 = w1
    w2 = w2
    r1 = r1
    k1 = k1
    NoToken = NoToken
    NoThread = NoThread
    Writers = {w1, w2}
    Readers = {r1}
    Tokens = {k1}
    TokenOf <- SomeToken
    Capacity = 2
    AtomicSize = 2
    WriteCounts = {2, 3}
    ReadCounts = {2}
    MaxCalls = 2
    MaxSpurious = 1
SPECIFICATION FairSpec
CHECK_DEADLOCK FALSE
INVARIANTS
    NoLostWakeup
    CallbackOwnerAlive
    WritesKeepTheirWord
PROPERTIES
    ImplementsChannel
    CallsReturn
