\* The write queue: three calls and a queue of one, in three small scopes.
CONSTANTS
    Calls = {c1, c2, c3}
    Waiters = {w1}
    Stores = {us, eu}
    Capacity = 1
    Scopes <- SmallScopes
    Nobody = Nobody
SPECIFICATION FairSpec
INVARIANTS
    QueueInv
    EnqueueNeverBlocks
PROPERTIES
    ImplementsSpool
    JoinReturns
\* everything may have ended
CHECK_DEADLOCK FALSE
