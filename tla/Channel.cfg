\* Three threads, so that two of one kind meet one of the other; two endpoints
\* of each kind, so that a drop may or may not be the last; two messages, so
\* that one waits behind another; a rendezvous channel, a bounded one and an
\* unbounded one.
SPECIFICATION FairSpec
CONSTANTS
    Threads = {t1, t2, t3}
    SenderIds = {s1, s2}
    ReceiverIds = {r1, r2}
    Messages = {m1, m2}
    Capacities = {0, 1}
    CountMax = 3
    None = None
INVARIANTS MemorySafe Reclaimed QueueSound NoLostWakeup
PROPERTIES MessagesDelivered DisconnectReleases
CHECK_DEADLOCK FALSE
