\* Two streams on one ingress connection, two DATA chunks each, Q2 engaging
\* at two held buffers.
CONSTANTS
    s1 = s1
    s2 = s2
    Streams <- MCStreams
    MaxChunks = 2
    MaxCredit = 1
    Q2Lower = 1
SPECIFICATION FairSpec
INVARIANTS
    TypeOK
    BodyInOrder
    NoStrandedDelivery
PROPERTIES
    NoWakeAfterFree
    Q2Unblocks
    RelaySpec
