\* One stream with enough DATA chunks for Q2 to engage, release and engage
\* again within one read.
CONSTANTS
    s1 = s1
    s2 = s2
    Streams <- MCOneStream
    MaxChunks = 5
    MaxCredit = 1
    Q2Lower = 1
SPECIFICATION Spec
PROPERTY Q2HoldoffRespected
