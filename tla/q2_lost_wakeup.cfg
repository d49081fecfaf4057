\* One stream; Q2 can engage before the in-link has credit.
CONSTANTS
    s1 = s1
    s2 = s2
    Streams <- MCOneStream
    MaxChunks = 2
    MaxCredit = 1
    Q2Lower = 1
SPECIFICATION Spec
INVARIANT Q2Recoverable
