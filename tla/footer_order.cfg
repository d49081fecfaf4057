\* One stream whose request carries trailers.
CONSTANTS
    s1 = s1
    s2 = s2
    Streams <- MCOneStream
    MaxChunks = 1
    MaxCredit = 1
    Q2Lower = 1
SPECIFICATION Spec
INVARIANT FooterAfterBody
