\* Two calls of Dial, a clock past the end of their certificates, and reloads of the TTL
\* (four seconds, three, or minus four) and of the user.
CONSTANTS
    h = h
    root = root
    maint = maint
    d1 = d1
    d2 = d2
    Dials <- BothDials
    Names = {h}
    Users = {root, maint}
    NoUser = NoUser
    Configs <- Files
    DefaultTTL = 4
    SignerTTL = 3
    HalfSecond = 1
    MaxTime = 7
    MaxDelay = 1
SYMMETRY DialSymmetry
SPECIFICATION Spec
INVARIANTS
    ValidWhenUsed
    CertIsForUser
