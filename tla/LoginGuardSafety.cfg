SPECIFICATION GateSpec
CONSTANTS
    Request = {r1, r2}
    Captcha = {c1, c2}
    None = None
    MaxAttempts = 2
    MaxCount = 5
    MaxLost = 2
    Lossy = TRUE
    Resend = TRUE
    Limit = 2
    Ttl = 3
    BlockDuration = 3
    MaxLate = 1
SYMMETRY Symmetry
INVARIANTS
    GuardInv
    CaptchaOnce
    GuessesAreBounded
    RateIsBounded

PROPERTY BlockIsEarned
