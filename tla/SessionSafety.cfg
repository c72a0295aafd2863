SPECIFICATION Spec
CONSTANTS
    Request = {r1, r2}
    SessionId = {s1, s2, s3}
    None = None
    MaxPassword = 1
    Offered = {"register", "login", "refresh", "kick", "changePassword", "resetPassword"}
    Lossy = TRUE
    Resend = TRUE
SYMMETRY Symmetry
INVARIANTS
    SessionInv
    OneRotation
    LogoutIsFinal
    RefreshChainEnds
    NoGhostOnline
PROPERTY ImplementsRegister
