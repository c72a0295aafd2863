SPECIFICATION Spec
CONSTANTS
    Request = {r1, r2}
    SessionId = {s1, s2}
    None = None
    MaxPassword = 1
    Offered = {"register", "refresh", "logout"}
    Lossy = FALSE
    Resend = FALSE
SYMMETRY Symmetry
INVARIANT RevocationIsComplete
