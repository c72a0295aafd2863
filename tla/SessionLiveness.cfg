SPECIFICATION FairSpec
CONSTANTS
    Request = {r1, r2}
    SessionId = {s1, s2}
    None = None
    MaxPassword = 0
    Offered = {"register", "login", "refresh", "profile", "logout", "removeUser"}
    Lossy = TRUE
    Resend = FALSE
PROPERTY DeletedIsForgotten
