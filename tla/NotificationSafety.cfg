SPECIFICATION NotificationSpec
CONSTANTS
    Request = {r1, r2}
    Announcement = {a1}
    Message = {m1}
    None = None
    Offered = {"markAsRead", "markAllAsRead", "removeByUser", "getUnreadCount",
               "sendNotification", "createAnnouncement", "publishAnnouncement",
               "revokeAnnouncement", "removeAnnouncement", "cleanup"}
    Lossy = TRUE
    User = {u1, u2}
    Everyone = Everyone
    Nobody = Nobody
    Note = {n1}
    Sender = {r1, r2}
    Connection = {r1, r2}
SYMMETRY Symmetry
INVARIANTS
    NotificationInv
    CountIsCurrent
    StaysRevoked
    AllAreRead
    StreamsRegistered
    EventsAreOwn
    ListFollows
PROPERTY ImplementsInbox
