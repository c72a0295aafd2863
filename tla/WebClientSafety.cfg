SPECIFICATION ClientSpec
CONSTANTS
    Tab = {t1}
    Call = {c1, c2}
    MaxGeneration = 3
    Lossy = TRUE
    Page = {home, p1, p2, p3}
    Dashboard = home
    Away = Away
    MaxMarks = 2
INVARIANTS
    WebInv
    BarEnds
    RetriesAreRenewed
    TabsKept
    ActiveIsShown
PROPERTIES
    NoTokenReuse
    LiveSessionKept
    CallsSettle
