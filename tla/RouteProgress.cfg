SPECIFICATION TabsSpec
CONSTANTS
    Page = {home, p1, p2}
    Dashboard = home
    Away = Away
    MaxMarks = 2
PROPERTY RouteEndsProgress
