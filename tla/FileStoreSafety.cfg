SPECIFICATION StoresSpec
CONSTANTS
    File = {f1, f2}
    Request = {r1, r2, r3}
    Crashes = TRUE
    Lost = TRUE
    UploadRequest = {r1, r2, r3}
    Menu = {r1, r2, r3}
    Desk = {f1, f2}
    Top = Top
    Holder = {f1, f2}
    Item = {i1, i2}
    DeptItem = {i1}
    PostItem = {i2}
    Fetch = {f1, f2}
    Nobody = Nobody
SYMMETRY Symmetry
INVARIANTS
    NoBytesWithoutRow
    Settled
    TempFilesAreRemoved
    FilesOutliveTheirSave
    TreeIsWhole
    SidebarIsComplete
    FormIsOwn
CHECK_DEADLOCK FALSE
