SPECIFICATION AdministrationSpec
CONSTANTS
    Client = {r1, r2}
    Dict = {d1, d2}
    Code = {c1, c2}
    Entry = {x1}
    None = None
    Lossy = TRUE
    Editor = {r1, r2}
    Dept = {d1, d2}
    Name = {c1, c2}
    Staff = {u1}
    Root = Root
    Keep = Keep
    Transaction = {r1, r2}
    Account = {a1, a2, a3}
    Unset = Unset
SYMMETRY Symmetry
INVARIANTS
    CacheIsCurrent
    NothingDangles
    SiblingsDiffer
    AdministratorsRemain
PROPERTY RemovalIsChecked
