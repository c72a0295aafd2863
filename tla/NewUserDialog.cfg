SPECIFICATION DialogsSpec
CONSTANTS
    Holder = {h1}
    Item = {i1, i2}
    DeptItem = {i1}
    PostItem = {i2}
    Fetch = {l1}
    Nobody = Nobody
PROPERTY NewRowsAreAsFilledIn
