CONSTANTS
    u1 = u1  u2 = u2  ann = ann  c1 = c1  c2 = c2  None = None
    Uploads = {u1, u2}
    Confirmers = {c1, c2}
    Owner <- OneOwner
    ChunksOf <- TwoChunks
    Accepted <- RowsAccepted
    Tabs <- OpenTabs
    Fragile = {u2}
    UserCap = 1
    GlobalCap = 2
SPECIFICATION Spec
INVARIANTS WithinCaps
PROPERTIES ReviewedWhole UploadsAreRemoved
