SPECIFICATION Spec
CONSTANTS
    a1 = a1  a2 = a2  p1 = p1  x = x  v1 = v1  v2 = v2
    assignment = assignment  price = price
    c1 = c1  c2 = c2  k1 = k1  k2 = k2
    s1 = s1  s2 = s2
    Absent = Absent  None = None
    Rows <- MCRows
    Tables <- MCTables
    TableOf <- MCTableOf
    Stores = {x}
    StoreOf <- MCStoreOf
    Values = {v1, v2}
    Commands <- TwoCommands
    Edits = {}
    Start <- TwoStart
    Loads <- TwoLoads
    Named = {}
    Sets = {s1, s2}
    Clients = {c1, c2}
    Calls = {k1}
    MaxClock = 3
    MaxRev = 2
    MaxItems = 1
    MaxTries = 2
SYMMETRY SymmTwo
INVARIANTS PreviewIsOfItems ReviewStands SnapshotIsCurrent
PROPERTIES JournalIsTheChange KeepsPromise
