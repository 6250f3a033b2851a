SPECIFICATION Spec
CONSTANTS
    a1 = a1  a2 = a2  p1 = p1  x = x  v1 = v1  v2 = v2
    assignment = assignment  price = price
    c1 = c1  c2 = c2  k1 = k1  k2 = k2
    s1 = s1  s2 = s2
    Absent = Absent  None = None
    Rows <- EditRows
    Tables <- EditTables
    TableOf <- EditTableOf
    Stores = {x}
    StoreOf <- MCStoreOf
    Values = {v1, v2}
    Commands <- EditCommands
    Edits <- EditEdits
    Start <- EditStart
    Loads = {}
    Named = {a1}
    Sets = {s1}
    Clients = {c1, c2}
    Calls = {k1, k2}
    MaxClock = 3
    MaxRev = 2
    MaxItems = 2
    MaxTries = 2
SYMMETRY Symm
INVARIANTS CooperatingWritersExclude RefusedOnlyIfTouched SaveReplacesWhatWasLoaded
PROPERTIES HardDeletesAcknowledged
