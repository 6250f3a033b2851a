CONSTANTS
    k1 = k1  k2 = k2  x = x  y = y  c1 = c1  c2 = c2  None = None  b1 = b1  b2 = b2
    Keys = {k1, k2}
    Vals = {x, y}
    Batches = {b1, b2}
    Conns = {c1}
    Plans <- TwoRowPlans
    Outside = {}
    MaxVersion = 4
SPECIFICATION Spec
PROPERTIES UndoLeavesEdits RestoresPreBatch
