CONSTANTS
    k1 = k1  k2 = k2  d1 = d1  x = x  y = y  w1 = w1  w2 = w2  None = None
    Keys = {k1, k2}
    Designs = {d1}
    Vals = {x, y}
    Writers = {w1, w2}
    Scripts <- AllScripts
    Limit = 1
    MaxVersion = 4
SPECIFICATION Spec
SYMMETRY WriterSymmetry
INVARIANT CaughtUpSeesEdits
