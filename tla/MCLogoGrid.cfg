SPECIFICATION Spec
CONSTANTS
    s1 = s1  s2 = s2  c1 = c1  c2 = c2  d1 = d1  d2 = d2  u = u  m = m  None = None
    Styles = {s1, s2}
    Colors = {c1, c2}
    Designs = {d1, d2}
    Urls = {u, m}
    RowNums = {1, 2}
    Positions = {1, 2}
    Live <- MCLive
    Class <- MCClass
    HasArt = {d1}
    Start <- MCStart
    Clipboards <- MCClipboards
    Saved <- MCSaved
    Files <- MCFiles
    Mirror <- MCMirror
    MaxSteps = 2
INVARIANTS ReorderWins
PROPERTIES AnchorsHold UndoneAtOnce OnlyItsOwn
CHECK_DEADLOCK FALSE
