SPECIFICATION Spec
CONSTANTS
    t1 = t1  t2 = t2  a = a  r1 = r1  r2 = r2
    Absent = Absent  Unread = Unread  Failed = Failed
    Tables = {t1, t2}
    Contents = {a}
    Runs = {r1, r2}
    Limit = 1
    MaxEdits = 2
    MaxFaults = 1
INVARIANTS ReadersMissNothing
PROPERTIES OutcomeStands CertifiedIsFresh ReadersConverge
