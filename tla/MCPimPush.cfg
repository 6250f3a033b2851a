CONSTANTS
    MaxFlips = 1
    MaxRemovals = 1
    MaxOrphans = 1
    MaxBeside = 1
    RetirePercent = 20
    OtherRows = 10
    MaxChanges = 1
    MaxFaults = 1
SPECIFICATION Spec
PROPERTIES SparedStays PimSettles
