SPECIFICATION FairSpec
CONSTANTS
  Good = {g1}
  Bad = {b1}
  Tasks = {t1, t2}
  MaxLag = 2
  MaxEdits = 3
  MaxFaults = 1
  MaxPrunes = 1
  MaxRestarts = 1
INVARIANTS IInv
PROPERTIES DeletedIsDropped LiveIsServed
