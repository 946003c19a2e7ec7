CONSTANTS
  Value = {v1, v2}
  Pool = {g0, p1}
  VM = {main, m1}
  Main = main
  MainPool = g0
  None = None
  Features = {"list", "fun", "class", "object", "module", "converter"}
  MaxDepth = 2
  MaxRefs = 1
  MaxArgs = 0
SPECIFICATION FairSpec
CONSTRAINT Bounded
INVARIANTS IInv MarksOnlyReachable
PROPERTIES FreesOnlyGarbage CollectionTerminates
