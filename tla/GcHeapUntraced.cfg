CONSTANTS
  Value = {v1, v2}
  Pool = {g0, p1, p2}
  VM = {main}
  Main = main
  MainPool = g0
  None = None
  Features = {"list", "iter", "fun", "exception", "converter"}
  MaxDepth = 3
  MaxRefs = 1
  MaxArgs = 1
SPECIFICATION Spec
SYMMETRY Symmetry
CONSTRAINT Bounded
INVARIANT UntracedPointersAlive
