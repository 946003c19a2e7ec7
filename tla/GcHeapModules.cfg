CONSTANTS
  Value = {v1, v2, v3}
  Pool = {g0, p1, p2}
  VM = {main, m1}
  Main = main
  MainPool = g0
  None = None
  Features = {"fun", "module"}
  MaxDepth = 3
  MaxRefs = 1
  MaxArgs = 1
SPECIFICATION Spec
SYMMETRY Symmetry
CONSTRAINT Bounded
INVARIANTS
  NoDanglingPointer
  ExecutingVMsAlive
