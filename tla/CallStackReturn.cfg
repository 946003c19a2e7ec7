SPECIFICATION Spec
CONSTANTS
  main = main  lib = lib   error = error  stop = stop
  None = None
  Main = main
  VM = {main, lib}
  Frame = {1, 2, 3}
  CallFrame = {1, 2, 3, 4}
  Exception = {error}
  Swallowed = {}
  Features = {"reentry", "open arguments"}
  MaxDepth = 6
CONSTRAINT Bounded
ACTION_CONSTRAINT LowestAddress
INVARIANT OwnCallFrame
