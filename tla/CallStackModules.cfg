SPECIFICATION Spec
CONSTANTS
  main = main  lib = lib   error = error  stop = stop
  None = None
  Main = main
  VM = {main, lib}
  Frame = {1, 2}
  CallFrame = {1, 2, 3}
  Exception = {error, stop}
  Swallowed = {stop}
  Features = {"callback", "open arguments"}
  MaxDepth = 5
CONSTRAINT Bounded
ACTION_CONSTRAINT LowestAddress
INVARIANTS TypeOK FramesMatchStack RunsOnStack HeldCallFramesAlive OwnCallFrame
PROPERTY StructuredSpec
