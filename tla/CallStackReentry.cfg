SPECIFICATION FairSpec
CONSTANTS
  main = main  lib = lib   error = error  stop = stop
  None = None
  Main = main
  VM = {main, lib}
  Frame = {1, 2, 3}
  CallFrame = {1, 2}
  Exception = {stop}
  Swallowed = {stop}
  Features = {"callback", "reentry", "typed callback"}
  MaxDepth = 5
CONSTRAINT Bounded
ACTION_CONSTRAINT LowestAddress
INVARIANTS RunsOnStack OwnCallFrame
PROPERTY ExceptionsSettle
