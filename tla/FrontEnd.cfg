SPECIFICATION Spec
CONSTANTS
  Id <- MCId
  Int_ = {"1", "2"}
  Float_ = {"1.5"}
  Str = {"'x'", "'y'"}
  Attached = {"'t'"}
  FString <- MCFString
  Texts <- MCTexts
  Trees <- MCTrees
  Fragments <- MCFragments
CHECK_DEADLOCK FALSE
INVARIANTS
  AssertionsHold
  ParsedAsWritten
  NothingLost
  LinesAgree
