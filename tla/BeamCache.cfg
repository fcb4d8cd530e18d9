SPECIFICATION Spec
CONSTANTS
  a = a
  b = b
  mesh = mesh
  Stale = Stale
  Entries = {a, b, mesh}
  Vocabulary = {a, b}
  Prompt <- MCPrompt
  MaxTokens = 3
  Capacity = 4
  MaxBeams = 3
INVARIANTS
  NoInternalError
  SlotsDistinct
  CacheHoldsHistory
  LogitsFollowBeams
PROPERTIES
  SurvivorsRetainSlots
  ImplementsBeamSearch
CHECK_DEADLOCK FALSE
