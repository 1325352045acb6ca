SPECIFICATION Spec
CONSTANTS
  Xs = {x1, x2}
  Handle = {h1, h2}
  Sub = {sub}
  None = None
  Chunks <- SomeChunks
  MaxLength = 3
  MaxDepth = 4
  MaxCalls = 8
SYMMETRY Same
INVARIANTS
  RegistryIsLive
  EventsGoHome
  SafeIfCareful
  CopiesAreHeld
  TextAccountedFor
CHECK_DEADLOCK FALSE
