SPECIFICATION FairStreamSpec
CONSTANTS
  Buffer = 1
  SseBuffer = 1
  MaxSteps = 2
CHECK_DEADLOCK FALSE
INVARIANTS
  EventsAreAPrefix
  NoSilentEnd
PROPERTY ClientHoldsNothing
