CONSTANTS
  A = A
  B = B
  Slots <- MCSlots
  NoOwner = NoOwner
  UnknownOwner = UnknownOwner
  FlickerFree = TRUE
SPECIFICATION Spec
INVARIANTS TypeOK OwnerSound FeedingEngineNeverFree LoneEngineOwns
PROPERTIES ContextSticky
