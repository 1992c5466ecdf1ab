CONSTANTS
  Temperatures <- MCTemperatures
  ClosesChoke <- MCClosesChoke
  Warmup <- MCWarmup
  ChokeMove = 1
  ChokeHold = 1
  StartTimeout = 2
  StopTimeout = 2
  Cooldown = 3
SPECIFICATION FairSpec
INVARIANTS TypeOK ReadyMeansChokeOpen
PROPERTIES CooldownIsFull FaultEndsSafely OrdersSettle
