CONSTANTS
  ConfirmTimeout = 2
  LosableReadings = {}
SPECIFICATION FairSpec
PROPERTIES StepsTimeOut
