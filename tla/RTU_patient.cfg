CONSTANTS
  BufMax = 5
  Requests = {"write", "read", "cast", "foreign", "damaged", "long", "noise"}
  Traffic <- MCTraffic
  MaxFrames = 3
  MaxRestarts = 0
  Timing = "patient"
  StallsAfter = {}
  StopWhileSending = FALSE
SPECIFICATION FairSpec
INVARIANTS
  TypeOK
  ExecutesReceivedFrame
  AnswersOnlyOwn
PROPERTIES
  SendsWholeResponse
  EveryRequestAnswered
