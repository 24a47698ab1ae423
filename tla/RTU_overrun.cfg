CONSTANTS
  BufMax = 5
  Requests = {"write"}
  Traffic <- MCTraffic
  MaxFrames = 1
  MaxRestarts = 0
  Timing = "free"
  StallsAfter = {"RXNE", "TC"}
  StopWhileSending = FALSE
SPECIFICATION FairSpec
PROPERTIES
  OverrunServed
