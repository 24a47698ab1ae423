CONSTANTS
  BufMax = 5
  Requests = {"write"}
  Traffic <- MCTraffic
  MaxFrames = 2
  MaxRestarts = 1
  Timing = "free"
  StallsAfter = {"RXNE"}
  StopWhileSending = FALSE
SPECIFICATION FairSpec
INVARIANTS
  TransmitterArmed
  SendInBuffer
  HalfDuplex
  ReceiverArmed
PROPERTIES
  ListensAgain
