SPECIFICATION Spec
CONSTANTS
  ETH_RXBUFNB = 2
  ETH_TXBUFNB = 3
  MaxFrames = 1
  MaxOutputs = 1
  MaxLate = 1
  Preempt = TRUE
INVARIANT SentAsAccepted
CHECK_DEADLOCK FALSE
