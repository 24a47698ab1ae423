SPECIFICATION Spec
CONSTANTS
  ETH_RXBUFNB = 2
  ETH_TXBUFNB = 2
  MaxFrames = 3
  MaxOutputs = 2
  MaxLate = 1
  Preempt = FALSE
INVARIANTS TypeOK Accounted SentAsAccepted
PROPERTIES ServedWithNext AcceptedSent
CHECK_DEADLOCK FALSE
