SPECIFICATION Spec
CONSTANTS
  BITS_UCHAR = 3
  NREGS = 2
  COILS_SIZE = 6
  READ_REGCNT_MAX = 3
  WRITE_REGCNT_MAX = 3
  READ_COILCNT_MAX = 7
  WRITE_COILCNT_MAX = 6
  SLAVEID_BUF = 4
  usRegInputBuf <- MCInput
  ucRegDiscreteBuf <- MCDiscrete
  HoldingInit <- MCHolding
  CoilsInit <- MCCoils
  Masters = {"manyCoils"}
  Requests <- MCRequests
  AdditionalLens <- MCAdditionalLens
PROPERTY CoilsWrittenExactly
CHECK_DEADLOCK FALSE
