CONSTANTS
  W = 16
  fac_us = 2
  fac_ms = 1
  UsPerMs = 2
  Args <- MCArgs
  Horizon = 20
SPECIFICATION Spec
INVARIANTS
  TypeOK
  NeverEarly
PROPERTIES
  Ends
