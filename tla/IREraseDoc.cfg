SPECIFICATION IRSpec
CONSTANTS
  Op = {o1, o2}
  Block = {b1, b2}
  Region = {r1, r2}
  MaxOperands = 1
  StrictErase = FALSE
PROPERTY EraseSeesOutsideUses
CHECK_DEADLOCK FALSE
