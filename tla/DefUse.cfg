SPECIFICATION Spec
CONSTANTS
  Op = {o1, o2}
  Block = {b1, b2}
  Val = {v1, v2, v3}
  Uid = {u1, u2, u3}
  MaxSlots = 2
SYMMETRY Symmetry
INVARIANTS ChainsAgree NothingDangles
PROPERTY InvalidatedForGood
CHECK_DEADLOCK FALSE
