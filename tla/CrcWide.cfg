\* A code of two bytes of two bits, in registers that are wider.
SPECIFICATION Spec
CONSTANTS
  Bits = 4
  CharBit = 2
  Digits = 5
  Polys <- WidePolys
  Remainders <- WideRemainders
  FinalXors <- WideFinals
INVARIANTS
  ChecksumsAgree
  NearNamesDiffer
  AugmentedAgrees
