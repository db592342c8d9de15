SPECIFICATION Spec
CONSTANTS
  Limbs = 3
  Width = 3
  Offset = 3
  Numbers <- MCNumbers
  Blocks <- MCBlocks
  Jobs <- Corner
INVARIANT AlwaysReduced
