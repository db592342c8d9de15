SPECIFICATION FairSpec
CONSTANTS
  Bits = 2
  Wait = 1
  Requests = {2}
  MaxBytes = 5
INVARIANTS TypeOK Whole
PROPERTY CallsReturn
