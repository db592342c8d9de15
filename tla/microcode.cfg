SPECIFICATION Spec
CONSTANTS
  FieldBits = 4
  Offset = 3
  Ap24 = 3
  HalfBits = 8
  Multiplications <- MCMultiplications
  Messages <- MCMessages
INVARIANTS LadderMultiplies GcmSeals SecretsSteerNothing
CHECK_DEADLOCK FALSE
