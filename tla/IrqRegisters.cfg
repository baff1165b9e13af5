SPECIFICATION Spec
CONSTANTS
  Devices <- MCKeyboard
  Calls <- MCNone
  FaultVectors <- MCNone
  InitialMasks <- MCAllMasked
CHECK_DEADLOCK FALSE
PROPERTY RegistersPreserved
