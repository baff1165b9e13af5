SPECIFICATION FairSpec
CONSTANTS
  Devices <- MCDevices
  Calls <- MCCalls
  FaultVectors <- MCFaults
  InitialMasks <- MCMasks
CHECK_DEADLOCK FALSE
INVARIANTS
  TypeOK
  NothingLeftInService
  NumberMatchesLine
  OnlyFaultsHalt
  DumpShowsCause
PROPERTY KeyboardServed
