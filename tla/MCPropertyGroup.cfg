SPECIFICATION GroupSpec
CONSTANTS
  Key <- MCKey
  Value <- MCValue
  Initial <- MCInitial
  Inputs <- MCInputs
  Extra <- MCExtra
INVARIANTS FitsInBlock NoStalePointer PutAllOverrides
CHECK_DEADLOCK FALSE
