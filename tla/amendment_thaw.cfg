\* The specification of CRK-2: no amendment is applied without freeze.
SPECIFICATION AmendmentSpec
CONSTANTS
  Inputs = {good, better}
  Dangerous = {}
  Original = original
  MaxAmendments = 2
  MaxEntries = 2
CHECK_DEADLOCK FALSE
PROPERTY
  AppliesUnderFreeze
