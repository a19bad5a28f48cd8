SPECIFICATION FairSpec
CONSTANTS
  mine = mine
  other = other
  a1 = a1
  a2 = a2
  b1 = b1
  NoAddress = NoAddress
  Mine = mine
  Phones <- MCPhones
  Addresses <- MCAddresses
  Owner <- MCOwner
  InviteTTL = 1
  HandoffTTL = 2
INVARIANTS TypeOK SuccessIsSecured
PROPERTIES OneRepairOfTheVerified NewBondKept AttemptEnds
CHECK_DEADLOCK FALSE
