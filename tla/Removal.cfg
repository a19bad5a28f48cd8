CONSTANTS
  Clients = {c1, c2}
  People = {p1, p2}
  Receivers = {r1}
  Irks = {i1}
  NoIrk = NoIrk
  NoSession = NoSession
  NoTarget = NoTarget
  NoOffer = NoOffer
  InitialStores <- EmptyStore
  Ops <- RemovalOps
  Codes = {}
  LeasePayloads <- NoLeases
  InviteTTL = 1
  LeaseTTL = 1
  Grace = 1
  Skew = 1
  RenewMargin = 0
  CoalesceAge = 1
  OfferTTL = 1
  VerifyTries = 1
  PublishMayFail = FALSE
  SaveMayFail = TRUE
  MaxSessions = 2
SPECIFICATION Spec
SYMMETRY PeopleSymmetry
INVARIANTS
  NoPairingDuringRemoval
  NoResurrection
  CompleteIsEnrolled
  OfferStillApplies
PROPERTIES
  NeverReassigned
  RemovedOnlyWhenConfirmed
  PhoneResetKept
CHECK_DEADLOCK FALSE
