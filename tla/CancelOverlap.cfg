CONSTANTS
  Clients = {c1, c2}
  People = {p1}
  Receivers = {r1}
  Irks = {i1}
  NoIrk = NoIrk
  NoSession = NoSession
  NoTarget = NoTarget
  NoOffer = NoOffer
  InitialStores <- EmptyStore
  Ops <- PairingOps
  Codes = {"plain"}
  LeasePayloads <- NoLeases
  InviteTTL = 1
  LeaseTTL = 1
  Grace = 1
  Skew = 1
  RenewMargin = 0
  CoalesceAge = 1
  OfferTTL = 1
  VerifyTries = 1
  PublishMayFail = FALSE
  SaveMayFail = FALSE
  MaxSessions = 2
SPECIFICATION Spec
PROPERTY
  CancelStopsEnrollment
CHECK_DEADLOCK FALSE
