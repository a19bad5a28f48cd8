CONSTANTS
  Clients = {c1, c2}
  People = {p1}
  Receivers = {r1}
  Irks = {i1}
  NoIrk = NoIrk
  NoSession = NoSession
  NoTarget = NoTarget
  NoOffer = NoOffer
  InitialStores <- EmptyStore
  Ops <- MixedOps
  Codes = {"plain", "handoff", "completion"}
  LeasePayloads <- NoLeases
  InviteTTL = 1
  LeaseTTL = 1
  Grace = 1
  Skew = 1
  RenewMargin = 0
  CoalesceAge = 1
  OfferTTL = 1
  VerifyTries = 1
  PublishMayFail = FALSE
  SaveMayFail = TRUE
  MaxSessions = 1
SPECIFICATION FairSpec
PROPERTIES
  SessionsEnd
  CallsReturn
CHECK_DEADLOCK FALSE
