CONSTANTS
  Sids = {s1, s2}
  Phones = {f1}
  NoSession = NoSession
  NoPhone = NoPhone
  InviteTTL = 1
  AttemptTTL = 1
  RetiredMax = 2
  InboxMax = 1
SPECIFICATION HistorySpec
PROPERTY
  RemovalIsConfirmed
CHECK_DEADLOCK FALSE
