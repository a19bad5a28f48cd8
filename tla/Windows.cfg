CONSTANTS
  Sids = {s1, s2}
  NoSession = NoSession
  AttemptTTL = 2
SPECIFICATION FairSpec
INVARIANT
  AdapterIsFree
PROPERTIES
  StatusNeverGoesBack
  DeadlineNeverRenewed
  ScanResumes
  CommandsServed
  ImplementsEnrollment
CHECK_DEADLOCK FALSE
