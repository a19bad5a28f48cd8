\* Two phones with two endpoints each; removals fail, are killed and retried.
SPECIFICATION FairSpec
CONSTANTS
  Iphone = Iphone
  Other = Other
  Phones <- ThePhones
  Devices <- TheDevices
  Paired <- ThePhones
  NoContainer = NoContainer
  NoPhone = NoPhone
  Interactive = {TRUE, FALSE}
  VerifyTries = 2
INVARIANTS
  SuccessMeansGone
  UnfinishedIsJournaled
PROPERTIES
  UnpairsOnlyJournaled
  RemovalsEnd
