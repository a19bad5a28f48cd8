SPECIFICATION FairSpec
CONSTANTS
  bridge = bridge
  scanner = scanner
  NoReceiver = NoReceiver
  Bridges <- MCBridges
  Scanners <- MCScanners
  Rssi <- MCRssi
  Away = 2
  ObserverTimeout = 1
  ObservationTTL = 1
  RoomFresh = 1
  Window = 1
  Skew = 1
INVARIANTS HomeWasHeard RoomWasHeard SampleMatchesTime
PROPERTY GoneIsAway
