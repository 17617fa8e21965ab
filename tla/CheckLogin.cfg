SPECIFICATION Spec
CONSTANTS
  Player = {alice, bob}
  None = None
  MayFail = {}
INVARIANTS OneEntryPerName AFileIsWhole OnlyReportedLost
PROPERTIES LoginAnswered
