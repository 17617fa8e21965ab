SPECIFICATION Spec
CONSTANTS
  Player = {alice, bob}
  None = None
  MayFail = {"write", "remove", "rename"}
INVARIANTS OnlyReportedLost
