SPECIFICATION Spec
CONSTANTS
  Handle = {h1, h2, h3, h4}
  Player = {alice}
  MaxConns = 2
  None = None
INVARIANTS TypeOK OneEntryPerSocket EveryEntryWillGo OnlineUnlessHandleShared OwnsItsHandles
PROPERTIES KickDisconnects
