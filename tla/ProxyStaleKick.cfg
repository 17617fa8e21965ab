SPECIFICATION Spec
CONSTANTS
  Handle = {h1, h2, h3}
  Player = {alice}
  MaxConns = 2
  None = None
PROPERTIES KickHitsThePlayer
