SPECIFICATION HapisSpec
CONSTANTS
  GameClients = {g1, g2}
  Listener = Listener
  GameServer = GameServer
  Null = Null
  Wild = Wild
  Junk = {Null}
  MaxUp = 0
  MaxDown = 1
  Others = {a}
  Me = me
  Things = {}
  None = None
  MaxMoves = 1
  Choices <- MCNone
SYMMETRY Symmetry
PROPERTY
  ImplementsWorld
