SPECIFICATION Spec
CONSTANTS
  GameClients = {g1, g2}
  Listener = Listener
  GameServer = GameServer
  Null = Null
  Wild = Wild
  Junk = {Null}
  MaxUp = 1
  MaxDown = 1
INVARIANT UpIsolation
