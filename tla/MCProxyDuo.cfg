SPECIFICATION Spec
CONSTANTS
  GameClients = {g1, g2}
  Listener = Listener
  GameServer = GameServer
  Null = Null
  Wild = Wild
  Junk = {Null, Wild}
  MaxUp = 2
  MaxDown = 1
SYMMETRY Symmetry
CONSTRAINT OneWay
INVARIANTS
  TypeOK
  HandlesValid
  Paired
  ClientCreated
  StoppedMeansDead
  DownIsolation
  EndsForCause
  UplinkReleased
  UpInOrder
  IInv
PROPERTIES
  QuietAfterShutdown
