SPECIFICATION FairSpec
CONSTANTS
  GameClients = {g1}
  Listener = Listener
  GameServer = GameServer
  Null = Null
  Wild = Wild
  Junk = {Null}
  MaxUp = 1
  MaxDown = 1
PROPERTY FailureReachesClient
