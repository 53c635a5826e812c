SPECIFICATION FairSpec
CONSTANTS
  GameClients = {g1}
  Listener = Listener
  GameServer = GameServer
  Null = Null
  Wild = Wild
  Junk = {Null, Wild}
  MaxUp = 2
  MaxDown = 2
PROPERTIES
  UpRelays
  DownRelays
  SessionEnds
  EventuallyRelayed
