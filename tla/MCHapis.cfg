SPECIFICATION FairHapisSpec
CONSTANTS
  GameClients = {g1}
  Listener = Listener
  GameServer = GameServer
  Null = Null
  Wild = Wild
  Junk = {Null}
  MaxUp = 0
  MaxDown = 2
  Others = {a}
  Me = me
  Things = {t}
  None = None
  MaxMoves = 1
  Choices <- MCChoices
PROPERTIES
  ImplementsWorld
  HookNeverAfterExit
  PlayersBecomeKnown
