SPECIFICATION PacketsSpec
CONSTANTS
  None = None
  Dates <- MCDates
  Lengths = {0, 1, 2, 3, 4}
  StringLimit = 3
INVARIANTS
  PacketsTypeOK
  WeatherHonoured
  OverrunsExplained
  MessagesReadBack
