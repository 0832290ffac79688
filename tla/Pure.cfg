SPECIFICATION PureSpec
CONSTANTS
  MaxName = 3
  MaxServers = 2
  MaxText = 7
  NameStrings <- MCNameStrings
  Configurations <- MCConfigurations
  Texts <- MCTexts
  Env <- MCEnv
  FullDays = {0}
  LastDay = 146200
CHECK_DEADLOCK FALSE
INVARIANTS AcceptedNamesRoute InterpolationIsOnePass TimestampIsCalendar
