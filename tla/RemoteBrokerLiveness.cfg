SPECIFICATION LiveSpec
CONSTANTS
  PartialQty = 1
  DownAfter = 2
  MaxEp = 3
  Worlds <- LiveWorlds
PROPERTY EndedJournaled
