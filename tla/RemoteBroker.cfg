SPECIFICATION Spec
CONSTANTS
  PartialQty = 1
  DownAfter = 2
  MaxEp = 3
  Worlds <- All
INVARIANTS TypeOK NoOverJournal AgentKept NoOrdersTogether
