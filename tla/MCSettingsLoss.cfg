SPECIFICATION BusFairSpec
CONSTANTS
  Items <- MCItems
  Timeout <- MCTimeout
  MaxCommands = 2
  LateCommands = 1
  MaxLosses = 1
INVARIANTS
  CommandsInMode
  UpdateApplied
  DisplayCurrent
  LeavesMode
PROPERTIES
  AnsweredWhenAsked
  NewsPublished
