SPECIFICATION Spec
CONSTANTS
  Accounts = 2
  Types = 1
  Window = 1
  Txs <- MCTxs
  MaxEntries = 2
  Room = 3
  Menus <- MCMenus
  MaxIndex = 1
  MaxCrashes = 1
INVARIANTS
  CompanionTypeOK
  UsedNeverShownAgain
PROPERTIES
  HistoryKeepsLast
  FetchEnds
  InfoAnswered
