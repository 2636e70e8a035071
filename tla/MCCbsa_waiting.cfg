CONSTANTS
  r1 = r1
  r2 = r2
  r3 = r3
  Requests = {r1, r2, r3}
  Commands <- WaitingCommands
  InitialDatabases <- WaitingDatabases
  AccountTypes <- MCAccountTypes
  Texts <- MCTexts
  EmptyTexts <- MCEmptyTexts
  BlankishTexts <- MCBlankishTexts
  UntitledTexts <- MCUntitledTexts
  MaxCustomerNumber = 3
  MaxAccountNumber = 9
  MaxMoney = 3
  PageSize = 4
  MaxAccountsPerCustomer = 3
  MaxAttempts = 2
  MaxFaults = 0
SPECIFICATION FairSpec
PROPERTIES
  LockOrder
  EveryRequestEnds
