CONSTANTS
  r1 = r1
  r2 = r2
  Requests = {r1, r2}
  Commands <- EveryCommands
  InitialDatabases <- EveryDatabases
  AccountTypes <- MCAccountTypes
  Texts <- MCTexts
  EmptyTexts <- MCEmptyTexts
  BlankishTexts <- MCBlankishTexts
  UntitledTexts <- MCUntitledTexts
  MaxCustomerNumber = 4
  MaxAccountNumber = 6
  MaxMoney = 3
  PageSize = 2
  MaxAccountsPerCustomer = 1
  MaxAttempts = 2
  MaxFaults = 1
SYMMETRY Symmetry
SPECIFICATION Spec
PROPERTIES
  ImplementsAtomicBank
