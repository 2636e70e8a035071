CONSTANTS
  r1 = r1
  r2 = r2
  r3 = r3
  Requests = {r1, r2, r3}
  Commands <- CapacityCommands
  InitialDatabases <- CapacityDatabases
  AccountTypes <- MCAccountTypes
  Texts <- MCTexts
  EmptyTexts <- MCEmptyTexts
  BlankishTexts <- MCBlankishTexts
  UntitledTexts <- MCUntitledTexts
  MaxCustomerNumber = 3
  MaxAccountNumber = 9
  MaxMoney = 3
  PageSize = 2
  MaxAccountsPerCustomer = 1
  MaxAttempts = 2
  MaxFaults = 0
SYMMETRY Symmetry
SPECIFICATION Spec
INVARIANTS
  CapacityRespected
