SPECIFICATION PoolSpec
CONSTANTS
  Requests = {r1, r2}
  Commands <- PoolCommands
  InitialDatabases <- InquiryDatabases
  AccountTypes <- MCAccountTypes
  Texts <- MCTexts
  EmptyTexts <- MCEmptyTexts
  BlankishTexts <- MCBlankishTexts
  UntitledTexts <- MCUntitledTexts
  MaxCustomerNumber = 5
  MaxAccountNumber = 5
  MaxMoney = 5
  PageSize = 2
  MaxAccountsPerCustomer = 1
  MaxAttempts = 2
  MaxFaults = 1
  Inquirers = {i1}
  Queries <- LongQueries
  PoolSize = 1
  RandomRetryLimit = 2
INVARIANT PoolIsKept
PROPERTIES EveryRequestEnds EveryInquiryEnds
