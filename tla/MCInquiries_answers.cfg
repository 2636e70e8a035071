SPECIFICATION FairServiceSpec
CONSTANTS
  Requests = {r1, r2}
  Commands <- InquiryCommands
  InitialDatabases <- InquiryDatabases
  AccountTypes <- MCAccountTypes
  Texts <- MCTexts
  EmptyTexts <- MCEmptyTexts
  BlankishTexts <- MCBlankishTexts
  UntitledTexts <- MCUntitledTexts
  MaxCustomerNumber = 5
  MaxAccountNumber = 5
  MaxMoney = 5
  PageSize = 2
  MaxAccountsPerCustomer = 1
  MaxAttempts = 2
  MaxFaults = 1
  Inquirers = {i1}
  Queries <- MCQueries
  RandomRetryLimit = 2
INVARIANT InquiryTypeOK
PROPERTY AnswersAreTrue
PROPERTY EveryInquiryEnds
