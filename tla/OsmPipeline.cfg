SPECIFICATION FairSpec
CONSTANTS
  MaxAttempts = 3
INVARIANTS TypeOK SuccessHasData SummaryIsEarned
PROPERTIES CompleteExtractIsKept CommandsEnd
