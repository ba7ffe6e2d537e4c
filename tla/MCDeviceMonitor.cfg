SPECIFICATION FairSpec
CONSTANTS
  Adapters <- MCAdapters
  Messages <- MCMessages
  Nothing = Nothing
  MaxTime = 4
INVARIANTS TypeOK ViewComplete
PROPERTIES NoEarlyExpiry NoRepeat EveryExpiryTold LeaseSpec Forgotten
