SPECIFICATION FairSpec
CONSTANTS
  i1 = i1
  i2 = i2
  NoId = NoId
  NoAnswer = NoAnswer
  Ids <- MCIds
  OtherIds <- MCOtherIds
  MaxRequests = 2
  MaxDatagrams = 4
INVARIANTS TypeOK AnswersTheQuestion EarlyEndIsPaid NotOverlooked
PROPERTIES RequestEnds
CHECK_DEADLOCK FALSE
