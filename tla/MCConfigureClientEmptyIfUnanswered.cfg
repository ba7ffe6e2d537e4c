SPECIFICATION Spec
CONSTANTS
  i1 = i1
  i2 = i2
  NoId = NoId
  NoAnswer = NoAnswer
  Ids <- MCIds
  OtherIds <- MCOtherIds
  MaxRequests = 2
  MaxDatagrams = 3
INVARIANTS EmptyIfUnanswered
CHECK_DEADLOCK FALSE
