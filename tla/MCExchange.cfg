CONSTANTS
  Offers <- MCOffers
  Requests <- MCRequests
  Answers <- MCAnswers
  Responses <- MCResponses
  NoLocation = NoLocation
  Nothing = Nothing
SPECIFICATION ExchangeSpec
INVARIANTS
  
  DialedWasChecked
  
  
  
CHECK_DEADLOCK FALSE
