CONSTANTS
  MaxQ = 2
  Identity <- MCIdentity
  Singletons = {"x"}
  Ranges <- MCRanges
  Offers <- MCOffers
  Addends <- MCAddends
  MaxItems = 3
  MaxOffers = 3
  MaxRated = 2
SPECIFICATION AcceptSpec
INVARIANT AnswersAsSpecified
INVARIANT NeverServesRefused
INVARIANT SumKeepsElements
INVARIANT OldMethodsAgree
