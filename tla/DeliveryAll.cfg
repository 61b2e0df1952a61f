SPECIFICATION FairSpec
CONSTANTS
  MaxSends = 2
  MaxTrouble = 2
  MaxAir = 3
INVARIANTS ReplyMeetsCommand
CHECK_DEADLOCK FALSE
PROPERTIES ImplementsExchange
