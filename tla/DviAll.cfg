CONSTANTS
  Polls <- PollSet
  Ecus = {pcm, tcm}
  Covered = {pcm}
  Headers = {pcm, tcm}
  SlotPlan <- OneSlot
  SlotEcu = pcm
  Scenarios <- PollsAndOneMore
  StrayLimit = 1
  MaxSends = 2
  MaxFilters = 1
  MaxAir = 2
SPECIFICATION FairLink
INVARIANTS EchoAnswers AdapterKnown
PROPERTIES CommandsEnd
CHECK_DEADLOCK FALSE
