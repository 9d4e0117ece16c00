SPECIFICATION FairChannelSpec
CHECK_DEADLOCK FALSE
CONSTANTS
  Texts <- MCTexts
  Writers <- MCWriters
  MaxMessages = 2
  MaxFaults = 2
INVARIANT RepeatsOnlyLostAcks
PROPERTY QuestionsEnd
