CONSTANTS
  Queues <- ChannelQueues
  PrefixLen = 2
  MaxPlaintext = 4
  MaxMessage = 9
SPECIFICATION FairChannelSpec
INVARIANTS
  InOrder
  NothingLost
PROPERTIES
  AllDelivered
CHECK_DEADLOCK FALSE
