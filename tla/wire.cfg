SPECIFICATION ChannelSpec
CONSTANTS
  Threads = {"reader", "driver"}
  Conversations <- AllConversations
  Message <- Messages
  FrameOf <- WireFrames
  MaxStringLen = 2
  MaxExtensions = 2
  MaxMembers = 2
  MaxFrameSize = 400
  CutBound = 1
INVARIANTS
  ChannelTypeOK
  FramesInOrder
  MessagesDecoded
  BodiesDelimited
PROPERTIES
  Delivered
CHECK_DEADLOCK FALSE
