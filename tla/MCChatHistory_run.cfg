\* A history of five, chunks of two, eight chats, two requests; bursts of three
\* ticks, full states due every four or five, a loop up to one tick behind.
SPECIFICATION MCSpec
CONSTANTS
  MaxChatHistory = 5
  ChatSyncChunkSize = 2
  MaxChats = 8
  MaxRequests = 2
  Idles = {2}
  Bursts = {3}
  Offsets = {0, 2}
  FullGaps = {4, 5}
  MinGap = 4
  MaxLag = 1
INVARIANTS
  HistoryIsLatest
  ReplyIsSnapshot
  QuietAfterDemotion
  FullStatesSpaced
  InvalidUpdatesStop
PROPERTIES
  PromotedDraws
CHECK_DEADLOCK FALSE
