\* Beyond the listed runs: page and file changes of a demoted user.
SPECIFICATION MCSpec
CONSTANTS
  MaxChatHistory = 1
  ChatSyncChunkSize = 1
  MaxChats = 0
  MaxRequests = 0
  Idles = {2}
  Bursts = {3}
  Offsets = {1}
  FullGaps = {4}
  MinGap = 4
  MaxLag = 1
INVARIANT DemotedChangesNothing
CHECK_DEADLOCK FALSE
