\* Beyond the listed runs: an invalid update although a real user was announced.
SPECIFICATION MCSpec
CONSTANTS
  MaxChatHistory = 1
  ChatSyncChunkSize = 1
  MaxChats = 0
  MaxRequests = 0
  Idles = {2}
  Bursts = {3}
  Offsets = {1}
  FullGaps = {4}
  MinGap = 4
  MaxLag = 1
PROPERTY RealUsersGetValid
CHECK_DEADLOCK FALSE
