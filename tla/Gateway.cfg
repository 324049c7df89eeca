\* Two chats, one other frame, three frames on their way and in one chunk.
SPECIFICATION FairSpec
CONSTANTS
  c1 = c1
  c2 = c2
  Chat = {c1, c2}
  NoChat = NoChat
  MaxOther = 1
  MaxWritten = 3
  MaxExtra = 3
INVARIANTS
  Abortable
  DroppedWithCause
PROPERTIES
  SendHandled
CHECK_DEADLOCK FALSE
