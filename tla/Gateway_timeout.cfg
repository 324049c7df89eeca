\* Two chats and two other frames that arrive in one chunk.
SPECIFICATION Spec
CONSTANTS
  c1 = c1
  c2 = c2
  Chat = {c1, c2}
  NoChat = NoChat
  MaxOther = 2
  MaxWritten = 4
  MaxExtra = 3
INVARIANT ResponsiveStays
CHECK_DEADLOCK FALSE
