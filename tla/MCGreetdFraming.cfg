CONSTANTS
  Base = 3
  HeaderSize = 2
  MaxFrame = 2
  MaxUnread = 3
  Bodies <- MCBodies
  Objects <- MCObjects
SPECIFICATION Spec
INVARIANTS TypeOK NothingHeldBack
PROPERTY ImplementsFrameQueue
