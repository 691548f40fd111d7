SPECIFICATION Spec
CONSTANTS
  Calls <- FramedCalls
  MaxUnread = 3
  MaxBytes = 34
PROPERTY
  MessagesArriveAsSent
  MessagesInOrder
