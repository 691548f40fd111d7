SPECIFICATION Spec
CONSTANTS
  Calls <- Opening
  MaxUnread = 2
  MaxBytes = 90
PROPERTY
  MessagesArriveAsSent
