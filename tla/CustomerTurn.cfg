\* Three messages, jobs leased again, one fault.
SPECIFICATION Spec
CONSTANTS
  MaxMessages = 3
  MaxLeases = 2
  MaxOrders = 3
  Quantities = {1}
  RecentMax = 5
  MaxFaults = 1
INVARIANTS
  OneOrderPerYes
  BooksAgree
PROPERTIES
  SilentAfterHandover
  RowNeverGoesBack
CHECK_DEADLOCK FALSE
