SPECIFICATION Spec
CONSTANTS
  Clients = {c1, c2}
  MaxFds = 4
  MaxTcs = 2
  MaxUnread = 1
  Workers = 1
  Addresses = 2
  MaxRequests = 3
  Free = Free
  Listen = Listen
INVARIANTS DescriptorsAccounted FramesWhole
PROPERTY ClientsSettled
CHECK_DEADLOCK FALSE
