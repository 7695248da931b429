SPECIFICATION Spec
CONSTANTS
  Nodes = {n1, n2, n3}
  NULL = NULL
  Events = {"PREPARED", "COMPLETED"}
  Requests = {"REQ_PAUSE", "REQ_SEEK"}
  MaxPuts = 4
INVARIANTS TypeOK HoldsPending NodesAccounted
PROPERTIES EventuallyDelivered DeliveredInOrder
