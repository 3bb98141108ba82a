\* Three clients, and a row whose throughput goes to the second of them.
SPECIFICATION Spec
CONSTANTS
  Clients <- ThreeClients
  Rows = {1}
  Target <- ToTheSecond
INVARIANTS TypeOK ExactlyOnce OnlyMembers  LowestInOrder
PROPERTIES BroadcastEnds
CHECK_DEADLOCK FALSE
