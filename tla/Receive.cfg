SPECIFICATION Spec
CONSTANTS
  heartbeat_res = heartbeat_res
  inh_res = inh_res
  Kind <- MCKind
  Other = other
  Total <- MCTotal
  HeaderSize = 3
  TypeOffset = 1
  BufSize = 8
  MaxSent = 3
INVARIANTS TypeOK WholeDelivered  NoPhantom
PROPERTY ImplementsInbox
