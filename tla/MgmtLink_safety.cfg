SPECIFICATION Spec
CONSTANTS
  Nodes = {n1, n2, n3}
  Rpcs = {r1, r2, r3}
  Streams = {s1, s2}
  NoStream = nostream
  NoNode = nonode
  Senders = {w1}
  IdxLimit = 2
  MaxRestarts = 1
SYMMETRY Symmetric
INVARIANTS AddressInv SlotSafe
CHECK_DEADLOCK FALSE
