SPECIFICATION Spec
CONSTANTS
  N = 2
  Buffers = {b1, b2, b3, b4, b5}
  Packets = {p1, p2}
  Addrs = {a1, a2}
  QueueCap = 1
  NoBuf = NoBuf
  NoPkt = NoPkt
  NoAddr = NoAddr
SYMMETRY Symmetry
INVARIANTS
  PacketsIntact
  BufferOwnedOnce
  AddressesCatchUp
