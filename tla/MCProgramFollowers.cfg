SPECIFICATION Spec
CONSTANTS
  Clients = {c1, c2, c3}
  Nobody = Nobody
  Fds = {1}
  Capacity = 1
  Chunk = 2
  Limit = 1
  MaxGen = 2
  MaxOut = 2
SYMMETRY Interchangeable
INVARIANTS  ExitComesLast
