SPECIFICATION Spec
CONSTANTS
  Clients = {c1, c2}
  Nobody = Nobody
  Fds = {1}
  Capacity = 2
  Chunk = 2
  Limit = 2
  MaxGen = 2
  MaxOut = 3
INVARIANT NobodyIsForgotten
PROPERTY OnlyDeafnessBlocks
