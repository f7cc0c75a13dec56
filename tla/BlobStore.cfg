SPECIFICATION Spec
CONSTANTS
  p1 = p1
  p2 = p2
  x = x
  y = y
  Proc = {p1, p2}
  Byte = {x, y}
  Chunk <- MCChunk
  MaxLen = 2
  MaxFd = 2
INVARIANTS ContentAddressed NamesSaved DescriptorsKept
SYMMETRY Symmetry
