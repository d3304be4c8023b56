CONSTANTS
  a = a
  b = b
  old = old
  new = new
  File = {old, new}
  Byte = {a, b}
  Gear <- MCGear
  Words = 16
  Target = 4
  MaskBits = 2
  Min = 3
  Max = 5
  MaxLen = 7
SPECIFICATION MCSpec
INVARIANTS TypeOK ChunksCover SizesBounded CutsAreLocal SizesPredicted SameAfterSync
