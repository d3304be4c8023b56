SPECIFICATION CrashSpec
CONSTANTS
  a = a
  b = b
  Chunk <- MCChunk
  Contents <- MCContents
  FuseIno = {f1, f2}
  LegacyIno <- MCLegacyIno
  Name = {n1, n2}
  MaxFaults = 1
SYMMETRY MCSymmetry
PROPERTY UnlinkedReclaimed
