CONSTANTS
  a = a
  b = b
  A = A
  f = f
  Ino = {1, 2}
  Tag = {a, b}
  Dir <- MCDir
  AutoTags <- MCAutoTags
  MaxPast = 1
  Root <- MCRoot
  PathOf <- MCPathOf
  FileName = {f, b}
  Spelling = {a, b, A}
  Norm <- MCNorm
  TagOrder <- MCTagOrder
  FirstVnode = 1000
  LastVnode = 1002
SPECIFICATION MCSpec
INVARIANTS TypeOK IndexExact TaggedFound TreeTypeOK VirtualIdsAgree TaggedShown OnlyGhosts
PROPERTIES VirtualIdsKept NamesKept CreatedIsShown RemovedTagGone
