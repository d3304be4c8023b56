CONSTANTS
  FileName = {x}
  DirName = {d, e}
  Content = {none, c}
  NoContent = none
  SnapName = {s}
  BackupName = {b}
  LastIno = 105
  MaxReuse = 1
  MaxFaults = 1
SYMMETRY DirNames
SPECIFICATION MCSpec
INVARIANTS
  TypeOK
  EntriesDurable
  BackupTaken
PROPERTIES
  SnapshotFrozen
  SnapshotFaithful
  NextRequestRepairs
  RestoreFaithful
  ImplementsStore
