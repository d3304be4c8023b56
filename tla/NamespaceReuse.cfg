SPECIFICATION Spec
CONSTANTS
  FileName = {x}
  DirName = {d}
  Content = {none, c}
  NoContent = none
  SnapName = {s}
  BackupName = {}
  LastIno = 103
  MaxReuse = 1
PROPERTY SnapshotsSurvive
