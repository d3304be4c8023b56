SPECIFICATION Spec
CONSTANTS
  FileName = {x}
  DirName = {d, e}
  Content = {none, c}
  NoContent = none
  SnapName = {}
  BackupName = {}
  LastIno = 103
  MaxReuse = 0
INVARIANT LiveTreeDurable
