SPECIFICATION Spec
CONSTANTS
  Volumes = {v1, v2}
  MaxBackups = 2
INVARIANTS
  TypeOK
  UsedCorrectly
  BackupHasItsShadows
  SetsLeftForKnownReasons
PROPERTY
  InterfaceIsReleased
