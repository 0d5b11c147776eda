SPECIFICATION RestoreSpec
CONSTANTS
  None = None
  Dir = Dir
  Live = Live
  NPaths = 2
  Guids = {g1, g2}
  Contents = {c1, c2}
  SizeOf <- MCUniformSize
  MaxVersions = 2
  Devices = {d1, d2}
  SnapshotModes <- MCLiveOnly
  Criteria = {"Hash"}
  Exclusions <- MCNoExclusion
  EditKinds = {"write", "link"}
  MaxEdits = 2
  ConcurrentEdits = FALSE
  MaxSessionBackups = 1
  MaxRestores = 2
INVARIANT RestoreGivesData
