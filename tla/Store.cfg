SPECIFICATION Spec
CONSTANTS
  c1 = c1
  c2 = c2
  None = None
  Dir = Dir
  Live = Live
  NPaths = 2
  Guids = {g1, g2}
  Contents = {c1, c2}
  SizeOf <- MCUniformSize
  MaxVersions = 3
  Devices = {d1}
  SnapshotModes <- MCLiveOnly
  Criteria = {"Hash"}
  Exclusions <- MCOneExclusion
  EditKinds = {"write", "create", "delete", "link", "rename", "mkdir", "remove"}
  MaxEdits = 2
  ConcurrentEdits = FALSE
  MaxSessionBackups = 1
PROPERTY ImplementsStore
