CONSTANTS
  Local = {1}
  Volumes = {data, logs, settings}
  Data = data
  Mounts <- MCMounts
  Platforms = {1, 2}
  RunIds = {r1}
  Options <- MCOptions
  MaxRuns = 2
  Nothing = Nothing
SPECIFICATION Spec
INVARIANTS
  TypeOK
  ResetHonest
  StatusIsEarned
  ReportedRunIsWhole
  OneAdapterOpen
PROPERTIES
  RunEnds
