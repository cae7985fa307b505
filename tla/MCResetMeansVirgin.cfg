CONSTANTS
  Local = {1}
  Volumes = {data, anonymous}
  Data = data
  Mounts <- MCMounts
  Platforms = {1, 2}
  RunIds = {r1}
  Options <- MCOptions
  MaxRuns = 2
  Nothing = Nothing
SPECIFICATION Spec
INVARIANT
  ResetMeansVirgin
