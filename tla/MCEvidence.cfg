CONSTANTS
  Versions <- MCVersions
  Pins <- MCPins
  NoPin = 0
  Blank = 9
  Seeds = {1}
  MaxCommands = 2
  Nothing = Nothing
  Platforms = {1, 2}
  Required <- MCRequired
  Envs <- MCEnvs
  CommandLines <- MCCommandLines
  Hops = {1, 2, 3}
  Dialects <- MCDialects
  Order <- MCOrder
  Size <- MCSize
  Listed = 2
SPECIFICATION Spec
INVARIANTS
  PreparedIsOneGraph
  PinnedIsLoud
  CleanIsComparable
  DocumentTells
