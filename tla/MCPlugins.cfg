\* Nobody has to ask for a plugin.
SPECIFICATION PluginsSpec
CONSTANTS
  a = a
  b = b
  k1 = k1
  k2 = k2
  p1 = p1
  p2 = p2
  Keys <- MCKeys
  Files <- MCFiles
  Plugins <- MCPlugins
  EnvPaths <- MCEnvPaths
  Directories <- MCDirectories
  Blacklists <- MCBlacklists
  MaxDepth = 2
INVARIANTS
  PluginsTypeOK
  LivePluginsListed
  OpenedOnce
CHECK_DEADLOCK FALSE
