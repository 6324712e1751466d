SPECIFICATION Spec
CONSTANTS
  i1 = i1
  i2 = i2
  f1 = f1
  f2 = f2
  s1 = s1
  s2 = s2
  plugin = plugin
  c1 = c1
  c2 = c2
  InjectorIds <- MCInjectorIds
  FaultIds <- MCFaultIds
  Rank <- MCRank
  Shapes <- MCShapes
  LoadableShapes <- MCLoadableShapes
  Configs <- MCConfigs
  NoConfig = NoConfig
  NoTime = NoTime
  BadFile = BadFile
  InitialScenarios <- TimedOnly
  Files <- ToManual
  MaxTime = 3
  MaxLate = 0
  MaxCalls = 1
INVARIANTS
  ManualOnlyStaysInactive
