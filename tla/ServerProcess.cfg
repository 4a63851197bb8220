\* Two calls and a probe while the server starts, stops or is killed.
SPECIFICATION FairSpec
CONSTANTS
  RPCs = {r1, r2}
  Configs <- MCConfigs
  parallelFetchers = 2
INVARIANTS
  TypeOK
  ServedFromLiveCaches
  NoCallCutOff
PROPERTY SignalEnds
