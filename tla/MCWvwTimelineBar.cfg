\* A shroud entered again from inside it.
SPECIFICATION Spec
CONSTANTS
  Builds <- MCBuilds
  Scripts <- MCScripts
  PoolCap <- MCPoolCap
  None = None
  Duration = 44
  TICK = 2
  PERIOD = 4
  SECOND = 4
  ALACRITY = 1
  CHILLED = 2
  GAP = 2
  HUMAN_DELAY = 0
  DODGE_EVADE = 6
  DODGE_COST = 20
  INTERRUPT = 6
  SWAP = 8
  LEGEND = 8
  LEGEND_ENERGY = 4
  MAX_UPKEEP = 4
  BAR = 2
  BARRIER_LIFETIME = 6
  BARRIER_CAP = 2
  MaxHealth = 6
  FoeHealth = 12
CHECK_DEADLOCK FALSE
INVARIANT
  BarOnlyInShroud
