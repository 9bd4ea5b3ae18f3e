CONSTANTS
  Keys = {k1, k2, k3}
  Values = {0, 2, 5}
  BITS = 3
  N_ENTRIES = 2
  MODE = "OLDER"
  TIMEOUT = 1
  TS_MOD = 4
  REFRESH_MIN = 1
  REFRESH_MAX = 2
  RX_LAG = 1
SPECIFICATION Spec
INVARIANTS TypeOK PoolPartition NoTwins StampsExact
PROPERTY ImplementsFilter
