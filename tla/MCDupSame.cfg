CONSTANTS
  Keys = {k1, k2}
  Values = {0, 1}
  BITS = 16
  N_ENTRIES = 2
  MODE = "SAME"
  TIMEOUT = 2
  TS_MOD = 5
  REFRESH_MIN = 1
  REFRESH_MAX = 2
  RX_LAG = 1
SPECIFICATION Spec
PROPERTIES ImplementsFilter PoolFreed
