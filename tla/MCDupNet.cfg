CONSTANTS
  Keys = {k1, k2}
  Values = {0, 1, 2, 3}
  BITS = 2
  N_ENTRIES = 1
  MODE = "OLDER"
  TIMEOUT = 2
  TS_MOD = 4
  REFRESH_MIN = 1
  REFRESH_MAX = 1
  RX_LAG = 1
  MAX_DELAY = 2
  RESTARTS = FALSE
SPECIFICATION NetSafety
INVARIANTS NetTypeOK AtMostOnce
PROPERTY InOrder
