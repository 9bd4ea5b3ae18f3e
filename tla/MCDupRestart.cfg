CONSTANTS
  Keys = {k1, k2}
  Values = {0, 1, 2, 3}
  BITS = 2
  N_ENTRIES = 2
  MODE = "OLDER"
  TIMEOUT = 1
  TS_MOD = 3
  REFRESH_MIN = 1
  REFRESH_MAX = 1
  RX_LAG = 0
  MAX_DELAY = 0
  RESTARTS = TRUE
SPECIFICATION NetSpec
PROPERTY NeverLockedOut
