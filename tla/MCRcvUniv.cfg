CONSTANTS
  Keys = {k1, k2}
  Values = {0, 1}
  BITS = 15
  N_ENTRIES = 1
  MODE = "OLDER"
  TIMEOUT = 1
  TS_MOD = 3
  REFRESH_MIN = 1
  REFRESH_MAX = 1
  RX_LAG = 0
  N_SENSORS = 3
  N_PACKS = 1
  Garbage = {7}
  Packets <- MCPackets
SPECIFICATION RcvSpec
INVARIANTS RcvTypeOK MapMatchesSensors FreshDisplay ShownOnce
PROPERTIES OnlyOurs FiltersBetweenResets
