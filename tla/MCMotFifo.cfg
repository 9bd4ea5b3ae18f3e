CONSTANTS
  FIFO_DEPTH = 5
  FIFO_SAMPLE_COUNT = 4
  MAX_SAMP_IN_PKT = 2
  Ids = {0, 1, 2}
  TX_TIMEOUT = 2
  T_MOD = 8
  Reading <- MCReading
SPECIFICATION Spec
INVARIANTS TypeOK RadioQuietAsleep Bookkeeping ParentPrints AwakeBounded
PROPERTIES InSequence QueueDrained
