CONSTANTS
  TX_TIMEOUT = 2
  CONV_TIME = 2
  WORK_MAX = 3
SPECIFICATION Spec
INVARIANTS TypeOK RadioQuietAsleep AwakeBounded
PROPERTIES ImplementsDutyCycle CycleEnds
