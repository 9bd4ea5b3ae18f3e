CONSTANTS
  IDS = 3
  REF = 2
  COUNT_MOD = 4
  MAX_PULSES = 6
  DIs = {0, 1}
  AIs = {0, 1023}
  PERIOD = 2
  CT_MOD = 4
  LIFE = 1
  AIR_MAX = 2
  HORIZON = 4
  DEBOUNCE = 1
  STATE3_MS = 4
  SECOND = 3
  MAX_INPUT = 2
  Nodes <- MCNodes
  POST <- MCPost
  LID <- MCLid
  Data <- MCData
SPECIFICATION PlainSpec
INVARIANTS PlainTypeOK FlagGuards PulsesOnce OutputsAgree SilentOnlyIfMissed State3Ends LinesTrue ParentUnderstands
PROPERTIES FlagStuckByRadio OutputsFollow AnswersEnd
CHECK_DEADLOCK FALSE
