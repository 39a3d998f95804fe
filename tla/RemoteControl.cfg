SPECIFICATION Spec
CONSTANTS
  WORD = 65536
  BYTE = 256
  PSU_ID = 60062
  Watched = {"VoltageSet", "Output", "WH", "Clock", "Brightness"}
  Moving = {"VoltageSet", "Output", "WH"}
  MaxMoves = 2
  MaxTasks = 2
  Levels = {2900}
  SCPI_ERROR_QUEUE_SIZE = 2
  QPS_READS = 2
CHECK_DEADLOCK FALSE
INVARIANTS
  TypeOK
  ShownTogether
  AcknowledgedHolds
  SettingsReadBack
  ToggleFlips
