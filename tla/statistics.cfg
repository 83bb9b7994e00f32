SPECIFICATION StatisticsSpec
CHECK_DEADLOCK FALSE
CONSTANTS
  NUM_RANKS = 2
  NUM_BANKS = 2
  EPOCH_LENGTH = 3
  HISTOGRAM_BIN_SIZE = 2
  MaxCycle = 8
  MaxTransfers = 3
INVARIANTS
  StatisticsTypeOK
  PrintedAddsUp
  LatencyToldOnce
