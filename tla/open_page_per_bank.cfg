SPECIFICATION FairSpec
CONSTANTS
  NUM_RANKS = 1
  NUM_BANKS = 1
  NUM_ROWS = 2
  NUM_COLS = 1
  CL = 2
  AL = 0
  BL = 4
  tRAS = 5
  tRCD = 3
  tRRD = 2
  tRC = 8
  tRP = 3
  tCCD = 2
  tRTP = 2
  tWTR = 2
  tWR = 2
  tRTRS = 1
  tRFC = 5
  tFAW = 10
  tCKE = 2
  tXP = 2
  tCMD = 1
  REFRESH_CYCLES = 18
  TRANS_QUEUE_DEPTH = 1
  CMD_QUEUE_DEPTH = 4
  TOTAL_ROW_ACCESSES = 2
  rowBufferPolicy = "OpenPage"
  queuingStructure = "PerRankPerBank"
  schedulingPolicy = "RankThenBankRoundRobin"
  USE_LOW_POWER = TRUE
  Endless = TRUE
  MaxTransactions = 3
  Buffered = TRUE
  Transactions <- OneBankTwoRows
INVARIANTS
  NoExit
  NoStrandedColumn
  ReadFindsDataStored
PROPERTIES
  EveryRequestAnswered
  EveryRefreshSent
