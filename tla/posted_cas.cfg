SPECIFICATION Spec
CONSTANTS
  NUM_RANKS = 2
  NUM_BANKS = 1
  NUM_ROWS = 2
  NUM_COLS = 1
  CL = 10
  AL = 9
  BL = 8
  tRAS = 24
  tRCD = 10
  tRRD = 4
  tRC = 34
  tRP = 10
  tCCD = 4
  tRTP = 5
  tWTR = 5
  tWR = 10
  tRTRS = 1
  tRFC = 74
  tFAW = 20
  tCKE = 4
  tXP = 4
  tCMD = 1
  REFRESH_CYCLES = 5200
  TRANS_QUEUE_DEPTH = 2
  CMD_QUEUE_DEPTH = 4
  TOTAL_ROW_ACCESSES = 2
  rowBufferPolicy = "OpenPage"
  queuingStructure = "PerRank"
  schedulingPolicy = "RankThenBankRoundRobin"
  USE_LOW_POWER = FALSE
  Endless = FALSE
  MaxTransactions = 2
  Buffered = FALSE
  Transactions <- OneWritePerBank
INVARIANTS
  NoDataBusCollision
