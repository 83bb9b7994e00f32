SPECIFICATION Spec
CONSTANTS
  NUM_RANKS = 1
  NUM_BANKS = 2
  NUM_ROWS = 2
  NUM_COLS = 1
  CL = 2
  AL = 0
  BL = 2
  tRAS = 3
  tRCD = 2
  tRRD = 1
  tRC = 4
  tRP = 1
  tCCD = 2
  tRTP = 2
  tWTR = 2
  tWR = 2
  tRTRS = 1
  tRFC = 2
  tFAW = 12
  tCKE = 2
  tXP = 2
  tCMD = 1
  REFRESH_CYCLES = 14
  TRANS_QUEUE_DEPTH = 1
  CMD_QUEUE_DEPTH = 2
  TOTAL_ROW_ACCESSES = 2
  rowBufferPolicy = "ClosePage"
  queuingStructure = "PerRankPerBank"
  schedulingPolicy = "RankThenBankRoundRobin"
  USE_LOW_POWER = FALSE
  Endless = FALSE
  MaxTransactions = 5
  Buffered = TRUE
  Transactions <- OneReadPerBank
INVARIANTS
  NoExit
  RequestsConserved
  FAWWindow
