------------------------ MODULE SystemConfiguration ------------------------
(***************************************************************************)
(* The parameters the simulator reads from its two .ini files, the bounds  *)
(* they are assumed to respect, and the delays SystemConfiguration.h       *)
(* derives from them.  All delays are in memory-clock cycles.              *)
(***************************************************************************)
EXTENDS Naturals, Sequences

CONSTANTS
  NUM_RANKS, NUM_BANKS, NUM_ROWS, NUM_COLS,
  CL, AL, BL,                             \* latencies, burst length
  tRAS, tRCD, tRRD, tRC, tRP, tCCD, tRTP, tWTR, tWR, tRTRS, tRFC, tFAW,
  tCKE, tXP, tCMD,
  REFRESH_CYCLES,                         \* REFRESH_PERIOD / tCK
  TRANS_QUEUE_DEPTH, CMD_QUEUE_DEPTH, TOTAL_ROW_ACCESSES,
  rowBufferPolicy, queuingStructure, schedulingPolicy, USE_LOW_POWER

\* Every parameter is an unsigned number, and there is at least one of each unit.
ASSUME GeometryAssumption ==
  /\ NUM_RANKS \in Nat \ {0} /\ NUM_BANKS \in Nat \ {0}
  /\ NUM_ROWS  \in Nat \ {0} /\ NUM_COLS  \in Nat \ {0}
  /\ TRANS_QUEUE_DEPTH \in Nat \ {0}
  /\ CMD_QUEUE_DEPTH \in Nat \ {0}
  /\ TOTAL_ROW_ACCESSES \in Nat \ {0}
  /\ REFRESH_CYCLES \in Nat \ {0}

ASSUME TimingAssumption ==
  /\ CL \in Nat /\ AL \in Nat /\ BL \in Nat
  /\ tRAS \in Nat /\ tRCD \in Nat /\ tRRD \in Nat /\ tRC \in Nat
  /\ tRP \in Nat \ {0} /\ tCCD \in Nat /\ tRTP \in Nat /\ tWTR \in Nat
  /\ tWR \in Nat /\ tRTRS \in Nat /\ tRFC \in Nat \ {0} /\ tFAW \in Nat \ {0}
  /\ tCKE \in Nat /\ tXP \in Nat
  /\ CL + AL >= 2                   \* WL is RL-1, and a countdown from WL must pass 0
  /\ BL >= 2                        \* BL/2, an integer division, is a burst
  /\ AL <= tRCD                     \* the ini files: "needs to be tRCD-1 or 0"

\* Every device file has tCMD=1: a command is on the bus for one cycle.
ASSUME CommandBusAssumption == tCMD = 1

ASSUME PolicyAssumption ==
  /\ rowBufferPolicy  \in {"OpenPage", "ClosePage"}
  /\ queuingStructure \in {"PerRank", "PerRankPerBank"}
  /\ schedulingPolicy \in {"RankThenBankRoundRobin", "BankThenRankRoundRobin"}
  /\ USE_LOW_POWER \in BOOLEAN

-----------------------------------------------------------------------------
RANKS == 0 .. NUM_RANKS - 1
BANKS == 0 .. NUM_BANKS - 1
ROWS  == 0 .. NUM_ROWS - 1
COLS  == 0 .. NUM_COLS - 1

\* std::max on delays; in relative time it also merges a new wait with an old one.
Later(a, b) == IF a >= b THEN a ELSE b

RL    == CL + AL
WL    == RL - 1
BURST == BL \div 2

READ_TO_PRE_DELAY     == AL + BURST + Later(tRTP, 2) - 2
WRITE_TO_PRE_DELAY    == WL + BURST + tWR
READ_TO_WRITE_DELAY   == RL + BURST + tRTRS - WL
READ_AUTOPRE_DELAY    == AL + tRTP + tRP
WRITE_AUTOPRE_DELAY   == WL + BURST + tWR + tRP
WRITE_TO_READ_DELAY_B == WL + BURST + tWTR
WRITE_TO_READ_DELAY_R == WL + BURST + tRTRS - RL

\* A timestamp that lies w cycles ahead lies Sooner(w) ahead one clock step
\* later; a wait of 0 stands for every timestamp already reached.
Sooner(w) == IF w = 0 THEN 0 ELSE w - 1

\* The auto-precharge of a read ends (READ_AUTOPRE) no earlier than it starts
\* (READ_TO_PRE).  The device files all satisfy it.
ASSUME AutoPrechargeAssumption == READ_AUTOPRE_DELAY >= READ_TO_PRE_DELAY
=============================================================================
