------------------------------ MODULE BankState ------------------------------
(***************************************************************************)
(* The state of one bank, and what the memory controller does to its view  *)
(* of it: the countdown of implicit state changes, the effect of each      *)
(* command popped from the command queue, and power-down.                  *)
(*                                                                         *)
(* A bank's nextRead, nextWrite, ... are absolute clock cycles in the code *)
(* and only ever compared with the current cycle or merged by max with a   *)
(* later one, so they are kept here as the number of cycles still to wait. *)
(***************************************************************************)
EXTENDS SystemConfiguration

CurrentBankState == {"Idle", "RowActive", "Precharging", "Refreshing", "PowerDown"}

ColumnTypes  == {"READ", "READ_P", "WRITE", "WRITE_P"}
CommandTypes == ColumnTypes \cup {"ACTIVATE", "PRECHARGE", "REFRESH"}

BankStates ==
  [currentBankState : CurrentBankState, openRowAddress : ROWS,
   nextRead : Nat, nextWrite : Nat, nextActivate : Nat, nextPrecharge : Nat,
   nextPowerUp : Nat, lastCommand : CommandTypes, stateChangeCountdown : Nat]

\* A command or data packet on a bus or in a queue.  The physical address of a
\* column command is its (rank, bank, row, column).
BusPackets ==
  [busPacketType : CommandTypes \cup {"DATA"}, rank : RANKS, bank : BANKS,
   row : ROWS, column : COLS]

\* The NULL packet pointer.
NoPacket ==
  [busPacketType |-> "NULL", rank |-> 0, bank |-> 0, row |-> 0, column |-> 0]

Packet(type, rank, bank, row, column) ==
  [busPacketType |-> type, rank |-> rank, bank |-> bank, row |-> row, column |-> column]

\* All banks start precharged.
InitBank ==
  [currentBankState |-> "Idle", openRowAddress |-> 0,
   nextRead |-> 0, nextWrite |-> 0, nextActivate |-> 0, nextPrecharge |-> 0,
   nextPowerUp |-> 0, lastCommand |-> "READ", stateChangeCountdown |-> 0]

\* One clock step, seen from a bank: every timestamp is one cycle closer.
Step(m) ==
  [m EXCEPT !.nextRead = Sooner(@), !.nextWrite = Sooner(@),
            !.nextActivate = Sooner(@), !.nextPrecharge = Sooner(@),
            !.nextPowerUp = Sooner(@)]

-----------------------------------------------------------------------------
\* Mutants of CountDown: a countdown of 0 goes on counting; and an auto-precharge
\* takes no time.
CountDownBelowZero(m) ==
  IF m.stateChangeCountdown = 1 THEN [m EXCEPT !.currentBankState = "Idle", !.stateChangeCountdown = 0]
  ELSE [m EXCEPT !.stateChangeCountdown = @ - 1]

CountDownToIdle(m) ==
  IF m.stateChangeCountdown = 1 THEN [m EXCEPT !.currentBankState = "Idle", !.stateChangeCountdown = 0]
  ELSE [m EXCEPT !.stateChangeCountdown = Sooner(@)]

\* The countdown at the start of update(), and the implicit state change when
\* it runs out: an auto-precharge begins, or a precharge or refresh is over.
CountDown(m) ==
  LET implicit == m.stateChangeCountdown = 1
      left     == [m EXCEPT !.stateChangeCountdown = Sooner(@)]
  IN  IF implicit /\ m.lastCommand \in {"WRITE_P", "READ_P"}
      THEN [m EXCEPT !.currentBankState = "Precharging",
                     !.lastCommand = "PRECHARGE", !.stateChangeCountdown = tRP]
      ELSE IF implicit /\ m.lastCommand \in {"REFRESH", "PRECHARGE"}
      THEN [left EXCEPT !.currentBankState = "Idle"]
      ELSE left

\* Mutants: no spacing in the read's own rank; none in the other ranks.
AfterReadElsewhereApart(c, r, m) ==
  IF r # c.rank /\ m.currentBankState = "RowActive"
  THEN [m EXCEPT !.nextRead = Later(BURST + tRTRS, @),
                 !.nextWrite = Later(READ_TO_WRITE_DELAY, @)]
  ELSE m

AfterReadElsewhereSameRank(c, r, m) ==
  IF r = c.rank
  THEN [m EXCEPT !.nextRead = Later(Later(tCCD, BURST), @),
                 !.nextWrite = Later(READ_TO_WRITE_DELAY, @)]
  ELSE m

\* Column-to-column spacing left by a read in rank c.rank, for a bank of rank r.
\* Banks of other ranks are only updated when they are active.
AfterReadElsewhere(c, r, m) ==
  IF r = c.rank
  THEN [m EXCEPT !.nextRead = Later(Later(tCCD, BURST), @),
                 !.nextWrite = Later(READ_TO_WRITE_DELAY, @)]
  ELSE IF m.currentBankState = "RowActive"
  THEN [m EXCEPT !.nextRead = Later(BURST + tRTRS, @),
                 !.nextWrite = Later(READ_TO_WRITE_DELAY, @)]
  ELSE m

\* The effect of popping the read c on bank m of rank r, bank b.
AfterRead(c, r, b, m) ==
  LET act == Later(READ_AUTOPRE_DELAY, m.nextActivate)
  IN  IF <<r, b>> # <<c.rank, c.bank>>
      THEN AfterReadElsewhere(c, r, m)
      ELSE IF c.busPacketType = "READ_P"
      THEN [m EXCEPT !.nextActivate = act, !.nextRead = act, !.nextWrite = act,
                     !.lastCommand = "READ_P",
                     !.stateChangeCountdown = READ_TO_PRE_DELAY]
      ELSE [AfterReadElsewhere(c, r, m) EXCEPT
                     !.nextPrecharge = Later(READ_TO_PRE_DELAY, @),
                     !.lastCommand = "READ"]

\* Mutant: the banks of the write's own rank wait as little as those of other ranks.
AfterWriteElsewhereApart(c, r, m) ==
  IF r = c.rank \/ m.currentBankState = "RowActive"
  THEN [m EXCEPT !.nextWrite = Later(Later(BURST, tCCD), @),
                 !.nextRead = Later(WRITE_TO_READ_DELAY_R, @)]
  ELSE m

AfterWriteElsewhere(c, r, m) ==
  IF r = c.rank
  THEN [m EXCEPT !.nextWrite = Later(Later(BURST, tCCD), @),
                 !.nextRead = Later(WRITE_TO_READ_DELAY_B, @)]
  ELSE IF m.currentBankState = "RowActive"
  THEN [m EXCEPT !.nextWrite = Later(BURST + tRTRS, @),
                 !.nextRead = Later(WRITE_TO_READ_DELAY_R, @)]
  ELSE m

AfterWrite(c, r, b, m) ==
  LET act == Later(WRITE_AUTOPRE_DELAY, m.nextActivate)
  IN  IF <<r, b>> # <<c.rank, c.bank>>
      THEN AfterWriteElsewhere(c, r, m)
      ELSE IF c.busPacketType = "WRITE_P"
      THEN [m EXCEPT !.nextActivate = act, !.nextRead = act, !.nextWrite = act,
                     !.lastCommand = "WRITE_P",
                     !.stateChangeCountdown = WRITE_TO_PRE_DELAY]
      ELSE [AfterWriteElsewhere(c, r, m) EXCEPT
                     !.nextPrecharge = Later(WRITE_TO_PRE_DELAY, @),
                     !.lastCommand = "WRITE"]

\* Mutants of AfterActivate: tRAS is dropped; and tRRD replaces a longer wait.
AfterActivateNoRAS(c, r, b, m) ==
  IF r # c.rank THEN m
  ELSE IF b # c.bank THEN [m EXCEPT !.nextActivate = Later(tRRD, @)]
  ELSE [m EXCEPT !.currentBankState = "RowActive", !.lastCommand = "ACTIVATE",
                 !.openRowAddress = c.row, !.nextActivate = Later(tRC, @),
                 !.nextRead = Later(tRCD - AL, @), !.nextWrite = Later(tRCD - AL, @)]

AfterActivateShorteningRRD(c, r, b, m) ==
  IF r # c.rank THEN m
  ELSE IF b # c.bank THEN [m EXCEPT !.nextActivate = tRRD]
  ELSE [m EXCEPT !.currentBankState = "RowActive", !.lastCommand = "ACTIVATE",
                 !.openRowAddress = c.row,
                 !.nextActivate = Later(tRC, @), !.nextPrecharge = Later(tRAS, @),
                 !.nextRead = Later(tRCD - AL, @), !.nextWrite = Later(tRCD - AL, @)]

AfterActivate(c, r, b, m) ==
  IF r # c.rank THEN m
  ELSE IF b # c.bank THEN [m EXCEPT !.nextActivate = Later(tRRD, @)]
  ELSE [m EXCEPT !.currentBankState = "RowActive", !.lastCommand = "ACTIVATE",
                 !.openRowAddress = c.row,
                 !.nextActivate = Later(tRC, @), !.nextPrecharge = Later(tRAS, @),
                 !.nextRead = Later(tRCD - AL, @), !.nextWrite = Later(tRCD - AL, @)]

AfterPrecharge(c, r, b, m) ==
  IF <<r, b>> # <<c.rank, c.bank>> THEN m
  ELSE [m EXCEPT !.currentBankState = "Precharging", !.lastCommand = "PRECHARGE",
                 !.stateChangeCountdown = tRP, !.nextActivate = Later(tRP, @)]

AfterRefresh(c, r, m) ==
  IF r # c.rank THEN m
  ELSE [m EXCEPT !.currentBankState = "Refreshing", !.lastCommand = "REFRESH",
                 !.stateChangeCountdown = tRFC, !.nextActivate = tRFC]

\* The switch on the type of the popped packet, for one bank.
AfterCommand(c, r, b, m) ==
  CASE c.busPacketType \in {"READ", "READ_P"}   -> AfterRead(c, r, b, m)
    [] c.busPacketType \in {"WRITE", "WRITE_P"} -> AfterWrite(c, r, b, m)
    [] c.busPacketType = "ACTIVATE"             -> AfterActivate(c, r, b, m)
    [] c.busPacketType = "PRECHARGE"            -> AfterPrecharge(c, r, b, m)
    [] c.busPacketType = "REFRESH"              -> AfterRefresh(c, r, m)

-----------------------------------------------------------------------------
\* Power-down entry and exit, for every bank of the rank.
PoweredDown(m) == [m EXCEPT !.currentBankState = "PowerDown", !.nextPowerUp = tCKE]

PoweredUp(m)   == [m EXCEPT !.currentBankState = "Idle", !.nextActivate = tXP]
=============================================================================
