-------------------------------- MODULE Rank --------------------------------
(***************************************************************************)
(* A rank's own view of its banks: the checks it makes on every command it *)
(* receives, and what the command does to its banks.  A rank aborts the    *)
(* simulation when a check fails, so "the rank accepts" is the simulator's *)
(* own definition of a legal command sequence.  Banks are a function from  *)
(* BANKS to bank states; a rank never counts down and never leaves a bank  *)
(* Precharging or Refreshing.                                              *)
(***************************************************************************)
EXTENDS BankState

ColumnAllowed(p, k, nextColumn) ==
  /\ k.currentBankState = "RowActive"
  /\ nextColumn = 0
  /\ p.row = k.openRowAddress

\* The conditions under which receiveFromBus does not exit.
RankAccepts(p, banks) ==
  LET k == banks[p.bank]
  IN  /\ p.busPacketType \in {"READ", "READ_P"}   => ColumnAllowed(p, k, k.nextRead)
      /\ p.busPacketType \in {"WRITE", "WRITE_P"} => ColumnAllowed(p, k, k.nextWrite)
      /\ p.busPacketType = "ACTIVATE"  => k.currentBankState = "Idle" /\ k.nextActivate = 0
      /\ p.busPacketType = "PRECHARGE" => k.currentBankState = "RowActive" /\ k.nextPrecharge = 0
      /\ p.busPacketType = "REFRESH"   => \A b \in BANKS : banks[b].currentBankState = "Idle"

RankAfterRead(p, b, k) ==
  LET spaced == [k EXCEPT !.nextRead = Later(@, Later(tCCD, BURST)),
                          !.nextWrite = Later(@, READ_TO_WRITE_DELAY)]
  IN  IF b # p.bank THEN spaced
      ELSE IF p.busPacketType = "READ"
      THEN [spaced EXCEPT !.nextPrecharge = Later(@, READ_TO_PRE_DELAY)]
      ELSE [spaced EXCEPT !.currentBankState = "Idle",
                          !.nextActivate = Later(@, READ_AUTOPRE_DELAY)]

\* After a WRITE every bank waits; the loop after a WRITE_P only ever touches
\* the written bank, and WRITE_P uses WRITE_TO_PRE where the controller uses
\* WRITE_AUTOPRE.
RankAfterWrite(p, b, k) ==
  LET spaced == [k EXCEPT !.nextRead = Later(@, WRITE_TO_READ_DELAY_B),
                          !.nextWrite = Later(@, Later(tCCD, BURST))]
  IN  IF p.busPacketType = "WRITE"
      THEN IF b = p.bank
           THEN [spaced EXCEPT !.nextPrecharge = Later(@, WRITE_TO_PRE_DELAY)]
           ELSE spaced
      ELSE IF b = p.bank
           THEN [spaced EXCEPT !.currentBankState = "Idle",
                               !.nextActivate = Later(@, WRITE_TO_PRE_DELAY)]
           ELSE k

RankAfterActivate(p, b, k) ==
  IF b # p.bank THEN [k EXCEPT !.nextActivate = Later(@, tRRD)]
  ELSE [k EXCEPT !.currentBankState = "RowActive", !.openRowAddress = p.row,
                 !.nextActivate = tRC, !.nextPrecharge = tRAS,
                 !.nextRead = tRCD - AL, !.nextWrite = tRCD - AL]

RankAfterPrecharge(p, b, k) ==
  IF b # p.bank THEN k
  ELSE [k EXCEPT !.currentBankState = "Idle", !.nextActivate = Later(@, tRP)]

RankAfterRefresh(k) == [k EXCEPT !.nextActivate = tRFC]

\* The state of bank b of the rank that receives the command p.
RankAfter(p, b, k) ==
  CASE p.busPacketType \in {"READ", "READ_P"}   -> RankAfterRead(p, b, k)
    [] p.busPacketType \in {"WRITE", "WRITE_P"} -> RankAfterWrite(p, b, k)
    [] p.busPacketType = "ACTIVATE"             -> RankAfterActivate(p, b, k)
    [] p.busPacketType = "PRECHARGE"            -> RankAfterPrecharge(p, b, k)
    [] p.busPacketType = "REFRESH"              -> RankAfterRefresh(k)

-----------------------------------------------------------------------------
\* The checks made by powerDown() and powerUp().
MayPowerDown(banks) == \A b \in BANKS : banks[b].currentBankState = "Idle"

MayPowerUp(poweredDown, banks) ==
  poweredDown /\ \A b \in BANKS : banks[b].nextPowerUp = 0
=============================================================================
