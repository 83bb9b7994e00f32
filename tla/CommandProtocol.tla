--------------------------- MODULE CommandProtocol ---------------------------
(***************************************************************************)
(* What the controller promises its ranks, whatever the command queue      *)
(* decides: in every cycle at most one command, any command that the       *)
(* controller's own bank states allow, is put on the command bus; it       *)
(* reaches its rank tCMD cycles later; idle ranks may be powered down and  *)
(* powered up again.  The controller and the ranks keep separate bank      *)
(* states and never compare them; a rank that gets a command its own state *)
(* forbids exits the simulation, which is the value of error here.         *)
(*                                                                         *)
(* One call of MemoryController::update is three steps, in its own order:  *)
(* Deliver, then an issue step, then PowerAndStep.                         *)
(***************************************************************************)
EXTENDS Rank

VARIABLES
  bankStates,          \* the controller's bank states, [RANKS -> [BANKS -> BankStates]]
  powerDown,           \* the controller's power-down flags
  outgoingCmdPacket,   \* the packet on the command bus, or NoPacket
  cmdCyclesLeft,       \* cycles until it is received
  rankBanks,           \* each rank's own bank states
  isPowerDown,         \* each rank's own power-down flag
  phase,               \* the part of update() that runs next
  error                \* "none", or the check at which the program exited

protocolVars == <<bankStates, powerDown, outgoingCmdPacket, cmdCyclesLeft,
                  rankBanks, isPowerDown, phase, error>>

Errors == {"none", "command not allowed", "command bus collision",
           "power change not allowed"}

\* The command types of each row-buffer policy, as the controller creates them.
PolicyTypes == IF rowBufferPolicy = "OpenPage"
               THEN {"READ", "WRITE", "ACTIVATE", "PRECHARGE", "REFRESH"}
               ELSE {"READ_P", "WRITE_P", "ACTIVATE", "REFRESH"}

Commands == {c \in BusPackets : c.busPacketType \in PolicyTypes}

\* Both views of every bank, the command on its way and the power flags stay well
\* formed: no wait of a bank runs below zero.
ProtocolTypeOK ==
  /\ bankStates \in [RANKS -> [BANKS -> BankStates]]
  /\ powerDown \in [RANKS -> BOOLEAN]
  /\ outgoingCmdPacket \in Commands \cup {NoPacket}
  /\ cmdCyclesLeft \in 0 .. tCMD
  /\ rankBanks \in [RANKS -> [BANKS -> BankStates]]
  /\ isPowerDown \in [RANKS -> BOOLEAN]
  /\ phase \in {"begin", "issue", "end"}
  /\ error \in Errors

ProtocolInit ==
  /\ bankStates = [r \in RANKS |-> [b \in BANKS |-> InitBank]]
  /\ powerDown = [r \in RANKS |-> FALSE]
  /\ outgoingCmdPacket = NoPacket
  /\ cmdCyclesLeft = 0
  /\ rankBanks = [r \in RANKS |-> [b \in BANKS |-> InitBank]]
  /\ isPowerDown = [r \in RANKS |-> FALSE]
  /\ phase = "begin"
  /\ error = "none"

-----------------------------------------------------------------------------
\* Mutant: a refresh may be sent to a rank that is powered down.
RefreshIssuableAsleep(rank) ==
  \A b \in BANKS : LET n == bankStates[rank][b]
                   IN  n.currentBankState # "RowActive" /\ n.nextActivate = 0

\* A refresh needs every bank of the rank closed, ready to be activated, and awake.
RefreshIssuable(rank) ==
  /\ \A b \in BANKS : LET n == bankStates[rank][b]
                      IN  n.currentBankState # "RowActive" /\ n.nextActivate = 0
  /\ bankStates[rank][0].currentBankState # "PowerDown"

\* When the controller's bank states allow c.
Issuable(c) ==
  LET m == bankStates[c.rank][c.bank]
  IN  /\ c.busPacketType = "ACTIVATE" =>
           m.currentBankState \in {"Idle", "Refreshing"} /\ m.nextActivate = 0
      /\ c.busPacketType \in {"READ", "READ_P"} =>
           m.currentBankState = "RowActive" /\ m.nextRead = 0 /\ c.row = m.openRowAddress
      /\ c.busPacketType \in {"WRITE", "WRITE_P"} =>
           m.currentBankState = "RowActive" /\ m.nextWrite = 0 /\ c.row = m.openRowAddress
      /\ c.busPacketType = "PRECHARGE" =>
           m.currentBankState = "RowActive" /\ m.nextPrecharge = 0
      /\ c.busPacketType = "REFRESH" => RefreshIssuable(c.rank)

\* The start of update(): implicit state changes, and the command bus.
Deliver ==
  LET p   == outgoingCmdPacket
      due == p # NoPacket /\ cmdCyclesLeft = 1
  IN  /\ phase = "begin" /\ error = "none"
      /\ phase' = "issue"
      /\ bankStates' = [r \in RANKS |-> [b \in BANKS |-> CountDown(bankStates[r][b])]]
      /\ outgoingCmdPacket' = IF due THEN NoPacket ELSE p
      /\ cmdCyclesLeft' = IF p = NoPacket THEN cmdCyclesLeft ELSE cmdCyclesLeft - 1
      /\ rankBanks' = IF due
                      THEN [rankBanks EXCEPT ![p.rank] =
                              [b \in BANKS |-> RankAfter(p, b, rankBanks[p.rank][b])]]
                      ELSE rankBanks
      /\ error' = IF due /\ ~RankAccepts(p, rankBanks[p.rank])
                  THEN "command not allowed" ELSE "none"
      /\ UNCHANGED <<powerDown, isPowerDown>>

\* Popping the command c and putting it on the command bus.
Issue(c) ==
  /\ phase = "issue" /\ error = "none"
  /\ Issuable(c)
  /\ phase' = "end"
  /\ bankStates' = [r \in RANKS |->
                      [b \in BANKS |-> AfterCommand(c, r, b, bankStates[r][b])]]
  /\ outgoingCmdPacket' = c
  /\ cmdCyclesLeft' = tCMD
  /\ error' = IF outgoingCmdPacket # NoPacket THEN "command bus collision" ELSE "none"
  /\ UNCHANGED <<powerDown, rankBanks, isPowerDown>>

IssueNothing ==
  /\ phase = "issue" /\ error = "none"
  /\ phase' = "end"
  /\ UNCHANGED <<bankStates, powerDown, outgoingCmdPacket, cmdCyclesLeft,
                 rankBanks, isPowerDown, error>>

\* The end of update(): the ranks of "down" are powered down, those of "up" are
\* powered up, and every clock advances.
PowerAndStep(down, up) ==
  /\ phase = "end" /\ error = "none"
  /\ down \cup up # {} => USE_LOW_POWER
  /\ \A r \in down : \A b \in BANKS : bankStates[r][b].currentBankState = "Idle"
  /\ \A r \in up : powerDown[r] /\ bankStates[r][0].nextPowerUp = 0
  /\ LET Powered(r, m) == IF r \in down THEN PoweredDown(m)
                          ELSE IF r \in up THEN PoweredUp(m) ELSE m
     IN  /\ bankStates' = [r \in RANKS |->
                             [b \in BANKS |-> Step(Powered(r, bankStates[r][b]))]]
         /\ rankBanks' = [r \in RANKS |->
                             [b \in BANKS |-> Step(Powered(r, rankBanks[r][b]))]]
  /\ powerDown' = [r \in RANKS |-> r \in down \/ (powerDown[r] /\ r \notin up)]
  /\ isPowerDown' = [r \in RANKS |-> r \in down \/ (isPowerDown[r] /\ r \notin up)]
  /\ error' = IF /\ \A r \in down : MayPowerDown(rankBanks[r])
                 /\ \A r \in up : MayPowerUp(isPowerDown[r], rankBanks[r])
              THEN "none" ELSE "power change not allowed"
  /\ phase' = "begin"
  /\ UNCHANGED <<outgoingCmdPacket, cmdCyclesLeft>>

ProtocolNext ==
  \/ Deliver
  \/ \E c \in Commands : Issue(c)
  \/ IssueNothing
  \/ \E down \in SUBSET RANKS : \E up \in SUBSET (RANKS \ down) : PowerAndStep(down, up)

ProtocolSpec == ProtocolInit /\ [][ProtocolNext]_protocolVars

-----------------------------------------------------------------------------
\* The ranks never object: a command that the controller's bank states allow,
\* and every power change, is also allowed by the rank it reaches a cycle later
\* (no "received a ... when not allowed" exit), and no two commands are ever on
\* the command bus together (no "Command Bus Collision" exit).
RankNeverRejects == error = "none"

\* The power state is the same seen from both sides, although each side keeps
\* its own flag, its own bank states and its own nextPowerUp.
PowerViewsAgree ==
  error = "none" =>
    \A r \in RANKS :
      /\ powerDown[r] = isPowerDown[r]
      /\ \A b \in BANKS :
           /\ (bankStates[r][b].currentBankState = "PowerDown") <=> powerDown[r]
           /\ (rankBanks[r][b].currentBankState = "PowerDown") <=> powerDown[r]

\* No command shortens the time a bank still has to wait for its next ACTIVATE
\* (tRC, tRRD, tRP, tRFC): updates of nextActivate only ever move it later.
ActivateWaitKept ==
  [][\A r \in RANKS, b \in BANKS :
        bankStates'[r][b].nextActivate >= Sooner(bankStates[r][b].nextActivate)]_protocolVars
=============================================================================
