------------------------ MODULE CommandProtocolProofs ------------------------
(***************************************************************************)
(* Why the ranks never object, for every geometry, timing and policy that  *)
(* the assumptions of SystemConfiguration allow.                           *)
(*                                                                         *)
(* The controller and a rank update their own copies of a bank with the    *)
(* same delays, the rank one cycle later.  So a wait of the rank's bank is *)
(* at most one cycle longer than the controller's (Follows), and what the  *)
(* controller may issue now, the rank accepts in the next cycle.  The      *)
(* invariant says this of the instant when the command bus is empty; while *)
(* a command is on the bus it says it of the banks as they will be once    *)
(* the command is received (Arrives).                                      *)
(***************************************************************************)
EXTENDS CommandProtocol, TLAPS

\* The state, the countdown and the last command of a controller's bank fit together.
\* At the start of update() the countdown is one cycle behind the waits.
BankConsistent(m, lag) ==
  /\ m.currentBankState \in {"Idle", "PowerDown"} => m.stateChangeCountdown = 0
  /\ m.currentBankState = "Precharging" =>
       m.stateChangeCountdown >= 1 /\ m.lastCommand = "PRECHARGE"
  /\ m.currentBankState = "Refreshing" =>
       /\ m.stateChangeCountdown >= 1 /\ m.lastCommand = "REFRESH"
       /\ m.nextActivate + lag >= m.stateChangeCountdown
  /\ m.currentBankState = "RowActive" /\ m.stateChangeCountdown > 0 =>
       /\ m.lastCommand \in {"READ_P", "WRITE_P"} /\ rowBufferPolicy # "OpenPage"
       /\ m.nextRead + lag >= m.stateChangeCountdown
       /\ m.nextWrite + lag >= m.stateChangeCountdown

\* A rank closes a bank at once where the controller counts down to it.
Closed(m) == \/ m.currentBankState \in {"Idle", "Precharging", "Refreshing"}
             \/ m.currentBankState = "RowActive" /\ m.stateChangeCountdown > 0

\* The rank's bank k follows the controller's bank m, at most one cycle behind.
Follows(m, k) ==
  /\ m.currentBankState = "RowActive" /\ m.stateChangeCountdown = 0 =>
       /\ k.currentBankState = "RowActive" /\ k.openRowAddress = m.openRowAddress
       /\ k.nextRead <= m.nextRead + 1 /\ k.nextWrite <= m.nextWrite + 1
       /\ k.nextPrecharge <= m.nextPrecharge + 1
  /\ Closed(m) => k.currentBankState = "Idle"
  /\ k.nextActivate <= m.nextActivate + 1

\* Bank b of rank r once the packet p is received, if it is for that rank.
Received(p, r, b, k) == IF p # NoPacket /\ r = p.rank THEN RankAfter(p, b, k) ELSE k

Stepped(banks) == [r \in RANKS |-> [b \in BANKS |-> Step(banks[r][b])]]

\* The ranks rk accept p, and then follow the controller's banks mc.
Arrives(p, mc, rk) ==
  /\ p # NoPacket => RankAccepts(p, rk[p.rank])
  /\ \A r \in RANKS, b \in BANKS :
       Follows(mc[r][b], Received(p, r, b, rk[r][b]))

PowerAgrees ==
  \A r \in RANKS :
    /\ powerDown[r] = isPowerDown[r]
    /\ \A b \in BANKS :
         /\ (bankStates[r][b].currentBankState = "PowerDown") <=> powerDown[r]
         /\ (rankBanks[r][b].currentBankState = "PowerDown") <=> powerDown[r]
         /\ rankBanks[r][b].nextPowerUp = bankStates[r][0].nextPowerUp

BusConsistent ==
  /\ outgoingCmdPacket # NoPacket => cmdCyclesLeft = 1 /\ phase # "issue"
  /\ phase = "end" /\ outgoingCmdPacket # NoPacket =>
       bankStates[outgoingCmdPacket.rank][outgoingCmdPacket.bank].currentBankState
         \notin {"Idle", "PowerDown"}

BanksFollow ==
  /\ phase = "issue" => \A r \in RANKS, b \in BANKS : Follows(bankStates[r][b], rankBanks[r][b])
  /\ phase = "begin" => Arrives(outgoingCmdPacket, bankStates, rankBanks)
  /\ phase = "end"   => Arrives(outgoingCmdPacket, Stepped(bankStates), Stepped(rankBanks))

IInv ==
  /\ ProtocolTypeOK
  /\ error = "none"
  /\ \A r \in RANKS, b \in BANKS :
       BankConsistent(bankStates[r][b], IF phase = "begin" THEN 1 ELSE 0)
  /\ PowerAgrees
  /\ BusConsistent
  /\ BanksFollow

-----------------------------------------------------------------------------
(* Delays and types. *)

\* The derived delays are natural numbers, and an auto-precharge ends no earlier
\* than it begins.
LEMMA DelayFacts ==
  /\ READ_TO_PRE_DELAY \in Nat \ {0} /\ WRITE_TO_PRE_DELAY \in Nat \ {0}
  /\ READ_TO_WRITE_DELAY \in Nat /\ READ_AUTOPRE_DELAY \in Nat
  /\ WRITE_AUTOPRE_DELAY \in Nat /\ WRITE_TO_READ_DELAY_B \in Nat
  /\ WRITE_TO_READ_DELAY_R \in Nat /\ BURST \in Nat \ {0} /\ tRCD - AL \in Nat
  /\ READ_AUTOPRE_DELAY >= READ_TO_PRE_DELAY
  /\ WRITE_AUTOPRE_DELAY >= WRITE_TO_PRE_DELAY
<1>1. BURST \in Nat \ {0}
  BY TimingAssumption DEF BURST
<1>2. WL \in Nat \ {0} /\ RL = WL + 1
  BY TimingAssumption DEF WL, RL
<1>3. Later(tRTP, 2) \in Nat /\ Later(tRTP, 2) >= 2
  BY TimingAssumption DEF Later
<1>4. READ_TO_PRE_DELAY \in Nat \ {0}
  BY <1>1, <1>3, TimingAssumption DEF READ_TO_PRE_DELAY
<1>5. tRCD - AL \in Nat
  BY TimingAssumption
<1> QED
  BY <1>1, <1>2, <1>4, <1>5, TimingAssumption, AutoPrechargeAssumption
  DEF WRITE_TO_PRE_DELAY, READ_TO_WRITE_DELAY, READ_AUTOPRE_DELAY, WRITE_AUTOPRE_DELAY,
      WRITE_TO_READ_DELAY_B, WRITE_TO_READ_DELAY_R

\* max is a natural number that bounds both its arguments and is one of them.
LEMMA LaterFacts ==
  ASSUME NEW a \in Nat, NEW b \in Nat
  PROVE  /\ Later(a, b) \in Nat /\ Later(a, b) >= a /\ Later(a, b) >= b
         /\ Later(a, b) = a \/ Later(a, b) = b
BY DEF Later

\* A clock step takes at most one cycle off a wait.
LEMMA SoonerFacts ==
  ASSUME NEW w \in Nat
  PROVE  /\ Sooner(w) \in Nat /\ Sooner(w) <= w /\ w <= Sooner(w) + 1
BY DEF Sooner

\* Every bank-state operator returns bank states.
LEMMA StepType ==
  ASSUME NEW m \in BankStates
  PROVE  Step(m) \in BankStates
BY SoonerFacts DEF Step, BankStates

\* The countdown returns bank states.
LEMMA CountDownType ==
  ASSUME NEW m \in BankStates
  PROVE  CountDown(m) \in BankStates
BY SoonerFacts, TimingAssumption
DEF CountDown, BankStates, CurrentBankState, CommandTypes, ColumnTypes

\* A power change returns bank states.
LEMMA PoweredType ==
  ASSUME NEW m \in BankStates
  PROVE  PoweredDown(m) \in BankStates /\ PoweredUp(m) \in BankStates
BY TimingAssumption DEF PoweredDown, PoweredUp, BankStates, CurrentBankState

\* What a command of the row-buffer policy may be.
LEMMA CommandFacts ==
  ASSUME NEW c \in Commands
  PROVE  /\ c.rank \in RANKS /\ c.bank \in BANKS /\ c.row \in ROWS
         /\ c \in BusPackets /\ c # NoPacket
         /\ c.busPacketType \in {"READ", "WRITE", "READ_P", "WRITE_P", "ACTIVATE",
                                 "PRECHARGE", "REFRESH"}
         /\ c.busPacketType \in {"READ_P", "WRITE_P"} => rowBufferPolicy # "OpenPage"
         /\ c.busPacketType = "PRECHARGE" => rowBufferPolicy = "OpenPage"
BY DEF Commands, BusPackets, PolicyTypes, NoPacket

\* A column command only makes the other banks wait longer.
OnlyRaised(m, n) ==
  /\ n \in BankStates
  /\ n.currentBankState = m.currentBankState /\ n.openRowAddress = m.openRowAddress
  /\ n.nextActivate = m.nextActivate /\ n.nextPrecharge = m.nextPrecharge
  /\ n.nextPowerUp = m.nextPowerUp /\ n.lastCommand = m.lastCommand
  /\ n.stateChangeCountdown = m.stateChangeCountdown
  /\ n.nextRead >= m.nextRead /\ n.nextWrite >= m.nextWrite

\* The column-to-column spacing of either kind is such a raise.
LEMMA ElsewhereRaises ==
  ASSUME NEW c \in Commands, NEW r \in RANKS, NEW m \in BankStates
  PROVE  /\ OnlyRaised(m, AfterReadElsewhere(c, r, m))
         /\ OnlyRaised(m, AfterWriteElsewhere(c, r, m))
<1>1. m.nextRead \in Nat /\ m.nextWrite \in Nat
  BY DEF BankStates
<1>2. \A x, y \in Nat :
        x >= m.nextRead /\ y >= m.nextWrite =>
          /\ OnlyRaised(m, [m EXCEPT !.nextRead = x, !.nextWrite = y])
          /\ OnlyRaised(m, [m EXCEPT !.nextWrite = y, !.nextRead = x])
  BY DEF BankStates, OnlyRaised
<1>3. OnlyRaised(m, m)
  BY <1>1 DEF OnlyRaised
<1>4. /\ Later(tCCD, BURST) \in Nat /\ Later(BURST, tCCD) \in Nat
      /\ BURST + tRTRS \in Nat
  BY DelayFacts, LaterFacts, TimingAssumption
<1>5. \A d \in Nat : /\ Later(d, m.nextRead) \in Nat /\ Later(d, m.nextRead) >= m.nextRead
                     /\ Later(d, m.nextWrite) \in Nat /\ Later(d, m.nextWrite) >= m.nextWrite
  BY <1>1, LaterFacts
<1>6. OnlyRaised(m, AfterReadElsewhere(c, r, m))
  BY <1>2, <1>3, <1>4, <1>5, DelayFacts DEF AfterReadElsewhere
<1>7. OnlyRaised(m, AfterWriteElsewhere(c, r, m))
  BY <1>2, <1>3, <1>4, <1>5, DelayFacts DEF AfterWriteElsewhere
<1> QED BY <1>6, <1>7

\* Every command leaves the controller's banks as bank states ...
LEMMA AfterCommandType ==
  ASSUME NEW c \in Commands, NEW r \in RANKS, NEW b \in BANKS, NEW m \in BankStates
  PROVE  AfterCommand(c, r, b, m) \in BankStates
<1> USE CommandFacts, DelayFacts, LaterFacts, TimingAssumption
    DEF BankStates, CurrentBankState, CommandTypes, ColumnTypes
<1>1. CASE c.busPacketType \in {"READ", "READ_P"}
  <2>1. AfterReadElsewhere(c, r, m) \in BankStates
    BY ElsewhereRaises DEF OnlyRaised
  <2>2. AfterRead(c, r, b, m) \in BankStates
    BY <1>1, <2>1 DEF AfterRead
  <2> QED BY <1>1, <2>2 DEF AfterCommand
<1>2. CASE c.busPacketType \in {"WRITE", "WRITE_P"}
  <2>1. AfterWriteElsewhere(c, r, m) \in BankStates
    BY ElsewhereRaises DEF OnlyRaised
  <2>2. AfterWrite(c, r, b, m) \in BankStates
    BY <1>2, <2>1 DEF AfterWrite
  <2> QED BY <1>2, <2>2 DEF AfterCommand
<1>3. CASE c.busPacketType = "ACTIVATE"
  BY <1>3 DEF AfterCommand, AfterActivate
<1>4. CASE c.busPacketType = "PRECHARGE"
  BY <1>4 DEF AfterCommand, AfterPrecharge
<1>5. CASE c.busPacketType = "REFRESH"
  BY <1>5 DEF AfterCommand, AfterRefresh
<1> QED BY <1>1, <1>2, <1>3, <1>4, <1>5

\* ... and the rank's.
LEMMA RankAfterType ==
  ASSUME NEW c \in Commands, NEW b \in BANKS, NEW k \in BankStates
  PROVE  RankAfter(c, b, k) \in BankStates
<1> USE CommandFacts, DelayFacts, LaterFacts, TimingAssumption
    DEF BankStates, CurrentBankState
<1>1. CASE c.busPacketType \in {"READ", "READ_P"}
  BY <1>1 DEF RankAfter, RankAfterRead
<1>2. CASE c.busPacketType \in {"WRITE", "WRITE_P"}
  BY <1>2 DEF RankAfter, RankAfterWrite
<1>3. CASE c.busPacketType = "ACTIVATE"
  BY <1>3 DEF RankAfter, RankAfterActivate
<1>4. CASE c.busPacketType = "PRECHARGE"
  BY <1>4 DEF RankAfter, RankAfterPrecharge
<1>5. CASE c.busPacketType = "REFRESH"
  BY <1>5 DEF RankAfter, RankAfterRefresh
<1> QED BY <1>1, <1>2, <1>3, <1>4, <1>5

-----------------------------------------------------------------------------
(* One bank. *)

\* What Issuable(c) says of bank m = bankStates[r][b].
Permits(c, r, b, m) ==
  /\ r = c.rank /\ c.busPacketType = "REFRESH" =>
       m.currentBankState \notin {"RowActive", "PowerDown"} /\ m.nextActivate = 0
  /\ r = c.rank /\ b = c.bank =>
       /\ c.busPacketType = "ACTIVATE" =>
            m.currentBankState \in {"Idle", "Refreshing"} /\ m.nextActivate = 0
       /\ c.busPacketType \in {"READ", "READ_P"} =>
            m.currentBankState = "RowActive" /\ m.nextRead = 0 /\ c.row = m.openRowAddress
       /\ c.busPacketType \in {"WRITE", "WRITE_P"} =>
            m.currentBankState = "RowActive" /\ m.nextWrite = 0 /\ c.row = m.openRowAddress
       /\ c.busPacketType = "PRECHARGE" =>
            m.currentBankState = "RowActive" /\ m.nextPrecharge = 0

\* A clock step and a countdown keep a bank consistent.
LEMMA StepConsistent ==
  ASSUME NEW m \in BankStates, BankConsistent(m, 0)
  PROVE  BankConsistent(Step(m), 1)
BY SoonerFacts DEF BankConsistent, Step, BankStates

\* The countdown at the start of update() catches up with the waits.
LEMMA CountDownConsistent ==
  ASSUME NEW m \in BankStates, BankConsistent(m, 1)
  PROVE  BankConsistent(CountDown(m), 0)
BY TimingAssumption DEF BankConsistent, CountDown, BankStates, Sooner

\* A command that is permitted keeps every bank consistent.
LEMMA CommandConsistent ==
  ASSUME NEW c \in Commands, NEW r \in RANKS, NEW b \in BANKS, NEW m \in BankStates,
         BankConsistent(m, 0), Permits(c, r, b, m)
  PROVE  BankConsistent(AfterCommand(c, r, b, m), 0)
<1> USE CommandFacts, TimingAssumption DEF BankStates, BankConsistent
<1>1. CASE c.busPacketType \in {"READ", "READ_P"}
  <2>1. BankConsistent(AfterReadElsewhere(c, r, m), 0)
    BY ElsewhereRaises DEF OnlyRaised
  <2>2. CASE r # c.rank \/ b # c.bank
    BY <1>1, <2>1, <2>2 DEF AfterCommand, AfterRead
  <2>3. CASE r = c.rank /\ b = c.bank /\ c.busPacketType = "READ_P"
    <3> DEFINE n == AfterCommand(c, r, b, m)
               d == Later(READ_AUTOPRE_DELAY, m.nextActivate)
    <3>1. /\ n.currentBankState = "RowActive" /\ n.lastCommand = "READ_P"
          /\ n.stateChangeCountdown = READ_TO_PRE_DELAY
          /\ n.nextRead = d /\ n.nextWrite = d
      BY <2>3 DEF AfterCommand, AfterRead, Permits
    <3>2. d \in Nat /\ d >= READ_TO_PRE_DELAY /\ READ_TO_PRE_DELAY \in Nat
      <4>1. m.nextActivate \in Nat /\ READ_AUTOPRE_DELAY \in Nat /\ READ_TO_PRE_DELAY \in Nat
        BY DelayFacts
      <4>2. d \in Nat /\ d >= READ_AUTOPRE_DELAY
        BY <4>1, LaterFacts
      <4>3. READ_AUTOPRE_DELAY >= READ_TO_PRE_DELAY
        BY DelayFacts
      <4> HIDE DEF d
      <4> QED BY <4>1, <4>2, <4>3
    <3>3. rowBufferPolicy # "OpenPage"
      BY <2>3
    <3>4. BankConsistent(n, 0)
      <4> HIDE DEF n, d
      <4> QED BY <3>1, <3>2, <3>3
    <3> QED BY <3>4
  <2>4. CASE r = c.rank /\ b = c.bank /\ c.busPacketType = "READ"
    <3>1. m.currentBankState = "RowActive" /\ m.stateChangeCountdown = 0
      BY <2>4 DEF Permits
    <3>2. /\ AfterCommand(c, r, b, m).currentBankState = "RowActive"
          /\ AfterCommand(c, r, b, m).stateChangeCountdown = 0
      <4> DEFINE n == AfterReadElsewhere(c, r, m)
      <4>1. AfterCommand(c, r, b, m) = [n EXCEPT !.nextPrecharge = Later(READ_TO_PRE_DELAY, @),
                                                 !.lastCommand = "READ"]
        BY <2>4 DEF AfterCommand, AfterRead
      <4>2. n \in BankStates /\ n.currentBankState = "RowActive" /\ n.stateChangeCountdown = 0
        BY <3>1, ElsewhereRaises DEF OnlyRaised
      <4> HIDE DEF n
      <4> QED BY <4>1, <4>2
    <3> QED BY <3>2
  <2> QED BY <1>1, <2>2, <2>3, <2>4
<1>2. CASE c.busPacketType \in {"WRITE", "WRITE_P"}
  <2>1. BankConsistent(AfterWriteElsewhere(c, r, m), 0)
    BY ElsewhereRaises DEF OnlyRaised
  <2>2. CASE r # c.rank \/ b # c.bank
    BY <1>2, <2>1, <2>2 DEF AfterCommand, AfterWrite
  <2>3. CASE r = c.rank /\ b = c.bank /\ c.busPacketType = "WRITE_P"
    <3> DEFINE n == AfterCommand(c, r, b, m)
               d == Later(WRITE_AUTOPRE_DELAY, m.nextActivate)
    <3>1. /\ n.currentBankState = "RowActive" /\ n.lastCommand = "WRITE_P"
          /\ n.stateChangeCountdown = WRITE_TO_PRE_DELAY
          /\ n.nextRead = d /\ n.nextWrite = d
      BY <2>3 DEF AfterCommand, AfterWrite, Permits
    <3>2. d \in Nat /\ d >= WRITE_TO_PRE_DELAY /\ WRITE_TO_PRE_DELAY \in Nat
      <4>1. m.nextActivate \in Nat /\ WRITE_AUTOPRE_DELAY \in Nat /\ WRITE_TO_PRE_DELAY \in Nat
        BY DelayFacts
      <4>2. d \in Nat /\ d >= WRITE_AUTOPRE_DELAY
        BY <4>1, LaterFacts
      <4>3. WRITE_AUTOPRE_DELAY >= WRITE_TO_PRE_DELAY
        BY DelayFacts
      <4> HIDE DEF d
      <4> QED BY <4>1, <4>2, <4>3
    <3>3. rowBufferPolicy # "OpenPage"
      BY <2>3
    <3>4. BankConsistent(n, 0)
      <4> HIDE DEF n, d
      <4> QED BY <3>1, <3>2, <3>3
    <3> QED BY <3>4
  <2>4. CASE r = c.rank /\ b = c.bank /\ c.busPacketType = "WRITE"
    <3>1. m.currentBankState = "RowActive" /\ m.stateChangeCountdown = 0
      BY <2>4 DEF Permits
    <3>2. /\ AfterCommand(c, r, b, m).currentBankState = "RowActive"
          /\ AfterCommand(c, r, b, m).stateChangeCountdown = 0
      <4> DEFINE n == AfterWriteElsewhere(c, r, m)
      <4>1. AfterCommand(c, r, b, m) = [n EXCEPT !.nextPrecharge = Later(WRITE_TO_PRE_DELAY, @),
                                                 !.lastCommand = "WRITE"]
        BY <2>4 DEF AfterCommand, AfterWrite
      <4>2. n \in BankStates /\ n.currentBankState = "RowActive" /\ n.stateChangeCountdown = 0
        BY <3>1, ElsewhereRaises DEF OnlyRaised
      <4> HIDE DEF n
      <4> QED BY <4>1, <4>2
    <3> QED BY <3>2
  <2> QED BY <1>2, <2>2, <2>3, <2>4
<1>3. CASE c.busPacketType = "ACTIVATE"
  BY <1>3, LaterFacts DEF AfterCommand, AfterActivate, Permits
<1>4. CASE c.busPacketType = "PRECHARGE"
  BY <1>4, LaterFacts DEF AfterCommand, AfterPrecharge, Permits
<1>5. CASE c.busPacketType = "REFRESH"
  BY <1>5 DEF AfterCommand, AfterRefresh, Permits
<1> QED BY <1>1, <1>2, <1>3, <1>4, <1>5

\* Waits that differ by at most a cycle still do when the rank receives, one step
\* later, a command with a delay that is no longer than the controller's.
LEMMA WaitFollows ==
  ASSUME NEW a \in Nat, NEW w \in Nat, a <= w + 1, NEW d \in Nat, NEW e \in Nat, e <= d
  PROVE  /\ Sooner(a) <= Sooner(w) + 1
         /\ e <= Sooner(Later(d, w)) + 1
         /\ Sooner(a) <= Sooner(Later(d, w)) + 1
         /\ Later(Sooner(a), e) <= Sooner(Later(d, w)) + 1
BY DEF Sooner, Later

\* A clock step of both sides, and the controller's countdown, keep Follows.
LEMMA StepFollows ==
  ASSUME NEW m \in BankStates, NEW k \in BankStates, Follows(m, k)
  PROVE  Follows(Step(m), Step(k))
BY DEF Follows, Closed, Step, BankStates, Sooner

\* The controller's countdown closes no bank that the rank has not closed already.
LEMMA CountDownFollows ==
  ASSUME NEW m \in BankStates, NEW k \in BankStates, BankConsistent(m, 1), Follows(m, k)
  PROVE  Follows(CountDown(m), k)
<1> DEFINE n == CountDown(m)
<1> USE DEF BankStates
<1>1. CASE m.stateChangeCountdown = 1 /\ m.lastCommand \in {"WRITE_P", "READ_P"}
  <2>1. n.currentBankState = "Precharging" /\ n.nextActivate = m.nextActivate
    BY <1>1 DEF CountDown
  <2>2. m.currentBankState = "RowActive"
    BY <1>1 DEF BankConsistent, CurrentBankState
  <2>3. k.currentBankState = "Idle" /\ k.nextActivate <= m.nextActivate + 1
    BY <1>1, <2>2 DEF Follows, Closed
  <2> QED BY <2>1, <2>3 DEF Follows, Closed
<1>2. CASE m.stateChangeCountdown = 1 /\ m.lastCommand \in {"REFRESH", "PRECHARGE"}
  <2>1. n.currentBankState = "Idle" /\ n.nextActivate = m.nextActivate
    BY <1>2 DEF CountDown
  <2>2. m.currentBankState \in {"Precharging", "Refreshing"}
    BY <1>2 DEF BankConsistent, CurrentBankState
  <2>3. k.currentBankState = "Idle" /\ k.nextActivate <= m.nextActivate + 1
    BY <2>2 DEF Follows, Closed
  <2> QED BY <2>1, <2>3 DEF Follows, Closed
<1>3. CASE m.stateChangeCountdown # 1
  <2>1. n = [m EXCEPT !.stateChangeCountdown = Sooner(@)]
    BY <1>3 DEF CountDown
  <2>2. (m.stateChangeCountdown = 0) <=> (Sooner(m.stateChangeCountdown) = 0)
    BY <1>3 DEF Sooner
  <2>3. Sooner(m.stateChangeCountdown) > 0 <=> m.stateChangeCountdown > 0
    BY <1>3 DEF Sooner
  <2> QED BY <2>1, <2>2, <2>3 DEF Follows, Closed
<1>4. m.stateChangeCountdown = 1 =>
        m.lastCommand \in {"WRITE_P", "READ_P", "REFRESH", "PRECHARGE"}
  BY DEF BankConsistent, CurrentBankState
<1> QED BY <1>1, <1>2, <1>3, <1>4

\* The commands of another rank do not change what a bank of this rank follows.
LEMMA OtherRankFollows ==
  ASSUME NEW c \in Commands, NEW r \in RANKS, NEW b \in BANKS, r # c.rank,
         NEW m \in BankStates, NEW k \in BankStates, Follows(m, k)
  PROVE  Follows(Step(AfterCommand(c, r, b, m)), Step(k))
<1>1. AfterCommand(c, r, b, m) = m \/ OnlyRaised(m, AfterCommand(c, r, b, m))
  BY CommandFacts, ElsewhereRaises
  DEF AfterCommand, AfterRead, AfterWrite, AfterActivate, AfterPrecharge, AfterRefresh
<1>2. ASSUME NEW n \in BankStates, OnlyRaised(m, n)
      PROVE  Follows(n, k)
  BY <1>2 DEF Follows, Closed, OnlyRaised, BankStates
<1>3. Follows(AfterCommand(c, r, b, m), k)
  BY <1>1, <1>2, AfterCommandType
<1> QED BY <1>3, StepFollows, AfterCommandType

\* Follows, from what a command does to the waits of a bank it neither opens nor closes.
LEMMA FollowsByWaits ==
  ASSUME NEW m \in BankStates, NEW k \in BankStates, Follows(m, k),
         NEW n \in BankStates, NEW j \in BankStates,
         n.currentBankState = m.currentBankState, n.openRowAddress = m.openRowAddress,
         n.stateChangeCountdown = m.stateChangeCountdown,
         j.currentBankState = k.currentBankState, j.openRowAddress = k.openRowAddress,
         k.nextRead <= m.nextRead + 1 => j.nextRead <= Sooner(n.nextRead) + 1,
         k.nextWrite <= m.nextWrite + 1 => j.nextWrite <= Sooner(n.nextWrite) + 1,
         k.nextPrecharge <= m.nextPrecharge + 1 =>
           j.nextPrecharge <= Sooner(n.nextPrecharge) + 1,
         k.nextActivate <= m.nextActivate + 1 => j.nextActivate <= Sooner(n.nextActivate) + 1
  PROVE  Follows(Step(n), j)
BY DEF Follows, Closed, Step, BankStates

\* Follows, for a bank that a command closes.
LEMMA FollowsWhenClosed ==
  ASSUME NEW n \in BankStates, NEW j \in BankStates, Closed(n),
         j.currentBankState = "Idle", j.nextActivate <= Sooner(n.nextActivate) + 1
  PROVE  Follows(Step(n), j)
BY DEF Follows, Closed, Step, BankStates

\* A column command delays the reads and writes of a bank of its rank by d and e on
\* both sides, and on its own bank a PRECHARGE by f.
LEMMA SpacedFollows ==
  ASSUME NEW m \in BankStates, NEW k \in BankStates, Follows(m, k),
         NEW n \in BankStates, NEW j \in BankStates,
         n.currentBankState = m.currentBankState, n.openRowAddress = m.openRowAddress,
         n.stateChangeCountdown = m.stateChangeCountdown,
         j.currentBankState = k.currentBankState, j.openRowAddress = k.openRowAddress,
         NEW d \in Nat, NEW e \in Nat, NEW f \in Nat,
         n.nextRead = Later(d, m.nextRead), n.nextWrite = Later(e, m.nextWrite),
         j.nextRead \in {Sooner(k.nextRead), Later(Sooner(k.nextRead), d)},
         j.nextWrite \in {Sooner(k.nextWrite), Later(Sooner(k.nextWrite), e)},
         \/ n.nextPrecharge = m.nextPrecharge /\ j.nextPrecharge = Sooner(k.nextPrecharge)
         \/ /\ n.nextPrecharge = Later(f, m.nextPrecharge)
            /\ j.nextPrecharge = Later(Sooner(k.nextPrecharge), f),
         n.nextActivate = m.nextActivate, j.nextActivate = Sooner(k.nextActivate)
  PROVE  Follows(Step(n), j)
<1>1. /\ m.nextRead \in Nat /\ m.nextWrite \in Nat
      /\ m.nextPrecharge \in Nat /\ m.nextActivate \in Nat
      /\ k.nextRead \in Nat /\ k.nextWrite \in Nat
      /\ k.nextPrecharge \in Nat /\ k.nextActivate \in Nat
  BY DEF BankStates
<1>2. k.nextRead <= m.nextRead + 1 => j.nextRead <= Sooner(n.nextRead) + 1
  BY <1>1, WaitFollows
<1>3. k.nextWrite <= m.nextWrite + 1 => j.nextWrite <= Sooner(n.nextWrite) + 1
  BY <1>1, WaitFollows
<1>4. k.nextPrecharge <= m.nextPrecharge + 1 =>
        j.nextPrecharge <= Sooner(n.nextPrecharge) + 1
  BY <1>1, WaitFollows
<1>5. k.nextActivate <= m.nextActivate + 1 => j.nextActivate <= Sooner(n.nextActivate) + 1
  BY <1>1, WaitFollows
<1> QED BY <1>2, <1>3, <1>4, <1>5, FollowsByWaits

\* A permitted read, and the rank's reaction to it a cycle later, on a bank of its rank.
LEMMA ReadFollows ==
  ASSUME NEW c \in Commands, c.busPacketType \in {"READ", "READ_P"}, NEW b \in BANKS,
         NEW m \in BankStates, NEW k \in BankStates,
         BankConsistent(m, 0), Permits(c, c.rank, b, m), Follows(m, k)
  PROVE  Follows(Step(AfterCommand(c, c.rank, b, m)), RankAfter(c, b, Step(k)))
<1> DEFINE n == AfterCommand(c, c.rank, b, m)
           j == RankAfter(c, b, Step(k))
           d == Later(tCCD, BURST)
<1>1. /\ n = AfterRead(c, c.rank, b, m) /\ j = RankAfterRead(c, b, Step(k))
      /\ n \in BankStates /\ j \in BankStates /\ Step(k) \in BankStates
  BY CommandFacts, AfterCommandType, RankAfterType, StepType DEF AfterCommand, RankAfter
<1>2. /\ d \in Nat /\ READ_TO_WRITE_DELAY \in Nat /\ READ_TO_PRE_DELAY \in Nat \ {0}
      /\ READ_AUTOPRE_DELAY \in Nat
  BY DelayFacts, LaterFacts, TimingAssumption
<1>3. CASE b # c.bank \/ c.busPacketType = "READ"
  <2>1. /\ n.currentBankState = m.currentBankState /\ n.openRowAddress = m.openRowAddress
        /\ n.stateChangeCountdown = m.stateChangeCountdown
        /\ n.nextRead = Later(d, m.nextRead)
        /\ n.nextWrite = Later(READ_TO_WRITE_DELAY, m.nextWrite)
        /\ n.nextActivate = m.nextActivate
    BY <1>1, <1>3 DEF AfterRead, AfterReadElsewhere, BankStates
  <2>2. /\ j.currentBankState = k.currentBankState /\ j.openRowAddress = k.openRowAddress
        /\ j.nextRead = Later(Sooner(k.nextRead), d)
        /\ j.nextWrite = Later(Sooner(k.nextWrite), READ_TO_WRITE_DELAY)
        /\ j.nextActivate = Sooner(k.nextActivate)
    BY <1>1, <1>3 DEF RankAfterRead, Step, BankStates
  <2>3. \/ n.nextPrecharge = m.nextPrecharge /\ j.nextPrecharge = Sooner(k.nextPrecharge)
        \/ /\ n.nextPrecharge = Later(READ_TO_PRE_DELAY, m.nextPrecharge)
           /\ j.nextPrecharge = Later(Sooner(k.nextPrecharge), READ_TO_PRE_DELAY)
    BY <1>1, <1>3 DEF AfterRead, AfterReadElsewhere, RankAfterRead, Step, BankStates
  <2> HIDE DEF n, j, d
  <2>4. READ_TO_PRE_DELAY \in Nat
    BY <1>2
  <2>5. Follows(Step(n), j)
    BY <1>1, <1>2, <2>1, <2>2, <2>3, <2>4, SpacedFollows
  <2> QED BY <2>5 DEF n, j
<1>4. CASE b = c.bank /\ c.busPacketType = "READ_P"
  <2>1. /\ n.currentBankState = m.currentBankState
        /\ n.stateChangeCountdown = READ_TO_PRE_DELAY
        /\ n.nextActivate = Later(READ_AUTOPRE_DELAY, m.nextActivate)
    BY <1>1, <1>4 DEF AfterRead, BankStates
  <2>2. m.currentBankState = "RowActive"
    BY <1>4, CommandFacts DEF Permits
  <2>3. /\ j.currentBankState = "Idle"
        /\ j.nextActivate = Later(Sooner(k.nextActivate), READ_AUTOPRE_DELAY)
    BY <1>1, <1>4 DEF RankAfterRead, Step, BankStates
  <2>4. j.nextActivate <= Sooner(n.nextActivate) + 1
    <3>1. k.nextActivate \in Nat /\ m.nextActivate \in Nat /\ k.nextActivate <= m.nextActivate + 1
      BY DEF Follows, BankStates
    <3> HIDE DEF n, j
    <3> QED BY <1>2, <2>1, <2>3, <3>1, WaitFollows
  <2> HIDE DEF n, j
  <2>5. Follows(Step(n), j)
    BY <1>1, <1>2, <2>1, <2>2, <2>3, <2>4, FollowsWhenClosed DEF Closed
  <2> QED BY <2>5 DEF n, j
<1> QED BY <1>3, <1>4

\* The same for a write.  The rank delays the other banks after a WRITE only, and
\* an ACTIVATE after a WRITE_P by less than the controller does.
LEMMA WriteFollows ==
  ASSUME NEW c \in Commands, c.busPacketType \in {"WRITE", "WRITE_P"}, NEW b \in BANKS,
         NEW m \in BankStates, NEW k \in BankStates,
         BankConsistent(m, 0), Permits(c, c.rank, b, m), Follows(m, k)
  PROVE  Follows(Step(AfterCommand(c, c.rank, b, m)), RankAfter(c, b, Step(k)))
<1> DEFINE n == AfterCommand(c, c.rank, b, m)
           j == RankAfter(c, b, Step(k))
           d == Later(BURST, tCCD)
<1>1. /\ n = AfterWrite(c, c.rank, b, m) /\ j = RankAfterWrite(c, b, Step(k))
      /\ n \in BankStates /\ j \in BankStates /\ Step(k) \in BankStates
  BY CommandFacts, AfterCommandType, RankAfterType, StepType DEF AfterCommand, RankAfter
<1>2. /\ d \in Nat /\ WRITE_TO_READ_DELAY_B \in Nat /\ WRITE_TO_PRE_DELAY \in Nat \ {0}
      /\ WRITE_AUTOPRE_DELAY \in Nat /\ WRITE_TO_PRE_DELAY <= WRITE_AUTOPRE_DELAY
  BY DelayFacts, LaterFacts, TimingAssumption
<1>3. CASE b # c.bank \/ c.busPacketType = "WRITE"
  <2>1. /\ n.currentBankState = m.currentBankState /\ n.openRowAddress = m.openRowAddress
        /\ n.stateChangeCountdown = m.stateChangeCountdown
        /\ n.nextRead = Later(WRITE_TO_READ_DELAY_B, m.nextRead)
        /\ n.nextWrite = Later(d, m.nextWrite)
        /\ n.nextActivate = m.nextActivate
    BY <1>1, <1>3 DEF AfterWrite, AfterWriteElsewhere, BankStates
  <2>2. Later(tCCD, BURST) = d
    BY DelayFacts, TimingAssumption DEF Later
  <2>3. /\ j.currentBankState = k.currentBankState /\ j.openRowAddress = k.openRowAddress
        /\ j.nextRead \in {Sooner(k.nextRead), Later(Sooner(k.nextRead), WRITE_TO_READ_DELAY_B)}
        /\ j.nextWrite \in {Sooner(k.nextWrite), Later(Sooner(k.nextWrite), d)}
        /\ j.nextActivate = Sooner(k.nextActivate)
    <3> HIDE DEF d
    <3> QED BY <1>1, <1>3, <2>2 DEF RankAfterWrite, Step, BankStates
  <2>4. \/ n.nextPrecharge = m.nextPrecharge /\ j.nextPrecharge = Sooner(k.nextPrecharge)
        \/ /\ n.nextPrecharge = Later(WRITE_TO_PRE_DELAY, m.nextPrecharge)
           /\ j.nextPrecharge = Later(Sooner(k.nextPrecharge), WRITE_TO_PRE_DELAY)
    BY <1>1, <1>3 DEF AfterWrite, AfterWriteElsewhere, RankAfterWrite, Step, BankStates
  <2> HIDE DEF n, j, d
  <2>5. WRITE_TO_PRE_DELAY \in Nat
    BY <1>2
  <2>6. Follows(Step(n), j)
    BY <1>1, <1>2, <2>1, <2>3, <2>4, <2>5, SpacedFollows
  <2> QED BY <2>6 DEF n, j
<1>4. CASE b = c.bank /\ c.busPacketType = "WRITE_P"
  <2>1. /\ n.currentBankState = m.currentBankState
        /\ n.stateChangeCountdown = WRITE_TO_PRE_DELAY
        /\ n.nextActivate = Later(WRITE_AUTOPRE_DELAY, m.nextActivate)
    BY <1>1, <1>4 DEF AfterWrite, BankStates
  <2>2. m.currentBankState = "RowActive"
    BY <1>4, CommandFacts DEF Permits
  <2>3. /\ j.currentBankState = "Idle"
        /\ j.nextActivate = Later(Sooner(k.nextActivate), WRITE_TO_PRE_DELAY)
    BY <1>1, <1>4 DEF RankAfterWrite, Step, BankStates
  <2>4. j.nextActivate <= Sooner(n.nextActivate) + 1
    <3>1. k.nextActivate \in Nat /\ m.nextActivate \in Nat /\ k.nextActivate <= m.nextActivate + 1
      BY DEF Follows, BankStates
    <3> HIDE DEF n, j
    <3> QED BY <1>2, <2>1, <2>3, <3>1, WaitFollows
  <2> HIDE DEF n, j
  <2>5. Follows(Step(n), j)
    BY <1>1, <1>2, <2>1, <2>2, <2>3, <2>4, FollowsWhenClosed DEF Closed
  <2> QED BY <2>5 DEF n, j
<1> QED BY <1>3, <1>4

\* An ACTIVATE opens the bank on both sides.
LEMMA ActivateFollows ==
  ASSUME NEW c \in Commands, c.busPacketType = "ACTIVATE", NEW b \in BANKS,
         NEW m \in BankStates, NEW k \in BankStates,
         BankConsistent(m, 0), Permits(c, c.rank, b, m), Follows(m, k)
  PROVE  Follows(Step(AfterCommand(c, c.rank, b, m)), RankAfter(c, b, Step(k)))
<1> DEFINE n == AfterCommand(c, c.rank, b, m)
           j == RankAfter(c, b, Step(k))
<1>1. /\ n = AfterActivate(c, c.rank, b, m) /\ j = RankAfterActivate(c, b, Step(k))
      /\ n \in BankStates /\ j \in BankStates /\ Step(k) \in BankStates
  BY CommandFacts, AfterCommandType, RankAfterType, StepType DEF AfterCommand, RankAfter
<1>2. /\ m.nextRead \in Nat /\ m.nextWrite \in Nat
      /\ m.nextPrecharge \in Nat /\ m.nextActivate \in Nat
      /\ k.nextRead \in Nat /\ k.nextWrite \in Nat
      /\ k.nextPrecharge \in Nat /\ k.nextActivate \in Nat
      /\ k.nextActivate <= m.nextActivate + 1
  BY DEF BankStates, Follows
<1>3. CASE b # c.bank
  <2>1. n = [m EXCEPT !.nextActivate = Later(tRRD, @)]
    BY <1>1, <1>3 DEF AfterActivate
  <2>2. j = [Step(k) EXCEPT !.nextActivate = Later(@, tRRD)]
    BY <1>1, <1>3 DEF RankAfterActivate
  <2>3. /\ n.currentBankState = m.currentBankState /\ n.openRowAddress = m.openRowAddress
        /\ n.stateChangeCountdown = m.stateChangeCountdown
        /\ n.nextRead = m.nextRead /\ n.nextWrite = m.nextWrite
        /\ n.nextPrecharge = m.nextPrecharge
        /\ n.nextActivate = Later(tRRD, m.nextActivate)
    BY <2>1 DEF BankStates
  <2>4. /\ j.currentBankState = k.currentBankState /\ j.openRowAddress = k.openRowAddress
        /\ j.nextRead = Sooner(k.nextRead) /\ j.nextWrite = Sooner(k.nextWrite)
        /\ j.nextPrecharge = Sooner(k.nextPrecharge)
        /\ j.nextActivate = Later(Sooner(k.nextActivate), tRRD)
    BY <2>2 DEF Step, BankStates
  <2> HIDE DEF n, j
  <2>5. /\ k.nextRead <= m.nextRead + 1 => j.nextRead <= Sooner(n.nextRead) + 1
        /\ k.nextWrite <= m.nextWrite + 1 => j.nextWrite <= Sooner(n.nextWrite) + 1
        /\ k.nextPrecharge <= m.nextPrecharge + 1 =>
             j.nextPrecharge <= Sooner(n.nextPrecharge) + 1
        /\ j.nextActivate <= Sooner(n.nextActivate) + 1
    BY <1>2, <2>3, <2>4, WaitFollows, TimingAssumption
  <2>6. Follows(Step(n), j)
    BY <1>1, <2>3, <2>4, <2>5, FollowsByWaits
  <2> QED BY <2>6 DEF n, j
<1>4. CASE b = c.bank
  <2>1. m.stateChangeCountdown = 0
    BY <1>4 DEF Permits, BankConsistent, BankStates
  <2>2. /\ n.currentBankState = "RowActive" /\ n.openRowAddress = c.row
        /\ n.stateChangeCountdown = 0
        /\ n.nextRead = Later(tRCD - AL, m.nextRead)
        /\ n.nextWrite = Later(tRCD - AL, m.nextWrite)
        /\ n.nextPrecharge = Later(tRAS, m.nextPrecharge)
        /\ n.nextActivate = Later(tRC, m.nextActivate)
    BY <1>1, <1>4, <2>1 DEF AfterActivate, BankStates
  <2>3. /\ j.currentBankState = "RowActive" /\ j.openRowAddress = c.row
        /\ j.nextRead = tRCD - AL /\ j.nextWrite = tRCD - AL
        /\ j.nextPrecharge = tRAS /\ j.nextActivate = tRC
    BY <1>1, <1>4 DEF RankAfterActivate, Step, BankStates
  <2> HIDE DEF n, j
  <2>4. \A d, w \in Nat : d <= Sooner(Later(d, w)) + 1
    BY DEF Sooner, Later
  <2>5. /\ j.nextRead <= Sooner(n.nextRead) + 1 /\ j.nextWrite <= Sooner(n.nextWrite) + 1
        /\ j.nextPrecharge <= Sooner(n.nextPrecharge) + 1
        /\ j.nextActivate <= Sooner(n.nextActivate) + 1
    BY <1>2, <2>2, <2>3, <2>4, DelayFacts, TimingAssumption
  <2>6. Follows(Step(n), j)
    BY <1>1, <2>2, <2>3, <2>5 DEF Follows, Closed, Step, BankStates
  <2> QED BY <2>6 DEF n, j
<1> QED BY <1>3, <1>4

\* A PRECHARGE or a REFRESH closes banks that the rank closes at once.
LEMMA PrechargeFollows ==
  ASSUME NEW c \in Commands, c.busPacketType \in {"PRECHARGE", "REFRESH"}, NEW b \in BANKS,
         NEW m \in BankStates, NEW k \in BankStates,
         BankConsistent(m, 0), Permits(c, c.rank, b, m), Follows(m, k)
  PROVE  Follows(Step(AfterCommand(c, c.rank, b, m)), RankAfter(c, b, Step(k)))
<1> DEFINE n == AfterCommand(c, c.rank, b, m)
           j == RankAfter(c, b, Step(k))
<1>1. n \in BankStates /\ j \in BankStates /\ Step(k) \in BankStates
  BY CommandFacts, AfterCommandType, RankAfterType, StepType
<1>2. m.nextActivate \in Nat /\ k.nextActivate \in Nat /\ k.nextActivate <= m.nextActivate + 1
  BY DEF BankStates, Follows
<1>3. CASE c.busPacketType = "PRECHARGE" /\ b # c.bank
  <2>1. n = m /\ j = Step(k)
    BY <1>3 DEF AfterCommand, AfterPrecharge, RankAfter, RankAfterPrecharge
  <2> QED BY <2>1, StepFollows
<1>4. CASE c.busPacketType = "PRECHARGE" /\ b = c.bank
  <2>1. n.currentBankState = "Precharging" /\ n.nextActivate = Later(tRP, m.nextActivate)
    BY <1>4 DEF AfterCommand, AfterPrecharge, BankStates
  <2>2. j.currentBankState = "Idle" /\ j.nextActivate = Later(Sooner(k.nextActivate), tRP)
    BY <1>4 DEF RankAfter, RankAfterPrecharge, Step, BankStates
  <2> HIDE DEF n, j
  <2>3. j.nextActivate <= Sooner(n.nextActivate) + 1
    BY <1>2, <2>1, <2>2, WaitFollows, TimingAssumption
  <2>4. Follows(Step(n), j)
    BY <1>1, <2>1, <2>2, <2>3, FollowsWhenClosed DEF Closed
  <2> QED BY <2>4 DEF n, j
<1>5. CASE c.busPacketType = "REFRESH"
  <2>1. n.currentBankState = "Refreshing" /\ n.nextActivate = tRFC
    BY <1>5 DEF AfterCommand, AfterRefresh, BankStates
  <2>2. k.currentBankState = "Idle"
    BY <1>5, CommandFacts DEF Permits, Follows, Closed, BankStates, CurrentBankState
  <2>3. j.currentBankState = "Idle" /\ j.nextActivate = tRFC
    BY <1>5, <2>2 DEF RankAfter, RankAfterRefresh, Step, BankStates
  <2> HIDE DEF n, j
  <2>4. j.nextActivate <= Sooner(n.nextActivate) + 1
    BY <2>1, <2>3, TimingAssumption DEF Sooner
  <2>5. Follows(Step(n), j)
    BY <1>1, <2>1, <2>3, <2>4, FollowsWhenClosed DEF Closed
  <2> QED BY <2>5 DEF n, j
<1> QED BY <1>3, <1>4, <1>5

\* Every command.
LEMMA CommandFollows ==
  ASSUME NEW c \in Commands, NEW b \in BANKS, NEW m \in BankStates, NEW k \in BankStates,
         BankConsistent(m, 0), Permits(c, c.rank, b, m), Follows(m, k)
  PROVE  Follows(Step(AfterCommand(c, c.rank, b, m)), RankAfter(c, b, Step(k)))
BY CommandFacts, ReadFollows, WriteFollows, ActivateFollows, PrechargeFollows

\* A wait of at most one cycle is over after a step.
LEMMA StepEndsWaits ==
  ASSUME NEW k \in BankStates
  PROVE  /\ Step(k).currentBankState = k.currentBankState
         /\ Step(k).openRowAddress = k.openRowAddress
         /\ k.nextRead <= 1 => Step(k).nextRead = 0
         /\ k.nextWrite <= 1 => Step(k).nextWrite = 0
         /\ k.nextActivate <= 1 => Step(k).nextActivate = 0
         /\ k.nextPrecharge <= 1 => Step(k).nextPrecharge = 0
BY DEF Step, Sooner, BankStates

\* What the controller's banks permit now, a rank that follows them accepts a cycle later.
LEMMA PermittedIsAccepted ==
  ASSUME NEW c \in Commands, NEW mc \in [BANKS -> BankStates], NEW rk \in [BANKS -> BankStates],
         \A b \in BANKS : /\ BankConsistent(mc[b], 0) /\ Permits(c, c.rank, b, mc[b])
                          /\ Follows(mc[b], rk[b])
  PROVE  RankAccepts(c, [b \in BANKS |-> Step(rk[b])])
<1> DEFINE m == mc[c.bank]
           k == rk[c.bank]
           next == [b \in BANKS |-> Step(rk[b])]
<1> USE CommandFacts
<1>1. /\ m \in BankStates /\ k \in BankStates /\ BankConsistent(m, 0)
      /\ Permits(c, c.rank, c.bank, m) /\ Follows(m, k)
  OBVIOUS
<1>2. next[c.bank] = Step(k)
  OBVIOUS
<1>3. \A b \in BANKS : next[b] = Step(rk[b])
  OBVIOUS
<1>4. /\ Step(k).currentBankState = k.currentBankState
      /\ Step(k).openRowAddress = k.openRowAddress
      /\ k.nextRead <= 1 => Step(k).nextRead = 0
      /\ k.nextWrite <= 1 => Step(k).nextWrite = 0
      /\ k.nextActivate <= 1 => Step(k).nextActivate = 0
      /\ k.nextPrecharge <= 1 => Step(k).nextPrecharge = 0
  BY <1>1, StepEndsWaits
<1> SUFFICES RankAccepts(c, next)
  OBVIOUS
<1> HIDE DEF m, k, next
<1>5. CASE c.busPacketType \in {"READ", "READ_P"}
  <2>1. m.currentBankState = "RowActive" /\ m.stateChangeCountdown = 0
    BY <1>1, <1>5 DEF Permits, BankConsistent, BankStates
  <2>2. /\ k.currentBankState = "RowActive" /\ k.nextRead <= 1 /\ c.row = k.openRowAddress
    BY <1>1, <1>5, <2>1 DEF Permits, Follows
  <2>3. ColumnAllowed(c, Step(k), Step(k).nextRead)
    BY <1>4, <2>2 DEF ColumnAllowed
  <2> QED BY <1>5, <1>2, <2>3 DEF RankAccepts
<1>6. CASE c.busPacketType \in {"WRITE", "WRITE_P"}
  <2>1. m.currentBankState = "RowActive" /\ m.stateChangeCountdown = 0
    BY <1>1, <1>6 DEF Permits, BankConsistent, BankStates
  <2>2. /\ k.currentBankState = "RowActive" /\ k.nextWrite <= 1 /\ c.row = k.openRowAddress
    BY <1>1, <1>6, <2>1 DEF Permits, Follows
  <2>3. ColumnAllowed(c, Step(k), Step(k).nextWrite)
    BY <1>4, <2>2 DEF ColumnAllowed
  <2> QED BY <1>6, <1>2, <2>3 DEF RankAccepts
<1>7. CASE c.busPacketType = "ACTIVATE"
  <2>1. k.currentBankState = "Idle" /\ k.nextActivate <= 1
    BY <1>1, <1>7 DEF Permits, Follows, Closed
  <2>2. Step(k).currentBankState = "Idle" /\ Step(k).nextActivate = 0
    BY <1>4, <2>1
  <2> QED BY <1>7, <1>2, <2>2 DEF RankAccepts
<1>8. CASE c.busPacketType = "PRECHARGE"
  <2>1. m.currentBankState = "RowActive" /\ m.stateChangeCountdown = 0
    BY <1>1, <1>8 DEF Permits, BankConsistent, BankStates
  <2>2. k.currentBankState = "RowActive" /\ k.nextPrecharge <= 1
    BY <1>1, <1>8, <2>1 DEF Permits, Follows
  <2>3. Step(k).currentBankState = "RowActive" /\ Step(k).nextPrecharge = 0
    BY <1>4, <2>2
  <2> QED BY <1>8, <1>2, <2>3 DEF RankAccepts
<1>9. CASE c.busPacketType = "REFRESH"
  <2>1. ASSUME NEW b \in BANKS
        PROVE  Step(rk[b]).currentBankState = "Idle"
    <3>1. mc[b].currentBankState \in {"Idle", "Precharging", "Refreshing"}
      BY <1>9 DEF Permits, BankStates, CurrentBankState
    <3>2. rk[b].currentBankState = "Idle"
      BY <3>1 DEF Follows, Closed
    <3> QED BY <3>2 DEF Step, BankStates
  <2> QED BY <1>9, <1>3, <2>1 DEF RankAccepts
<1> QED BY <1>5, <1>6, <1>7, <1>8, <1>9

-----------------------------------------------------------------------------
(* Power-down: nothing but PowerAndStep changes it. *)

SamePower(m, n) ==
  /\ (n.currentBankState = "PowerDown") <=> (m.currentBankState = "PowerDown")
  /\ n.nextPowerUp = m.nextPowerUp

\* An implicit state change never powers a bank up or down.
LEMMA CountDownPower ==
  ASSUME NEW m \in BankStates, BankConsistent(m, 1)
  PROVE  SamePower(m, CountDown(m))
BY DEF SamePower, CountDown, BankConsistent, BankStates, CurrentBankState

\* Nor does a command on the controller's side ...
LEMMA CommandPower ==
  ASSUME NEW c \in Commands, NEW r \in RANKS, NEW b \in BANKS, NEW m \in BankStates,
         Permits(c, r, b, m)
  PROVE  SamePower(m, AfterCommand(c, r, b, m))
<1> USE CommandFacts DEF SamePower
<1>1. \A n : OnlyRaised(m, n) => SamePower(m, n)
  BY DEF OnlyRaised
<1>2. CASE c.busPacketType \in {"READ", "READ_P"}
  <2> DEFINE n == AfterReadElsewhere(c, r, m)
  <2>1. SamePower(m, n) /\ n \in BankStates
    BY <1>1, ElsewhereRaises DEF OnlyRaised
  <2>2. \/ AfterCommand(c, r, b, m) = n
        \/ AfterCommand(c, r, b, m) = [n EXCEPT !.nextPrecharge = Later(READ_TO_PRE_DELAY, @),
                                                !.lastCommand = "READ"]
        \/ SamePower(m, AfterCommand(c, r, b, m))
    BY <1>2 DEF AfterCommand, AfterRead, BankStates
  <2> HIDE DEF n
  <2> QED BY <2>1, <2>2 DEF BankStates
<1>3. CASE c.busPacketType \in {"WRITE", "WRITE_P"}
  <2> DEFINE n == AfterWriteElsewhere(c, r, m)
  <2>1. SamePower(m, n) /\ n \in BankStates
    BY <1>1, ElsewhereRaises DEF OnlyRaised
  <2>2. \/ AfterCommand(c, r, b, m) = n
        \/ AfterCommand(c, r, b, m) = [n EXCEPT !.nextPrecharge = Later(WRITE_TO_PRE_DELAY, @),
                                                !.lastCommand = "WRITE"]
        \/ SamePower(m, AfterCommand(c, r, b, m))
    BY <1>3 DEF AfterCommand, AfterWrite, BankStates
  <2> HIDE DEF n
  <2> QED BY <2>1, <2>2 DEF BankStates
<1>4. CASE c.busPacketType = "ACTIVATE"
  BY <1>4 DEF AfterCommand, AfterActivate, Permits, BankStates
<1>5. CASE c.busPacketType = "PRECHARGE"
  BY <1>5 DEF AfterCommand, AfterPrecharge, Permits, BankStates
<1>6. CASE c.busPacketType = "REFRESH"
  BY <1>6 DEF AfterCommand, AfterRefresh, Permits, BankStates
<1> QED BY <1>2, <1>3, <1>4, <1>5, <1>6

\* ... nor on the rank's side, when the rank accepts it.
LEMMA RankPower ==
  ASSUME NEW c \in Commands, NEW banks \in [BANKS -> BankStates], RankAccepts(c, banks),
         NEW b \in BANKS
  PROVE  SamePower(banks[b], RankAfter(c, b, banks[b]))
<1> DEFINE k == banks[b]
<1> USE CommandFacts DEF SamePower
<1>1. k \in BankStates
  OBVIOUS
<1>2. b = c.bank /\ c.busPacketType # "REFRESH" => k.currentBankState \in {"Idle", "RowActive"}
  BY DEF RankAccepts, ColumnAllowed
<1> SUFFICES SamePower(k, RankAfter(c, b, k))
  OBVIOUS
<1> HIDE DEF k
<1>3. CASE c.busPacketType \in {"READ", "READ_P"}
  BY <1>1, <1>2, <1>3 DEF RankAfter, RankAfterRead, BankStates
<1>4. CASE c.busPacketType \in {"WRITE", "WRITE_P"}
  BY <1>1, <1>2, <1>4 DEF RankAfter, RankAfterWrite, BankStates
<1>5. CASE c.busPacketType \in {"ACTIVATE", "PRECHARGE", "REFRESH"}
  BY <1>1, <1>2, <1>5
  DEF RankAfter, RankAfterActivate, RankAfterPrecharge, RankAfterRefresh, BankStates
<1> QED BY <1>3, <1>4, <1>5

\* The bank a command is for is neither idle nor powered down once it is sent.
LEMMA TargetIsBusy ==
  ASSUME NEW c \in Commands, NEW m \in BankStates, Permits(c, c.rank, c.bank, m)
  PROVE  AfterCommand(c, c.rank, c.bank, m).currentBankState \notin {"Idle", "PowerDown"}
<1> USE CommandFacts
<1>1. CASE c.busPacketType \in {"READ", "READ_P", "WRITE", "WRITE_P"}
  <2>1. m.currentBankState = "RowActive"
    BY <1>1 DEF Permits
  <2>2. /\ AfterReadElsewhere(c, c.rank, m).currentBankState = "RowActive"
        /\ AfterReadElsewhere(c, c.rank, m) \in BankStates
        /\ AfterWriteElsewhere(c, c.rank, m).currentBankState = "RowActive"
        /\ AfterWriteElsewhere(c, c.rank, m) \in BankStates
    BY <2>1, ElsewhereRaises DEF OnlyRaised
  <2> QED BY <1>1, <2>1, <2>2 DEF AfterCommand, AfterRead, AfterWrite, BankStates
<1>2. CASE c.busPacketType = "ACTIVATE"
  BY <1>2 DEF AfterCommand, AfterActivate, BankStates
<1>3. CASE c.busPacketType = "PRECHARGE"
  BY <1>3 DEF AfterCommand, AfterPrecharge, BankStates
<1>4. CASE c.busPacketType = "REFRESH"
  BY <1>4 DEF AfterCommand, AfterRefresh, BankStates
<1> QED BY <1>1, <1>2, <1>3, <1>4

-----------------------------------------------------------------------------
(* The inductive invariant. *)

\* A controller's bank allows, for the command c, what Issuable(c) says.
LEMMA IssuablePermits ==
  ASSUME IInv, NEW c \in Commands, Issuable(c), NEW r \in RANKS, NEW b \in BANKS
  PROVE  Permits(c, r, b, bankStates[r][b])
<1>1. CASE c.busPacketType = "REFRESH"
  <2>1. 0 \in BANKS /\ c.rank \in RANKS
    BY <1>1, CommandFacts, GeometryAssumption DEF BANKS
  <2>2. /\ RefreshIssuable(c.rank)
        /\ \A a \in BANKS : (bankStates[c.rank][a].currentBankState = "PowerDown")
                              <=> powerDown[c.rank]
    BY <1>1, <2>1 DEF Issuable, IInv, PowerAgrees
  <2> QED BY <1>1, <2>1, <2>2 DEF RefreshIssuable, Permits
<1>2. CASE c.busPacketType # "REFRESH"
  BY <1>2 DEF Issuable, Permits
<1> QED BY <1>1, <1>2

\* Both sides start with all banks precharged and an empty command bus.
LEMMA InitIInv == ProtocolInit => IInv
<1> SUFFICES ASSUME ProtocolInit PROVE IInv
  OBVIOUS
<1> USE DEF ProtocolInit
<1>1. InitBank \in BankStates
  BY GeometryAssumption DEF InitBank, BankStates, CurrentBankState, CommandTypes, ColumnTypes, ROWS
<1>2. ProtocolTypeOK
  BY <1>1, CommandBusAssumption DEF ProtocolTypeOK, Errors
<1>3. BankConsistent(InitBank, 1) /\ Follows(InitBank, InitBank)
  BY DEF BankConsistent, Follows, Closed, InitBank
<1>4. \A r \in RANKS, b \in BANKS :
        BankConsistent(bankStates[r][b], IF phase = "begin" THEN 1 ELSE 0)
  BY <1>3
<1>5. PowerAgrees
  BY GeometryAssumption DEF PowerAgrees, InitBank, BANKS
<1>6. BusConsistent
  BY DEF BusConsistent
<1>7. BanksFollow
  BY <1>3 DEF BanksFollow, Arrives, Received
<1> QED BY <1>2, <1>4, <1>5, <1>6, <1>7 DEF IInv

\* Deliver: the countdown on the controller's side, the reception on the rank's.
LEMMA DeliverIInv == IInv /\ Deliver => IInv'
<1> SUFFICES ASSUME IInv, Deliver PROVE IInv'
  OBVIOUS
<1>1. /\ phase = "begin" /\ phase' = "issue"
      /\ outgoingCmdPacket \in Commands \cup {NoPacket}
      /\ bankStates \in [RANKS -> [BANKS -> BankStates]]
      /\ rankBanks \in [RANKS -> [BANKS -> BankStates]]
  BY DEF IInv, Deliver, ProtocolTypeOK
<1>2. outgoingCmdPacket # NoPacket =>
        cmdCyclesLeft = 1 /\ outgoingCmdPacket \in Commands /\ outgoingCmdPacket.rank \in RANKS
  BY <1>1, CommandFacts DEF IInv, BusConsistent
<1>3. outgoingCmdPacket # NoPacket => RankAccepts(outgoingCmdPacket, rankBanks[outgoingCmdPacket.rank])
  BY <1>1 DEF IInv, BanksFollow, Arrives
<1>4. outgoingCmdPacket' = NoPacket /\ error' = "none"
  BY <1>2, <1>3 DEF Deliver
<1>5. bankStates' = [r \in RANKS |-> [b \in BANKS |-> CountDown(bankStates[r][b])]]
  BY DEF Deliver
<1>6. rankBanks' = [r \in RANKS |-> [b \in BANKS |->
                       Received(outgoingCmdPacket, r, b, rankBanks[r][b])]]
  BY <1>1, <1>2 DEF Deliver, Received
<1>7. ASSUME NEW r \in RANKS, NEW b \in BANKS
      PROVE  /\ bankStates'[r][b] \in BankStates /\ rankBanks'[r][b] \in BankStates
             /\ BankConsistent(bankStates'[r][b], 0)
             /\ Follows(bankStates'[r][b], rankBanks'[r][b])
             /\ SamePower(bankStates[r][b], bankStates'[r][b])
             /\ SamePower(rankBanks[r][b], rankBanks'[r][b])
  <2> DEFINE m == bankStates[r][b]
             k == rankBanks[r][b]
             j == Received(outgoingCmdPacket, r, b, k)
  <2>1. m \in BankStates /\ k \in BankStates /\ rankBanks[r] \in [BANKS -> BankStates]
    BY <1>1
  <2>2. BankConsistent(m, 1) /\ Follows(m, j)
    BY <1>1 DEF IInv, BanksFollow, Arrives
  <2>3. j \in BankStates /\ SamePower(k, j)
    <3>1. CASE outgoingCmdPacket # NoPacket /\ r = outgoingCmdPacket.rank
      <4>1. outgoingCmdPacket \in Commands /\ RankAccepts(outgoingCmdPacket, rankBanks[r])
        BY <3>1, <1>2, <1>3
      <4>2. SamePower(k, RankAfter(outgoingCmdPacket, b, k))
        BY <4>1, <2>1, RankPower
      <4>3. RankAfter(outgoingCmdPacket, b, k) \in BankStates
        BY <4>1, <2>1, RankAfterType
      <4> QED BY <3>1, <4>2, <4>3 DEF Received
    <3>2. CASE ~(outgoingCmdPacket # NoPacket /\ r = outgoingCmdPacket.rank)
      BY <2>1, <3>2 DEF Received, SamePower
    <3> QED BY <3>1, <3>2
  <2>4. bankStates'[r][b] = CountDown(m) /\ rankBanks'[r][b] = j
    BY <1>5, <1>6
  <2> HIDE DEF m, k, j
  <2>5. /\ CountDown(m) \in BankStates /\ BankConsistent(CountDown(m), 0)
        /\ Follows(CountDown(m), j) /\ SamePower(m, CountDown(m))
    BY <2>1, <2>2, <2>3, CountDownType, CountDownConsistent, CountDownFollows, CountDownPower
  <2>6. /\ bankStates'[r][b] \in BankStates /\ rankBanks'[r][b] \in BankStates
        /\ BankConsistent(bankStates'[r][b], 0)
        /\ Follows(bankStates'[r][b], rankBanks'[r][b])
        /\ SamePower(m, bankStates'[r][b]) /\ SamePower(k, rankBanks'[r][b])
    BY <2>3, <2>4, <2>5
  <2> QED BY <2>6 DEF m, k
<1>8. ProtocolTypeOK'
  <2>1. bankStates' \in [RANKS -> [BANKS -> BankStates]]
    <3>1. \A r \in RANKS, b \in BANKS : CountDown(bankStates[r][b]) \in BankStates
      BY <1>5, <1>7
    <3> QED BY <1>5, <3>1
  <2>2. rankBanks' \in [RANKS -> [BANKS -> BankStates]]
    <3>1. \A r \in RANKS, b \in BANKS :
            Received(outgoingCmdPacket, r, b, rankBanks[r][b]) \in BankStates
      BY <1>6, <1>7
    <3> QED BY <1>6, <3>1
  <2>3. cmdCyclesLeft' \in 0 .. tCMD
    <3>1. cmdCyclesLeft \in 0 .. 1 /\ tCMD = 1
      BY CommandBusAssumption DEF IInv, ProtocolTypeOK
    <3>2. cmdCyclesLeft' = IF outgoingCmdPacket = NoPacket THEN cmdCyclesLeft ELSE cmdCyclesLeft - 1
      BY DEF Deliver
    <3>3. cmdCyclesLeft' \in {cmdCyclesLeft, 0}
      BY <3>1, <3>2, <1>2
    <3> QED BY <3>1, <3>3
  <2> QED BY <1>1, <1>4, <2>1, <2>2, <2>3 DEF ProtocolTypeOK, IInv, Deliver, Errors
<1>9. \A r \in RANKS, b \in BANKS :
        BankConsistent(bankStates'[r][b], IF phase' = "begin" THEN 1 ELSE 0)
  BY <1>1, <1>7
<1>10. PowerAgrees'
  <2>1. 0 \in BANKS
    BY GeometryAssumption DEF BANKS
  <2>2. \A r \in RANKS, b \in BANKS :
          /\ SamePower(bankStates[r][b], bankStates'[r][b])
          /\ SamePower(bankStates[r][0], bankStates'[r][0])
          /\ SamePower(rankBanks[r][b], rankBanks'[r][b])
    BY <1>7, <2>1
  <2>3. PowerAgrees /\ powerDown' = powerDown /\ isPowerDown' = isPowerDown
    BY DEF IInv, Deliver
  <2> QED BY <2>2, <2>3 DEF PowerAgrees, SamePower
<1>11. BusConsistent'
  BY <1>4, <1>1 DEF BusConsistent
<1>12. BanksFollow'
  BY <1>1, <1>7 DEF BanksFollow
<1> QED BY <1>4, <1>8, <1>9, <1>10, <1>11, <1>12 DEF IInv

\* Issue: the command is accepted by its rank in the next cycle, after which the
\* rank's banks follow again.
LEMMA IssueIInv ==
  ASSUME NEW c \in Commands, IInv, Issue(c)
  PROVE  IInv'
<1>1. /\ phase = "issue" /\ phase' = "end" /\ Issuable(c)
      /\ bankStates \in [RANKS -> [BANKS -> BankStates]]
      /\ rankBanks \in [RANKS -> [BANKS -> BankStates]] /\ rankBanks' = rankBanks
      /\ powerDown' = powerDown /\ isPowerDown' = isPowerDown
  BY DEF IInv, Issue, ProtocolTypeOK
<1>2. outgoingCmdPacket' = c /\ cmdCyclesLeft' = 1 /\ error' = "none"
  BY <1>1, CommandBusAssumption DEF Issue, IInv, BusConsistent
<1>3. bankStates' = [r \in RANKS |-> [b \in BANKS |-> AfterCommand(c, r, b, bankStates[r][b])]]
  BY DEF Issue
<1>4. c.rank \in RANKS /\ c.bank \in BANKS /\ c # NoPacket
  BY CommandFacts
<1>5. ASSUME NEW r \in RANKS, NEW b \in BANKS
      PROVE  /\ BankConsistent(bankStates[r][b], 0)
             /\ Permits(c, r, b, bankStates[r][b])
             /\ Follows(bankStates[r][b], rankBanks[r][b])
  <2>1. BankConsistent(bankStates[r][b], 0) /\ Follows(bankStates[r][b], rankBanks[r][b])
    BY <1>1 DEF IInv, BanksFollow
  <2>2. Permits(c, r, b, bankStates[r][b])
    BY <1>1, IssuablePermits
  <2> QED BY <2>1, <2>2
<1>6. ASSUME NEW r \in RANKS, NEW b \in BANKS
      PROVE  /\ bankStates'[r][b] \in BankStates
             /\ BankConsistent(bankStates'[r][b], 0)
             /\ SamePower(bankStates[r][b], bankStates'[r][b])
             /\ Follows(Step(bankStates'[r][b]), Received(c, r, b, Step(rankBanks[r][b])))
  <2> DEFINE m == bankStates[r][b]
             k == rankBanks[r][b]
             n == AfterCommand(c, r, b, m)
  <2>1. m \in BankStates /\ k \in BankStates
    BY <1>1
  <2>2. BankConsistent(m, 0) /\ Permits(c, r, b, m) /\ Follows(m, k)
    BY <1>5
  <2>3. bankStates'[r][b] = n
    BY <1>3
  <2> HIDE DEF m, k
  <2>4. n \in BankStates /\ BankConsistent(n, 0) /\ SamePower(m, n)
    BY <2>1, <2>2, AfterCommandType, CommandConsistent, CommandPower
  <2>5. Follows(Step(n), Received(c, r, b, Step(k)))
    <3>1. CASE r = c.rank
      <4>1. Follows(Step(AfterCommand(c, c.rank, b, m)), RankAfter(c, b, Step(k)))
        BY <2>1, <2>2, <3>1, CommandFollows
      <4> QED BY <4>1, <3>1, <1>4 DEF Received
    <3>2. CASE r # c.rank
      BY <2>1, <2>2, <3>2, OtherRankFollows DEF Received
    <3> QED BY <3>1, <3>2
  <2> HIDE DEF n
  <2>6. /\ bankStates'[r][b] \in BankStates /\ BankConsistent(bankStates'[r][b], 0)
        /\ SamePower(m, bankStates'[r][b])
        /\ Follows(Step(bankStates'[r][b]), Received(c, r, b, Step(k)))
    BY <2>3, <2>4, <2>5
  <2> QED BY <2>6 DEF m, k
<1>7. RankAccepts(c, [b \in BANKS |-> Step(rankBanks[c.rank][b])])
  <2>1. bankStates[c.rank] \in [BANKS -> BankStates] /\ rankBanks[c.rank] \in [BANKS -> BankStates]
    BY <1>1, <1>4
  <2> QED BY <2>1, <1>4, <1>5, PermittedIsAccepted
<1>8. bankStates'[c.rank][c.bank].currentBankState \notin {"Idle", "PowerDown"}
  <2>1. bankStates[c.rank][c.bank] \in BankStates /\ Permits(c, c.rank, c.bank, bankStates[c.rank][c.bank])
    BY <1>1, <1>4, <1>5
  <2>2. AfterCommand(c, c.rank, c.bank, bankStates[c.rank][c.bank]).currentBankState
          \notin {"Idle", "PowerDown"}
    BY <2>1, TargetIsBusy
  <2> QED BY <1>3, <1>4, <2>2
<1>9. ProtocolTypeOK'
  <2>1. bankStates' \in [RANKS -> [BANKS -> BankStates]]
    <3>1. \A r \in RANKS, b \in BANKS : AfterCommand(c, r, b, bankStates[r][b]) \in BankStates
      BY <1>3, <1>6
    <3> QED BY <1>3, <3>1
  <2>2. 1 \in 0 .. tCMD
    BY CommandBusAssumption
  <2> QED BY <1>1, <1>2, <2>1, <2>2 DEF ProtocolTypeOK, IInv, Errors
<1>10. \A r \in RANKS, b \in BANKS :
         BankConsistent(bankStates'[r][b], IF phase' = "begin" THEN 1 ELSE 0)
  BY <1>1, <1>6
<1>11. PowerAgrees'
  <2>1. 0 \in BANKS
    BY GeometryAssumption DEF BANKS
  <2>2. \A r \in RANKS, b \in BANKS :
          /\ SamePower(bankStates[r][b], bankStates'[r][b])
          /\ SamePower(bankStates[r][0], bankStates'[r][0])
    BY <1>6, <2>1
  <2> QED BY <1>1, <2>2 DEF PowerAgrees, SamePower, IInv
<1>12. BusConsistent'
  BY <1>1, <1>2, <1>8 DEF BusConsistent
<1>13. BanksFollow'
  <2>1. ASSUME NEW r \in RANKS, NEW b \in BANKS
        PROVE  /\ Stepped(bankStates')[r][b] = Step(bankStates'[r][b])
               /\ Stepped(rankBanks)[r][b] = Step(rankBanks[r][b])
    BY DEF Stepped
  <2>2. Stepped(rankBanks)[c.rank] = [b \in BANKS |-> Step(rankBanks[c.rank][b])]
    BY <1>4 DEF Stepped
  <2>3. Arrives(c, Stepped(bankStates'), Stepped(rankBanks))
    BY <1>6, <1>7, <2>1, <2>2 DEF Arrives
  <2>4. Stepped(bankStates)' = Stepped(bankStates') /\ Stepped(rankBanks)' = Stepped(rankBanks)
    BY <1>1 DEF Stepped
  <2> QED BY <1>1, <1>2, <2>3, <2>4 DEF BanksFollow
<1> QED BY <1>2, <1>9, <1>10, <1>11, <1>12, <1>13 DEF IInv

\* A cycle without a command: the command bus is empty and both sides step.
LEMMA IssueNothingIInv == IInv /\ IssueNothing => IInv'
<1> SUFFICES ASSUME IInv, IssueNothing PROVE IInv'
  OBVIOUS
<1>1. /\ phase = "issue" /\ phase' = "end" /\ outgoingCmdPacket = NoPacket
      /\ UNCHANGED <<bankStates, powerDown, outgoingCmdPacket, cmdCyclesLeft,
                     rankBanks, isPowerDown, error>>
      /\ bankStates \in [RANKS -> [BANKS -> BankStates]]
      /\ rankBanks \in [RANKS -> [BANKS -> BankStates]]
  BY DEF IInv, IssueNothing, ProtocolTypeOK, BusConsistent
<1>2. ASSUME NEW r \in RANKS, NEW b \in BANKS
      PROVE  Follows(Step(bankStates[r][b]), Step(rankBanks[r][b]))
  <2>1. bankStates[r][b] \in BankStates /\ rankBanks[r][b] \in BankStates
    BY <1>1
  <2>2. Follows(bankStates[r][b], rankBanks[r][b])
    BY <1>1 DEF IInv, BanksFollow
  <2> QED BY <2>1, <2>2, StepFollows
<1>3. BanksFollow'
  <2>1. Arrives(NoPacket, Stepped(bankStates), Stepped(rankBanks))
    BY <1>2 DEF Arrives, Stepped, Received
  <2>2. Stepped(bankStates)' = Stepped(bankStates) /\ Stepped(rankBanks)' = Stepped(rankBanks)
    BY <1>1 DEF Stepped
  <2> QED BY <1>1, <2>1, <2>2 DEF BanksFollow
<1>4. ProtocolTypeOK' /\ PowerAgrees'
  BY <1>1 DEF ProtocolTypeOK, PowerAgrees, IInv
<1>5. BusConsistent'
  BY <1>1 DEF BusConsistent
<1>6. \A r \in RANKS, b \in BANKS :
        BankConsistent(bankStates'[r][b], IF phase' = "begin" THEN 1 ELSE 0)
  BY <1>1 DEF IInv
<1> QED BY <1>1, <1>3, <1>4, <1>5, <1>6 DEF IInv

\* A bank that is powered down or up, on both sides, before the clock steps.
Repowered(down, up, r, m) ==
  IF r \in down THEN PoweredDown(m) ELSE IF r \in up THEN PoweredUp(m) ELSE m

\* A power change of a closed bank leaves it consistent and followed.
LEMMA PowerFollows ==
  ASSUME NEW m \in BankStates, NEW k \in BankStates, BankConsistent(m, 0),
         Follows(Step(m), Step(k)), m.currentBankState \in {"Idle", "PowerDown"}
  PROVE  /\ BankConsistent(PoweredDown(m), 0) /\ BankConsistent(PoweredUp(m), 0)
         /\ Follows(Step(PoweredDown(m)), Step(PoweredDown(k)))
         /\ Follows(Step(PoweredUp(m)), Step(PoweredUp(k)))
<1>1. BankConsistent(PoweredDown(m), 0) /\ BankConsistent(PoweredUp(m), 0)
  BY DEF BankConsistent, PoweredDown, PoweredUp, BankStates
<1>2. Step(k).nextActivate <= Step(m).nextActivate + 1
  BY DEF Follows
<1>3. Follows(Step(PoweredDown(m)), Step(PoweredDown(k)))
  BY <1>2 DEF Follows, Closed, Step, PoweredDown, BankStates
<1>4. Follows(Step(PoweredUp(m)), Step(PoweredUp(k)))
  <2> DEFINE n == Step(PoweredUp(m))
             j == Step(PoweredUp(k))
  <2>1. /\ n.currentBankState = "Idle" /\ j.currentBankState = "Idle"
        /\ n.nextActivate = j.nextActivate
    BY DEF Step, PoweredUp, BankStates
  <2>2. n.nextActivate \in Nat
    BY PoweredType, StepType DEF BankStates
  <2> HIDE DEF n, j
  <2>3. Follows(n, j)
    BY <2>1, <2>2 DEF Follows
  <2> QED BY <2>3 DEF n, j
<1> QED BY <1>1, <1>3, <1>4

\* A bank that is stepped after a power change.
LEMMA PowerOf ==
  ASSUME NEW m \in BankStates
  PROVE  /\ Step(m).nextPowerUp = Sooner(m.nextPowerUp)
         /\ Step(m).currentBankState = m.currentBankState
         /\ Step(PoweredDown(m)).nextPowerUp = Sooner(tCKE)
         /\ Step(PoweredDown(m)).currentBankState = "PowerDown"
         /\ Step(PoweredUp(m)).nextPowerUp = Sooner(m.nextPowerUp)
         /\ Step(PoweredUp(m)).currentBankState = "Idle"
BY DEF Step, PoweredDown, PoweredUp, BankStates

\* PowerAndStep: no command is on its way to a rank whose power state changes, so
\* the rank agrees to the change, and both sides step.
LEMMA PowerAndStepIInv ==
  ASSUME NEW down \in SUBSET RANKS, NEW up \in SUBSET (RANKS \ down), IInv,
         PowerAndStep(down, up)
  PROVE  IInv'
<1>0. 0 \in BANKS
  BY GeometryAssumption DEF BANKS
<1>1. /\ phase = "end" /\ phase' = "begin"
      /\ bankStates \in [RANKS -> [BANKS -> BankStates]]
      /\ rankBanks \in [RANKS -> [BANKS -> BankStates]]
      /\ outgoingCmdPacket \in Commands \cup {NoPacket}
      /\ outgoingCmdPacket' = outgoingCmdPacket /\ cmdCyclesLeft' = cmdCyclesLeft
      /\ \A r \in down : \A b \in BANKS : bankStates[r][b].currentBankState = "Idle"
      /\ \A r \in up : powerDown[r] /\ bankStates[r][0].nextPowerUp = 0
  BY DEF IInv, PowerAndStep, ProtocolTypeOK
<1>2. /\ bankStates' = [r \in RANKS |-> [b \in BANKS |->
                          Step(Repowered(down, up, r, bankStates[r][b]))]]
      /\ rankBanks' = [r \in RANKS |-> [b \in BANKS |->
                          Step(Repowered(down, up, r, rankBanks[r][b]))]]
  BY DEF PowerAndStep, Repowered
<1>3. \A r \in RANKS, b \in BANKS :
        /\ bankStates[r][b] \in BankStates /\ rankBanks[r][b] \in BankStates
        /\ BankConsistent(bankStates[r][b], 0)
        /\ Follows(Step(bankStates[r][b]),
                   Received(outgoingCmdPacket, r, b, Step(rankBanks[r][b])))
  BY <1>1 DEF IInv, BanksFollow, Arrives, Stepped
<1>4. outgoingCmdPacket # NoPacket =>
        /\ outgoingCmdPacket \in Commands
        /\ outgoingCmdPacket.rank \in RANKS /\ outgoingCmdPacket.bank \in BANKS
        /\ bankStates[outgoingCmdPacket.rank][outgoingCmdPacket.bank].currentBankState
             \notin {"Idle", "PowerDown"}
  BY <1>1, CommandFacts DEF IInv, BusConsistent
<1>5. \A r \in RANKS, b \in BANKS :
        /\ powerDown[r] = isPowerDown[r]
        /\ (bankStates[r][b].currentBankState = "PowerDown") <=> powerDown[r]
        /\ (rankBanks[r][b].currentBankState = "PowerDown") <=> powerDown[r]
        /\ rankBanks[r][b].nextPowerUp = bankStates[r][0].nextPowerUp
  BY DEF IInv, PowerAgrees
<1>6. \A r \in down \cup up, b \in BANKS : bankStates[r][b].currentBankState \in {"Idle", "PowerDown"}
  BY <1>1, <1>5
<1>7. outgoingCmdPacket # NoPacket => outgoingCmdPacket.rank \notin down \cup up
  BY <1>4, <1>6
<1>8. \A r \in down \cup up, b \in BANKS : Follows(Step(bankStates[r][b]), Step(rankBanks[r][b]))
  BY <1>3, <1>7 DEF Received
<1>9. error' = "none"
  <2>1. ASSUME NEW r \in down PROVE MayPowerDown(rankBanks[r])
    <3>1. ASSUME NEW b \in BANKS PROVE rankBanks[r][b].currentBankState = "Idle"
      <4> DEFINE m == bankStates[r][b]
                 k == rankBanks[r][b]
      <4>1. /\ m \in BankStates /\ k \in BankStates /\ Follows(Step(m), Step(k))
            /\ m.currentBankState = "Idle"
        BY <1>1, <1>3, <1>8
      <4> HIDE DEF m, k
      <4>2. Step(k).currentBankState = "Idle"
        BY <4>1, PowerOf DEF Follows, Closed
      <4>3. k.currentBankState = "Idle"
        BY <4>1, <4>2, PowerOf
      <4> QED BY <4>3 DEF k
    <3> QED BY <3>1 DEF MayPowerDown
  <2>2. ASSUME NEW r \in up PROVE MayPowerUp(isPowerDown[r], rankBanks[r])
    BY <1>0, <1>1, <1>5 DEF MayPowerUp
  <2> QED BY <2>1, <2>2 DEF PowerAndStep
<1>10. ASSUME NEW r \in RANKS, NEW b \in BANKS
       PROVE  /\ bankStates'[r][b] \in BankStates /\ rankBanks'[r][b] \in BankStates
              /\ BankConsistent(bankStates'[r][b], 1)
              /\ Follows(bankStates'[r][b],
                         Received(outgoingCmdPacket, r, b, rankBanks'[r][b]))
  <2> DEFINE m == bankStates[r][b]
             k == rankBanks[r][b]
             n == Repowered(down, up, r, m)
             j == Repowered(down, up, r, k)
  <2>1. /\ m \in BankStates /\ k \in BankStates /\ BankConsistent(m, 0)
        /\ r \notin down \cup up => Follows(Step(m), Received(outgoingCmdPacket, r, b, Step(k)))
        /\ r \in down \cup up => /\ Follows(Step(m), Step(k))
                                 /\ m.currentBankState \in {"Idle", "PowerDown"}
    BY <1>3, <1>6, <1>8
  <2>2. bankStates'[r][b] = Step(n) /\ rankBanks'[r][b] = Step(j)
    BY <1>2
  <2> HIDE DEF m, k
  <2>3. n \in BankStates /\ j \in BankStates
    BY <2>1, PoweredType DEF Repowered
  <2>4. BankConsistent(n, 0)
    BY <2>1, PowerFollows DEF Repowered
  <2>5. Follows(Step(n), Received(outgoingCmdPacket, r, b, Step(j)))
    <3>1. CASE r \in down \cup up
      <4>1. Follows(Step(n), Step(j))
        BY <3>1, <2>1, PowerFollows DEF Repowered
      <4> QED BY <4>1, <3>1, <1>7 DEF Received
    <3>2. CASE r \notin down \cup up
      <4>1. n = m /\ j = k
        BY <3>2 DEF Repowered
      <4> QED BY <4>1, <3>2, <2>1
    <3> QED BY <3>1, <3>2
  <2> HIDE DEF n, j
  <2>6. Step(n) \in BankStates /\ Step(j) \in BankStates /\ BankConsistent(Step(n), 1)
    BY <2>3, <2>4, StepType, StepConsistent
  <2> QED BY <2>2, <2>5, <2>6
<1>11. ProtocolTypeOK'
  <2>1. bankStates' \in [RANKS -> [BANKS -> BankStates]]
    <3>1. \A r \in RANKS, b \in BANKS : Step(Repowered(down, up, r, bankStates[r][b])) \in BankStates
      BY <1>2, <1>10
    <3> QED BY <1>2, <3>1
  <2>2. rankBanks' \in [RANKS -> [BANKS -> BankStates]]
    <3>1. \A r \in RANKS, b \in BANKS : Step(Repowered(down, up, r, rankBanks[r][b])) \in BankStates
      BY <1>2, <1>10
    <3> QED BY <1>2, <3>1
  <2>3. /\ powerDown' = [r \in RANKS |-> r \in down \/ (powerDown[r] /\ r \notin up)]
        /\ isPowerDown' = [r \in RANKS |-> r \in down \/ (isPowerDown[r] /\ r \notin up)]
    BY DEF PowerAndStep
  <2>4. powerDown' \in [RANKS -> BOOLEAN] /\ isPowerDown' \in [RANKS -> BOOLEAN]
    BY <2>3
  <2>5. cmdCyclesLeft' \in 0 .. tCMD
    BY <1>1 DEF IInv, ProtocolTypeOK
  <2> QED BY <1>1, <1>9, <2>1, <2>2, <2>4, <2>5 DEF ProtocolTypeOK, Errors
<1>12. PowerAgrees'
  <2>1. ASSUME NEW r \in RANKS, NEW b \in BANKS
        PROVE  /\ powerDown'[r] = isPowerDown'[r]
               /\ (bankStates'[r][b].currentBankState = "PowerDown") <=> powerDown'[r]
               /\ (rankBanks'[r][b].currentBankState = "PowerDown") <=> powerDown'[r]
               /\ rankBanks'[r][b].nextPowerUp = bankStates'[r][0].nextPowerUp
    <3>1. /\ powerDown'[r] = (r \in down \/ (powerDown[r] /\ r \notin up))
          /\ isPowerDown'[r] = (r \in down \/ (isPowerDown[r] /\ r \notin up))
      BY DEF PowerAndStep
    <3>2. /\ bankStates[r][b] \in BankStates /\ rankBanks[r][b] \in BankStates
          /\ bankStates[r][0] \in BankStates
      BY <1>0, <1>3
    <3>3. /\ bankStates'[r][b] = Step(Repowered(down, up, r, bankStates[r][b]))
          /\ rankBanks'[r][b] = Step(Repowered(down, up, r, rankBanks[r][b]))
          /\ bankStates'[r][0] = Step(Repowered(down, up, r, bankStates[r][0]))
      BY <1>0, <1>2
    <3> DEFINE m == bankStates[r][b]
               k == rankBanks[r][b]
               z == bankStates[r][0]
    <3>4. /\ powerDown[r] = isPowerDown[r] /\ k.nextPowerUp = z.nextPowerUp
          /\ (m.currentBankState = "PowerDown") <=> powerDown[r]
          /\ (k.currentBankState = "PowerDown") <=> powerDown[r]
      BY <1>5
    <3> HIDE DEF m, k, z
    <3>5. CASE r \in down
      <4>1. /\ bankStates'[r][b] = Step(PoweredDown(m)) /\ rankBanks'[r][b] = Step(PoweredDown(k))
            /\ bankStates'[r][0] = Step(PoweredDown(z))
        BY <3>3, <3>5 DEF Repowered, m, k, z
      <4>2. powerDown'[r] /\ isPowerDown'[r] /\ powerDown'[r] = isPowerDown'[r]
        BY <3>1, <3>5
      <4>3. m \in BankStates /\ k \in BankStates /\ z \in BankStates
        BY <3>2 DEF m, k, z
      <4> QED BY <4>1, <4>2, <4>3, PowerOf
    <3>6. CASE r \in up
      <4>1. /\ bankStates'[r][b] = Step(PoweredUp(m)) /\ rankBanks'[r][b] = Step(PoweredUp(k))
            /\ bankStates'[r][0] = Step(PoweredUp(z))
        BY <3>3, <3>6 DEF Repowered, m, k, z
      <4>2. ~powerDown'[r] /\ ~isPowerDown'[r] /\ powerDown'[r] = isPowerDown'[r]
        BY <3>1, <3>6
      <4>3. m \in BankStates /\ k \in BankStates /\ z \in BankStates
        BY <3>2 DEF m, k, z
      <4> QED BY <4>1, <4>2, <4>3, <3>4, PowerOf
    <3>7. CASE r \notin down /\ r \notin up
      <4>1. /\ bankStates'[r][b] = Step(m) /\ rankBanks'[r][b] = Step(k)
            /\ bankStates'[r][0] = Step(z)
        BY <3>3, <3>7 DEF Repowered, m, k, z
      <4>2. (powerDown'[r] <=> powerDown[r]) /\ powerDown'[r] = isPowerDown'[r]
        BY <3>1, <3>4, <3>7
      <4>3. m \in BankStates /\ k \in BankStates /\ z \in BankStates
        BY <3>2 DEF m, k, z
      <4> QED BY <4>1, <4>2, <4>3, <3>4, PowerOf
    <3> QED BY <3>5, <3>6, <3>7
  <2>2. \A r \in RANKS : powerDown'[r] = isPowerDown'[r]
    BY <2>1, <1>0
  <2> QED BY <2>1, <2>2 DEF PowerAgrees
<1>13. BusConsistent'
  BY <1>1 DEF IInv, BusConsistent
<1>14. BanksFollow'
  <2>1. outgoingCmdPacket # NoPacket => RankAccepts(outgoingCmdPacket, rankBanks'[outgoingCmdPacket.rank])
    <3>1. SUFFICES ASSUME outgoingCmdPacket # NoPacket
                   PROVE  RankAccepts(outgoingCmdPacket, rankBanks'[outgoingCmdPacket.rank])
      OBVIOUS
    <3>2. RankAccepts(outgoingCmdPacket, Stepped(rankBanks)[outgoingCmdPacket.rank])
      BY <1>1, <3>1 DEF IInv, BanksFollow, Arrives
    <3>3. rankBanks'[outgoingCmdPacket.rank] = Stepped(rankBanks)[outgoingCmdPacket.rank]
      BY <1>2, <1>4, <1>7, <3>1 DEF Stepped, Repowered
    <3> QED BY <3>2, <3>3
  <2>2. Arrives(outgoingCmdPacket, bankStates', rankBanks')
    BY <1>10, <2>1 DEF Arrives
  <2> QED BY <1>1, <2>2 DEF BanksFollow
<1> QED BY <1>1, <1>9, <1>10, <1>11, <1>12, <1>13, <1>14 DEF IInv

-----------------------------------------------------------------------------
(* The theorems. *)

\* IInv holds in every state: of the controller's bank states, the command bus and
\* the ranks' bank states together.
THEOREM ProtocolInvariance == ProtocolSpec => []IInv
<1>1. IInv /\ [ProtocolNext]_protocolVars => IInv'
  <2> SUFFICES ASSUME IInv, [ProtocolNext]_protocolVars PROVE IInv'
    OBVIOUS
  <2>1. CASE Deliver
    BY <2>1, DeliverIInv
  <2>2. ASSUME NEW c \in Commands, Issue(c) PROVE IInv'
    BY <2>2, IssueIInv
  <2>3. CASE IssueNothing
    BY <2>3, IssueNothingIInv
  <2>4. ASSUME NEW down \in SUBSET RANKS, NEW up \in SUBSET (RANKS \ down),
               PowerAndStep(down, up)
        PROVE  IInv'
    BY <2>4, PowerAndStepIInv
  <2>5. CASE UNCHANGED protocolVars
    BY <2>5 DEF protocolVars, IInv, ProtocolTypeOK, PowerAgrees, BusConsistent,
                BanksFollow, Stepped
  <2> QED BY <2>1, <2>2, <2>3, <2>4, <2>5 DEF ProtocolNext
<1> QED BY InitIInv, <1>1, PTL DEF ProtocolSpec

\* Type correctness of both views of the banks, the command bus and the power flags.
THEOREM ProtocolTypeCorrect == ProtocolSpec => []ProtocolTypeOK
<1>1. IInv => ProtocolTypeOK
  BY DEF IInv
<1> QED BY <1>1, ProtocolInvariance, PTL

\* No rank ever receives a command or a power change that its own bank states
\* forbid, and no two commands meet on the command bus: the exits of
\* Rank::receiveFromBus, powerDown and powerUp and the "Command Bus Collision" exit
\* are unreachable, whatever the command queue pops.
THEOREM RanksNeverReject == ProtocolSpec => []RankNeverRejects
<1>1. IInv => RankNeverRejects
  BY DEF IInv, RankNeverRejects
<1> QED BY <1>1, ProtocolInvariance, PTL

\* The controller's powerDown flag, its bank states, the rank's isPowerDown flag and
\* the rank's bank states always show the same power state.
THEOREM PowerViewsAlwaysAgree == ProtocolSpec => []PowerViewsAgree
<1>1. IInv => PowerViewsAgree
  BY DEF IInv, PowerAgrees, PowerViewsAgree
<1> QED BY <1>1, ProtocolInvariance, PTL

-----------------------------------------------------------------------------
(* No command and no power change shortens the wait for an ACTIVATE.  A     *)
(* power-up assigns nextActivate = tXP, whatever is left of an older wait.  *)
(* So the delays must see to it that nothing longer is left: a bank of a    *)
(* powered-down rank went through all of its row's life before, and then    *)
(* slept for tCKE.                                                          *)

\* The longest wait with which a rank may go to sleep.
RestLimit == tCKE + tXP

\* The time from an ACTIVATE to the bank's being idle again covers tRC but for
\* RestLimit.  Every DDR3 file satisfies it, and the DDR2 files do with open pages.
PowerUpTiming ==
  USE_LOW_POWER =>
    /\ tRRD <= RestLimit
    /\ rowBufferPolicy = "OpenPage" => tRC <= tRAS + tRP + RestLimit
    /\ rowBufferPolicy # "OpenPage" =>
         /\ tRC <= tRCD - AL + READ_TO_PRE_DELAY + tRP + RestLimit
         /\ tRC <= tRCD - AL + WRITE_TO_PRE_DELAY + tRP + RestLimit
         /\ READ_AUTOPRE_DELAY <= READ_TO_PRE_DELAY + tRP + RestLimit

\* When the bank m could be asleep at the earliest, at most RestLimit is left of its
\* wait for an ACTIVATE.  A sleeping rank can be woken in wake cycles.
Rested(m, wake, lag) ==
  /\ m.currentBankState = "Idle" => m.nextActivate <= RestLimit
  /\ m.currentBankState = "PowerDown" => m.nextActivate <= wake + tXP
  /\ m.currentBankState \in {"Precharging", "Refreshing"} =>
       m.nextActivate + lag <= m.stateChangeCountdown + RestLimit
  /\ m.currentBankState = "RowActive" /\ m.stateChangeCountdown > 0 =>
       m.nextActivate + lag <= m.stateChangeCountdown + tRP + RestLimit
  /\ m.currentBankState = "RowActive" /\ m.stateChangeCountdown = 0 =>
       /\ rowBufferPolicy = "OpenPage" => m.nextActivate <= m.nextPrecharge + tRP + RestLimit
       /\ rowBufferPolicy # "OpenPage" =>
            /\ m.nextActivate <= m.nextRead + READ_TO_PRE_DELAY + tRP + RestLimit
            /\ m.nextActivate <= m.nextWrite + WRITE_TO_PRE_DELAY + tRP + RestLimit

RestInv ==
  \A r \in RANKS, b \in BANKS :
    Rested(bankStates[r][b], bankStates[r][0].nextPowerUp, IF phase = "begin" THEN 1 ELSE 0)

\* The clock takes a cycle off every wait, and off the time to sleep.
LEMMA StepRests ==
  ASSUME NEW m \in BankStates, NEW wake \in Nat, BankConsistent(m, 0), Rested(m, wake, 0)
  PROVE  Rested(Step(m), Sooner(wake), 1)
<1> USE DelayFacts, TimingAssumption
<1>1. /\ m.currentBankState \in CurrentBankState /\ m.stateChangeCountdown \in Nat
      /\ m.nextActivate \in Nat /\ m.nextPrecharge \in Nat
      /\ m.nextRead \in Nat /\ m.nextWrite \in Nat
  BY DEF BankStates
<1>2. /\ Step(m).currentBankState = m.currentBankState
      /\ Step(m).stateChangeCountdown = m.stateChangeCountdown
      /\ Step(m).nextActivate = Sooner(m.nextActivate)
      /\ Step(m).nextPrecharge = Sooner(m.nextPrecharge)
      /\ Step(m).nextRead = Sooner(m.nextRead) /\ Step(m).nextWrite = Sooner(m.nextWrite)
  BY DEF Step, BankStates
<1> QED
  BY <1>1, <1>2 DEF Rested, BankConsistent, Sooner, RestLimit

\* The countdown takes the same cycle off the time to the next state.
LEMMA CountDownRests ==
  ASSUME NEW m \in BankStates, NEW wake \in Nat, BankConsistent(m, 1), Rested(m, wake, 1)
  PROVE  Rested(CountDown(m), wake, 0)
<1> USE DelayFacts, TimingAssumption
<1>1. /\ m.currentBankState \in CurrentBankState /\ m.stateChangeCountdown \in Nat
      /\ m.nextActivate \in Nat /\ m.nextPrecharge \in Nat
      /\ m.nextRead \in Nat /\ m.nextWrite \in Nat
  BY DEF BankStates
<1>2. /\ CountDown(m).nextActivate = m.nextActivate
      /\ CountDown(m).nextPrecharge = m.nextPrecharge
      /\ CountDown(m).nextRead = m.nextRead /\ CountDown(m).nextWrite = m.nextWrite
  BY DEF CountDown, BankStates
<1>3. CASE m.currentBankState \in {"Idle", "PowerDown"}
  <2>1. /\ CountDown(m).currentBankState = m.currentBankState
        /\ CountDown(m).stateChangeCountdown = 0
    BY <1>3 DEF CountDown, BankStates, BankConsistent, Sooner
  <2> QED BY <1>2, <1>3, <2>1 DEF Rested
<1>4. CASE m.currentBankState \in {"Precharging", "Refreshing"}
  <2>1. CASE m.stateChangeCountdown = 1
    <3>1. CountDown(m).currentBankState = "Idle"
      BY <1>4, <2>1 DEF CountDown, BankStates, BankConsistent
    <3> QED BY <1>1, <1>2, <1>4, <2>1, <3>1 DEF Rested, RestLimit
  <2>2. CASE m.stateChangeCountdown # 1
    <3>1. /\ CountDown(m).currentBankState = m.currentBankState
          /\ CountDown(m).stateChangeCountdown = m.stateChangeCountdown - 1
      BY <1>4, <2>2 DEF CountDown, BankStates, BankConsistent, Sooner
    <3> QED BY <1>1, <1>2, <1>4, <2>2, <3>1 DEF Rested, RestLimit
  <2> QED BY <2>1, <2>2
<1>5. CASE m.currentBankState = "RowActive" /\ m.stateChangeCountdown > 0
  <2>1. CASE m.stateChangeCountdown = 1
    <3>1. /\ CountDown(m).currentBankState = "Precharging"
          /\ CountDown(m).stateChangeCountdown = tRP
      BY <1>5, <2>1 DEF CountDown, BankStates, BankConsistent
    <3> QED BY <1>1, <1>2, <1>5, <2>1, <3>1 DEF Rested, RestLimit
  <2>2. CASE m.stateChangeCountdown # 1
    <3>1. /\ CountDown(m).currentBankState = "RowActive"
          /\ CountDown(m).stateChangeCountdown = m.stateChangeCountdown - 1
          /\ m.stateChangeCountdown - 1 > 0
      BY <1>1, <1>5, <2>2 DEF CountDown, BankStates, BankConsistent, Sooner
    <3> QED BY <1>1, <1>2, <1>5, <2>2, <3>1 DEF Rested, RestLimit
  <2> QED BY <2>1, <2>2
<1>6. CASE m.currentBankState = "RowActive" /\ m.stateChangeCountdown = 0
  <2>1. /\ CountDown(m).currentBankState = "RowActive"
        /\ CountDown(m).stateChangeCountdown = 0
    BY <1>6 DEF CountDown, BankStates, Sooner
  <2> QED BY <1>1, <1>2, <1>6, <2>1 DEF Rested, RestLimit
<1> QED BY <1>1, <1>3, <1>4, <1>5, <1>6 DEF CurrentBankState

\* Banks that only wait longer for their columns stay rested.
LEMMA RaiseRests ==
  ASSUME NEW m \in BankStates, NEW wake \in Nat, NEW n, OnlyRaised(m, n), Rested(m, wake, 0)
  PROVE  Rested(n, wake, 0)
BY DelayFacts, TimingAssumption DEF OnlyRaised, Rested, RestLimit, BankStates

\* A permitted command that reaches no sleeping bank keeps every bank rested.
LEMMA CommandRests ==
  ASSUME PowerUpTiming, USE_LOW_POWER, NEW c \in Commands, NEW r \in RANKS, NEW b \in BANKS,
         NEW m \in BankStates, NEW wake \in Nat,
         BankConsistent(m, 0), Permits(c, r, b, m), Rested(m, wake, 0),
         r = c.rank /\ c.busPacketType = "ACTIVATE" => m.currentBankState # "PowerDown"
  PROVE  Rested(AfterCommand(c, r, b, m), wake, 0)
<1> SUFFICES ASSUME NEW n, n = AfterCommand(c, r, b, m)
             PROVE  Rested(n, wake, 0)
  OBVIOUS
<1> USE DelayFacts, TimingAssumption
<1>1. /\ m.currentBankState \in CurrentBankState /\ m.stateChangeCountdown \in Nat
      /\ m.nextActivate \in Nat /\ m.nextPrecharge \in Nat
      /\ m.nextRead \in Nat /\ m.nextWrite \in Nat
  BY DEF BankStates
<1>2. tRRD <= RestLimit /\ RestLimit \in Nat
  BY DEF PowerUpTiming, RestLimit
<1>3. CASE c.busPacketType \in {"READ", "READ_P"}
  <2> DEFINE e == AfterReadElsewhere(c, r, m)
  <2>1. e \in BankStates /\ OnlyRaised(m, e)
    BY ElsewhereRaises DEF OnlyRaised
  <2>2. Rested(e, wake, 0)
    BY <2>1, RaiseRests
  <2> HIDE DEF e
  <2>3. CASE <<r, b>> # <<c.rank, c.bank>>
    <3>1. n = e
      BY <1>3, <2>3 DEF AfterCommand, AfterRead, e
    <3> QED BY <2>2, <3>1
  <2>4. CASE r = c.rank /\ b = c.bank /\ c.busPacketType = "READ_P"
    <3> DEFINE act == Later(READ_AUTOPRE_DELAY, m.nextActivate)
    <3>1. /\ n.currentBankState = m.currentBankState /\ n.nextActivate = act
          /\ n.stateChangeCountdown = READ_TO_PRE_DELAY
      BY <2>4 DEF AfterCommand, AfterRead, BankStates
    <3>2. m.currentBankState = "RowActive" /\ m.nextRead = 0
      BY <2>4 DEF Permits
    <3>3. rowBufferPolicy # "OpenPage"
      BY <2>4, CommandFacts
    <3>4. m.stateChangeCountdown = 0
      BY <1>1, <3>2 DEF BankConsistent
    <3>5. m.nextActivate <= READ_TO_PRE_DELAY + tRP + RestLimit
      BY <1>1, <1>2, <3>2, <3>3, <3>4 DEF Rested
    <3>6. READ_AUTOPRE_DELAY <= READ_TO_PRE_DELAY + tRP + RestLimit
      BY <3>3 DEF PowerUpTiming
    <3>7. act <= READ_TO_PRE_DELAY + tRP + RestLimit /\ act \in Nat
      BY <1>1, <3>5, <3>6, LaterFacts
    <3> HIDE DEF act
    <3> QED BY <1>2, <3>1, <3>2, <3>7 DEF Rested
  <2>5. CASE r = c.rank /\ b = c.bank /\ c.busPacketType = "READ"
    <3>1. n = [e EXCEPT !.nextPrecharge = Later(READ_TO_PRE_DELAY, @), !.lastCommand = "READ"]
      BY <2>5 DEF AfterCommand, AfterRead, e
    <3>2. /\ n.currentBankState = e.currentBankState
          /\ n.stateChangeCountdown = e.stateChangeCountdown
          /\ n.nextActivate = e.nextActivate
          /\ n.nextRead = e.nextRead /\ n.nextWrite = e.nextWrite
          /\ n.nextPrecharge = Later(READ_TO_PRE_DELAY, e.nextPrecharge)
      BY <2>1, <3>1 DEF BankStates
    <3>3. /\ e.nextPrecharge \in Nat /\ e.nextActivate \in Nat
          /\ n.nextPrecharge \in Nat /\ n.nextPrecharge >= e.nextPrecharge
      <4>1. e.nextPrecharge \in Nat /\ e.nextActivate \in Nat
        BY <2>1 DEF BankStates
      <4> QED BY <3>2, <4>1 DEF Later
    <3> QED BY <1>2, <2>2, <3>2, <3>3 DEF Rested
  <2> QED BY <1>3, <2>3, <2>4, <2>5
<1>4. CASE c.busPacketType \in {"WRITE", "WRITE_P"}
  <2> DEFINE e == AfterWriteElsewhere(c, r, m)
  <2>1. e \in BankStates /\ OnlyRaised(m, e)
    BY ElsewhereRaises DEF OnlyRaised
  <2>2. Rested(e, wake, 0)
    BY <2>1, RaiseRests
  <2> HIDE DEF e
  <2>3. CASE <<r, b>> # <<c.rank, c.bank>>
    <3>1. n = e
      BY <1>4, <2>3 DEF AfterCommand, AfterWrite, e
    <3> QED BY <2>2, <3>1
  <2>4. CASE r = c.rank /\ b = c.bank /\ c.busPacketType = "WRITE_P"
    <3> DEFINE act == Later(WRITE_AUTOPRE_DELAY, m.nextActivate)
    <3>1. /\ n.currentBankState = m.currentBankState /\ n.nextActivate = act
          /\ n.stateChangeCountdown = WRITE_TO_PRE_DELAY
      BY <2>4 DEF AfterCommand, AfterWrite, BankStates
    <3>2. m.currentBankState = "RowActive" /\ m.nextWrite = 0
      BY <2>4 DEF Permits
    <3>3. rowBufferPolicy # "OpenPage"
      BY <2>4, CommandFacts
    <3>4. m.stateChangeCountdown = 0
      BY <1>1, <3>2 DEF BankConsistent
    <3>5. m.nextActivate <= WRITE_TO_PRE_DELAY + tRP + RestLimit
      BY <1>1, <1>2, <3>2, <3>3, <3>4 DEF Rested
    <3>6. WRITE_AUTOPRE_DELAY <= WRITE_TO_PRE_DELAY + tRP + RestLimit
      BY <1>2 DEF WRITE_AUTOPRE_DELAY, WRITE_TO_PRE_DELAY
    <3>7. act <= WRITE_TO_PRE_DELAY + tRP + RestLimit /\ act \in Nat
      BY <1>1, <3>5, <3>6, LaterFacts
    <3> HIDE DEF act
    <3> QED BY <1>2, <3>1, <3>2, <3>7 DEF Rested
  <2>5. CASE r = c.rank /\ b = c.bank /\ c.busPacketType = "WRITE"
    <3>1. n = [e EXCEPT !.nextPrecharge = Later(WRITE_TO_PRE_DELAY, @), !.lastCommand = "WRITE"]
      BY <2>5 DEF AfterCommand, AfterWrite, e
    <3>2. /\ n.currentBankState = e.currentBankState
          /\ n.stateChangeCountdown = e.stateChangeCountdown
          /\ n.nextActivate = e.nextActivate
          /\ n.nextRead = e.nextRead /\ n.nextWrite = e.nextWrite
          /\ n.nextPrecharge = Later(WRITE_TO_PRE_DELAY, e.nextPrecharge)
      BY <2>1, <3>1 DEF BankStates
    <3>3. /\ e.nextPrecharge \in Nat /\ e.nextActivate \in Nat
          /\ n.nextPrecharge \in Nat /\ n.nextPrecharge >= e.nextPrecharge
      <4>1. e.nextPrecharge \in Nat /\ e.nextActivate \in Nat
        BY <2>1 DEF BankStates
      <4> QED BY <3>2, <4>1 DEF Later
    <3> QED BY <1>2, <2>2, <3>2, <3>3 DEF Rested
  <2> QED BY <1>4, <2>3, <2>4, <2>5
<1>5. CASE c.busPacketType = "ACTIVATE"
  <2>1. CASE r # c.rank
    BY <1>5, <2>1 DEF AfterCommand, AfterActivate
  <2>2. CASE r = c.rank /\ b # c.bank
    <3>1. n = [m EXCEPT !.nextActivate = Later(tRRD, @)]
      BY <1>5, <2>2 DEF AfterCommand, AfterActivate
    <3>2. /\ n.currentBankState = m.currentBankState
          /\ n.stateChangeCountdown = m.stateChangeCountdown
          /\ n.nextActivate = Later(tRRD, m.nextActivate)
          /\ n.nextRead = m.nextRead /\ n.nextWrite = m.nextWrite
          /\ n.nextPrecharge = m.nextPrecharge
      BY <3>1 DEF BankStates
    <3>3. n.nextActivate = tRRD \/ n.nextActivate = m.nextActivate
      BY <3>2 DEF Later
    <3>4. m.currentBankState # "PowerDown"
      BY <1>5, <2>2
    <3>5. CASE n.nextActivate = m.nextActivate
      BY <3>2, <3>5 DEF Rested
    <3>6. CASE n.nextActivate = tRRD
      BY <1>1, <1>2, <3>2, <3>4, <3>6 DEF Rested
    <3> QED BY <3>3, <3>5, <3>6
  <2>3. CASE r = c.rank /\ b = c.bank
    <3>1. m.currentBankState \in {"Idle", "Refreshing"} /\ m.nextActivate = 0
      BY <1>5, <2>3 DEF Permits
    <3>2. m.stateChangeCountdown = 0
      BY <1>1, <3>1 DEF BankConsistent
    <3>3. /\ n.currentBankState = "RowActive" /\ n.stateChangeCountdown = 0
          /\ n.nextActivate = Later(tRC, 0) /\ n.nextPrecharge = Later(tRAS, m.nextPrecharge)
          /\ n.nextRead = Later(tRCD - AL, m.nextRead)
          /\ n.nextWrite = Later(tRCD - AL, m.nextWrite)
      BY <1>5, <2>3, <3>1, <3>2 DEF AfterCommand, AfterActivate, BankStates
    <3>4. /\ n.nextActivate = tRC /\ n.nextPrecharge \in Nat /\ n.nextPrecharge >= tRAS
          /\ n.nextRead \in Nat /\ n.nextRead >= tRCD - AL
          /\ n.nextWrite \in Nat /\ n.nextWrite >= tRCD - AL
      BY <1>1, <3>3, LaterFacts DEF Later
    <3> QED BY <1>2, <3>3, <3>4 DEF Rested, PowerUpTiming
  <2> QED BY <2>1, <2>2, <2>3
<1>6. CASE c.busPacketType = "PRECHARGE"
  <2>1. CASE <<r, b>> # <<c.rank, c.bank>>
    BY <1>6, <2>1 DEF AfterCommand, AfterPrecharge
  <2>2. CASE r = c.rank /\ b = c.bank
    <3>1. /\ m.currentBankState = "RowActive" /\ m.nextPrecharge = 0
          /\ rowBufferPolicy = "OpenPage"
      BY <1>6, <2>2, CommandFacts DEF Permits
    <3>2. m.stateChangeCountdown = 0
      BY <1>1, <3>1 DEF BankConsistent
    <3>3. m.nextActivate <= tRP + RestLimit
      BY <1>1, <1>2, <3>1, <3>2 DEF Rested
    <3>4. /\ n.currentBankState = "Precharging" /\ n.stateChangeCountdown = tRP
          /\ n.nextActivate = Later(tRP, m.nextActivate)
      BY <1>6, <2>2 DEF AfterCommand, AfterPrecharge, BankStates
    <3>5. n.nextActivate \in Nat /\ n.nextActivate <= tRP + RestLimit
      BY <1>1, <1>2, <3>3, <3>4 DEF Later
    <3> QED BY <3>4, <3>5, <1>2 DEF Rested
  <2> QED BY <2>1, <2>2
<1>7. CASE c.busPacketType = "REFRESH"
  <2>1. CASE r # c.rank
    BY <1>7, <2>1 DEF AfterCommand, AfterRefresh
  <2>2. CASE r = c.rank
    <3>1. /\ n.currentBankState = "Refreshing" /\ n.stateChangeCountdown = tRFC
          /\ n.nextActivate = tRFC
      BY <1>7, <2>2 DEF AfterCommand, AfterRefresh, BankStates
    <3> QED BY <1>2, <3>1 DEF Rested
  <2> QED BY <2>1, <2>2
<1> QED BY <1>3, <1>4, <1>5, <1>6, <1>7, CommandFacts

\* A permitted command leaves no bank a shorter wait than before.
LEMMA CommandKeepsWait ==
  ASSUME NEW c \in Commands, NEW r \in RANKS, NEW b \in BANKS, NEW m \in BankStates,
         Permits(c, r, b, m)
  PROVE  AfterCommand(c, r, b, m).nextActivate >= m.nextActivate
<1> SUFFICES ASSUME NEW n, n = AfterCommand(c, r, b, m)
             PROVE  n.nextActivate >= m.nextActivate
  OBVIOUS
<1> USE DelayFacts, TimingAssumption
<1>1. m.nextActivate \in Nat
  BY DEF BankStates
<1>2. \A d \in Nat : Later(d, m.nextActivate) >= m.nextActivate
  BY <1>1, LaterFacts
<1>3. CASE c.busPacketType \in {"READ", "READ_P"}
  <2>1. PICK e : e = AfterReadElsewhere(c, r, m)
    OBVIOUS
  <2>2. e \in BankStates /\ e.nextActivate = m.nextActivate
    BY <2>1, ElsewhereRaises DEF OnlyRaised
  <2>3. \/ n = e
        \/ n = [e EXCEPT !.nextPrecharge = Later(READ_TO_PRE_DELAY, @), !.lastCommand = "READ"]
        \/ n.nextActivate = Later(READ_AUTOPRE_DELAY, m.nextActivate)
    BY <1>3, <2>1 DEF AfterCommand, AfterRead, BankStates
  <2>4. n.nextActivate = m.nextActivate \/ n.nextActivate = Later(READ_AUTOPRE_DELAY, m.nextActivate)
    BY <2>2, <2>3 DEF BankStates
  <2> QED BY <1>1, <1>2, <2>4
<1>4. CASE c.busPacketType \in {"WRITE", "WRITE_P"}
  <2>1. PICK e : e = AfterWriteElsewhere(c, r, m)
    OBVIOUS
  <2>2. e \in BankStates /\ e.nextActivate = m.nextActivate
    BY <2>1, ElsewhereRaises DEF OnlyRaised
  <2>3. \/ n = e
        \/ n = [e EXCEPT !.nextPrecharge = Later(WRITE_TO_PRE_DELAY, @), !.lastCommand = "WRITE"]
        \/ n.nextActivate = Later(WRITE_AUTOPRE_DELAY, m.nextActivate)
    BY <1>4, <2>1 DEF AfterCommand, AfterWrite, BankStates
  <2>4. n.nextActivate = m.nextActivate \/ n.nextActivate = Later(WRITE_AUTOPRE_DELAY, m.nextActivate)
    BY <2>2, <2>3 DEF BankStates
  <2> QED BY <1>1, <1>2, <2>4
<1>5. CASE c.busPacketType = "ACTIVATE"
  <2>1. \/ n.nextActivate = m.nextActivate
        \/ n.nextActivate = Later(tRRD, m.nextActivate)
        \/ n.nextActivate = Later(tRC, m.nextActivate)
    BY <1>5 DEF AfterCommand, AfterActivate, BankStates
  <2> QED BY <1>1, <1>2, <2>1
<1>6. CASE c.busPacketType = "PRECHARGE"
  <2>1. n.nextActivate = m.nextActivate \/ n.nextActivate = Later(tRP, m.nextActivate)
    BY <1>6 DEF AfterCommand, AfterPrecharge, BankStates
  <2> QED BY <1>1, <1>2, <2>1
<1>7. CASE c.busPacketType = "REFRESH"
  <2>1. \/ n.nextActivate = m.nextActivate
        \/ n.nextActivate = tRFC /\ m.nextActivate = 0
    BY <1>7 DEF AfterCommand, AfterRefresh, Permits, BankStates
  <2> QED BY <1>1, <2>1
<1> QED BY <1>3, <1>4, <1>5, <1>6, <1>7, CommandFacts

\* No command is issued to a rank that sleeps.
LEMMA IssueFindsAwake ==
  ASSUME IInv, NEW c \in Commands, Issue(c), c.busPacketType = "ACTIVATE", NEW b \in BANKS
  PROVE  bankStates[c.rank][b].currentBankState # "PowerDown"
<1>1. c.rank \in RANKS /\ c.bank \in BANKS
  BY CommandFacts
<1>2. bankStates[c.rank][c.bank].currentBankState # "PowerDown"
  BY DEF Issue, Issuable
<1> QED BY <1>1, <1>2 DEF IInv, PowerAgrees

\* Every step keeps the banks rested, when there is power-down at all.
LEMMA NextRests ==
  ASSUME PowerUpTiming, USE_LOW_POWER, IInv, RestInv, [ProtocolNext]_protocolVars
  PROVE  RestInv'
<1>1. 0 \in BANKS
  BY GeometryAssumption DEF BANKS
<1>2. ASSUME NEW r \in RANKS, NEW b \in BANKS
      PROVE  /\ bankStates[r][b] \in BankStates /\ bankStates[r][b].nextPowerUp \in Nat
             /\ BankConsistent(bankStates[r][b], IF phase = "begin" THEN 1 ELSE 0)
             /\ Rested(bankStates[r][b], bankStates[r][0].nextPowerUp, IF phase = "begin" THEN 1 ELSE 0)
  <2>1. bankStates[r][b] \in BankStates
    BY DEF IInv, ProtocolTypeOK
  <2>2. bankStates[r][b].nextPowerUp \in Nat
    BY <2>1 DEF BankStates
  <2> QED BY <2>1, <2>2 DEF IInv, RestInv
<1>3. CASE Deliver
  <2>1. /\ phase = "begin" /\ phase' = "issue"
        /\ \A r \in RANKS, b \in BANKS : bankStates'[r][b] = CountDown(bankStates[r][b])
    BY <1>3 DEF Deliver
  <2>2. ASSUME NEW r \in RANKS, NEW b \in BANKS
        PROVE  Rested(bankStates'[r][b], bankStates'[r][0].nextPowerUp, 0)
    <3>1. bankStates'[r][0].nextPowerUp = bankStates[r][0].nextPowerUp
      <4>1. SamePower(bankStates[r][0], CountDown(bankStates[r][0]))
        BY <1>1, <1>2, <2>1, CountDownPower
      <4> QED BY <1>1, <2>1, <4>1 DEF SamePower
    <3>2. Rested(CountDown(bankStates[r][b]), bankStates[r][0].nextPowerUp, 0)
      BY <1>1, <1>2, <2>1, CountDownRests
    <3> QED BY <2>1, <3>1, <3>2
  <2> QED BY <2>1, <2>2 DEF RestInv
<1>4. ASSUME NEW c \in Commands, Issue(c) PROVE RestInv'
  <2>1. /\ phase = "issue" /\ phase' = "end" /\ Issuable(c)
        /\ \A r \in RANKS, b \in BANKS :
             bankStates'[r][b] = AfterCommand(c, r, b, bankStates[r][b])
    BY <1>4 DEF Issue
  <2>2. ASSUME NEW r \in RANKS, NEW b \in BANKS
        PROVE  Rested(bankStates'[r][b], bankStates'[r][0].nextPowerUp, 0)
    <3>1. Permits(c, r, b, bankStates[r][b]) /\ Permits(c, r, 0, bankStates[r][0])
      BY <1>1, <2>1, IssuablePermits DEF IInv, ProtocolTypeOK
    <3>2. bankStates'[r][0].nextPowerUp = bankStates[r][0].nextPowerUp
      <4>1. SamePower(bankStates[r][0], AfterCommand(c, r, 0, bankStates[r][0]))
        BY <1>1, <1>2, <3>1, CommandPower
      <4> QED BY <1>1, <2>1, <4>1 DEF SamePower
    <3>3. r = c.rank /\ c.busPacketType = "ACTIVATE" =>
            bankStates[r][b].currentBankState # "PowerDown"
      BY <1>4, IssueFindsAwake
    <3>4. Rested(AfterCommand(c, r, b, bankStates[r][b]), bankStates[r][0].nextPowerUp, 0)
      BY <1>1, <1>2, <2>1, <3>1, <3>3, CommandRests
    <3> QED BY <2>1, <3>2, <3>4
  <2> QED BY <2>1, <2>2 DEF RestInv
<1>5. CASE IssueNothing
  BY <1>5 DEF IssueNothing, RestInv
<1>6. ASSUME NEW down \in SUBSET RANKS, NEW up \in SUBSET (RANKS \ down), PowerAndStep(down, up)
      PROVE  RestInv'
  <2>1. /\ phase = "end" /\ phase' = "begin"
        /\ \A r \in RANKS, b \in BANKS :
             bankStates'[r][b] = Step(Repowered(down, up, r, bankStates[r][b]))
        /\ \A r \in down : \A b \in BANKS : bankStates[r][b].currentBankState = "Idle"
    BY <1>6 DEF PowerAndStep, Repowered
  <2>2. ASSUME NEW r \in RANKS, NEW b \in BANKS
        PROVE  Rested(bankStates'[r][b], bankStates'[r][0].nextPowerUp, 1)
    <3>1. PICK m, o : m = bankStates[r][b] /\ o = bankStates[r][0]
      OBVIOUS
    <3>2. /\ m \in BankStates /\ o \in BankStates /\ o.nextPowerUp \in Nat
          /\ BankConsistent(m, 0) /\ Rested(m, o.nextPowerUp, 0)
      BY <1>1, <1>2, <2>1, <3>1
    <3>3. /\ bankStates'[r][b] = Step(Repowered(down, up, r, m))
          /\ bankStates'[r][0] = Step(Repowered(down, up, r, o))
      BY <1>1, <2>1, <3>1
    <3>4. CASE r \in down
      <4>1. /\ bankStates'[r][0].nextPowerUp = Sooner(tCKE)
            /\ bankStates'[r][b] = Step(PoweredDown(m))
        BY <3>2, <3>3, <3>4, PowerOf DEF Repowered
      <4>2. m.currentBankState = "Idle" /\ m.nextActivate \in Nat
        BY <2>1, <3>1, <3>2, <3>4 DEF BankStates
      <4>3. m.nextActivate <= tCKE + tXP
        BY <3>2, <4>2 DEF Rested, RestLimit
      <4>4. /\ Step(PoweredDown(m)).currentBankState = "PowerDown"
            /\ Step(PoweredDown(m)).nextActivate = Sooner(m.nextActivate)
        BY <3>2 DEF Step, PoweredDown, BankStates
      <4>5. Sooner(m.nextActivate) <= Sooner(tCKE) + tXP
        BY <4>2, <4>3, TimingAssumption DEF Sooner
      <4> QED BY <4>1, <4>4, <4>5 DEF Rested
    <3>5. CASE r \in up
      <4>1. bankStates'[r][b] = Step(PoweredUp(m))
        BY <3>3, <3>5 DEF Repowered
      <4>2. /\ Step(PoweredUp(m)).currentBankState = "Idle"
            /\ Step(PoweredUp(m)).nextActivate = Sooner(tXP)
        BY <3>2 DEF Step, PoweredUp, BankStates
      <4>3. Sooner(tXP) <= RestLimit
        BY TimingAssumption DEF Sooner, RestLimit
      <4> QED BY <4>1, <4>2, <4>3 DEF Rested
    <3>6. CASE r \notin down \cup up
      <4>1. /\ bankStates'[r][b] = Step(m)
            /\ bankStates'[r][0].nextPowerUp = Sooner(o.nextPowerUp)
        BY <3>2, <3>3, <3>6, PowerOf DEF Repowered
      <4> QED BY <3>2, <4>1, StepRests
    <3> QED BY <3>4, <3>5, <3>6
  <2> QED BY <2>1, <2>2 DEF RestInv
<1>7. CASE UNCHANGED protocolVars
  BY <1>7 DEF protocolVars, RestInv
<1> QED BY <1>3, <1>4, <1>5, <1>6, <1>7 DEF ProtocolNext

\* No step shortens a wait: the only one that could is a power-up, which finds a
\* bank that has slept.
LEMMA NextKeepsWait ==
  ASSUME USE_LOW_POWER => RestInv, IInv, [ProtocolNext]_protocolVars
  PROVE  \/ \A r \in RANKS, b \in BANKS :
              bankStates'[r][b].nextActivate >= Sooner(bankStates[r][b].nextActivate)
         \/ UNCHANGED protocolVars
<1>1. 0 \in BANKS
  BY GeometryAssumption DEF BANKS
<1>2. \A r \in RANKS, b \in BANKS :
        /\ bankStates[r][b] \in BankStates /\ bankStates[r][b].nextActivate \in Nat
        /\ Sooner(bankStates[r][b].nextActivate) <= bankStates[r][b].nextActivate
  <2>1. \A r \in RANKS, b \in BANKS : bankStates[r][b] \in BankStates
    BY DEF IInv, ProtocolTypeOK
  <2>2. \A m \in BankStates : m.nextActivate \in Nat /\ Sooner(m.nextActivate) <= m.nextActivate
    BY SoonerFacts DEF BankStates
  <2> QED BY <2>1, <2>2
<1>3. ASSUME NEW r \in RANKS, NEW b \in BANKS, ~UNCHANGED protocolVars
      PROVE  bankStates'[r][b].nextActivate >= Sooner(bankStates[r][b].nextActivate)
  <2>1. PICK m : /\ m = bankStates[r][b] /\ m \in BankStates /\ m.nextActivate \in Nat
                 /\ Sooner(m.nextActivate) \in Nat /\ Sooner(m.nextActivate) <= m.nextActivate
    BY <1>2, SoonerFacts
  <2>2. CASE Deliver
    <3>1. bankStates'[r][b] = CountDown(m)
      BY <2>1, <2>2 DEF Deliver
    <3>2. CountDown(m).nextActivate = m.nextActivate
      BY <2>1 DEF CountDown, BankStates
    <3> QED BY <2>1, <3>1, <3>2
  <2>3. ASSUME NEW c \in Commands, Issue(c)
        PROVE  bankStates'[r][b].nextActivate >= Sooner(bankStates[r][b].nextActivate)
    <3>1. bankStates'[r][b] = AfterCommand(c, r, b, m)
      BY <2>1, <2>3 DEF Issue
    <3>2. Permits(c, r, b, m)
      <4>1. Issuable(c)
        BY <2>3 DEF Issue
      <4> QED BY <2>1, <4>1, IssuablePermits DEF IInv, ProtocolTypeOK
    <3>3. AfterCommand(c, r, b, m) \in BankStates
      BY <2>1, AfterCommandType
    <3>4. PICK n : n = AfterCommand(c, r, b, m) /\ n.nextActivate \in Nat
      BY <3>3 DEF BankStates
    <3>5. n.nextActivate >= m.nextActivate
      BY <2>1, <3>2, <3>4, CommandKeepsWait
    <3> QED BY <2>1, <3>1, <3>4, <3>5
  <2>4. CASE IssueNothing
    <3>1. bankStates'[r][b] = m
      BY <2>1, <2>4 DEF IssueNothing
    <3> QED BY <2>1, <3>1
  <2>5. ASSUME NEW down \in SUBSET RANKS, NEW up \in SUBSET (RANKS \ down), PowerAndStep(down, up)
        PROVE  bankStates'[r][b].nextActivate >= Sooner(bankStates[r][b].nextActivate)
    <3>1. bankStates'[r][b] = Step(Repowered(down, up, r, m))
      BY <2>1, <2>5 DEF PowerAndStep, Repowered
    <3>2. CASE r \notin up
      <4>1. Step(Repowered(down, up, r, m)).nextActivate = Sooner(m.nextActivate)
        BY <2>1, <3>2 DEF Repowered, Step, PoweredDown, BankStates
      <4> QED BY <2>1, <3>1, <4>1
    <3>3. CASE r \in up
      <4>1. /\ USE_LOW_POWER /\ powerDown[r] /\ bankStates[r][0].nextPowerUp = 0
            /\ phase = "end"
        BY <2>5, <3>3 DEF PowerAndStep
      <4>2. m.currentBankState = "PowerDown"
        BY <2>1, <4>1 DEF IInv, PowerAgrees
      <4>3. Rested(m, 0, 0)
        BY <2>1, <4>1 DEF RestInv
      <4>4. m.nextActivate <= tXP
        BY <2>1, <4>2, <4>3, TimingAssumption DEF Rested
      <4>5. Step(Repowered(down, up, r, m)).nextActivate = Sooner(tXP)
        BY <2>1, <3>3 DEF Repowered, Step, PoweredUp, BankStates
      <4>6. Sooner(tXP) >= Sooner(m.nextActivate)
        BY <2>1, <4>4, TimingAssumption DEF Sooner
      <4> QED BY <2>1, <3>1, <4>5, <4>6
    <3> QED BY <3>2, <3>3
  <2> QED BY <1>3, <2>2, <2>3, <2>4, <2>5 DEF ProtocolNext
<1> QED BY <1>3

\* With delays that leave no wait longer than tXP to a rank that wakes up, as in every
\* DDR3 file and, with open pages, every device file: whatever is issued and whenever
\* ranks are powered down and up, no bank's wait for its next ACTIVATE is ever cut short.
THEOREM ActivateWaitAlwaysKept ==
  ASSUME PowerUpTiming
  PROVE  ProtocolSpec => ActivateWaitKept
<1>1. ProtocolInit => (USE_LOW_POWER => RestInv)
  <2> SUFFICES ASSUME ProtocolInit, NEW r \in RANKS, NEW b \in BANKS
               PROVE  Rested(bankStates[r][b], bankStates[r][0].nextPowerUp,
                             IF phase = "begin" THEN 1 ELSE 0)
    BY DEF RestInv
  <2>1. bankStates[r][b].currentBankState = "Idle" /\ bankStates[r][b].nextActivate = 0
    BY DEF ProtocolInit, InitBank
  <2> QED BY <2>1, TimingAssumption DEF Rested, RestLimit
<1>2. IInv /\ (USE_LOW_POWER => RestInv) /\ [ProtocolNext]_protocolVars =>
        (USE_LOW_POWER => RestInv)'
  BY NextRests
<1>3. IInv /\ (USE_LOW_POWER => RestInv) /\ [ProtocolNext]_protocolVars =>
        [\A r \in RANKS, b \in BANKS :
           bankStates'[r][b].nextActivate >= Sooner(bankStates[r][b].nextActivate)]_protocolVars
  BY NextKeepsWait
<1> QED BY <1>1, <1>2, <1>3, ProtocolInvariance, PTL DEF ProtocolSpec, ActivateWaitKept
=============================================================================
