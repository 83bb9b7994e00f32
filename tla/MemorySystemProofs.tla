-------------------------- MODULE MemorySystemProofs --------------------------
(***************************************************************************)
(* What holds in the whole channel for every value of the constants: its   *)
(* command queue stays in order, it implements the command protocol, and   *)
(* so its ranks never reject what they are sent; and every request it      *)
(* accepted, and every read of the CPU's, is somewhere on its way.         *)
(***************************************************************************)
EXTENDS MemorySystem, CommandQueueProofs

\* The queues of the channel, and the exit that a full one would be.
ChannelInv ==
  /\ QueueInv
  /\ transactionQueue \in Seq(AllTransactions)
  /\ Len(transactionQueue) <= TRANS_QUEUE_DEPTH
  /\ pendingReads \in Seq(AllTransactions)
  /\ pendingTransactions \in Seq(Transactions)
  /\ refreshRank \in RANKS
  /\ error # "command queue overrun"

LEMMA ChannelInit == Init => ChannelInv
  <1> SUFFICES ASSUME Init PROVE ChannelInv
    OBVIOUS
  <1>1. QueueInv
    BY QueueInit DEF Init, MemoryControllerInit
  <1>2. 0 \in RANKS /\ 0 <= TRANS_QUEUE_DEPTH
    BY GeometryAssumption DEF RANKS
  <1> QED
    BY <1>1, <1>2, EmptySeq DEF Init, MemoryControllerInit, ChannelInv

\* One more transaction, while there is room.
LEMMA OneMoreTransaction ==
  ASSUME NEW t \in AllTransactions, transactionQueue \in Seq(AllTransactions), WillAcceptTransaction
  PROVE  /\ Append(transactionQueue, t) \in Seq(AllTransactions)
         /\ Len(Append(transactionQueue, t)) <= TRANS_QUEUE_DEPTH
  <1>1. /\ Append(transactionQueue, t) \in Seq(AllTransactions)
        /\ Len(Append(transactionQueue, t)) = Len(transactionQueue) + 1
        /\ Len(transactionQueue) \in Nat
    BY AppendProperties, LenProperties
  <1> QED
    BY <1>1, GeometryAssumption DEF WillAcceptTransaction

\* QueueInv is about the queue's own variables.
LEMMA QueueInvUnchanged == QueueInv /\ UNCHANGED queueVars => QueueInv'
  BY DEF QueueInv, queueVars, QueuesSound, AllWindowsSound

LEMMA AddTransactionInv ==
  ASSUME ChannelInv, NEW t \in Transactions, AddTransaction(t)
  PROVE  ChannelInv'
  <1>1. t \in AllTransactions
    BY FrontEndAssumption
  <1>2. /\ transactionQueue' \in Seq(AllTransactions)
        /\ Len(transactionQueue') <= TRANS_QUEUE_DEPTH
    BY <1>1, OneMoreTransaction DEF AddTransaction, ChannelInv
  <1>3. QueueInv'
    BY QueueInvUnchanged DEF AddTransaction, ChannelInv
  <1> QED
    BY <1>2, <1>3 DEF AddTransaction, ChannelInv

LEMMA ParkTransactionInv ==
  ASSUME ChannelInv, NEW t \in Transactions, ParkTransaction(t)
  PROVE  ChannelInv'
  <1>1. QueueInv'
    BY QueueInvUnchanged DEF ParkTransaction, ChannelInv
  <1>2. pendingTransactions' \in Seq(Transactions)
    BY AppendProperties DEF ParkTransaction, ChannelInv
  <1>3. /\ UNCHANGED <<transactionQueue, pendingReads, refreshRank, error>>
    BY DEF ParkTransaction, controllerVars
  <1> QED
    BY <1>1, <1>2, <1>3 DEF ChannelInv

LEMMA BeginInv ==
  ASSUME ChannelInv, Begin
  PROVE  ChannelInv'
  <1>1. /\ transactionQueue' \in Seq(AllTransactions)
        /\ Len(transactionQueue') <= TRANS_QUEUE_DEPTH
        /\ pendingTransactions' \in Seq(Transactions)
    <2>1. UnparkTransaction
      BY DEF Begin
    <2>2. CASE pendingTransactions # <<>> /\ WillAcceptTransaction
      <3>1. Head(pendingTransactions) \in Transactions /\ Tail(pendingTransactions) \in Seq(Transactions)
        BY <2>2, HeadTailProperties DEF ChannelInv
      <3>2. Head(pendingTransactions) \in AllTransactions
        BY <3>1, FrontEndAssumption
      <3> QED
        BY <2>1, <2>2, <3>1, <3>2, OneMoreTransaction DEF UnparkTransaction, ChannelInv
    <2>3. CASE ~(pendingTransactions # <<>> /\ WillAcceptTransaction)
      BY <2>1, <2>3 DEF UnparkTransaction, ChannelInv
    <2> QED
      BY <2>2, <2>3
  <1>2. /\ refreshRank' \in RANKS
        /\ cqRefreshRank' \in RANKS \cup {NoRank} /\ cqRefreshWaiting' \in BOOLEAN
        /\ cqRefreshWaiting' => cqRefreshRank' \in RANKS
    <2>1. ScheduleRefresh
      BY DEF Begin
    <2>2. refreshRank \in RANKS /\ refreshRank \in Nat
      <3>1. refreshRank \in RANKS
        BY DEF ChannelInv
      <3> QED
        BY <3>1, GeometryAssumption DEF RANKS
    <2>3. (refreshRank + 1) % NUM_RANKS \in RANKS
      <3>1. refreshRank + 1 \in Nat /\ NUM_RANKS \in Nat \ {0}
        BY <2>2, GeometryAssumption
      <3> QED
        BY <3>1, DivMod DEF RANKS
    <2>4. CASE RefreshDue
      BY <2>1, <2>2, <2>3, <2>4 DEF ScheduleRefresh
    <2>5. CASE ~RefreshDue
      <3>1. /\ refreshRank' = refreshRank /\ cqRefreshRank' = cqRefreshRank
            /\ cqRefreshWaiting' = cqRefreshWaiting
        BY <2>1, <2>5 DEF ScheduleRefresh
      <3>2. /\ cqRefreshRank \in RANKS \cup {NoRank} /\ cqRefreshWaiting \in BOOLEAN
            /\ cqRefreshWaiting => cqRefreshRank \in RANKS
        BY DEF ChannelInv, QueueInv
      <3> QED
        BY <2>2, <3>1, <3>2, Zenon
    <2> QED
      BY <2>4, <2>5
  <1>3. QueueInv'
    BY <1>2 DEF Begin, ChannelInv, QueueInv, QueuesSound, AllWindowsSound
  <1>4. error' # "command queue overrun"
    BY DEF Begin
  <1> QED
    BY <1>1, <1>2, <1>3, <1>4 DEF Begin, ChannelInv

\* A popped command, and the rest of the channel.
LEMMA IssuePoppedInv ==
  ASSUME ChannelInv, NEW p, NEW pop, IssuePopped(p, pop), QueueInv'
  PROVE  ChannelInv'
  BY DEF ChannelInv, IssuePopped, Idling

LEMMA IssueInv ==
  ASSUME ChannelInv,
         IssueForRefresh \/ IssueRefresh \/ IssueQueued \/ IssuePrecharge \/ IssueNothing
  PROVE  ChannelInv'
  <1> USE DEF ChannelInv
  <1>1. ASSUME NEW p, IssuePopped(p, PopRefreshColumn(p)) PROVE ChannelInv'
    <2>1. QueueInv'
      BY <1>1, PopRefreshColumnSound DEF IssuePopped
    <2> QED
      BY <1>1, <2>1, IssuePoppedInv
  <1>2. ASSUME NEW p, IssuePopped(p, PopRefreshPrecharge(p)) PROVE ChannelInv'
    <2>1. QueueInv'
      BY <1>2, PopRefreshPrechargeSound DEF IssuePopped
    <2> QED
      BY <1>2, <2>1, IssuePoppedInv
  <1>3. ASSUME NEW p, IssuePopped(p, PopRefresh(p)) PROVE ChannelInv'
    <2>1. QueueInv'
      BY <1>3, PopRefreshSound DEF IssuePopped
    <2> QED
      BY <1>3, <2>1, IssuePoppedInv
  <1>4. ASSUME NEW p, IssuePopped(p, PopQueued(p)) PROVE ChannelInv'
    <2>1. QueueInv'
      BY <1>4, PopQueuedSound DEF IssuePopped
    <2> QED
      BY <1>4, <2>1, IssuePoppedInv
  <1>5. ASSUME NEW p, IssuePopped(p, PopPrecharge(p)) PROVE ChannelInv'
    <2>1. QueueInv'
      BY <1>5, PopPrechargeSound DEF IssuePopped
    <2> QED
      BY <1>5, <2>1, IssuePoppedInv
  <1>6. CASE IssueNothing
    BY <1>6, PopNothingSound DEF IssueNothing, Idling
  <1> QED
    BY <1>1, <1>2, <1>3, <1>4, <1>5, <1>6
    DEF IssueForRefresh, IssueRefresh, IssueQueued, IssuePrecharge

\* A read that is answered leaves the others pending.
LEMMA WithoutAnsweredType ==
  ASSUME NEW pending \in Seq(AllTransactions), NEW d
  PROVE  WithoutAnswered(pending, d) \in Seq(AllTransactions)
  <1>1. CASE Answers(d, pending) = {}
    BY <1>1 DEF WithoutAnswered
  <1>2. CASE Answers(d, pending) # {}
    <2>1. Answers(d, pending) \subseteq 1 .. Len(pending) /\ Len(pending) \in Nat
      BY LenProperties DEF Answers
    <2>2. Answers(d, pending) \subseteq Nat
      BY <2>1
    <2>3. Min(Answers(d, pending)) \in 1 .. Len(pending)
      BY <1>2, <2>1, <2>2, MinFacts
    <2> QED
      BY <1>2, <2>3, RemoveAtFacts DEF WithoutAnswered
  <1> QED
    BY <1>1, <1>2

LEMMA EndInv ==
  ASSUME ChannelInv, End
  PROVE  ChannelInv'
  <1>1. DispatchSound(Dispatched)
    BY DispatchedSound DEF ChannelInv, QueueInv
  <1>2. /\ transactionQueue' = Dispatched.transactions /\ queues' = Dispatched.queues
        /\ ReturnRead(Dispatched.pending)
        /\ error' \in {"power change not allowed", "no pending request", "none"}
    BY <1>1, NoOverrun DEF End, DispatchSound
  <1>3. QueuesSound(queues')
    BY <1>1, <1>2 DEF DispatchSound
  <1>4. QueueInv'
    BY <1>3 DEF End, ChannelInv, QueueInv, QueuesSound, AllWindowsSound
  <1>5. pendingReads' \in Seq(AllTransactions)
    BY <1>1, <1>2, WithoutAnsweredType DEF ReturnRead, DispatchSound
  <1>6. Len(transactionQueue') <= TRANS_QUEUE_DEPTH /\ transactionQueue' \in Seq(AllTransactions)
    <2>1. Len(transactionQueue) \in Nat /\ Len(transactionQueue) <= TRANS_QUEUE_DEPTH
      BY LenProperties DEF ChannelInv
    <2>2. /\ Dispatched.transactions \in Seq(AllTransactions)
          /\ Len(Dispatched.transactions) \in Nat
          /\ Len(Dispatched.transactions) <= Len(transactionQueue)
      BY <1>1, LenProperties DEF DispatchSound
    <2>3. Len(Dispatched.transactions) <= TRANS_QUEUE_DEPTH
      BY <2>1, <2>2, GeometryAssumption
    <2> QED
      BY <1>2, <2>2, <2>3
  <1> QED
    BY <1>2, <1>4, <1>5, <1>6 DEF End, ChannelInv

\* ChannelInv is inductive.
THEOREM ChannelInvariance == Spec => []ChannelInv
  <1>1. ChannelInv /\ [Next]_vars => ChannelInv'
    <2> SUFFICES ASSUME ChannelInv, [Next]_vars PROVE ChannelInv'
      OBVIOUS
    <2>1. CASE UNCHANGED vars
      BY <2>1, QueueInvUnchanged DEF vars, ChannelInv, controllerVars
    <2>2. ASSUME NEW t \in Transactions, AddTransaction(t) \/ ParkTransaction(t)
          PROVE  ChannelInv'
      BY <2>2, AddTransactionInv, ParkTransactionInv
    <2>3. CASE Begin
      BY <2>3, BeginInv
    <2>4. CASE IssueForRefresh \/ IssueRefresh \/ IssueQueued \/ IssuePrecharge \/ IssueNothing
      BY <2>4, IssueInv
    <2>5. CASE End
      BY <2>5, EndInv
    <2> QED
      BY <2>1, <2>2, <2>3, <2>4, <2>5 DEF Next, Update
  <1> QED
    BY <1>1, ChannelInit, PTL DEF Spec

-----------------------------------------------------------------------------
\* However commands are skipped, sent and added, an ACTIVATE in a command queue is
\* right in front of the column command it was queued for.
THEOREM ActivatesAlwaysPaired == Spec => []ActivatesPaired
  <1>1. ChannelInv => ActivatesPaired
    BY DEF ChannelInv, QueueInv, QueuesSound, QueueSound, Paired, ActivatesPaired
  <1> QED
    BY <1>1, ChannelInvariance, PTL

\* A rank never has five activations in a tFAW window, and its windows end in the
\* order in which they are kept.
THEOREM FAWWindowKept == Spec => []FAWWindow
  <1>1. ChannelInv => FAWWindow
    BY DEF ChannelInv, QueueInv, AllWindowsSound, WindowsSound, FAWWindow
  <1> QED
    BY <1>1, ChannelInvariance, PTL

\* Although bool startingRank clips the cell at which the scan for rows to close
\* stops, the scan always comes to that cell: pop() returns.
THEOREM ScanEnds ==
  Spec => [](\E n \in 1 .. NUM_RANKS * NUM_BANKS : PreCell(n) = StopCell)
  <1>1. ChannelInv => \E n \in 1 .. NUM_RANKS * NUM_BANKS : PreCell(n) = StopCell
    BY ScanReturns DEF ChannelInv
  <1> QED
    BY <1>1, ChannelInvariance, PTL

\* A clipped scan may leave banks out, but after one that found nothing the next one
\* starts where it will stop and looks at every bank: no open row is overlooked for ever.
THEOREM NoBankLeftOut ==
  Spec => [][IssueNothing /\ rowBufferPolicy = "OpenPage" => ScansEveryBank']_vars
  <1>1. ChannelInv /\ StopCell = <<nextRankPRE, nextBankPRE>> => ScansEveryBank
    BY FullScan DEF ChannelInv
  <1>2. ChannelInv /\ IssueNothing /\ rowBufferPolicy = "OpenPage"
          => (StopCell = <<nextRankPRE, nextBankPRE>>)'
    BY FruitlessScan DEF ChannelInv, IssueNothing
  <1> QED
    BY <1>1, <1>2, ChannelInvariance, PTL

-----------------------------------------------------------------------------
(* The channel implements the command protocol.  The protocol's instance has *)
(* its own copy of every operator on banks; the copies are the same.         *)

LEMMA SameSets ==
  /\ Protocol!RANKS = RANKS /\ Protocol!BANKS = BANKS
  /\ Protocol!NoPacket = NoPacket /\ Protocol!InitBank = InitBank
  /\ Protocol!BusPackets = BusPackets
  BY DEF Protocol!RANKS, RANKS, Protocol!BANKS, BANKS, Protocol!NoPacket, NoPacket,
         Protocol!InitBank, InitBank, Protocol!BusPackets, BusPackets,
         Protocol!CommandTypes, CommandTypes, Protocol!ColumnTypes, ColumnTypes,
         Protocol!ROWS, ROWS, Protocol!COLS, COLS

LEMMA SameDelays ==
  /\ \A v, w : Protocol!Later(v, w) = Later(v, w)
  /\ \A w : Protocol!Sooner(w) = Sooner(w)
  /\ Protocol!BURST = BURST /\ Protocol!RL = RL /\ Protocol!WL = WL
  /\ Protocol!READ_TO_PRE_DELAY = READ_TO_PRE_DELAY
  /\ Protocol!WRITE_TO_PRE_DELAY = WRITE_TO_PRE_DELAY
  /\ Protocol!READ_TO_WRITE_DELAY = READ_TO_WRITE_DELAY
  /\ Protocol!READ_AUTOPRE_DELAY = READ_AUTOPRE_DELAY
  /\ Protocol!WRITE_AUTOPRE_DELAY = WRITE_AUTOPRE_DELAY
  /\ Protocol!WRITE_TO_READ_DELAY_B = WRITE_TO_READ_DELAY_B
  /\ Protocol!WRITE_TO_READ_DELAY_R = WRITE_TO_READ_DELAY_R
  BY DEF Protocol!Later, Later, Protocol!Sooner, Sooner, Protocol!BURST, BURST,
         Protocol!RL, RL, Protocol!WL, WL,
         Protocol!READ_TO_PRE_DELAY, READ_TO_PRE_DELAY,
         Protocol!WRITE_TO_PRE_DELAY, WRITE_TO_PRE_DELAY,
         Protocol!READ_TO_WRITE_DELAY, READ_TO_WRITE_DELAY,
         Protocol!READ_AUTOPRE_DELAY, READ_AUTOPRE_DELAY,
         Protocol!WRITE_AUTOPRE_DELAY, WRITE_AUTOPRE_DELAY,
         Protocol!WRITE_TO_READ_DELAY_B, WRITE_TO_READ_DELAY_B,
         Protocol!WRITE_TO_READ_DELAY_R, WRITE_TO_READ_DELAY_R

LEMMA SameBankSteps ==
  ASSUME NEW m
  PROVE  /\ Protocol!Step(m) = Step(m) /\ Protocol!CountDown(m) = CountDown(m)
         /\ Protocol!PoweredDown(m) = PoweredDown(m) /\ Protocol!PoweredUp(m) = PoweredUp(m)
  BY SameDelays DEF Protocol!Step, Step, Protocol!CountDown, CountDown,
         Protocol!PoweredDown, PoweredDown, Protocol!PoweredUp, PoweredUp

LEMMA SameCommand ==
  ASSUME NEW c, NEW r, NEW b, NEW m
  PROVE  Protocol!AfterCommand(c, r, b, m) = AfterCommand(c, r, b, m)
  <1>1. Protocol!AfterReadElsewhere(c, r, m) = AfterReadElsewhere(c, r, m)
    BY SameDelays DEF Protocol!AfterReadElsewhere, AfterReadElsewhere
  <1>2. Protocol!AfterWriteElsewhere(c, r, m) = AfterWriteElsewhere(c, r, m)
    BY SameDelays DEF Protocol!AfterWriteElsewhere, AfterWriteElsewhere
  <1>3. Protocol!AfterRead(c, r, b, m) = AfterRead(c, r, b, m)
    BY <1>1, SameDelays DEF Protocol!AfterRead, AfterRead
  <1>4. Protocol!AfterWrite(c, r, b, m) = AfterWrite(c, r, b, m)
    BY <1>2, SameDelays DEF Protocol!AfterWrite, AfterWrite
  <1>5. Protocol!AfterActivate(c, r, b, m) = AfterActivate(c, r, b, m)
    BY SameDelays DEF Protocol!AfterActivate, AfterActivate
  <1>6. /\ Protocol!AfterPrecharge(c, r, b, m) = AfterPrecharge(c, r, b, m)
        /\ Protocol!AfterRefresh(c, r, m) = AfterRefresh(c, r, m)
    BY SameDelays DEF Protocol!AfterPrecharge, AfterPrecharge, Protocol!AfterRefresh, AfterRefresh
  <1> QED
    BY <1>3, <1>4, <1>5, <1>6 DEF Protocol!AfterCommand, AfterCommand

LEMMA SameRank ==
  ASSUME NEW p, NEW b, NEW k
  PROVE  Protocol!RankAfter(p, b, k) = RankAfter(p, b, k)
  <1>1. Protocol!RankAfterRead(p, b, k) = RankAfterRead(p, b, k)
    BY SameDelays DEF Protocol!RankAfterRead, RankAfterRead
  <1>2. Protocol!RankAfterWrite(p, b, k) = RankAfterWrite(p, b, k)
    BY SameDelays DEF Protocol!RankAfterWrite, RankAfterWrite
  <1>3. Protocol!RankAfterActivate(p, b, k) = RankAfterActivate(p, b, k)
    BY SameDelays DEF Protocol!RankAfterActivate, RankAfterActivate
  <1>4. /\ Protocol!RankAfterPrecharge(p, b, k) = RankAfterPrecharge(p, b, k)
        /\ Protocol!RankAfterRefresh(k) = RankAfterRefresh(k)
    BY SameDelays DEF Protocol!RankAfterPrecharge, RankAfterPrecharge, Protocol!RankAfterRefresh,
                      RankAfterRefresh
  <1> QED
    BY <1>1, <1>2, <1>3, <1>4 DEF Protocol!RankAfter, RankAfter

LEMMA SameChecks ==
  ASSUME NEW p, NEW banks, NEW down
  PROVE  /\ Protocol!RankAccepts(p, banks) <=> RankAccepts(p, banks)
         /\ Protocol!MayPowerDown(banks) <=> MayPowerDown(banks)
         /\ Protocol!MayPowerUp(down, banks) <=> MayPowerUp(down, banks)
  BY SameSets DEF Protocol!RankAccepts, RankAccepts, Protocol!ColumnAllowed, ColumnAllowed,
         Protocol!MayPowerDown, MayPowerDown, Protocol!MayPowerUp, MayPowerUp

\* The error seen by the protocol.
ProtocolError ==
  IF error \in {"none", "command not allowed", "command bus collision",
                "power change not allowed"} THEN error ELSE "none"

LEMMA InitRefines == Init => Protocol!ProtocolInit
  BY SameSets DEF Init, MemoryControllerInit, Protocol!ProtocolInit

LEMMA BeginRefines ==
  ASSUME Begin
  PROVE  Protocol!Deliver
  <1>1. bankStates' = [r \in Protocol!RANKS |->
                         [b \in Protocol!BANKS |-> Protocol!CountDown(bankStates[r][b])]]
    <2>1. bankStates' = [r \in RANKS |-> [b \in BANKS |-> CountDown(bankStates[r][b])]]
      BY DEF Begin
    <2> QED
      BY <2>1, SameSets, SameBankSteps
  <1>2. /\ outgoingCmdPacket' = IF CommandDue THEN NoPacket ELSE outgoingCmdPacket
        /\ cmdCyclesLeft' = IF outgoingCmdPacket = NoPacket THEN cmdCyclesLeft
                            ELSE cmdCyclesLeft - 1
    BY DEF Begin, DeliverCommand
  <1>3. rankBanks' = IF CommandDue
                     THEN [rankBanks EXCEPT ![outgoingCmdPacket.rank] =
                             [b \in Protocol!BANKS |->
                                Protocol!RankAfter(outgoingCmdPacket, b,
                                                   rankBanks[outgoingCmdPacket.rank][b])]]
                     ELSE rankBanks
    <2>1. rankBanks' = IF CommandDue
                       THEN [rankBanks EXCEPT ![outgoingCmdPacket.rank] =
                               [b \in BANKS |->
                                  RankAfter(outgoingCmdPacket, b,
                                            rankBanks[outgoingCmdPacket.rank][b])]]
                       ELSE rankBanks
      BY DEF Begin, ReceiveCommand
    <2> QED
      BY <2>1, SameSets, SameRank
  <1>4. /\ ProtocolError = "none"
        /\ ProtocolError' = IF CommandDue /\ ~RankAccepts(outgoingCmdPacket,
                                                          rankBanks[outgoingCmdPacket.rank])
                            THEN "command not allowed" ELSE "none"
    BY DEF Begin, ProtocolError
  <1>5. phase = "begin" /\ phase' = "issue" /\ UNCHANGED <<powerDown, isPowerDown>>
    BY DEF Begin
  <1> QED
    BY <1>1, <1>2, <1>3, <1>4, <1>5, SameSets, SameChecks
    DEF Protocol!Deliver, CommandDue, ProtocolError

\* A command that the controller's bank states allow, put on the bus.
LEMMA IssueRefines ==
  ASSUME NEW c \in Protocol!Commands, NEW pop, IssuePopped(c, pop), Protocol!Issuable(c)
  PROVE  \E d \in Protocol!Commands : Protocol!Issue(d)
  <1>1. bankStates' = [r \in Protocol!RANKS |->
                         [b \in Protocol!BANKS |->
                            Protocol!AfterCommand(c, r, b, bankStates[r][b])]]
    <2>1. bankStates' = [r \in RANKS |->
                           [b \in BANKS |-> AfterCommand(c, r, b, bankStates[r][b])]]
      BY DEF IssuePopped, Transmit
    <2> QED
      BY <2>1, SameSets, SameCommand
  <1>2. /\ phase = "issue" /\ phase' = "end"
        /\ outgoingCmdPacket' = c /\ cmdCyclesLeft' = tCMD
        /\ UNCHANGED <<powerDown, rankBanks, isPowerDown>>
    BY DEF IssuePopped, Transmit, Idling, rankVars
  <1>3. /\ ProtocolError = "none"
        /\ ProtocolError' = IF outgoingCmdPacket # NoPacket THEN "command bus collision" ELSE "none"
    BY DEF IssuePopped, ProtocolError
  <1>4. Protocol!Issue(c)
    BY <1>1, <1>2, <1>3, SameSets DEF Protocol!Issue, ProtocolError
  <1> QED
    BY <1>4

\* The commands of the policy.
LEMMA QueuedIsCommand ==
  ASSUME NEW p \in QueueCommands
  PROVE  p \in Protocol!Commands
  <1>1. p \in BusPackets /\ p.busPacketType \in QueuedTypes
    BY DEF QueueCommands
  <1>2. p.busPacketType \in Protocol!PolicyTypes
    BY <1>1, PolicyAssumption DEF QueuedTypes, ColumnType, Protocol!PolicyTypes
  <1> QED
    BY <1>1, <1>2, SameSets DEF Protocol!Commands

LEMMA PacketIsCommand ==
  ASSUME NEW type \in {"PRECHARGE", "REFRESH"}, NEW r \in RANKS, NEW b \in BANKS,
         type = "PRECHARGE" => rowBufferPolicy = "OpenPage"
  PROVE  Packet(type, r, b, 0, 0) \in Protocol!Commands
  <1>1. 0 \in ROWS /\ 0 \in COLS
    BY GeometryAssumption DEF ROWS, COLS
  <1>2. type \in Protocol!PolicyTypes
    BY PolicyAssumption DEF Protocol!PolicyTypes
  <1>3. Packet(type, r, b, 0, 0) \in BusPackets
    BY <1>1 DEF Packet, BusPackets, CommandTypes
  <1> QED
    BY <1>2, <1>3, SameSets DEF Protocol!Commands, Packet

\* pop() finds a queued command issuable only when the bank states allow it.
LEMMA QueuedIsIssuable ==
  ASSUME NEW p \in QueueCommands, isIssuable(p)
  PROVE  Protocol!Issuable(p)
  <1>1. p.busPacketType \in {"ACTIVATE", "READ", "READ_P", "WRITE", "WRITE_P"}
    BY PolicyAssumption DEF QueueCommands, QueuedTypes, ColumnType
  <1>2. CASE p.busPacketType = "ACTIVATE"
    BY <1>2 DEF isIssuable, IsAct, Protocol!Issuable
  <1>3. CASE p.busPacketType \in {"READ", "READ_P"}
    BY <1>3 DEF isIssuable, IsAct, Protocol!Issuable
  <1>4. CASE p.busPacketType \in {"WRITE", "WRITE_P"}
    BY <1>4 DEF isIssuable, IsAct, Protocol!Issuable
  <1> QED
    BY <1>1, <1>2, <1>3, <1>4

LEMMA PopRefines ==
  ASSUME ChannelInv, IssueForRefresh \/ IssueRefresh \/ IssueQueued \/ IssuePrecharge
  PROVE  \E d \in Protocol!Commands : Protocol!Issue(d)
  <1>0. QueueInv
    BY DEF ChannelInv
  <1>1. ASSUME NEW p, IssuePopped(p, PopRefreshColumn(p)) \/ IssuePopped(p, PopQueued(p))
        PROVE  \E d \in Protocol!Commands : Protocol!Issue(d)
    <2>1. p \in QueueCommands /\ isIssuable(p)
      BY <1>0, <1>1, PopRefreshColumnSound, PopQueuedSound DEF IssuePopped
    <2> QED
      BY <1>1, <2>1, QueuedIsCommand, QueuedIsIssuable, IssueRefines
  <1>2. ASSUME NEW p, IssuePopped(p, PopRefreshPrecharge(p)) \/ IssuePopped(p, PopPrecharge(p))
        PROVE  \E d \in Protocol!Commands : Protocol!Issue(d)
    <2>1. /\ rowBufferPolicy = "OpenPage"
          /\ \E r \in RANKS, b \in BANKS : /\ p = Packet("PRECHARGE", r, b, 0, 0)
                                           /\ bankStates[r][b].currentBankState = "RowActive"
                                           /\ bankStates[r][b].nextPrecharge = 0
      BY <1>0, <1>2, PopRefreshPrechargeSound, PopPrechargeSound DEF IssuePopped
    <2>2. PICK r \in RANKS, b \in BANKS : /\ p = Packet("PRECHARGE", r, b, 0, 0)
                                          /\ bankStates[r][b].currentBankState = "RowActive"
                                          /\ bankStates[r][b].nextPrecharge = 0
      BY <2>1
    <2>3. p \in Protocol!Commands
      BY <2>1, <2>2, PacketIsCommand
    <2>4. Protocol!Issuable(p)
      BY <2>2 DEF Protocol!Issuable, Packet
    <2> QED
      BY <1>2, <2>3, <2>4, IssueRefines
  <1>3. ASSUME NEW p, IssuePopped(p, PopRefresh(p))
        PROVE  \E d \in Protocol!Commands : Protocol!Issue(d)
    <2>1. PICK r \in RANKS : /\ p = Packet("REFRESH", r, 0, 0, 0)
                             /\ \A b \in BANKS :
                                  /\ bankStates[r][b].currentBankState # "RowActive"
                                  /\ bankStates[r][b].nextActivate = 0
                             /\ bankStates[r][0].currentBankState # "PowerDown"
      BY <1>0, <1>3, PopRefreshSound DEF IssuePopped
    <2>2. 0 \in BANKS
      BY GeometryAssumption DEF BANKS
    <2>3. p \in Protocol!Commands
      BY <2>1, <2>2, PacketIsCommand
    <2>4. Protocol!Issuable(p)
      BY <2>1, SameSets DEF Protocol!Issuable, Protocol!RefreshIssuable, Packet
    <2> QED
      BY <1>3, <2>3, <2>4, IssueRefines
  <1> QED
    BY <1>1, <1>2, <1>3 DEF IssueForRefresh, IssueRefresh, IssueQueued, IssuePrecharge

LEMMA IssueNothingRefines == IssueNothing => Protocol!IssueNothing
  BY DEF IssueNothing, Idling, rankVars, Protocol!IssueNothing

LEMMA EndRefines ==
  ASSUME ChannelInv, End
  PROVE  \E down \in SUBSET Protocol!RANKS : \E up \in SUBSET (Protocol!RANKS \ down) :
           Protocol!PowerAndStep(down, up)
  <1> DEFINE idle == IdleRanks(Dispatched.queues)
             down == GoingDown(idle)
             up   == ComingUp(idle)
             Powered(r, m) == IF r \in down THEN PoweredDown(m)
                              ELSE IF r \in up THEN PoweredUp(m) ELSE m
  <1>1. /\ phase = "end" /\ phase' = "begin" /\ error = "none"
        /\ PowerAndStep(down, up)
        /\ error' = IF QueueOverrun(Dispatched.queues) THEN "command queue overrun"
                    ELSE IF ~PowerAllowed(down, up) THEN "power change not allowed"
                    ELSE IF UnknownReturn(Dispatched.pending) THEN "no pending request" ELSE "none"
        /\ UNCHANGED <<outgoingCmdPacket, cmdCyclesLeft>>
    BY DEF End
  <1>2. ~QueueOverrun(Dispatched.queues)
    BY DispatchedSound, NoOverrun DEF ChannelInv, QueueInv, DispatchSound
  <1>3. /\ down \in SUBSET Protocol!RANKS /\ up \in SUBSET (Protocol!RANKS \ down)
        /\ down \cup up # {} => USE_LOW_POWER
        /\ \A r \in down : \A b \in Protocol!BANKS : bankStates[r][b].currentBankState = "Idle"
        /\ \A r \in up : powerDown[r] /\ bankStates[r][0].nextPowerUp = 0
    BY SameSets DEF IdleRanks, GoingDown, ComingUp
  <1> HIDE DEF down, up
  <1>4. /\ powerDown' = [r \in Protocol!RANKS |-> r \in down \/ (powerDown[r] /\ r \notin up)]
        /\ isPowerDown' = [r \in Protocol!RANKS |-> r \in down \/ (isPowerDown[r] /\ r \notin up)]
    BY <1>1, SameSets DEF PowerAndStep
  <1>5. /\ bankStates' = [r \in RANKS |-> [b \in BANKS |-> Step(Powered(r, bankStates[r][b]))]]
        /\ rankBanks' = [r \in RANKS |-> [b \in BANKS |-> Step(Powered(r, rankBanks[r][b]))]]
    BY <1>1 DEF PowerAndStep
  <1>6. /\ ProtocolError = "none"
        /\ ProtocolError' = IF PowerAllowed(down, up) THEN "none" ELSE "power change not allowed"
    BY <1>1, <1>2 DEF ProtocolError
  <1> DEFINE Copied(r, m) == IF r \in down THEN Protocol!PoweredDown(m)
                             ELSE IF r \in up THEN Protocol!PoweredUp(m) ELSE m
  <1>7. /\ bankStates' = [r \in Protocol!RANKS |-> [b \in Protocol!BANKS |->
                            Protocol!Step(Copied(r, bankStates[r][b]))]]
        /\ rankBanks' = [r \in Protocol!RANKS |-> [b \in Protocol!BANKS |->
                           Protocol!Step(Copied(r, rankBanks[r][b]))]]
    <2>1. \A r, m : Protocol!Step(Copied(r, m)) = Step(Powered(r, m))
      BY SameBankSteps
    <2> HIDE DEF Copied, Powered
    <2> QED
      BY <1>5, <2>1, SameSets
  <1>8. ProtocolError' = IF /\ \A r \in down : Protocol!MayPowerDown(rankBanks[r])
                            /\ \A r \in up : Protocol!MayPowerUp(isPowerDown[r], rankBanks[r])
                         THEN "none" ELSE "power change not allowed"
    BY <1>6, SameChecks DEF PowerAllowed
  <1>9. Protocol!PowerAndStep(down, up)
    BY <1>1, <1>3, <1>4, <1>6, <1>7, <1>8 DEF Protocol!PowerAndStep, ProtocolError
  <1> QED
    BY <1>3, <1>9

\* Adding a transaction does not concern the protocol.
LEMMA AddRefines ==
  ASSUME NEW t \in Transactions, AddTransaction(t) \/ ParkTransaction(t)
  PROVE  UNCHANGED Protocol!protocolVars
  BY DEF AddTransaction, ParkTransaction, controllerVars, rankVars, Protocol!protocolVars

\* The scheduler, the power logic and the buses implement the command protocol: what
\* pop() sends is always allowed by the controller's own bank states.
THEOREM ChannelImplementsProtocol == Spec => ImplementsProtocol
  <1>1. ChannelInv /\ [Next]_vars => [Protocol!ProtocolNext]_(Protocol!protocolVars)
    <2> SUFFICES ASSUME ChannelInv, [Next]_vars
                 PROVE  Protocol!ProtocolNext \/ UNCHANGED Protocol!protocolVars
      OBVIOUS
    <2>1. CASE UNCHANGED vars
      BY <2>1 DEF vars, controllerVars, rankVars, Protocol!protocolVars
    <2>2. CASE \E t \in Transactions : AddTransaction(t) \/ ParkTransaction(t)
      BY <2>2, AddRefines
    <2>3. CASE Begin
      BY <2>3, BeginRefines DEF Protocol!ProtocolNext
    <2>4. CASE IssueForRefresh \/ IssueRefresh \/ IssueQueued \/ IssuePrecharge
      BY <2>4, PopRefines DEF Protocol!ProtocolNext
    <2>5. CASE IssueNothing
      BY <2>5, IssueNothingRefines DEF Protocol!ProtocolNext
    <2>6. CASE End
      BY <2>6, EndRefines DEF Protocol!ProtocolNext
    <2> QED
      BY <2>1, <2>2, <2>3, <2>4, <2>5, <2>6 DEF Next, Update
  <1> QED
    BY <1>1, InitRefines, ChannelInvariance, PTL DEF Spec, ImplementsProtocol, Protocol!ProtocolSpec

-----------------------------------------------------------------------------
(* So what is proved of the protocol holds in the channel. *)

Checked == INSTANCE CommandProtocolProofs WITH error <- ProtocolError

LEMMA SameProtocolInit == Protocol!ProtocolInit => Checked!ProtocolInit
  BY DEF Protocol!ProtocolInit, Checked!ProtocolInit, Protocol!InitBank, Checked!InitBank,
         Protocol!NoPacket, Checked!NoPacket, Protocol!RANKS, Checked!RANKS, Protocol!BANKS,
         Checked!BANKS, ProtocolError

LEMMA SameDeliver == Protocol!Deliver => Checked!Deliver
  BY DEF Protocol!Deliver, Checked!Deliver, Protocol!CountDown, Checked!CountDown,
         Protocol!NoPacket, Checked!NoPacket, Protocol!RankAccepts, Checked!RankAccepts,
         Protocol!RankAfter, Checked!RankAfter, Protocol!RankAfterRead, Checked!RankAfterRead,
         Protocol!RankAfterWrite, Checked!RankAfterWrite, Protocol!RankAfterActivate,
         Checked!RankAfterActivate, Protocol!RankAfterPrecharge, Checked!RankAfterPrecharge,
         Protocol!RankAfterRefresh, Checked!RankAfterRefresh, Protocol!ColumnAllowed,
         Checked!ColumnAllowed, Protocol!RANKS, Checked!RANKS, Protocol!BANKS, Checked!BANKS,
         Protocol!Later, Checked!Later, Protocol!Sooner, Checked!Sooner, Protocol!RL,
         Checked!RL, Protocol!WL, Checked!WL, Protocol!BURST, Checked!BURST,
         Protocol!READ_TO_PRE_DELAY, Checked!READ_TO_PRE_DELAY, Protocol!WRITE_TO_PRE_DELAY,
         Checked!WRITE_TO_PRE_DELAY, Protocol!READ_TO_WRITE_DELAY, Checked!READ_TO_WRITE_DELAY,
         Protocol!READ_AUTOPRE_DELAY, Checked!READ_AUTOPRE_DELAY, Protocol!WRITE_AUTOPRE_DELAY,
         Checked!WRITE_AUTOPRE_DELAY, Protocol!WRITE_TO_READ_DELAY_B,
         Checked!WRITE_TO_READ_DELAY_B, Protocol!WRITE_TO_READ_DELAY_R,
         Checked!WRITE_TO_READ_DELAY_R, ProtocolError

LEMMA SameIssue ==
  ASSUME NEW c \in Protocol!Commands, Protocol!Issue(c)
  PROVE  \E d \in Checked!Commands : Checked!Issue(d)
  <1>1. c \in Checked!Commands
    BY DEF Protocol!Commands, Checked!Commands, Protocol!PolicyTypes, Checked!PolicyTypes,
           Protocol!BusPackets, Checked!BusPackets, Protocol!CommandTypes,
           Checked!CommandTypes, Protocol!ColumnTypes, Checked!ColumnTypes, Protocol!ROWS,
           Checked!ROWS, Protocol!COLS, Checked!COLS, Protocol!RANKS, Checked!RANKS,
           Protocol!BANKS, Checked!BANKS, ProtocolError
  <1>2. Checked!Issue(c)
    BY DEF Protocol!Issue, Checked!Issue, Protocol!Issuable, Checked!Issuable,
           Protocol!RefreshIssuable, Checked!RefreshIssuable, Protocol!NoPacket,
           Checked!NoPacket, Protocol!AfterCommand, Checked!AfterCommand, Protocol!AfterRead,
           Checked!AfterRead, Protocol!AfterReadElsewhere, Checked!AfterReadElsewhere,
           Protocol!AfterWrite, Checked!AfterWrite, Protocol!AfterWriteElsewhere,
           Checked!AfterWriteElsewhere, Protocol!AfterActivate, Checked!AfterActivate,
           Protocol!AfterPrecharge, Checked!AfterPrecharge, Protocol!AfterRefresh,
           Checked!AfterRefresh, Protocol!RANKS, Checked!RANKS, Protocol!BANKS, Checked!BANKS,
           Protocol!Later, Checked!Later, Protocol!Sooner, Checked!Sooner, Protocol!RL,
           Checked!RL, Protocol!WL, Checked!WL, Protocol!BURST, Checked!BURST,
           Protocol!READ_TO_PRE_DELAY, Checked!READ_TO_PRE_DELAY, Protocol!WRITE_TO_PRE_DELAY,
           Checked!WRITE_TO_PRE_DELAY, Protocol!READ_TO_WRITE_DELAY,
           Checked!READ_TO_WRITE_DELAY, Protocol!READ_AUTOPRE_DELAY,
           Checked!READ_AUTOPRE_DELAY, Protocol!WRITE_AUTOPRE_DELAY,
           Checked!WRITE_AUTOPRE_DELAY, Protocol!WRITE_TO_READ_DELAY_B,
           Checked!WRITE_TO_READ_DELAY_B, Protocol!WRITE_TO_READ_DELAY_R,
           Checked!WRITE_TO_READ_DELAY_R, ProtocolError
  <1> QED
    BY <1>1, <1>2

LEMMA SameIssueNothing == Protocol!IssueNothing => Checked!IssueNothing
  BY DEF Protocol!IssueNothing, Checked!IssueNothing, ProtocolError

LEMMA SamePowerAndStep ==
  ASSUME NEW down, NEW up, Protocol!PowerAndStep(down, up)
  PROVE  Checked!PowerAndStep(down, up)
  BY DEF Protocol!PowerAndStep, Checked!PowerAndStep, Protocol!Step, Checked!Step,
         Protocol!PoweredDown, Checked!PoweredDown, Protocol!PoweredUp, Checked!PoweredUp,
         Protocol!MayPowerDown, Checked!MayPowerDown, Protocol!MayPowerUp, Checked!MayPowerUp,
         Protocol!Sooner, Checked!Sooner, Protocol!RANKS, Checked!RANKS, Protocol!BANKS,
         Checked!BANKS, ProtocolError

LEMMA SameProtocol == Protocol!ProtocolSpec => Checked!ProtocolSpec
  <1>1. [Protocol!ProtocolNext]_(Protocol!protocolVars) => [Checked!ProtocolNext]_(Checked!protocolVars)
    <2> SUFFICES ASSUME Protocol!ProtocolNext PROVE Checked!ProtocolNext
      BY DEF Protocol!protocolVars, Checked!protocolVars, ProtocolError
    <2>1. CASE Protocol!Deliver
      BY <2>1, SameDeliver DEF Checked!ProtocolNext
    <2>2. CASE \E c \in Protocol!Commands : Protocol!Issue(c)
      BY <2>2, SameIssue DEF Checked!ProtocolNext
    <2>3. CASE Protocol!IssueNothing
      BY <2>3, SameIssueNothing DEF Checked!ProtocolNext
    <2>4. CASE \E down \in SUBSET Protocol!RANKS :
                 \E up \in SUBSET (Protocol!RANKS \ down) : Protocol!PowerAndStep(down, up)
      <3>1. Protocol!RANKS = Checked!RANKS
        BY DEF Protocol!RANKS, Checked!RANKS
      <3> QED
        BY <2>4, <3>1, SamePowerAndStep DEF Checked!ProtocolNext
    <2> QED
      BY <2>1, <2>2, <2>3, <2>4 DEF Protocol!ProtocolNext
  <1> QED
    BY <1>1, SameProtocolInit, PTL DEF Protocol!ProtocolSpec, Checked!ProtocolSpec

LEMMA ChannelChecked == Spec => [](Checked!RankNeverRejects /\ Checked!ProtocolTypeOK)
  <1>1. Checked!READ_AUTOPRE_DELAY >= Checked!READ_TO_PRE_DELAY
    BY AutoPrechargeAssumption
    DEF Checked!READ_AUTOPRE_DELAY, READ_AUTOPRE_DELAY, Checked!READ_TO_PRE_DELAY,
        READ_TO_PRE_DELAY, Checked!BURST, BURST, Checked!Later, Later
  <1>2. Checked!ProtocolSpec => []Checked!RankNeverRejects
    BY Checked!RanksNeverReject, <1>1, GeometryAssumption, TimingAssumption,
       CommandBusAssumption, PolicyAssumption
    DEF Checked!RanksNeverReject
  <1>3. Checked!ProtocolSpec => []Checked!ProtocolTypeOK
    BY Checked!ProtocolTypeCorrect, <1>1, GeometryAssumption, TimingAssumption,
       CommandBusAssumption, PolicyAssumption
    DEF Checked!ProtocolTypeCorrect
  <1>4. ImplementsProtocol => Checked!ProtocolSpec
    BY SameProtocol DEF ImplementsProtocol
  <1> QED
    BY <1>2, <1>3, <1>4, ChannelImplementsProtocol, PTL

\* No rank of the channel receives a command or a power change that its own bank
\* states forbid, and no two commands meet on the command bus.
THEOREM ChannelNeverRejected ==
  Spec => [](error \notin {"command not allowed", "command bus collision",
                           "power change not allowed"})
  <1>1. Checked!RankNeverRejects => error \notin {"command not allowed", "command bus collision",
                                                  "power change not allowed"}
    BY DEF Checked!RankNeverRejects, ProtocolError
  <1> QED
    BY <1>1, ChannelChecked, PTL

\* Nor does the channel ever cut short a bank's wait for its next ACTIVATE, with the
\* delays that ActivateWaitAlwaysKept asks for.
THEOREM ChannelKeepsActivateWait ==
  ASSUME Checked!PowerUpTiming
  PROVE  Spec => [][\A r \in RANKS, b \in BANKS :
                      bankStates'[r][b].nextActivate >= Sooner(bankStates[r][b].nextActivate)]_bankStates
  <1>1. Checked!READ_AUTOPRE_DELAY >= Checked!READ_TO_PRE_DELAY
    BY AutoPrechargeAssumption
    DEF Checked!READ_AUTOPRE_DELAY, READ_AUTOPRE_DELAY, Checked!READ_TO_PRE_DELAY,
        READ_TO_PRE_DELAY, Checked!BURST, BURST, Checked!Later, Later
  <1>2. Checked!ProtocolSpec => Checked!ActivateWaitKept
    BY Checked!ActivateWaitAlwaysKept, <1>1, GeometryAssumption, TimingAssumption,
       CommandBusAssumption, PolicyAssumption
    DEF Checked!ActivateWaitAlwaysKept
  <1>3. ImplementsProtocol => Checked!ProtocolSpec
    BY SameProtocol DEF ImplementsProtocol
  <1>4. [\A r \in Checked!RANKS, b \in Checked!BANKS :
           bankStates'[r][b].nextActivate
             >= Checked!Sooner(bankStates[r][b].nextActivate)]_(Checked!protocolVars)
        => [\A r \in RANKS, b \in BANKS :
              bankStates'[r][b].nextActivate >= Sooner(bankStates[r][b].nextActivate)]_bankStates
    BY DEF Checked!RANKS, RANKS, Checked!BANKS, BANKS, Checked!Sooner, Sooner, Checked!protocolVars
  <1> QED
    BY <1>2, <1>3, <1>4, ChannelImplementsProtocol, PTL DEF Checked!ActivateWaitKept

-----------------------------------------------------------------------------
(* Data on its way: the FIFOs of write data and of read data, and the bursts. *)

Entries(max) == [packet : BusPackets, countdown : 1 .. max]

\* The entries of a FIFO run out one after the other, the front first.
Counting(s, max) ==
  s \in Seq(Entries(max)) /\ \A i, j \in DOMAIN s : i < j => s[i].countdown < s[j].countdown

\* A cycle later: the front leaves when its countdown is over.
Ticked(s) ==
  LET left == [i \in DOMAIN s |-> [s[i] EXCEPT !.countdown = @ - 1]]
  IN  IF s # <<>> /\ s[1].countdown = 1 THEN Tail(left) ELSE left

LEMMA TickedCounting ==
  ASSUME NEW max \in Nat, NEW s, Counting(s, max)
  PROVE  Counting(Ticked(s), max) /\ \A i \in DOMAIN Ticked(s) : Ticked(s)[i].countdown < max
  <1> DEFINE left == [i \in DOMAIN s |-> [s[i] EXCEPT !.countdown = @ - 1]]
  <1>1. /\ s \in Seq(Entries(max)) /\ Len(s) \in Nat /\ DOMAIN s = 1 .. Len(s)
        /\ \A i, j \in DOMAIN s : i < j => s[i].countdown < s[j].countdown
    BY DEF Counting
  <1>2. Ticked(s) = IF s # <<>> /\ s[1].countdown = 1 THEN Tail(left) ELSE left
    BY DEF Ticked
  <1>3. \A i \in 1 .. Len(s) :
          /\ s[i].countdown \in 1 .. max /\ left[i].countdown = s[i].countdown - 1
          /\ left[i] \in [packet : BusPackets, countdown : 0 .. max - 1]
    <2> TAKE i \in 1 .. Len(s)
    <2>1. s[i] \in Entries(max)
      BY <1>1
    <2>2. s[i].countdown - 1 \in 0 .. max - 1
      BY <2>1 DEF Entries
    <2> QED
      BY <1>1, <2>1, <2>2 DEF Entries
  <1>4. left \in Seq([packet : BusPackets, countdown : 0 .. max - 1]) /\ Len(left) = Len(s)
    <2>1. left \in [1 .. Len(s) -> [packet : BusPackets, countdown : 0 .. max - 1]]
      BY <1>1, <1>3
    <2> QED
      BY <2>1, <1>1
  <1> HIDE DEF left
  <1>5. \A i, j \in 1 .. Len(s) : i < j => left[i].countdown < left[j].countdown
    <2> TAKE i, j \in 1 .. Len(s)
    <2>1. i < j => s[i].countdown < s[j].countdown
      BY <1>1
    <2>2. /\ s[i].countdown \in 1 .. max /\ left[i].countdown = s[i].countdown - 1
          /\ s[j].countdown \in 1 .. max /\ left[j].countdown = s[j].countdown - 1
      BY <1>3
    <2> QED
      BY <2>1, <2>2
  <1>6. CASE s # <<>> /\ s[1].countdown = 1
    <2> DEFINE rest == Tail(left)
    <2>0. Len(s) >= 1
      BY <1>1, <1>6
    <2>1. /\ rest \in Seq([packet : BusPackets, countdown : 0 .. max - 1])
          /\ Len(rest) = Len(s) - 1 /\ \A i \in 1 .. Len(s) - 1 : rest[i] = left[i+1]
      BY <1>1, <1>4, <2>0
    <2> HIDE DEF rest
    <2>2. \A i \in 1 .. Len(s) - 1 : rest[i] \in Entries(max) /\ rest[i].countdown < max
      <3> TAKE i \in 1 .. Len(s) - 1
      <3>1. 1 \in 1 .. Len(s) /\ i + 1 \in 1 .. Len(s) /\ 1 < i + 1
        BY <1>1
      <3>2. left[1].countdown = 0 /\ left[1].countdown < left[i+1].countdown
        BY <3>1, <1>3, <1>5, <1>6
      <3>3. /\ left[i+1] \in [packet : BusPackets, countdown : 0 .. max - 1]
            /\ rest[i] = left[i+1]
        BY <3>1, <1>3, <2>1
      <3>4. rest[i].packet \in BusPackets /\ rest[i].countdown \in 1 .. max - 1
        BY <3>2, <3>3
      <3> QED
        BY <3>3, <3>4 DEF Entries
    <2>3. rest \in Seq(Entries(max))
      BY <2>1, <2>2, SeqOfElements
    <2>4. \A i, j \in 1 .. Len(s) - 1 : i < j => rest[i].countdown < rest[j].countdown
      <3> TAKE i, j \in 1 .. Len(s) - 1
      <3>1. i + 1 \in 1 .. Len(s) /\ j + 1 \in 1 .. Len(s) /\ (i < j => i + 1 < j + 1)
        BY <1>1
      <3> QED
        BY <3>1, <2>1, <1>5
    <2>5. Ticked(s) = rest /\ DOMAIN rest = 1 .. Len(s) - 1
      BY <1>1, <1>2, <1>6, <2>1 DEF rest
    <2> QED
      BY <2>2, <2>3, <2>4, <2>5 DEF Counting
  <1>7. CASE ~(s # <<>> /\ s[1].countdown = 1)
    <2>1. \A i \in 1 .. Len(s) : left[i] \in Entries(max) /\ left[i].countdown < max
      <3> TAKE i \in 1 .. Len(s)
      <3>1. 1 \in 1 .. Len(s) /\ s # <<>>
        BY <1>1
      <3>2. s[1].countdown \in 1 .. max /\ s[1].countdown # 1 /\ left[1].countdown = s[1].countdown - 1
        BY <3>1, <1>3, <1>7
      <3>3. i = 1 \/ left[1].countdown < left[i].countdown
        BY <3>1, <1>1, <1>5
      <3>4. left[i] \in [packet : BusPackets, countdown : 0 .. max - 1]
        BY <1>3
      <3>5. left[i].packet \in BusPackets /\ left[i].countdown \in 1 .. max - 1
        BY <3>2, <3>3, <3>4
      <3> QED
        BY <3>4, <3>5 DEF Entries
    <2>2. left \in Seq(Entries(max))
      BY <2>1, <1>4, SeqOfElements
    <2>3. Ticked(s) = left /\ DOMAIN left = 1 .. Len(s)
      BY <1>1, <1>2, <1>4, <1>7
    <2> QED
      BY <2>1, <2>2, <2>3, <1>5 DEF Counting
  <1> QED
    BY <1>6, <1>7

\* One more entry, behind entries that run out before it.
LEMMA AppendCounting ==
  ASSUME NEW max \in Nat \ {0}, NEW s, Counting(s, max), NEW p \in BusPackets,
         \A i \in DOMAIN s : s[i].countdown < max
  PROVE  Counting(Append(s, [packet |-> p, countdown |-> max]), max)
  <1> DEFINE e   == [packet |-> p, countdown |-> max]
             new == Append(s, e)
  <1>1. /\ s \in Seq(Entries(max)) /\ Len(s) \in Nat /\ DOMAIN s = 1 .. Len(s)
        /\ \A i, j \in DOMAIN s : i < j => s[i].countdown < s[j].countdown
    BY DEF Counting
  <1>2. e \in Entries(max) /\ e.countdown = max
    BY DEF Entries
  <1> HIDE DEF e
  <1>3. /\ new \in Seq(Entries(max)) /\ Len(new) = Len(s) + 1 /\ DOMAIN new = 1 .. Len(s) + 1
        /\ new[Len(s) + 1] = e /\ \A i \in 1 .. Len(s) : new[i] = s[i]
    BY <1>1, <1>2
  <1> HIDE DEF new
  <1>4. ASSUME NEW i \in DOMAIN new, NEW j \in DOMAIN new, i < j
        PROVE  new[i].countdown < new[j].countdown
    <2>1. i \in 1 .. Len(s) /\ new[i] = s[i]
      BY <1>1, <1>3, <1>4
    <2>2. CASE j = Len(s) + 1
      BY <1>1, <1>2, <1>3, <2>1, <2>2
    <2>3. CASE j # Len(s) + 1
      <3>1. j \in 1 .. Len(s) /\ new[j] = s[j]
        BY <1>1, <1>3, <2>3
      <3> QED
        BY <1>1, <1>4, <2>1, <3>1
    <2> QED
      BY <2>2, <2>3
  <1> QED
    BY <1>3, <1>4 DEF Counting, new, e

\* A data bus: a packet on it has cycles left.
Bursting(p, left) ==
  p \in BusPackets \cup {NoPacket} /\ left \in 0 .. BURST /\ (p # NoPacket => left >= 1)

\* A cycle later, with the next packet when one is due.
LEMMA NextBurst ==
  ASSUME NEW p, NEW left, Bursting(p, left), NEW due \in BOOLEAN, NEW q, due => q \in BusPackets
  PROVE  Bursting(IF due THEN q ELSE IF p # NoPacket /\ left = 1 THEN NoPacket ELSE p,
                  IF due THEN BURST ELSE IF p # NoPacket THEN left - 1 ELSE left)
  <1>1. BURST \in Nat \ {0}
    BY TimingAssumption DEF BURST
  <1> QED
    BY <1>1 DEF Bursting

\* The ranks hand the controller their bursts: the recursive function is defined.
LEMMA ReceivedExists ==
  ASSUME NEW n \in Nat
  PROVE  \E f : f = [k \in 0 .. n |->
                       IF k = 0 THEN returnTransaction
                       ELSE IF BurstDone(k - 1) THEN Append(f[k-1], rankDataPacket[k-1])
                       ELSE f[k-1]]
  <1> DEFINE After(f, k) == IF BurstDone(k - 1) THEN Append(f[k-1], rankDataPacket[k-1])
                            ELSE f[k-1]
             Good(m) == \E f : f = [k \in 0 .. m |-> IF k = 0 THEN returnTransaction
                                                     ELSE After(f, k)]
             Bad == {m \in Nat : ~Good(m)}
  <1>1. SUFFICES ASSUME Bad # {} PROVE FALSE
    OBVIOUS
  <1>2. PICK m \in Bad : \A k \in Bad : m <= k
    BY <1>1, LeastNumber
  <1>3. CASE m = 0
    <2> DEFINE f == [k \in 0 .. m |-> returnTransaction]
    <2> HIDE DEF After
    <2>1. \A k \in 0 .. m : f[k] = IF k = 0 THEN returnTransaction ELSE After(f, k)
      BY <1>3
    <2>2. f = [k \in 0 .. m |-> f[k]]
      OBVIOUS
    <2> HIDE DEF f
    <2>3. f = [k \in 0 .. m |-> IF k = 0 THEN returnTransaction ELSE After(f, k)]
      BY <2>1, <2>2
    <2>4. Good(m)
      BY <2>3
    <2> QED
      BY <1>2, <2>4
  <1>4. CASE m # 0
    <2>1. m \in Nat /\ m - 1 \in Nat /\ m - 1 \notin Bad
      <3>1. m \in Nat
        BY <1>2
      <3> HIDE DEF Bad
      <3> QED
        BY <3>1, <1>2, <1>4
    <2>2. PICK f : f = [k \in 0 .. m - 1 |-> IF k = 0 THEN returnTransaction ELSE After(f, k)]
      BY <2>1
    <2> DEFINE g == [k \in 0 .. m |-> IF k = m THEN After(f, m) ELSE f[k]]
    <2>3. \A k \in 0 .. m - 1 : g[k] = f[k]
      BY <2>1
    <2>4. ASSUME NEW k \in 0 .. m
          PROVE  g[k] = IF k = 0 THEN returnTransaction ELSE After(g, k)
      <3>1. CASE k = m
        <4>1. g[k-1] = f[k-1] /\ g[k] = After(f, k)
          BY <1>4, <2>1, <2>3, <3>1
        <4> QED
          BY <1>4, <3>1, <4>1
      <3>2. CASE k # m
        <4>1. k \in 0 .. m - 1 /\ g[k] = f[k]
          BY <2>1, <2>3, <3>2
        <4>2. f[k] = IF k = 0 THEN returnTransaction ELSE After(f, k)
          <5> HIDE DEF After
          <5> QED
            BY <2>2, <4>1
        <4>3. k # 0 => g[k-1] = f[k-1]
          BY <2>1, <2>3, <4>1
        <4> HIDE DEF g
        <4> QED
          BY <4>1, <4>2, <4>3
      <3> QED
        BY <3>1, <3>2
    <2>5. g = [k \in 0 .. m |-> g[k]]
      OBVIOUS
    <2> HIDE DEF g, After
    <2>6. g = [k \in 0 .. m |-> IF k = 0 THEN returnTransaction ELSE After(g, k)]
      BY <2>4, <2>5
    <2> QED
      BY <1>2, <2>6
  <1> QED
    BY <1>3, <1>4

LEMMA ReceivedType ==
  ASSUME returnTransaction \in Seq(BusPackets),
         \A r \in RANKS : rankDataPacket[r] \in BusPackets \cup {NoPacket}
  PROVE  Received[NUM_RANKS] \in Seq(BusPackets)
  <1>1. \E f : f = [k \in 0 .. NUM_RANKS |->
                      IF k = 0 THEN returnTransaction
                      ELSE IF BurstDone(k - 1) THEN Append(f[k-1], rankDataPacket[k-1])
                      ELSE f[k-1]]
    BY ReceivedExists, GeometryAssumption
  <1>2. Received = [k \in 0 .. NUM_RANKS |->
                      IF k = 0 THEN returnTransaction
                      ELSE IF BurstDone(k - 1) THEN Append(Received[k-1], rankDataPacket[k-1])
                      ELSE Received[k-1]]
    BY <1>1, Zenon DEF Received
  <1> DEFINE Bad == {k \in 0 .. NUM_RANKS : Received[k] \notin Seq(BusPackets)}
  <1>3. SUFFICES ASSUME Bad # {} PROVE FALSE
    BY GeometryAssumption
  <1>4. PICK m \in Bad : \A k \in Bad : m <= k
    <2>1. Bad \subseteq Nat
      BY GeometryAssumption
    <2> QED
      BY <2>1, <1>3, LeastNumber
  <1>5. m \in 0 .. NUM_RANKS /\ Received[m] \notin Seq(BusPackets)
    BY <1>4
  <1>6. m # 0
    BY <1>2, <1>5
  <1>7. m - 1 \in 0 .. NUM_RANKS /\ m - 1 \in RANKS /\ m - 1 \notin Bad
    BY <1>4, <1>5, <1>6, GeometryAssumption DEF RANKS
  <1>8. Received[m-1] \in Seq(BusPackets)
    BY <1>7
  <1>9. Received[m] = IF BurstDone(m - 1) THEN Append(Received[m-1], rankDataPacket[m-1])
                      ELSE Received[m-1]
    BY <1>2, <1>5, <1>6
  <1>10. CASE BurstDone(m - 1)
    <2>1. rankDataPacket[m-1] \in BusPackets
      BY <1>7, <1>10 DEF BurstDone
    <2>2. Append(Received[m-1], rankDataPacket[m-1]) \in Seq(BusPackets)
      BY <1>8, <2>1, AppendProperties
    <2> QED
      BY <1>5, <1>9, <1>10, <2>2
  <1>11. CASE ~BurstDone(m - 1)
    BY <1>5, <1>8, <1>9, <1>11
  <1> QED
    BY <1>10, <1>11

\* The data of the channel.
DataInv ==
  /\ outgoingCmdPacket \in BusPackets \cup {NoPacket}
  /\ returnTransaction \in Seq(BusPackets)
  /\ Bursting(outgoingDataPacket, dataCyclesLeft)
  /\ Counting(writeData, WL)
  /\ phase = "issue" => \A i \in DOMAIN writeData : writeData[i].countdown < WL
  /\ \A r \in RANKS : Bursting(rankDataPacket[r], rankDataCyclesLeft[r])
  /\ \A r \in RANKS : Counting(readReturn[r], RL)
  /\ rankDataPacket = [r \in RANKS |-> rankDataPacket[r]]
  /\ rankDataCyclesLeft = [r \in RANKS |-> rankDataCyclesLeft[r]]
  /\ readReturn = [r \in RANKS |-> readReturn[r]]
  /\ rankRefreshWaiting \in [RANKS -> BOOLEAN]
  /\ outstanding \in [Transactions -> Nat]
  /\ added \in 0 .. MaxTransactions
  /\ phase \in {"begin", "issue", "end"}
  /\ error \in Exits

LEMMA LatencyFacts == RL \in Nat \ {0} /\ WL \in Nat \ {0} /\ BURST \in Nat \ {0}
  BY TimingAssumption DEF RL, WL, BURST

LEMMA DataInit == Init => DataInv
  <1> SUFFICES ASSUME Init PROVE DataInv
    OBVIOUS
  <1>1. Counting(<<>>, WL) /\ Counting(<<>>, RL)
    BY EmptySeq DEF Counting
  <1>2. Bursting(NoPacket, 0)
    BY LatencyFacts DEF Bursting
  <1>3. <<>> \in Seq(BusPackets)
    BY EmptySeq
  <1>4. /\ outgoingCmdPacket = NoPacket /\ returnTransaction = <<>>
        /\ outgoingDataPacket = NoPacket /\ dataCyclesLeft = 0 /\ writeData = <<>>
    BY DEF Init, MemoryControllerInit
  <1>5. /\ rankDataPacket = [r \in RANKS |-> NoPacket] /\ rankDataCyclesLeft = [r \in RANKS |-> 0]
        /\ readReturn = [r \in RANKS |-> <<>>] /\ rankRefreshWaiting = [r \in RANKS |-> FALSE]
        /\ outstanding = [t \in Transactions |-> 0] /\ added = 0
        /\ phase = "begin" /\ error = "none"
    BY DEF Init
  <1> QED
    BY <1>1, <1>2, <1>3, <1>4, <1>5, FrontEndAssumption DEF DataInv, Exits

\* A command packet turned into its data packet.
LEMMA DataPacketType ==
  ASSUME NEW p \in BusPackets
  PROVE  [p EXCEPT !.busPacketType = "DATA"] \in BusPackets
  BY DEF BusPackets

\* One call back less.
LEMMA CalledBackType ==
  ASSUME outstanding \in [Transactions -> Nat], NEW t, outstanding[t] # 0
  PROVE  CalledBack(t, outstanding) \in [Transactions -> Nat]
  <1>1. CASE t \in Transactions
    <2>1. outstanding[t] - 1 \in Nat
      BY <1>1
    <2> QED
      BY <1>1, <2>1 DEF CalledBack
  <1>2. CASE t \notin Transactions
    BY <1>2 DEF CalledBack
  <1> QED
    BY <1>1, <1>2

LEMMA AcceptData ==
  ASSUME DataInv, NEW t \in Transactions, Accept(t)
  PROVE  outstanding' \in [Transactions -> Nat] /\ added' \in 0 .. MaxTransactions
  <1>1. outstanding \in [Transactions -> Nat] /\ added \in 0 .. MaxTransactions
    BY DEF DataInv
  <1>2. outstanding' \in [Transactions -> Nat]
    <2>1. outstanding[t] + 1 \in Nat
      BY <1>1
    <2> QED
      BY <1>1, <2>1 DEF Accept
  <1>3. added' \in 0 .. MaxTransactions
    BY <1>1, FrontEndAssumption DEF Accept
  <1> QED
    BY <1>2, <1>3

\* What DataInv is about, but for the CPU's view.
dataVars == <<outgoingCmdPacket, returnTransaction, outgoingDataPacket, dataCyclesLeft,
              writeData, rankDataPacket, rankDataCyclesLeft, readReturn,
              rankRefreshWaiting, phase, error>>

LEMMA SameData ==
  ASSUME DataInv, UNCHANGED dataVars,
         outstanding' \in [Transactions -> Nat], added' \in 0 .. MaxTransactions
  PROVE  DataInv'
  BY DEF DataInv, dataVars

LEMMA AddData ==
  ASSUME DataInv, NEW t \in Transactions, AddTransaction(t) \/ ParkTransaction(t)
  PROVE  DataInv'
  <1>1. Accept(t) /\ UNCHANGED dataVars
    BY DEF AddTransaction, ParkTransaction, dataVars, controllerVars, rankVars
  <1> QED
    BY <1>1, AcceptData, SameData

LEMMA BeginData ==
  ASSUME DataInv, Begin
  PROVE  DataInv'
  <1>1. outgoingCmdPacket' \in BusPackets \cup {NoPacket}
    BY DEF Begin, DeliverCommand, DataInv
  <1>2. returnTransaction' \in Seq(BusPackets)
    BY ReceivedType DEF Begin, RankUpdate, DataInv, Bursting
  <1>3. Counting(writeData', WL) /\ \A i \in DOMAIN writeData' : writeData'[i].countdown < WL
    <2>1. writeData' = Ticked(writeData)
      BY DEF Begin, SendWriteData, NextDataDue, Ticked
    <2> QED
      BY <2>1, TickedCounting, LatencyFacts DEF DataInv
  <1>4. Bursting(outgoingDataPacket', dataCyclesLeft')
    <2> DEFINE q == writeData[1].packet
    <2>1. /\ outgoingDataPacket' = IF NextDataDue THEN q
                                   ELSE IF outgoingDataPacket # NoPacket /\ dataCyclesLeft = 1
                                        THEN NoPacket ELSE outgoingDataPacket
          /\ dataCyclesLeft' = IF NextDataDue THEN BURST
                               ELSE IF outgoingDataPacket # NoPacket THEN dataCyclesLeft - 1
                               ELSE dataCyclesLeft
      BY DEF Begin, SendWriteData, DataDone
    <2>2. NextDataDue => q \in BusPackets
      <3> SUFFICES ASSUME NextDataDue PROVE q \in BusPackets
        OBVIOUS
      <3>1. writeData \in Seq(Entries(WL)) /\ writeData # <<>>
        BY DEF NextDataDue, DataInv, Counting
      <3>2. writeData[1] \in Entries(WL)
        BY <3>1
      <3> QED
        BY <3>2 DEF Entries
    <2>3. Bursting(outgoingDataPacket, dataCyclesLeft) /\ NextDataDue \in BOOLEAN
      BY DEF DataInv, NextDataDue
    <2> HIDE DEF q
    <2> QED
      BY <2>1, <2>2, <2>3, NextBurst
  <1>5. ASSUME NEW r \in RANKS
        PROVE  Bursting(rankDataPacket'[r], rankDataCyclesLeft'[r])
    <2> DEFINE q == readReturn[r][1].packet
    <2>1. /\ rankDataPacket'[r] = IF NextReadDue(r) THEN q
                                  ELSE IF rankDataPacket[r] # NoPacket /\ rankDataCyclesLeft[r] = 1
                                       THEN NoPacket ELSE rankDataPacket[r]
          /\ rankDataCyclesLeft'[r] = IF NextReadDue(r) THEN BURST
                                      ELSE IF rankDataPacket[r] # NoPacket
                                           THEN rankDataCyclesLeft[r] - 1
                                      ELSE rankDataCyclesLeft[r]
      BY DEF Begin, RankUpdate, BurstDone
    <2>2. NextReadDue(r) => q \in BusPackets
      <3> SUFFICES ASSUME NextReadDue(r) PROVE q \in BusPackets
        OBVIOUS
      <3>1. readReturn[r] \in Seq(Entries(RL)) /\ readReturn[r] # <<>>
        BY DEF NextReadDue, DataInv, Counting
      <3>2. readReturn[r][1] \in Entries(RL)
        BY <3>1
      <3> QED
        BY <3>2 DEF Entries
    <2>3. Bursting(rankDataPacket[r], rankDataCyclesLeft[r]) /\ NextReadDue(r) \in BOOLEAN
      BY DEF DataInv, NextReadDue
    <2> HIDE DEF q
    <2> QED
      BY <2>1, <2>2, <2>3, NextBurst
  <1>6. ASSUME NEW r \in RANKS
        PROVE  Counting(readReturn'[r], RL)
    <2> DEFINE p == outgoingCmdPacket
               e == [packet |-> [p EXCEPT !.busPacketType = "DATA"], countdown |-> RL]
    <2>1. readReturn'[r] = IF CommandDue /\ p.rank = r /\ IsRead(p)
                           THEN Append(Ticked(readReturn[r]), e) ELSE Ticked(readReturn[r])
      BY DEF Begin, RankUpdate, NextReadDue, Ticked
    <2>2. /\ Counting(Ticked(readReturn[r]), RL)
          /\ \A i \in DOMAIN Ticked(readReturn[r]) : Ticked(readReturn[r])[i].countdown < RL
      BY TickedCounting, LatencyFacts DEF DataInv
    <2>3. CommandDue => p \in BusPackets
      BY DEF CommandDue, DataInv
    <2>4. CommandDue => Counting(Append(Ticked(readReturn[r]), e), RL)
      BY <2>2, <2>3, DataPacketType, AppendCounting, LatencyFacts
    <2> HIDE DEF e
    <2> QED
      BY <2>1, <2>2, <2>4
  <1>7. /\ rankDataPacket' = [r \in RANKS |-> rankDataPacket'[r]]
        /\ rankDataCyclesLeft' = [r \in RANKS |-> rankDataCyclesLeft'[r]]
        /\ readReturn' = [r \in RANKS |-> readReturn'[r]]
    BY DEF Begin, RankUpdate
  <1>8. rankRefreshWaiting' \in [RANKS -> BOOLEAN]
    BY DEF Begin, ReceiveCommand
  <1>9. outstanding' \in [Transactions -> Nat]
    <2>1. outstanding \in [Transactions -> Nat]
      BY DEF DataInv
    <2>2. \/ outstanding' = outstanding
          \/ /\ outstanding[WriteRequest(outgoingDataPacket)] # 0
             /\ outstanding' = CalledBack(WriteRequest(outgoingDataPacket), outstanding)
      BY DEF Begin
    <2> QED
      BY <2>1, <2>2, CalledBackType
  <1>10. /\ phase' = "issue" /\ added' = added
         /\ error' \in {"command not allowed", "no pending request", "data bus collision", "none"}
    BY DEF Begin
  <1> QED
    BY <1>1, <1>2, <1>3, <1>4, <1>5, <1>6, <1>7, <1>8, <1>9, <1>10 DEF DataInv, Exits

LEMMA IssuePoppedData ==
  ASSUME DataInv, NEW p \in BusPackets, NEW pop, IssuePopped(p, pop)
  PROVE  DataInv'
  <1>1. Counting(writeData', WL)
    <2> DEFINE e == [packet |-> [p EXCEPT !.busPacketType = "DATA"], countdown |-> WL]
    <2>1. writeData' = IF IsWrite(p) THEN Append(writeData, e) ELSE writeData
      BY DEF IssuePopped, Transmit
    <2>2. Counting(writeData, WL) /\ \A i \in DOMAIN writeData : writeData[i].countdown < WL
      BY DEF DataInv, IssuePopped
    <2>3. Counting(Append(writeData, e), WL)
      BY <2>2, DataPacketType, AppendCounting, LatencyFacts
    <2> HIDE DEF e
    <2> QED
      BY <2>1, <2>2, <2>3
  <1>2. /\ outgoingCmdPacket' = p /\ phase' = "end"
        /\ error' \in {"command bus collision", "none"}
        /\ Idling
    BY DEF IssuePopped, Transmit
  <1> QED
    BY <1>1, <1>2 DEF DataInv, Exits, Idling, rankVars

LEMMA IssueData ==
  ASSUME ChannelInv, DataInv,
         IssueForRefresh \/ IssueRefresh \/ IssueQueued \/ IssuePrecharge \/ IssueNothing
  PROVE  DataInv'
  <1>1. QueueInv
    BY DEF ChannelInv
  <1>2. ASSUME NEW p, IssuePopped(p, PopRefreshColumn(p)) \/ IssuePopped(p, PopQueued(p))
        PROVE  DataInv'
    <2>1. p \in BusPackets
      BY <1>1, <1>2, PopRefreshColumnSound, PopQueuedSound DEF IssuePopped, QueueCommands
    <2> QED
      BY <1>2, <2>1, IssuePoppedData
  <1>3. 0 \in BANKS /\ 0 \in ROWS /\ 0 \in COLS
    BY GeometryAssumption DEF BANKS, ROWS, COLS
  <1>4. \A r \in RANKS, b \in BANKS : /\ Packet("PRECHARGE", r, b, 0, 0) \in BusPackets
                                      /\ Packet("REFRESH", r, 0, 0, 0) \in BusPackets
    BY <1>3 DEF Packet, BusPackets, CommandTypes
  <1>5. CASE IssueForRefresh \/ IssuePrecharge
    BY <1>2, <1>4, <1>5, IssuePoppedData DEF IssueForRefresh, IssuePrecharge
  <1>6. CASE IssueRefresh
    BY <1>3, <1>4, <1>6, IssuePoppedData DEF IssueRefresh
  <1>7. CASE IssueQueued
    BY <1>2, <1>7 DEF IssueQueued
  <1>8. CASE IssueNothing
    BY <1>8 DEF IssueNothing, Idling, rankVars, DataInv
  <1> QED
    BY <1>5, <1>6, <1>7, <1>8

LEMMA EndData ==
  ASSUME DataInv, End
  PROVE  DataInv'
  <1>1. returnTransaction' \in Seq(BusPackets)
    <2>1. returnTransaction \in Seq(BusPackets)
      BY DEF DataInv
    <2>2. returnTransaction' = IF returnTransaction = <<>> THEN returnTransaction
                               ELSE Tail(returnTransaction)
      BY DEF End, ReturnRead
    <2> QED
      BY <2>1, <2>2, HeadTailProperties
  <1>2. outstanding' \in [Transactions -> Nat]
    <2>1. outstanding \in [Transactions -> Nat]
      BY DEF DataInv
    <2> DEFINE pending == Dispatched.pending
               answer  == pending[Min(Answers(returnTransaction[1], pending))]
    <2>2. \/ outstanding' = outstanding
          \/ outstanding[answer] > 0 /\ outstanding' = CalledBack(answer, outstanding)
      BY DEF End, ReturnRead
    <2> HIDE DEF answer
    <2>3. outstanding[answer] > 0 => outstanding[answer] # 0
      OBVIOUS
    <2> QED
      BY <2>1, <2>2, <2>3, CalledBackType
  <1>3. /\ phase' = "begin" /\ error' \in Exits
        /\ UNCHANGED <<outgoingCmdPacket, outgoingDataPacket, dataCyclesLeft, writeData,
                       rankRefreshWaiting, readReturn, rankDataPacket, rankDataCyclesLeft,
                       added>>
    BY DEF End, Exits
  <1> QED
    BY <1>1, <1>2, <1>3 DEF DataInv

-----------------------------------------------------------------------------
(* The refresh counters: they run out one after the other, in the order in   *)
(* which they are looked at.                                                 *)

\* Rank r's counter is looked at before rank s's, refreshRank's first.
Earlier(r, s) ==
  \/ refreshRank <= r /\ r < s
  \/ r < s /\ s < refreshRank
  \/ refreshRank <= r /\ s < refreshRank

RefreshInv ==
  /\ refreshRank \in RANKS
  /\ refreshCountdown \in [RANKS -> 0 .. REFRESH_CYCLES]
  /\ phase # "begin" => \A r \in RANKS : refreshCountdown[r] >= 1
  /\ \A r, s \in RANKS :
       Earlier(r, s) => /\ refreshCountdown[r] < refreshCountdown[s]
                        /\ refreshCountdown[s] < refreshCountdown[r] + REFRESH_CYCLES

LEMMA RefreshInit == Init => RefreshInv
  <1> SUFFICES ASSUME Init PROVE RefreshInv
    OBVIOUS
  <1> DEFINE gap == REFRESH_CYCLES \div NUM_RANKS
  <1>1. NUM_RANKS \in Nat \ {0} /\ REFRESH_CYCLES \in Nat /\ NUM_RANKS <= REFRESH_CYCLES
    BY GeometryAssumption, RefreshAssumption
  <1>2. gap \in Nat /\ gap >= 1 /\ NUM_RANKS * gap <= REFRESH_CYCLES
    BY <1>1
  <1> HIDE DEF gap
  <1>3. \A r \in RANKS : /\ gap * (r + 1) \in 0 .. REFRESH_CYCLES
                         /\ gap * (r + 1) >= gap
    <2> TAKE r \in RANKS
    <2>1. r \in Nat /\ r + 1 <= NUM_RANKS
      BY <1>1 DEF RANKS
    <2>2. gap * (r + 1) <= gap * NUM_RANKS /\ gap * (r + 1) >= gap * 1
      BY <1>1, <1>2, <2>1
    <2> QED
      BY <1>1, <1>2, <2>1, <2>2
  <1>4. \A r, s \in RANKS : r < s => gap * (r + 1) < gap * (s + 1)
    <2> TAKE r, s \in RANKS
    <2> HAVE r < s
    <2>1. r \in Nat /\ s \in Nat /\ s + 1 = (r + 1) + (s - r) /\ s - r >= 1
      BY <1>1 DEF RANKS
    <2>2. gap * (s + 1) = gap * (r + 1) + gap * (s - r)
      BY <1>2, <2>1
    <2>3. gap * (s - r) >= 1
      BY <1>2, <2>1
    <2> QED
      BY <1>2, <2>1, <2>2, <2>3
  <1>5. /\ refreshCountdown = [r \in RANKS |-> gap * (r + 1)] /\ refreshRank = 0 /\ phase = "begin"
    BY DEF Init, MemoryControllerInit, gap
  <1>6. ASSUME NEW r \in RANKS, NEW s \in RANKS, Earlier(r, s)
        PROVE  /\ refreshCountdown[r] < refreshCountdown[s]
               /\ refreshCountdown[s] < refreshCountdown[r] + REFRESH_CYCLES
    <2>1. r < s
      BY <1>1, <1>5, <1>6 DEF Earlier, RANKS
    <2>2. /\ gap * (r + 1) < gap * (s + 1)
          /\ gap * (r + 1) \in 0 .. REFRESH_CYCLES /\ gap * (r + 1) >= gap
          /\ gap * (s + 1) \in 0 .. REFRESH_CYCLES
      BY <1>3, <1>4, <2>1
    <2> QED
      BY <1>1, <1>2, <1>5, <2>2
  <1> QED
    BY <1>1, <1>3, <1>5, <1>6 DEF RefreshInv, RANKS

LEMMA BeginRefresh ==
  ASSUME RefreshInv, Begin
  PROVE  RefreshInv'
  <1> DEFINE cd == refreshCountdown
             rr == refreshRank
  <1>1. /\ rr \in RANKS /\ cd \in [RANKS -> 0 .. REFRESH_CYCLES]
        /\ \A r, s \in RANKS : Earlier(r, s) => cd[r] < cd[s] /\ cd[s] < cd[r] + REFRESH_CYCLES
        /\ NUM_RANKS \in Nat \ {0} /\ REFRESH_CYCLES \in Nat \ {0}
    BY GeometryAssumption DEF RefreshInv
  <1>2. phase' = "issue" /\ ScheduleRefresh
    BY DEF Begin
  <1>3. \A r \in RANKS : cd[r] \in 0 .. REFRESH_CYCLES
    BY <1>1
  <1>4. \A r \in RANKS \ {rr} : Earlier(rr, r)
    BY <1>1 DEF Earlier, RANKS
  <1>5. CASE RefreshDue
    <2>1. /\ cd' = [cd EXCEPT ![rr] = REFRESH_CYCLES] /\ rr' = (rr + 1) % NUM_RANKS
          /\ cd[rr] = 0
      BY <1>2, <1>5 DEF ScheduleRefresh, RefreshDue
    <2>2. rr' = IF rr = NUM_RANKS - 1 THEN 0 ELSE rr + 1
      <3>1. rr \in Nat /\ rr + 1 <= NUM_RANKS
        BY <1>1 DEF RANKS
      <3>2. CASE rr = NUM_RANKS - 1
        <4>1. NUM_RANKS % NUM_RANKS = 0
          BY <1>1
        <4> QED
          BY <1>1, <2>1, <3>1, <3>2, <4>1
      <3>3. CASE rr # NUM_RANKS - 1
        <4>1. rr + 1 \in Nat /\ rr + 1 < NUM_RANKS
          BY <1>1, <3>1, <3>3
        <4>2. \A n, k \in Nat : n < k => n % k = n
          OBVIOUS
        <4>3. (rr + 1) % NUM_RANKS = rr + 1
          BY <1>1, <4>1, <4>2
        <4> QED
          BY <2>1, <3>3, <4>3
      <3> QED
        BY <3>2, <3>3
    <2>3. rr' \in RANKS
      BY <1>1, <2>2 DEF RANKS
    <2>4. \A r \in RANKS \ {rr} : cd[r] >= 1 /\ cd[r] < REFRESH_CYCLES
      <3> TAKE r \in RANKS \ {rr}
      <3>1. cd[rr] < cd[r] /\ cd[r] < cd[rr] + REFRESH_CYCLES
        BY <1>1, <1>4
      <3>2. cd[r] \in 0 .. REFRESH_CYCLES
        BY <1>3
      <3> QED
        BY <1>1, <2>1, <3>1, <3>2
    <2>5. cd'[rr] = REFRESH_CYCLES /\ \A r \in RANKS \ {rr} : cd'[r] = cd[r]
      BY <1>1, <2>1
    <2>6. ASSUME NEW r \in RANKS, NEW s \in RANKS, Earlier(r, s)'
          PROVE  cd'[r] < cd'[s] /\ cd'[s] < cd'[r] + REFRESH_CYCLES
      <3>1. r # rr /\ (s = rr \/ Earlier(r, s))
        BY <1>1, <2>2, <2>6 DEF Earlier, RANKS
      <3>2. CASE s = rr
        <4>1. cd'[s] = REFRESH_CYCLES /\ cd'[r] = cd[r] /\ cd[r] >= 1 /\ cd[r] < REFRESH_CYCLES
          BY <2>4, <2>5, <3>1, <3>2
        <4>2. cd[r] \in 0 .. REFRESH_CYCLES
          BY <1>3
        <4> QED
          BY <1>1, <4>1, <4>2
      <3>3. CASE s # rr
        BY <1>1, <2>5, <3>1, <3>3
      <3> QED
        BY <3>2, <3>3
    <2>7. cd' \in [RANKS -> 0 .. REFRESH_CYCLES]
      BY <1>1, <2>1
    <2>8. \A r \in RANKS : cd'[r] >= 1
      BY <1>1, <2>4, <2>5
    <2> QED
      BY <2>3, <2>6, <2>7, <2>8 DEF RefreshInv
  <1>6. CASE ~RefreshDue
    <2>1. cd' = cd /\ rr' = rr /\ cd[rr] # 0
      BY <1>2, <1>6 DEF ScheduleRefresh, RefreshDue
    <2>2. \A r \in RANKS : cd[r] >= 1
      <3> TAKE r \in RANKS
      <3>1. cd[r] \in 0 .. REFRESH_CYCLES /\ cd[rr] \in 0 .. REFRESH_CYCLES
        BY <1>1, <1>3
      <3>2. r = rr \/ cd[rr] < cd[r]
        BY <1>1, <1>4
      <3> QED
        BY <1>1, <2>1, <3>1, <3>2
    <2>3. \A r, s \in RANKS : Earlier(r, s)' <=> Earlier(r, s)
      BY <2>1 DEF Earlier
    <2> QED
      BY <1>1, <2>1, <2>2, <2>3 DEF RefreshInv
  <1> QED
    BY <1>5, <1>6

LEMMA EndRefresh ==
  ASSUME RefreshInv, End
  PROVE  RefreshInv'
  <1> DEFINE cd == refreshCountdown
  <1>1. /\ phase = "end" /\ phase' = "begin" /\ refreshRank' = refreshRank
        /\ cd' = [r \in RANKS |-> cd[r] - 1]
    BY DEF End, TickRefreshCounters
  <1>2. /\ cd \in [RANKS -> 0 .. REFRESH_CYCLES] /\ \A r \in RANKS : cd[r] >= 1
        /\ \A r, s \in RANKS : Earlier(r, s) => cd[r] < cd[s] /\ cd[s] < cd[r] + REFRESH_CYCLES
        /\ REFRESH_CYCLES \in Nat
    BY <1>1, GeometryAssumption DEF RefreshInv
  <1>3. \A r \in RANKS : /\ cd[r] \in 1 .. REFRESH_CYCLES /\ cd'[r] = cd[r] - 1
                         /\ cd'[r] \in 0 .. REFRESH_CYCLES
    <2> TAKE r \in RANKS
    <2>1. cd[r] \in 0 .. REFRESH_CYCLES /\ cd[r] >= 1
      BY <1>2
    <2> QED
      BY <1>1, <1>2, <2>1
  <1>4. ASSUME NEW r \in RANKS, NEW s \in RANKS, Earlier(r, s)'
        PROVE  cd'[r] < cd'[s] /\ cd'[s] < cd'[r] + REFRESH_CYCLES
    <2>1. Earlier(r, s)
      BY <1>1, <1>4 DEF Earlier
    <2>2. cd[r] < cd[s] /\ cd[s] < cd[r] + REFRESH_CYCLES
      BY <1>2, <2>1
    <2>3. /\ cd[r] \in 1 .. REFRESH_CYCLES /\ cd'[r] = cd[r] - 1
          /\ cd[s] \in 1 .. REFRESH_CYCLES /\ cd'[s] = cd[s] - 1
      BY <1>3
    <2> QED
      BY <1>2, <2>2, <2>3
  <1>5. cd' \in [RANKS -> 0 .. REFRESH_CYCLES]
    BY <1>1, <1>3
  <1> QED
    BY <1>1, <1>4, <1>5 DEF RefreshInv

LEMMA OtherRefresh ==
  ASSUME RefreshInv, UNCHANGED <<refreshCountdown, refreshRank>>,
         phase' = phase \/ (phase = "issue" /\ phase' = "end")
  PROVE  RefreshInv'
  <1>1. \A r, s \in RANKS : Earlier(r, s)' <=> Earlier(r, s)
    BY DEF Earlier
  <1> QED
    BY <1>1 DEF RefreshInv

-----------------------------------------------------------------------------
(* The type of the whole channel. *)

LEMMA DataInvariance == Spec => []DataInv
  <1>1. ChannelInv /\ DataInv /\ [Next]_vars => DataInv'
    <2> SUFFICES ASSUME ChannelInv, DataInv, [Next]_vars PROVE DataInv'
      OBVIOUS
    <2>1. CASE UNCHANGED vars
      BY <2>1 DEF vars, controllerVars, rankVars, DataInv
    <2>2. ASSUME NEW t \in Transactions, AddTransaction(t) \/ ParkTransaction(t)
          PROVE  DataInv'
      BY <2>2, AddData
    <2>3. CASE Begin
      BY <2>3, BeginData
    <2>4. CASE IssueForRefresh \/ IssueRefresh \/ IssueQueued \/ IssuePrecharge \/ IssueNothing
      BY <2>4, IssueData
    <2>5. CASE End
      BY <2>5, EndData
    <2> QED
      BY <2>1, <2>2, <2>3, <2>4, <2>5 DEF Next, Update
  <1> QED
    BY <1>1, DataInit, ChannelInvariance, PTL DEF Spec

LEMMA RefreshInvariance == Spec => []RefreshInv
  <1>1. RefreshInv /\ [Next]_vars => RefreshInv'
    <2> SUFFICES ASSUME RefreshInv, [Next]_vars PROVE RefreshInv'
      OBVIOUS
    <2>1. CASE UNCHANGED vars
      <3>1. UNCHANGED <<refreshCountdown, refreshRank>> /\ phase' = phase
        BY <2>1 DEF vars, controllerVars
      <3> QED
        BY <3>1, OtherRefresh
    <2>2. ASSUME NEW t \in Transactions, AddTransaction(t) \/ ParkTransaction(t)
          PROVE  RefreshInv'
      <3>1. UNCHANGED <<refreshCountdown, refreshRank>> /\ phase' = phase
        BY <2>2 DEF AddTransaction, ParkTransaction, controllerVars
      <3> QED
        BY <3>1, OtherRefresh
    <2>3. CASE Begin
      BY <2>3, BeginRefresh
    <2>4. CASE IssueForRefresh \/ IssueRefresh \/ IssueQueued \/ IssuePrecharge \/ IssueNothing
      <3>1. /\ UNCHANGED <<refreshCountdown, refreshRank>>
            /\ phase = "issue" /\ phase' = "end"
        BY <2>4 DEF IssueForRefresh, IssueRefresh, IssueQueued, IssuePrecharge, IssueNothing,
                    IssuePopped, Idling
      <3> QED
        BY <3>1, OtherRefresh
    <2>5. CASE End
      BY <2>5, EndRefresh
    <2> QED
      BY <2>1, <2>2, <2>3, <2>4, <2>5 DEF Next, Update
  <1> QED
    BY <1>1, RefreshInit, PTL DEF Spec

\* Every part of the channel's state stays well formed: no countdown of a FIFO or of
\* a burst on a bus and no refresh counter runs below zero, no queue grows past its
\* depth, and no row is accessed more often than TOTAL_ROW_ACCESSES.
THEOREM ChannelTypeCorrect == Spec => []TypeOK
  <1>1. ASSUME ChannelInv, DataInv, RefreshInv, Checked!ProtocolTypeOK
        PROVE  TypeOK
    <2>1. /\ bankStates \in [RANKS -> [BANKS -> BankStates]]
          /\ rankBanks \in [RANKS -> [BANKS -> BankStates]]
          /\ powerDown \in [RANKS -> BOOLEAN] /\ isPowerDown \in [RANKS -> BOOLEAN]
          /\ cmdCyclesLeft \in 0 .. tCMD
      <3>1. Checked!BankStates = BankStates /\ Checked!RANKS = RANKS /\ Checked!BANKS = BANKS
        BY DEF Checked!BankStates, BankStates, Checked!CurrentBankState, CurrentBankState,
               Checked!CommandTypes, CommandTypes, Checked!ColumnTypes, ColumnTypes,
               Checked!RANKS, RANKS, Checked!BANKS, BANKS, Checked!ROWS, ROWS
      <3> QED
        BY <1>1, <3>1 DEF Checked!ProtocolTypeOK
    <2>2. /\ writeData \in Seq([packet : BusPackets, countdown : 1 .. WL])
          /\ outgoingDataPacket \in BusPackets \cup {NoPacket} /\ dataCyclesLeft \in 0 .. BURST
      BY <1>1 DEF DataInv, Counting, Entries, Bursting
    <2>3. /\ readReturn \in [RANKS -> Seq([packet : BusPackets, countdown : 1 .. RL])]
          /\ rankDataPacket \in [RANKS -> BusPackets \cup {NoPacket}]
          /\ rankDataCyclesLeft \in [RANKS -> 0 .. BURST]
      <3>1. \A r \in RANKS : /\ readReturn[r] \in Seq([packet : BusPackets, countdown : 1 .. RL])
                             /\ rankDataPacket[r] \in BusPackets \cup {NoPacket}
                             /\ rankDataCyclesLeft[r] \in 0 .. BURST
        BY <1>1 DEF DataInv, Counting, Entries, Bursting
      <3>2. /\ rankDataPacket = [r \in RANKS |-> rankDataPacket[r]]
            /\ rankDataCyclesLeft = [r \in RANKS |-> rankDataCyclesLeft[r]]
            /\ readReturn = [r \in RANKS |-> readReturn[r]]
        BY <1>1 DEF DataInv
      <3> QED
        BY <3>1, <3>2
    <2>4. CommandQueueTypeOK
      BY <1>1, QueueInvImpliesType DEF ChannelInv
    <2>5. MemoryControllerTypeOK
      BY <1>1, <2>1, <2>2, <2>4 DEF MemoryControllerTypeOK, ChannelInv, DataInv, RefreshInv
    <2> QED
      BY <1>1, <2>1, <2>3, <2>5 DEF TypeOK, ChannelInv, DataInv
  <1> QED
    BY <1>1, ChannelInvariance, DataInvariance, RefreshInvariance, ChannelChecked, PTL

\* Only the refresh counter that is looked at runs out: no rank's refresh is passed
\* over because another one fell due first.
THEOREM RefreshesInTurn == Spec => []RefreshDueInTurn
  <1>1. RefreshInv => RefreshDueInTurn
    <2> SUFFICES ASSUME RefreshInv, NEW r \in RANKS, refreshCountdown[r] = 0, r # refreshRank
                 PROVE  FALSE
      BY DEF RefreshDueInTurn
    <2>1. refreshRank \in RANKS /\ Earlier(refreshRank, r)
      BY GeometryAssumption DEF RefreshInv, Earlier, RANKS
    <2>2. refreshCountdown[refreshRank] < 0 /\ refreshCountdown[refreshRank] \in 0 .. REFRESH_CYCLES
      BY <2>1 DEF RefreshInv
    <2> QED
      BY <2>2, GeometryAssumption
  <1> QED
    BY <1>1, RefreshInvariance, PTL

-----------------------------------------------------------------------------
(* Where a request is. *)

ReadRequests == {t \in Transactions : t.transactionType = "DATA_READ"}

\* The commands that may stand in the queue k: those at home there, and the writes
\* of requests only.
CommandsAt(k) ==
  {p \in QueueCommands : /\ KeyOf(p.rank, p.bank) = k
                         /\ IsWrite(p) => WriteRequest(p) \in Transactions}

QueuesHome(qs) == DOMAIN qs = QueueKeys /\ \A k \in QueueKeys : qs[k] \in Seq(CommandsAt(k))

WriteData == {e \in [packet : BusPackets, countdown : Int] : WriteRequest(e.packet) \in Transactions}

\* A write is its command while that is queued, and then its data.
WriteCommands(t) == {p \in QueueCommands : IsWrite(p) /\ WriteRequest(p) = t}
DataFor(t)       == {e \in WriteData : WriteRequest(e.packet) = t}
ReadCommands(t)  == {p \in QueueCommands : IsRead(p) /\ SameAddress(p, t)}
ColumnsFor(t)    == {WriteCommands(t), ReadCommands(t)}

\* How often t is among the transactions ts, the pending reads and the queued writes.
Inside(ts, pending, qs, t) ==
  Tally(ts, {t}) + Tally(pending, {t}) + Tally(qs[KeyOf(t.rank, t.bank)], WriteCommands(t))

OnTheBus(t) == outgoingDataPacket # NoPacket /\ WriteRequest(outgoingDataPacket) = t
Sending(t)  == Tally(writeData, DataFor(t)) + One(OnTheBus(t))

HoldsRequests ==
  /\ outstanding \in [Transactions -> Nat]
  /\ pendingTransactions \in Seq(Transactions)
  /\ transactionQueue \in Seq(Transactions)
  /\ pendingReads \in Seq(ReadRequests)
  /\ QueuesHome(queues)
  /\ writeData \in Seq(WriteData)
  /\ outgoingDataPacket # NoPacket => WriteRequest(outgoingDataPacket) \in Transactions

Balanced(t) ==
  outstanding[t] = Tally(pendingTransactions, {t})
                     + Inside(transactionQueue, pendingReads, queues, t) + Sending(t)

Conserved == HoldsRequests /\ \A t \in Transactions : Balanced(t)

\* All of them are numbers.
LEMMA TalliesType ==
  ASSUME HoldsRequests, NEW t \in Transactions
  PROVE  /\ Tally(pendingTransactions, {t}) \in Nat
         /\ Tally(transactionQueue, {t}) \in Nat
         /\ Tally(pendingReads, {t}) \in Nat
         /\ Tally(queues[KeyOf(t.rank, t.bank)], WriteCommands(t)) \in Nat
         /\ Inside(transactionQueue, pendingReads, queues, t) \in Nat
         /\ Tally(writeData, DataFor(t)) \in Nat /\ One(OnTheBus(t)) \in {0, 1}
         /\ Sending(t) \in Nat
  <1>1. KeyOf(t.rank, t.bank) \in QueueKeys
    BY FrontEndAssumption, KeyOfType DEF AllTransactions
  <1>2. /\ Tally(pendingTransactions, {t}) \in Nat
        /\ Tally(transactionQueue, {t}) \in Nat
        /\ Tally(pendingReads, {t}) \in Nat
        /\ Tally(queues[KeyOf(t.rank, t.bank)], WriteCommands(t)) \in Nat
        /\ Tally(writeData, DataFor(t)) \in Nat
    BY <1>1, TallyType DEF HoldsRequests, QueuesHome
  <1> QED
    BY <1>2, OneType DEF Inside, Sending

LEMMA ConservedInit == Init => Conserved /\ error # "no pending request"
  <1> SUFFICES ASSUME Init PROVE Conserved /\ error # "no pending request"
    OBVIOUS
  <1>1. /\ pendingTransactions = <<>> /\ transactionQueue = <<>> /\ pendingReads = <<>>
        /\ writeData = <<>> /\ outgoingDataPacket = NoPacket
        /\ queues = [k \in QueueKeys |-> <<>>]
        /\ outstanding = [t \in Transactions |-> 0]
        /\ error = "none"
    BY DEF Init, MemoryControllerInit, CommandQueueInit
  <1>2. HoldsRequests
    BY <1>1, EmptySeq DEF HoldsRequests, QueuesHome
  <1>3. ASSUME NEW t \in Transactions PROVE Balanced(t)
    <2>1. KeyOf(t.rank, t.bank) \in QueueKeys
      BY FrontEndAssumption, KeyOfType DEF AllTransactions
    <2>2. queues[KeyOf(t.rank, t.bank)] = <<>>
      BY <1>1, <2>1
    <2>3. One(OnTheBus(t)) = 0
      BY <1>1 DEF One, OnTheBus
    <2> QED
      BY <1>1, <2>2, <2>3, TallyEmpty DEF Balanced, Inside, Sending
  <1> QED
    BY <1>1, <1>2, <1>3 DEF Conserved

\* A request that is accepted is parked or queued.
LEMMA AcceptConserves ==
  ASSUME Conserved, NEW t \in Transactions, AddTransaction(t) \/ ParkTransaction(t)
  PROVE  Conserved' /\ error' = "none"
  <1>1. /\ outstanding \in [Transactions -> Nat]
        /\ pendingTransactions \in Seq(Transactions) /\ transactionQueue \in Seq(Transactions)
        /\ outstanding' = [outstanding EXCEPT ![t] = @ + 1]
        /\ UNCHANGED <<pendingReads, queues, writeData, outgoingDataPacket, error>>
        /\ error = "none"
    BY DEF Conserved, HoldsRequests, AddTransaction, ParkTransaction, Accept, queueVars, controllerVars
  <1>2. \/ /\ transactionQueue' = Append(transactionQueue, t)
           /\ pendingTransactions' = pendingTransactions
        \/ /\ transactionQueue' = transactionQueue
           /\ pendingTransactions' = Append(pendingTransactions, t)
    BY DEF AddTransaction, ParkTransaction, controllerVars
  <1>3. HoldsRequests'
    <2>1. outstanding' \in [Transactions -> Nat]
      <3>1. outstanding[t] + 1 \in Nat
        BY <1>1
      <3> QED
        BY <1>1, <3>1
    <2>2. pendingTransactions' \in Seq(Transactions) /\ transactionQueue' \in Seq(Transactions)
      <3>1. Append(pendingTransactions, t) \in Seq(Transactions) /\ Append(transactionQueue, t) \in Seq(Transactions)
        BY <1>1, AppendProperties
      <3> QED
        BY <1>1, <1>2, <3>1
    <2>3. /\ pendingReads' \in Seq(ReadRequests) /\ QueuesHome(queues') /\ writeData' \in Seq(WriteData)
          /\ outgoingDataPacket' # NoPacket => WriteRequest(outgoingDataPacket') \in Transactions
      BY <1>1 DEF Conserved, HoldsRequests
    <2> QED
      BY <2>1, <2>2, <2>3 DEF HoldsRequests, QueuesHome
  <1>4. ASSUME NEW u \in Transactions PROVE Balanced(u)'
    <2>1. outstanding'[u] = outstanding[u] + One(t \in {u})
      BY <1>1 DEF One
    <2>2. Tally(Append(transactionQueue, t), {u}) = Tally(transactionQueue, {u}) + One(t \in {u})
      BY <1>1, TallyAppend
    <2>3. Tally(Append(pendingTransactions, t), {u}) = Tally(pendingTransactions, {u}) + One(t \in {u})
      BY <1>1, TallyAppend
    <2>4. Balanced(u) /\ One(t \in {u}) \in {0, 1} /\ outstanding[u] \in Nat
      BY <1>1, OneType DEF Conserved
    <2>5. Sending(u)' = Sending(u)
      BY <1>1 DEF Sending, OnTheBus
    <2>6. /\ Tally(pendingTransactions, {u}) \in Nat /\ Tally(transactionQueue, {u}) \in Nat
          /\ Tally(pendingReads, {u}) \in Nat /\ Sending(u) \in Nat
          /\ Tally(queues[KeyOf(u.rank, u.bank)], WriteCommands(u)) \in Nat
      BY TalliesType DEF Conserved
    <2>7. \/ /\ Tally(transactionQueue', {u}) = Tally(transactionQueue, {u}) + One(t \in {u})
             /\ Tally(pendingTransactions', {u}) = Tally(pendingTransactions, {u})
          \/ /\ Tally(transactionQueue', {u}) = Tally(transactionQueue, {u})
             /\ Tally(pendingTransactions', {u}) = Tally(pendingTransactions, {u}) + One(t \in {u})
      BY <1>2, <2>2, <2>3
    <2>8. /\ Tally(pendingReads', {u}) = Tally(pendingReads, {u})
          /\ Tally(queues'[KeyOf(u.rank, u.bank)], WriteCommands(u))
               = Tally(queues[KeyOf(u.rank, u.bank)], WriteCommands(u))
      BY <1>1
    <2> QED
      BY <2>1, <2>4, <2>5, <2>6, <2>7, <2>8, SMT DEF Balanced, Inside
  <1> QED
    BY <1>1, <1>3, <1>4 DEF Conserved

-----------------------------------------------------------------------------
(* Begin: a parked request moves up, and a write's data is sent. *)

LEMMA UnparkConserves ==
  ASSUME HoldsRequests, UnparkTransaction
  PROVE  /\ pendingTransactions' \in Seq(Transactions) /\ transactionQueue' \in Seq(Transactions)
         /\ \A t \in Transactions :
              Tally(pendingTransactions', {t}) + Tally(transactionQueue', {t})
                = Tally(pendingTransactions, {t}) + Tally(transactionQueue, {t})
  <1>1. pendingTransactions \in Seq(Transactions) /\ transactionQueue \in Seq(Transactions)
    BY DEF HoldsRequests
  <1>2. CASE pendingTransactions # <<>> /\ WillAcceptTransaction
    <2> DEFINE h == Head(pendingTransactions)
    <2>1. /\ transactionQueue' = Append(transactionQueue, h)
          /\ pendingTransactions' = Tail(pendingTransactions)
      BY <1>2 DEF UnparkTransaction
    <2>2. h \in Transactions /\ Tail(pendingTransactions) \in Seq(Transactions)
      BY <1>1, <1>2, HeadTailProperties
    <2> HIDE DEF h
    <2>3. Append(transactionQueue, h) \in Seq(Transactions)
      BY <1>1, <2>2, AppendProperties
    <2>4. ASSUME NEW t \in Transactions
          PROVE  Tally(pendingTransactions', {t}) + Tally(transactionQueue', {t})
                   = Tally(pendingTransactions, {t}) + Tally(transactionQueue, {t})
      <3>1. Tally(Append(transactionQueue, h), {t}) = Tally(transactionQueue, {t}) + One(h \in {t})
        BY <1>1, <2>2, TallyAppend
      <3>2. Tally(pendingTransactions, {t}) = Tally(Tail(pendingTransactions), {t}) + One(h \in {t})
        BY <1>1, <1>2, TallyTail DEF h
      <3>3. /\ Tally(Tail(pendingTransactions), {t}) \in Nat /\ Tally(transactionQueue, {t}) \in Nat
            /\ One(h \in {t}) \in {0, 1}
        BY <1>1, <2>2, TallyType, OneType
      <3> QED
        BY <2>1, <3>1, <3>2, <3>3
    <2> QED
      BY <2>1, <2>2, <2>3, <2>4
  <1>3. CASE ~(pendingTransactions # <<>> /\ WillAcceptTransaction)
    BY <1>1, <1>3 DEF UnparkTransaction
  <1> QED
    BY <1>2, <1>3

\* Without a collision, data that comes onto the bus leaves the queue, and data that
\* leaves the bus is a write that is done.
LEMMA SendConserves ==
  ASSUME HoldsRequests, SendWriteData, ~DataBusCollision
  PROVE  /\ writeData' \in Seq(WriteData)
         /\ outgoingDataPacket' # NoPacket => WriteRequest(outgoingDataPacket') \in Transactions
         /\ \A t \in Transactions : Sending(t) = Sending(t)' + One(DataDone /\ OnTheBus(t))
  <1> DEFINE left == [i \in DOMAIN writeData |-> [writeData[i] EXCEPT !.countdown = @ - 1]]
  <1>1. /\ writeData \in Seq(WriteData)
        /\ outgoingDataPacket # NoPacket => WriteRequest(outgoingDataPacket) \in Transactions
    BY DEF HoldsRequests
  <1>2. /\ writeData' = IF NextDataDue THEN Tail(left) ELSE left
        /\ outgoingDataPacket' = IF NextDataDue THEN writeData[1].packet
                                 ELSE IF DataDone THEN NoPacket ELSE outgoingDataPacket
    BY DEF SendWriteData
  <1>3. \A i \in DOMAIN writeData :
          /\ writeData[i] \in WriteData /\ left[i] \in WriteData
          /\ left[i].packet = writeData[i].packet
    BY <1>1 DEF WriteData
  <1>4. left \in Seq(WriteData) /\ DOMAIN left = DOMAIN writeData /\ Len(left) = Len(writeData)
    BY <1>1, <1>3, LenProperties
  <1> HIDE DEF left
  <1>5. ASSUME NEW t \in Transactions PROVE Tally(left, DataFor(t)) = Tally(writeData, DataFor(t))
    <2>1. \A i \in DOMAIN writeData : left[i] \in DataFor(t) <=> writeData[i] \in DataFor(t)
      BY <1>3 DEF DataFor
    <2> QED
      BY <1>4, <2>1, TallySame
  <1>6. CASE NextDataDue
    <2>1. writeData # <<>> /\ (outgoingDataPacket = NoPacket \/ DataDone)
      BY <1>6 DEF NextDataDue, DataBusCollision
    <2>2. left # <<>> /\ 1 \in DOMAIN writeData
      BY <1>1, <1>4, <2>1, EmptySeq
    <2>3. writeData' = Tail(left) /\ outgoingDataPacket' = writeData[1].packet
      BY <1>2, <1>6
    <2>4. /\ Tail(left) \in Seq(WriteData)
          /\ WriteRequest(outgoingDataPacket') \in Transactions
      BY <1>3, <1>4, <2>2, <2>3, HeadTailProperties DEF WriteData
    <2>5. outgoingDataPacket' # NoPacket
      BY <1>3, <2>2, <2>3 DEF WriteData, BusPackets, NoPacket, CommandTypes, ColumnTypes
    <2>6. ASSUME NEW t \in Transactions
          PROVE  Sending(t) = Sending(t)' + One(DataDone /\ OnTheBus(t))
      <3>1. Tally(left, DataFor(t)) = Tally(Tail(left), DataFor(t)) + One(Head(left) \in DataFor(t))
        BY <1>4, <2>2, TallyTail
      <3>2. Head(left) \in DataFor(t) <=> WriteRequest(writeData[1].packet) = t
        BY <1>3, <2>2 DEF DataFor
      <3>3. One(Head(left) \in DataFor(t)) = One(OnTheBus(t)')
        BY <2>3, <2>5, <3>2 DEF OnTheBus, One
      <3>4. One(DataDone /\ OnTheBus(t)) = One(OnTheBus(t))
        BY <2>1 DEF OnTheBus, One
      <3>5. Tally(Tail(left), DataFor(t)) \in Nat /\ One(OnTheBus(t)) \in {0, 1} /\ One(OnTheBus(t)') \in {0, 1}
        BY <2>4, TallyType, OneType
      <3>6. Sending(t)' = Tally(Tail(left), DataFor(t)) + One(OnTheBus(t)')
        BY <2>3 DEF Sending
      <3>7. Sending(t) = Tally(left, DataFor(t)) + One(OnTheBus(t))
        BY <1>5 DEF Sending
      <3> QED
        BY <3>1, <3>3, <3>4, <3>5, <3>6, <3>7, SMT
    <2> QED
      BY <2>3, <2>4, <2>6
  <1>7. CASE ~NextDataDue
    <2>1. /\ writeData' = left
          /\ outgoingDataPacket' = IF DataDone THEN NoPacket ELSE outgoingDataPacket
      BY <1>2, <1>7
    <2>2. ASSUME NEW t \in Transactions
          PROVE  Sending(t) = Sending(t)' + One(DataDone /\ OnTheBus(t))
      <3>1. One(OnTheBus(t)) = One(OnTheBus(t)') + One(DataDone /\ OnTheBus(t))
        BY <2>1 DEF OnTheBus, One, DataDone
      <3>2. Tally(left, DataFor(t)) \in Nat /\ One(OnTheBus(t)') \in {0, 1}
            /\ One(DataDone /\ OnTheBus(t)) \in {0, 1}
        BY <1>4, TallyType, OneType
      <3>3. Sending(t)' = Tally(left, DataFor(t)) + One(OnTheBus(t)')
        BY <2>1 DEF Sending
      <3>4. Sending(t) = Tally(left, DataFor(t)) + One(OnTheBus(t))
        BY <1>5 DEF Sending
      <3> QED
        BY <3>1, <3>2, <3>3, <3>4, SMT
    <2> QED
      BY <1>1, <1>4, <2>1, <2>2
  <1> QED
    BY <1>6, <1>7

\* The exits of Begin that do not come from a callback.
BusError == error = "data bus collision" \/ error = "command not allowed"

LEMMA BeginConserves ==
  ASSUME Conserved, Begin, ~BusError'
  PROVE  Conserved' /\ error' # "no pending request"
  <1> DEFINE done == WriteRequest(outgoingDataPacket)
  <1>1. /\ UnparkTransaction /\ SendWriteData
        /\ UNCHANGED <<queues, pendingReads>>
        /\ outstanding' = IF DataDone /\ ~(DataDone /\ outstanding[done] = 0)
                          THEN CalledBack(done, outstanding) ELSE outstanding
        /\ error' = "no pending request" => DataDone /\ outstanding[done] = 0
        /\ DataBusCollision => error' = "no pending request"
    BY DEF Begin, BusError
  <1>2. HoldsRequests /\ outstanding \in [Transactions -> Nat]
    BY DEF Conserved, HoldsRequests
  <1>3. ASSUME DataDone
        PROVE  done \in Transactions /\ outstanding[done] > 0
    <2>1. done \in Transactions /\ One(OnTheBus(done)) = 1
      BY <1>2, <1>3 DEF DataDone, HoldsRequests, OnTheBus, One
    <2> HIDE DEF done
    <2>2. Balanced(done)
      BY <2>1 DEF Conserved
    <2>3. /\ Tally(pendingTransactions, {done}) \in Nat
          /\ Inside(transactionQueue, pendingReads, queues, done) \in Nat
          /\ Tally(writeData, DataFor(done)) \in Nat
      BY <1>2, <2>1, TalliesType
    <2>4. outstanding[done] = Tally(pendingTransactions, {done})
                                + Inside(transactionQueue, pendingReads, queues, done) + Sending(done)
      BY <2>2 DEF Balanced
    <2>5. Sending(done) = Tally(writeData, DataFor(done)) + 1
      BY <2>1 DEF Sending
    <2> QED
      BY <2>1, <2>3, <2>4, <2>5
  <1>4. /\ error' # "no pending request" /\ ~DataBusCollision
        /\ outstanding' = IF DataDone THEN CalledBack(done, outstanding) ELSE outstanding
    <2>1. ~(DataDone /\ outstanding[done] = 0)
      BY <1>3
    <2> QED
      BY <1>1, <2>1
  <1>5. /\ writeData' \in Seq(WriteData)
        /\ outgoingDataPacket' # NoPacket => WriteRequest(outgoingDataPacket') \in Transactions
        /\ \A t \in Transactions : Sending(t) = Sending(t)' + One(DataDone /\ OnTheBus(t))
    BY <1>1, <1>2, <1>4, SendConserves
  <1>6. /\ pendingTransactions' \in Seq(Transactions) /\ transactionQueue' \in Seq(Transactions)
        /\ \A t \in Transactions :
             Tally(pendingTransactions', {t}) + Tally(transactionQueue', {t})
               = Tally(pendingTransactions, {t}) + Tally(transactionQueue, {t})
    BY <1>1, <1>2, UnparkConserves
  <1>7. /\ outstanding' \in [Transactions -> Nat]
        /\ \A t \in Transactions : outstanding[t] = outstanding'[t] + One(DataDone /\ OnTheBus(t))
    <2>1. CASE DataDone
      <3>1. done \in Transactions /\ outstanding[done] > 0
            /\ outstanding' = [outstanding EXCEPT ![done] = outstanding[done] - 1]
        BY <1>3, <1>4, <2>1 DEF CalledBack
      <3>2. \A t \in Transactions : OnTheBus(t) <=> t = done
        BY <2>1 DEF OnTheBus, DataDone
      <3> HIDE DEF done
      <3>3. outstanding[done] \in Nat /\ outstanding[done] - 1 \in Nat
        <4>1. outstanding[done] \in Nat
          BY <1>2, <3>1
        <4> QED
          BY <3>1, <4>1
      <3>4. outstanding' \in [Transactions -> Nat]
        BY <1>2, <3>1, <3>3
      <3>5. ASSUME NEW t \in Transactions
            PROVE  outstanding[t] = outstanding'[t] + One(DataDone /\ OnTheBus(t))
        <4>1. outstanding[t] \in Nat
          BY <1>2
        <4>2. outstanding'[t] = IF t = done THEN outstanding[t] - 1 ELSE outstanding[t]
          BY <1>2, <3>1
        <4>3. One(DataDone /\ OnTheBus(t)) = IF t = done THEN 1 ELSE 0
          BY <2>1, <3>2 DEF One
        <4> QED
          BY <4>1, <4>2, <4>3
      <3> QED
        BY <3>4, <3>5
    <2>2. CASE ~DataDone
      <3>1. outstanding' = outstanding /\ \A t : One(DataDone /\ OnTheBus(t)) = 0
        BY <1>4, <2>2 DEF One
      <3>2. \A t \in Transactions : outstanding[t] \in Nat
        BY <1>2
      <3> QED
        BY <1>2, <3>1, <3>2
    <2> QED
      BY <2>1, <2>2
  <1>8. HoldsRequests'
    <2>1. pendingReads' \in Seq(ReadRequests) /\ QueuesHome(queues')
      BY <1>1, <1>2 DEF HoldsRequests
    <2> QED
      BY <1>5, <1>6, <1>7, <2>1 DEF HoldsRequests, QueuesHome
  <1>9. ASSUME NEW t \in Transactions PROVE Balanced(t)'
    <2>1. Balanced(t)
      BY DEF Conserved
    <2>2. /\ Tally(pendingTransactions, {t}) \in Nat /\ Tally(transactionQueue, {t}) \in Nat
          /\ Tally(pendingReads, {t}) \in Nat /\ Sending(t) \in Nat
          /\ Tally(queues[KeyOf(t.rank, t.bank)], WriteCommands(t)) \in Nat
      BY <1>2, TalliesType
    <2>3. /\ Tally(pendingTransactions', {t}) \in Nat /\ Tally(transactionQueue', {t}) \in Nat
          /\ outstanding'[t] \in Nat
      BY <1>6, <1>7, TallyType
    <2>4. One(DataDone /\ OnTheBus(t)) \in {0, 1}
      BY OneType
    <2>5. Sending(t)' = Sending(t) - One(DataDone /\ OnTheBus(t))
      <3>1. Tally(writeData', DataFor(t)) \in Nat /\ One(OnTheBus(t)') \in {0, 1}
        BY <1>5, TallyType, OneType
      <3> QED
        <4>1. Sending(t)' \in Nat
          BY <3>1 DEF Sending
        <4>2. Sending(t) = Sending(t)' + One(DataDone /\ OnTheBus(t))
          BY <1>5
        <4> QED
          BY <2>2, <2>4, <4>1, <4>2
    <2>6. /\ Tally(pendingReads', {t}) = Tally(pendingReads, {t})
          /\ Tally(queues'[KeyOf(t.rank, t.bank)], WriteCommands(t))
               = Tally(queues[KeyOf(t.rank, t.bank)], WriteCommands(t))
      BY <1>1
    <2>7. /\ Tally(pendingTransactions', {t}) + Tally(transactionQueue', {t})
               = Tally(pendingTransactions, {t}) + Tally(transactionQueue, {t})
          /\ outstanding[t] = outstanding'[t] + One(DataDone /\ OnTheBus(t))
      BY <1>6, <1>7
    <2>8. /\ outstanding[t] = Tally(pendingTransactions, {t}) + Tally(transactionQueue, {t})
                             + Tally(pendingReads, {t})
                             + Tally(queues[KeyOf(t.rank, t.bank)], WriteCommands(t)) + Sending(t)
      BY <2>1, <2>2 DEF Balanced, Inside
    <2>9. outstanding'[t] = Tally(pendingTransactions', {t}) + Tally(transactionQueue', {t})
                             + Tally(pendingReads', {t})
                             + Tally(queues'[KeyOf(t.rank, t.bank)], WriteCommands(t)) + Sending(t)'
      <3>1. outstanding[t] \in Nat
        BY <1>2
      <3> QED
        BY <2>2, <2>3, <2>4, <2>5, <2>6, <2>7, <2>8, <3>1
    <2>10. Tally(pendingReads', {t}) \in Nat /\ Sending(t)' \in Int
           /\ Tally(queues'[KeyOf(t.rank, t.bank)], WriteCommands(t)) \in Nat
      BY <2>2, <2>4, <2>5, <2>6
    <2> QED
      BY <2>3, <2>9, <2>10 DEF Balanced, Inside
  <1> QED
    BY <1>4, <1>8, <1>9 DEF Conserved

-----------------------------------------------------------------------------
(* A popped write leaves its queue, and its data joins the others. *)

LEMMA RemoveConserves ==
  ASSUME NEW k, NEW q \in Seq(CommandsAt(k)), NEW i \in 1 .. Len(q)
  PROVE  /\ RemoveAt(q, i) \in Seq(CommandsAt(k)) /\ q[i] \in CommandsAt(k)
         /\ \A S : Tally(q, S) = Tally(RemoveAt(q, i), S) + One(q[i] \in S)
  BY RemoveAtFacts, TallyRemoveAt

LEMMA WithoutConserves ==
  ASSUME NEW k, NEW q \in Seq(CommandsAt(k)), NEW i \in 1 .. Len(q)
  PROVE  /\ Without(q, i) \in Seq(CommandsAt(k)) /\ q[i] \in CommandsAt(k)
         /\ \A t \in Transactions : \A S \in ColumnsFor(t) :
              Tally(q, S) = Tally(Without(q, i), S) + One(q[i] \in S)
  <1> DEFINE one == RemoveAt(q, i)
  <1>1. /\ one \in Seq(CommandsAt(k)) /\ q[i] \in CommandsAt(k)
        /\ \A S : Tally(q, S) = Tally(one, S) + One(q[i] \in S)
    BY RemoveConserves
  <1>2. CASE TakesAct(q, i)
    <2>1. i \in Nat /\ i > 1 /\ IsAct(q[i-1]) /\ Len(q) \in Nat
      BY <1>2, LenProperties DEF TakesAct
    <2>2. Len(one) = Len(q) - 1 /\ \A j \in 1 .. Len(q) - 1 : one[j] = IF j < i THEN q[j] ELSE q[j+1]
      BY RemoveAtFacts
    <2> HIDE DEF one
    <2>3. i - 1 \in 1 .. Len(one) /\ one[i-1] = q[i-1]
      BY <2>1, <2>2
    <2>4. /\ RemoveAt(one, i - 1) \in Seq(CommandsAt(k))
          /\ \A S : Tally(one, S) = Tally(RemoveAt(one, i - 1), S) + One(one[i-1] \in S)
      BY <1>1, <2>3, RemoveConserves
    <2>5. Without(q, i) = RemoveAt(one, i - 1)
      BY <1>2 DEF Without, one
    <2>6. ASSUME NEW t \in Transactions, NEW S \in ColumnsFor(t)
          PROVE  Tally(q, S) = Tally(Without(q, i), S) + One(q[i] \in S)
      <3>1. One(one[i-1] \in S) = 0
        BY <2>1, <2>3 DEF ColumnsFor, WriteCommands, ReadCommands, IsAct, IsWrite, IsRead, One
      <3>2. Tally(RemoveAt(one, i - 1), S) \in Nat
        BY <2>4, TallyType
      <3>3. Tally(one, S) = Tally(RemoveAt(one, i - 1), S) + 0
        BY <2>4, <3>1
      <3> QED
        BY <1>1, <2>5, <3>2, <3>3
    <2> QED
      BY <1>1, <2>4, <2>5, <2>6
  <1>3. CASE ~TakesAct(q, i)
    BY <1>1, <1>3 DEF Without
  <1> QED
    BY <1>2, <1>3

\* p has been taken out of its queue.
TakenOut(p) ==
  /\ QueuesHome(queues')
  /\ \A t \in Transactions : \A S \in ColumnsFor(t) :
       Tally(queues[KeyOf(t.rank, t.bank)], S)
         = Tally(queues'[KeyOf(t.rank, t.bank)], S) + One(p \in S)

LEMMA TakenFromQueue ==
  ASSUME QueuesHome(queues), NEW k \in QueueKeys, NEW p \in CommandsAt(k),
         NEW new \in Seq(CommandsAt(k)), queues' = [queues EXCEPT ![k] = new],
         \A t \in Transactions : \A S \in ColumnsFor(t) :
           Tally(queues[k], S) = Tally(new, S) + One(p \in S)
  PROVE  TakenOut(p)
  <1>1. QueuesHome(queues')
    BY DEF QueuesHome
  <1>2. ASSUME NEW t \in Transactions, NEW S \in ColumnsFor(t)
        PROVE  Tally(queues[KeyOf(t.rank, t.bank)], S)
                 = Tally(queues'[KeyOf(t.rank, t.bank)], S) + One(p \in S)
    <2>1. KeyOf(t.rank, t.bank) \in QueueKeys
      BY FrontEndAssumption, KeyOfType DEF AllTransactions
    <2>2. CASE KeyOf(t.rank, t.bank) = k
      <3>1. queues'[KeyOf(t.rank, t.bank)] = new
        BY <2>1, <2>2 DEF QueuesHome
      <3> QED
        BY <2>2, <3>1
    <2>3. CASE KeyOf(t.rank, t.bank) # k
      <3>1. queues'[KeyOf(t.rank, t.bank)] = queues[KeyOf(t.rank, t.bank)]
        BY <2>1, <2>3 DEF QueuesHome
      <3>2. p \notin S
        <4>1. WriteRequest(p) = t \/ SameAddress(p, t) => p.rank = t.rank /\ p.bank = t.bank
          BY DEF WriteRequest, SameAddress
        <4> QED
          BY <2>3, <4>1 DEF CommandsAt, ColumnsFor, WriteCommands, ReadCommands
      <3>3. Tally(queues[KeyOf(t.rank, t.bank)], S) \in Nat
        BY <2>1, TallyType DEF QueuesHome
      <3> QED
        BY <3>1, <3>2, <3>3 DEF One
    <2> QED
      BY <2>2, <2>3
  <1> QED
    BY <1>1, <1>2 DEF TakenOut

\* What update() does with a popped command that is a write of some request or none.
LEMMA TransmitConserves ==
  ASSUME Conserved, NEW p, TakenOut(p), Transmit(p), Idling,
         IsWrite(p) => p \in QueueCommands /\ WriteRequest(p) \in Transactions
  PROVE  Conserved'
  <1> DEFINE e == [packet |-> [p EXCEPT !.busPacketType = "DATA"], countdown |-> WL]
  <1>1. /\ writeData' = IF IsWrite(p) THEN Append(writeData, e) ELSE writeData
        /\ UNCHANGED <<transactionQueue, pendingReads, outgoingDataPacket, pendingTransactions,
                       outstanding>>
    BY DEF Transmit, Idling
  <1>2. HoldsRequests /\ writeData \in Seq(WriteData)
    BY DEF Conserved, HoldsRequests
  <1>3. ASSUME IsWrite(p)
        PROVE  e \in WriteData /\ \A t : e \in DataFor(t) <=> p \in WriteCommands(t)
    <2>1. p \in BusPackets /\ p \in QueueCommands /\ WriteRequest(p) \in Transactions
      BY <1>3 DEF QueueCommands
    <2>2. [p EXCEPT !.busPacketType = "DATA"] \in BusPackets
          /\ WriteRequest([p EXCEPT !.busPacketType = "DATA"]) = WriteRequest(p)
      BY <2>1 DEF BusPackets, WriteRequest
    <2>3. WL \in Int
      BY TimingAssumption DEF WL, RL
    <2> QED
      BY <1>3, <2>1, <2>2, <2>3 DEF WriteData, DataFor, WriteCommands
  <1> HIDE DEF e
  <1>4. /\ writeData' \in Seq(WriteData)
        /\ \A t \in Transactions :
             Tally(writeData', DataFor(t)) = Tally(writeData, DataFor(t)) + One(p \in WriteCommands(t))
    <2>1. CASE IsWrite(p)
      <3>1. Append(writeData, e) \in Seq(WriteData)
        BY <1>2, <1>3, <2>1, AppendProperties
      <3>2. ASSUME NEW t \in Transactions
            PROVE  Tally(Append(writeData, e), DataFor(t))
                     = Tally(writeData, DataFor(t)) + One(p \in WriteCommands(t))
        <4>1. Tally(Append(writeData, e), DataFor(t)) = Tally(writeData, DataFor(t)) + One(e \in DataFor(t))
          BY <1>2, <1>3, <2>1, TallyAppend
        <4>2. One(e \in DataFor(t)) = One(p \in WriteCommands(t))
          BY <1>3, <2>1 DEF One
        <4> QED
          BY <4>1, <4>2
      <3> QED
        BY <1>1, <2>1, <3>1, <3>2
    <2>2. CASE ~IsWrite(p)
      <3>1. \A t \in Transactions : One(p \in WriteCommands(t)) = 0 /\ Tally(writeData, DataFor(t)) \in Nat
        BY <1>2, <2>2, TallyType DEF WriteCommands, One
      <3> QED
        BY <1>1, <1>2, <2>2, <3>1
    <2> QED
      BY <2>1, <2>2
  <1>5. HoldsRequests'
    BY <1>1, <1>2, <1>4 DEF HoldsRequests, TakenOut, QueuesHome
  <1>6. ASSUME NEW t \in Transactions PROVE Balanced(t)'
    <2> DEFINE c == Tally(queues[KeyOf(t.rank, t.bank)], WriteCommands(t))
               d == Tally(queues'[KeyOf(t.rank, t.bank)], WriteCommands(t))
    <2>1. c = d + One(p \in WriteCommands(t)) /\ c \in Nat /\ d \in Nat
      <3>1. KeyOf(t.rank, t.bank) \in QueueKeys
        BY FrontEndAssumption, KeyOfType DEF AllTransactions
      <3> QED
        BY <1>2, <3>1, TallyType DEF TakenOut, ColumnsFor, QueuesHome, HoldsRequests
    <2>2. /\ Tally(pendingTransactions, {t}) \in Nat /\ Tally(transactionQueue, {t}) \in Nat
          /\ Tally(pendingReads, {t}) \in Nat
          /\ Tally(writeData, DataFor(t)) \in Nat /\ One(OnTheBus(t)) \in {0, 1}
          /\ One(p \in WriteCommands(t)) \in {0, 1}
      BY <1>2, TalliesType, OneType
    <2>3. outstanding[t] = Tally(pendingTransactions, {t})
                             + (Tally(transactionQueue, {t}) + Tally(pendingReads, {t}) + c)
                             + (Tally(writeData, DataFor(t)) + One(OnTheBus(t)))
      BY DEF Conserved, Balanced, Inside, Sending
    <2>4. One(OnTheBus(t)') = One(OnTheBus(t))
      BY <1>1 DEF OnTheBus
    <2>5. Tally(writeData', DataFor(t)) = Tally(writeData, DataFor(t)) + One(p \in WriteCommands(t))
      BY <1>4
    <2> HIDE DEF c, d
    <2>6. outstanding[t] = Tally(pendingTransactions, {t})
                             + (Tally(transactionQueue, {t}) + Tally(pendingReads, {t}) + d)
                             + (Tally(writeData', DataFor(t)) + One(OnTheBus(t)'))
      BY <2>1, <2>2, <2>3, <2>4, <2>5
    <2> QED
      BY <1>1, <2>6 DEF Balanced, Inside, Sending, d
  <1> QED
    BY <1>5, <1>6 DEF Conserved

LEMMA PopRefreshColumnTakes ==
  ASSUME ChannelInv, QueuesHome(queues), NEW p, PopRefreshColumn(p)
  PROVE  TakenOut(p) /\ p \in QueueCommands /\ (IsWrite(p) => WriteRequest(p) \in Transactions)
  <1>1. PICK b \in BANKS, j \in 1 .. CMD_QUEUE_DEPTH :
          /\ <<b, j>> \in RefreshColumn
          /\ p = Queue(cqRefreshRank, b)[j]
          /\ queues' = [queues EXCEPT ![KeyOf(cqRefreshRank, b)] = RemoveAt(@, j)]
    BY DEF PopRefreshColumn
  <1> DEFINE k == KeyOf(cqRefreshRank, b)
             q == queues[k]
  <1>2. cqRefreshRank \in RANKS /\ j \in WantingColumn(b)
    BY <1>1 DEF RefreshColumn, OpenBlocker, ChannelInv, QueueInv
  <1>3. k \in QueueKeys /\ q \in Seq(CommandsAt(k)) /\ QueueSound(q)
    BY <1>2, KeyOfType DEF QueuesHome, ChannelInv, QueueInv, QueuesSound
  <1>4. j \in 1 .. Len(q) /\ p = q[j] /\ queues' = [queues EXCEPT ![k] = RemoveAt(q, j)]
    BY <1>1, <1>2, <1>3, WantingColumnFacts DEF Queue
  <1> HIDE DEF k, q
  <1>5. /\ RemoveAt(q, j) \in Seq(CommandsAt(k)) /\ p \in CommandsAt(k)
        /\ \A S : Tally(q, S) = Tally(RemoveAt(q, j), S) + One(p \in S)
    BY <1>3, <1>4, RemoveConserves
  <1>6. \A S : Tally(queues[k], S) = Tally(RemoveAt(q, j), S) + One(p \in S)
    BY <1>5 DEF q
  <1>7. TakenOut(p)
    BY <1>3, <1>4, <1>5, <1>6, TakenFromQueue
  <1> QED
    BY <1>5, <1>7 DEF CommandsAt

LEMMA PopQueuedTakes ==
  ASSUME ChannelInv, QueuesHome(queues), NEW p, PopQueued(p)
  PROVE  TakenOut(p) /\ p \in QueueCommands /\ (IsWrite(p) => WriteRequest(p) \in Transactions)
  <1> DEFINE cell == ScanCell(Min(ScanHits))
             k    == KeyOf(cell[1], cell[2])
             q    == queues[k]
             i    == Min(Sendable(q))
  <1>1. /\ ScanHits # {} /\ p = q[i]
        /\ queues' = [queues EXCEPT ![k] = Without(q, i)]
    BY DEF PopQueued
  <1>2. Min(ScanHits) \in ScanHits
    BY <1>1, ScanCells, MinFacts DEF ChannelInv
  <1>3. cell \in RANKS \X BANKS /\ k \in QueueKeys /\ Sendable(q) # {}
    BY <1>2, ScanCells, KeyOfType DEF ScanHits, Queue, ChannelInv
  <1> HIDE DEF cell, k
  <1>4. q \in Seq(CommandsAt(k)) /\ QueueSound(q) /\ Len(q) \in Nat
    BY <1>3, LenProperties DEF QueuesHome, ChannelInv, QueueInv, QueuesSound
  <1>5. i \in 1 .. Len(q)
    <2>1. \A j \in Sendable(q) : j \in 1 .. Len(q)
      BY <1>4, SendableFacts
    <2>2. Sendable(q) \subseteq Nat
      BY <1>4, <2>1
    <2> QED
      BY <1>3, <2>1, <2>2, MinFacts
  <1> HIDE DEF i
  <1>6. /\ Without(q, i) \in Seq(CommandsAt(k)) /\ p \in CommandsAt(k)
        /\ \A t \in Transactions : \A S \in ColumnsFor(t) :
             Tally(q, S) = Tally(Without(q, i), S) + One(p \in S)
    BY <1>1, <1>4, <1>5, WithoutConserves
  <1>7. TakenOut(p)
    BY <1>1, <1>3, <1>6, TakenFromQueue
  <1> QED
    BY <1>6, <1>7 DEF CommandsAt

\* A command that was not queued is neither read nor write.
LEMMA OtherTakes ==
  ASSUME QueuesHome(queues), NEW p, p.busPacketType \in {"PRECHARGE", "REFRESH"}, queues' = queues
  PROVE  TakenOut(p) /\ ~IsWrite(p) /\ ~IsRead(p)
  <1>1. ~IsWrite(p) /\ ~IsRead(p)
    BY DEF IsWrite, IsRead
  <1>2. ASSUME NEW t \in Transactions, NEW S \in ColumnsFor(t)
        PROVE  One(p \in S) = 0 /\ Tally(queues[KeyOf(t.rank, t.bank)], S) \in Nat
    <2>1. KeyOf(t.rank, t.bank) \in QueueKeys
      BY FrontEndAssumption, KeyOfType DEF AllTransactions
    <2>2. Tally(queues[KeyOf(t.rank, t.bank)], S) \in Nat
      BY <2>1, TallyType DEF QueuesHome
    <2> QED
      BY <1>1, <2>2 DEF ColumnsFor, WriteCommands, ReadCommands, One
  <1>3. TakenOut(p)
    BY <1>2 DEF TakenOut
  <1> QED
    BY <1>1, <1>3

LEMMA IssueConserves ==
  ASSUME ChannelInv, Conserved,
         IssueForRefresh \/ IssueRefresh \/ IssueQueued \/ IssuePrecharge \/ IssueNothing
  PROVE  Conserved'
  <1>1. QueuesHome(queues)
    BY DEF Conserved, HoldsRequests
  <1>2. ASSUME NEW p, IssuePopped(p, PopRefreshColumn(p)) PROVE Conserved'
    <2>1. PopRefreshColumn(p) /\ Transmit(p) /\ Idling
      BY <1>2 DEF IssuePopped
    <2> QED
      BY <1>1, <2>1, PopRefreshColumnTakes, TransmitConserves
  <1>3. ASSUME NEW p, IssuePopped(p, PopQueued(p)) PROVE Conserved'
    <2>1. PopQueued(p) /\ Transmit(p) /\ Idling
      BY <1>3 DEF IssuePopped
    <2> QED
      BY <1>1, <2>1, PopQueuedTakes, TransmitConserves
  <1>4. ASSUME NEW p, IssuePopped(p, PopRefreshPrecharge(p)) PROVE Conserved'
    <2>1. PopRefreshPrecharge(p) /\ Transmit(p) /\ Idling
      BY <1>4 DEF IssuePopped
    <2>2. p.busPacketType \in {"PRECHARGE", "REFRESH"} /\ queues' = queues
      BY <2>1 DEF PopRefreshPrecharge, Packet
    <2> QED
      BY <1>1, <2>1, <2>2, OtherTakes, TransmitConserves
  <1>5. ASSUME NEW p, IssuePopped(p, PopRefresh(p)) PROVE Conserved'
    <2>1. PopRefresh(p) /\ Transmit(p) /\ Idling
      BY <1>5 DEF IssuePopped
    <2>2. p.busPacketType \in {"PRECHARGE", "REFRESH"} /\ queues' = queues
      BY <2>1 DEF PopRefresh, Packet
    <2> QED
      BY <1>1, <2>1, <2>2, OtherTakes, TransmitConserves
  <1>6. ASSUME NEW p, IssuePopped(p, PopPrecharge(p)) PROVE Conserved'
    <2>1. PopPrecharge(p) /\ Transmit(p) /\ Idling
      BY <1>6 DEF IssuePopped
    <2>2. p.busPacketType \in {"PRECHARGE", "REFRESH"} /\ queues' = queues
      BY <2>1 DEF PopPrecharge, Packet
    <2> QED
      BY <1>1, <2>1, <2>2, OtherTakes, TransmitConserves
  <1>7. CASE IssueNothing
    <2>1. /\ UNCHANGED <<outstanding, pendingTransactions, transactionQueue, pendingReads, queues,
                         writeData, outgoingDataPacket>>
         
      BY <1>7 DEF IssueNothing, PopNothing, Idling
    <2>2. HoldsRequests'
      BY <2>1 DEF Conserved, HoldsRequests, QueuesHome
    <2>3. \A t \in Transactions : Balanced(t)'
      BY <2>1 DEF Conserved, Balanced, Inside, Sending, OnTheBus
    <2> QED
      BY <2>1, <2>2, <2>3 DEF Conserved
  <1> QED
    BY <1>2, <1>3, <1>4, <1>5, <1>6, <1>7
    DEF IssueForRefresh, IssueRefresh, IssueQueued, IssuePrecharge

-----------------------------------------------------------------------------
(* Dispatch moves transactions on, and returned data answers a pending read. *)

\* A dispatched transaction's commands are at home in its queue.
LEMMA CommandsOf ==
  ASSUME NEW t \in Transactions
  PROVE  LET k == KeyOf(t.rank, t.bank)
             a == CommandFor(t, "ACTIVATE")
             c == CommandFor(t, ColumnType(t.transactionType))
         IN  /\ k \in QueueKeys /\ KeyOf(a.rank, a.bank) = k /\ KeyOf(c.rank, c.bank) = k
             /\ a \in CommandsAt(k) /\ c \in CommandsAt(k) /\ ~IsWrite(a) /\ ~IsRead(a)
             /\ IsWrite(c) <=> t.transactionType = "DATA_WRITE"
             /\ IsWrite(c) => WriteRequest(c) = t
             /\ IsRead(c) <=> t.transactionType = "DATA_READ"
             /\ SameAddress(c, t)
  <1> DEFINE k == KeyOf(t.rank, t.bank)
             a == CommandFor(t, "ACTIVATE")
             c == CommandFor(t, ColumnType(t.transactionType))
  <1>1. /\ t \in AllTransactions /\ t.transactionType \in {"DATA_READ", "DATA_WRITE"}
        /\ t.rank \in RANKS /\ t.bank \in BANKS /\ t.row \in ROWS /\ t.column \in COLS
    BY FrontEndAssumption DEF AllTransactions
  <1>2. k \in QueueKeys
    BY <1>1, KeyOfType
  <1>3. /\ a.rank = t.rank /\ a.bank = t.bank /\ a.busPacketType = "ACTIVATE"
        /\ c.rank = t.rank /\ c.bank = t.bank /\ c.row = t.row /\ c.column = t.column
        /\ c.busPacketType = ColumnType(t.transactionType)
    BY DEF CommandFor, Packet
  <1>4. /\ ColumnType(t.transactionType) \in QueuedTypes \cap ColumnTypes
        /\ t.transactionType = "DATA_WRITE" => ColumnType(t.transactionType) \in {"WRITE", "WRITE_P"}
        /\ t.transactionType = "DATA_READ" => ColumnType(t.transactionType) \in {"READ", "READ_P"}
    BY <1>1, PolicyAssumption DEF ColumnType, QueuedTypes, ColumnTypes
  <1>5. a \in QueueCommands /\ c \in QueueCommands
    BY <1>1, <1>4 DEF CommandFor, Packet, QueueCommands, BusPackets, CommandTypes, ColumnTypes, QueuedTypes
  <1>6. /\ ~IsWrite(a) /\ (IsWrite(c) <=> t.transactionType = "DATA_WRITE")
        /\ ~IsRead(a) /\ (IsRead(c) <=> t.transactionType = "DATA_READ")
        /\ SameAddress(c, t)
    BY <1>1, <1>3, <1>4 DEF IsWrite, IsRead, SameAddress
  <1>7. IsWrite(c) => WriteRequest(c) = t
    BY <1>1, <1>3, <1>6 DEF WriteRequest, AllTransactions
  <1> HIDE DEF a, c
  <1>8. a \in CommandsAt(k) /\ c \in CommandsAt(k)
    BY <1>3, <1>5, <1>6, <1>7 DEF CommandsAt
  <1> QED
    BY <1>2, <1>3, <1>6, <1>7, <1>8 DEF a, c

\* Dispatch adds to the pending reads what it adds to the queues' read commands.
ReadsFollow(pending, qs, t) ==
  LET k == KeyOf(t.rank, t.bank)
  IN  Tally(pending, {t}) + Tally(queues[k], ReadCommands(t))
        = Tally(pendingReads, {t}) + Tally(qs[k], ReadCommands(t))

DispatchKeeps(s) ==
  /\ s.transactions \in Seq(Transactions)
  /\ s.pending \in Seq(ReadRequests)
  /\ QueuesHome(s.queues)
  /\ \A t \in Transactions : Inside(s.transactions, s.pending, s.queues, t)
                               = Inside(transactionQueue, pendingReads, queues, t)
  /\ \A t \in ReadRequests : ReadsFollow(s.pending, s.queues, t)

LEMMA DispatchAtConserves ==
  ASSUME HoldsRequests, NEW s, DispatchKeeps(s), NEW i \in Nat \ {0}
  PROVE  DispatchKeeps(DispatchAt(s, i))
  <1>1. /\ s.transactions \in Seq(Transactions) /\ s.pending \in Seq(ReadRequests)
        /\ QueuesHome(s.queues) /\ Len(s.transactions) \in Nat
    BY LenProperties DEF DispatchKeeps
  <1>2. CASE i > Len(s.transactions) \/ ~HasRoomFor(2, s.queues, s.transactions[i].rank, s.transactions[i].bank)
    BY <1>2 DEF DispatchAt
  <1>3. CASE ~(i > Len(s.transactions)) /\ HasRoomFor(2, s.queues, s.transactions[i].rank, s.transactions[i].bank)
    <2> DEFINE t   == s.transactions[i]
               k   == KeyOf(t.rank, t.bank)
               a   == CommandFor(t, "ACTIVATE")
               c   == CommandFor(t, ColumnType(t.transactionType))
               q   == s.queues[k]
               ts  == RemoveAt(s.transactions, i)
               new == Append(Append(q, a), c)
               rs  == IF t.transactionType = "DATA_READ" THEN Append(s.pending, t) ELSE s.pending
               qs  == Enqueue(Enqueue(s.queues, a), c)
    <2>1. DispatchAt(s, i) = [transactions |-> ts, queues |-> qs, pending |-> rs]
      BY <1>3 DEF DispatchAt
    <2>2. i \in 1 .. Len(s.transactions) /\ t \in Transactions
      BY <1>1, <1>3
    <2>3. /\ k \in QueueKeys /\ KeyOf(a.rank, a.bank) = k /\ KeyOf(c.rank, c.bank) = k
          /\ a \in CommandsAt(k) /\ c \in CommandsAt(k) /\ ~IsWrite(a) /\ ~IsRead(a)
          /\ IsWrite(c) <=> t.transactionType = "DATA_WRITE"
          /\ IsWrite(c) => WriteRequest(c) = t
          /\ IsRead(c) <=> t.transactionType = "DATA_READ"
          /\ SameAddress(c, t)
      BY <2>2, CommandsOf
    <2>4. /\ ts \in Seq(Transactions)
          /\ \A u : Tally(s.transactions, {u}) = Tally(ts, {u}) + One(t \in {u})
      BY <1>1, <2>2, RemoveAtFacts, TallyRemoveAt
    <2>5. t.transactionType \in {"DATA_READ", "DATA_WRITE"} /\ t \in AllTransactions
      BY <2>2, FrontEndAssumption DEF AllTransactions
    <2> HIDE DEF t, a, c, k, ts
    <2>6. q \in Seq(CommandsAt(k))
      BY <1>1, <2>3 DEF QueuesHome
    <2>7. qs = [s.queues EXCEPT ![k] = new]
      <3>1. qs = WithTwo(s.queues, k, a, c)
        BY <1>1, <2>3, EnqueueTwo DEF QueuesHome
      <3> QED
        BY <3>1 DEF WithTwo
    <2>8. /\ new \in Seq(CommandsAt(k))
          /\ \A S : Tally(new, S) = (Tally(q, S) + One(a \in S)) + One(c \in S)
      <3>1. Append(q, a) \in Seq(CommandsAt(k)) /\ \A S : Tally(Append(q, a), S) = Tally(q, S) + One(a \in S)
        BY <2>3, <2>6, AppendProperties, TallyAppend
      <3> DEFINE qa == Append(q, a)
      <3>2. qa \in Seq(CommandsAt(k)) /\ \A S : Tally(qa, S) = Tally(q, S) + One(a \in S)
        BY <3>1
      <3> HIDE DEF q, qa
      <3>3. Append(qa, c) \in Seq(CommandsAt(k)) /\ \A S : Tally(Append(qa, c), S) = Tally(qa, S) + One(c \in S)
        BY <2>3, <3>2, AppendProperties, TallyAppend
      <3> QED
        BY <3>2, <3>3 DEF qa
    <2> HIDE DEF q, new, qs
    <2>9. QueuesHome(qs)
      BY <1>1, <2>3, <2>7, <2>8 DEF QueuesHome
    <2>10. /\ rs \in Seq(ReadRequests)
           /\ \A u : Tally(rs, {u}) = IF t.transactionType = "DATA_READ"
                                      THEN Tally(s.pending, {u}) + One(t \in {u}) ELSE Tally(s.pending, {u})
      <3>1. CASE t.transactionType = "DATA_READ"
        <4>1. t \in ReadRequests
          BY <2>2, <3>1 DEF ReadRequests, t
        <4> QED
          BY <1>1, <3>1, <4>1, AppendProperties, TallyAppend
      <3>2. CASE t.transactionType # "DATA_READ"
        BY <1>1, <3>2
      <3> QED
        BY <3>1, <3>2
    <2> HIDE DEF rs
    <2>11. ASSUME NEW u \in Transactions
           PROVE  Inside(ts, rs, qs, u) = Inside(s.transactions, s.pending, s.queues, u)
      <3> DEFINE ku == KeyOf(u.rank, u.bank)
                 W  == WriteCommands(u)
      <3>1. ku \in QueueKeys
        BY FrontEndAssumption, KeyOfType DEF AllTransactions
      <3>2. /\ Tally(ts, {u}) \in Nat /\ Tally(s.pending, {u}) \in Nat
            /\ Tally(s.queues[ku], W) \in Nat /\ One(t \in {u}) \in {0, 1}
        BY <1>1, <2>4, <3>1, TallyType, OneType DEF QueuesHome
      <3>3. Tally(qs[ku], W) = Tally(s.queues[ku], W)
                                 + (IF t.transactionType = "DATA_WRITE" THEN One(t \in {u}) ELSE 0)
        <4>1. One(a \in W) = 0
          BY <2>3 DEF WriteCommands, One
        <4>2. One(c \in W) = IF t.transactionType = "DATA_WRITE" THEN One(t \in {u}) ELSE 0
          BY <2>3 DEF WriteCommands, One, CommandsAt
        <4>3. CASE ku = k
          <5>1. qs[ku] = new /\ q = s.queues[ku]
            BY <1>1, <2>3, <2>7, <4>3 DEF QueuesHome, q
          <5>2. Tally(new, W) = (Tally(q, W) + One(a \in W)) + One(c \in W)
            BY <2>8
          <5> HIDE DEF ku, W
          <5> QED
            BY <3>2, <4>1, <4>2, <5>1, <5>2
        <4>4. CASE ku # k
          <5>1. qs[ku] = s.queues[ku]
            BY <1>1, <3>1, <2>7, <4>4 DEF QueuesHome
          <5>2. t # u
            BY <4>4 DEF k
          <5> HIDE DEF ku, W
          <5> QED
            BY <3>2, <5>1, <5>2 DEF One
        <4> QED
          BY <4>3, <4>4
      <3>4. Tally(s.transactions, {u}) = Tally(ts, {u}) + One(t \in {u})
        BY <2>4
      <3>5. Tally(rs, {u}) = IF t.transactionType = "DATA_READ"
                             THEN Tally(s.pending, {u}) + One(t \in {u}) ELSE Tally(s.pending, {u})
        BY <2>10
      <3>6. Tally(ts, {u}) + Tally(rs, {u}) + Tally(qs[ku], W)
              = Tally(s.transactions, {u}) + Tally(s.pending, {u}) + Tally(s.queues[ku], W)
        <4> HIDE DEF ku, W
        <4>1. CASE t.transactionType = "DATA_READ"
          BY <3>2, <3>3, <3>4, <3>5, <4>1
        <4>2. CASE t.transactionType = "DATA_WRITE"
          BY <3>2, <3>3, <3>4, <3>5, <4>2
        <4> QED
          BY <2>5, <4>1, <4>2
      <3> QED
        BY <3>6 DEF Inside
    <2>12. ASSUME NEW u \in ReadRequests, ReadsFollow(s.pending, s.queues, u)
           PROVE  ReadsFollow(rs, qs, u)
      <3> DEFINE ku == KeyOf(u.rank, u.bank)
                 R  == ReadCommands(u)
      <3>1. ku \in QueueKeys /\ u \in AllTransactions /\ u.transactionType = "DATA_READ"
        BY FrontEndAssumption, KeyOfType DEF AllTransactions, ReadRequests
      <3>2. Tally(s.pending, {u}) \in Nat /\ Tally(s.queues[ku], R) \in Nat /\ One(t \in {u}) \in {0, 1}
        BY <1>1, <3>1, TallyType, OneType DEF QueuesHome
      <3>3. One(a \in R) = 0
        BY <2>3 DEF ReadCommands, One
      <3>4. One(c \in R) = One(t \in {u})
        <4>1. c \in R <=> t.transactionType = "DATA_READ" /\ SameAddress(c, u)
          BY <2>3 DEF ReadCommands, CommandsAt
        <4>2. SameAddress(c, u) <=> SameAddress(t, u)
          BY <2>3 DEF SameAddress
        <4>3. t.transactionType = "DATA_READ" /\ SameAddress(t, u) <=> t = u
          BY <2>5, <3>1 DEF SameAddress, AllTransactions
        <4> QED
          BY <4>1, <4>2, <4>3 DEF One
      <3>5. Tally(rs, {u}) = Tally(s.pending, {u}) + One(t \in {u})
        <4>1. t.transactionType # "DATA_READ" => One(t \in {u}) = 0
          BY <3>1 DEF One
        <4>2. Tally(rs, {u}) = IF t.transactionType = "DATA_READ"
                               THEN Tally(s.pending, {u}) + One(t \in {u}) ELSE Tally(s.pending, {u})
          BY <2>10
        <4> HIDE DEF R, ku
        <4>3. Tally(s.pending, {u}) \in Nat
          BY <3>2
        <4> QED
          BY <4>1, <4>2, <4>3
      <3>6. Tally(qs[ku], R) = Tally(s.queues[ku], R) + One(t \in {u})
        <4>1. CASE ku = k
          <5>1. qs[ku] = new /\ q = s.queues[ku]
            BY <1>1, <2>3, <2>7, <4>1 DEF QueuesHome, q
          <5>2. Tally(new, R) = (Tally(q, R) + One(a \in R)) + One(c \in R)
            BY <2>8
          <5> HIDE DEF ku, R
          <5> QED
            BY <3>2, <3>3, <3>4, <5>1, <5>2
        <4>2. CASE ku # k
          <5>1. qs[ku] = s.queues[ku]
            BY <1>1, <3>1, <2>7, <4>2 DEF QueuesHome
          <5>2. t # u
            BY <4>2 DEF k
          <5> HIDE DEF ku, R
          <5> QED
            BY <3>2, <5>1, <5>2 DEF One
        <4> QED
          BY <4>1, <4>2
      <3>7. Tally(queues[ku], R) \in Int /\ Tally(pendingReads, {u}) \in Int
        BY <3>1, TallyType DEF HoldsRequests, QueuesHome
      <3>8. Tally(s.pending, {u}) + Tally(queues[ku], R) = Tally(pendingReads, {u}) + Tally(s.queues[ku], R)
        BY <2>12 DEF ReadsFollow
      <3> HIDE DEF ku, R
      <3>9. Tally(rs, {u}) + Tally(queues[ku], R) = Tally(pendingReads, {u}) + Tally(qs[ku], R)
        BY <3>2, <3>5, <3>6, <3>7, <3>8
      <3> QED
        BY <3>9 DEF ReadsFollow, ku, R
    <2> QED
      BY <2>1, <2>4, <2>9, <2>10, <2>11, <2>12 DEF DispatchKeeps
  <1> QED
    BY <1>2, <1>3

LEMMA DispatchedConserves ==
  ASSUME HoldsRequests, transactionQueue \in Seq(AllTransactions)
  PROVE  DispatchKeeps(Dispatched)
  <1> DEFINE n   == Len(transactionQueue)
             Bad == {i \in 0 .. n : ~DispatchKeeps(Dispatching[i])}
  <1>1. n \in Nat
    BY LenProperties
  <1>2. /\ Dispatching[0] = DispatchStart
        /\ \A i \in 1 .. n : Dispatching[i] = DispatchAt(Dispatching[i-1], i)
    BY <1>1, DispatchingDef
  <1>3. SUFFICES ASSUME Bad # {} PROVE FALSE
    BY <1>1 DEF Dispatched
  <1>4. PICK m \in Bad : \A k \in Bad : m <= k
    <2>1. Bad \subseteq Nat
      BY <1>1
    <2> QED
      BY <2>1, <1>3, LeastNumber
  <1>5. CASE m = 0
    <2>1. DispatchKeeps(DispatchStart)
      BY DEF DispatchKeeps, DispatchStart, HoldsRequests, ReadsFollow
    <2> QED
      BY <1>2, <1>4, <1>5, <2>1
  <1>6. CASE m # 0
    <2>1. m \in 1 .. n /\ m - 1 \in 0 .. n /\ m - 1 \notin Bad
      BY <1>1, <1>4, <1>6
    <2>2. DispatchKeeps(Dispatching[m-1])
      BY <2>1
    <2>3. DispatchKeeps(Dispatching[m])
      BY <1>1, <1>2, <2>1, <2>2, DispatchAtConserves
    <2> QED
      BY <1>4, <2>3
  <1> QED
    BY <1>5, <1>6

\* The read that returned data answers is one of the pending reads, and the oldest
\* for its address.
LEMMA AnswerFacts ==
  ASSUME NEW pending \in Seq(ReadRequests), NEW d, Answers(d, pending) # {}
  PROVE  LET i == Min(Answers(d, pending))
         IN  /\ i \in 1 .. Len(pending) /\ pending[i] \in ReadRequests
             /\ WithoutAnswered(pending, d) = RemoveAt(pending, i)
  <1>1. Answers(d, pending) \subseteq 1 .. Len(pending) /\ Len(pending) \in Nat
    BY LenProperties DEF Answers
  <1>2. Answers(d, pending) \subseteq Nat
    BY <1>1
  <1>3. Min(Answers(d, pending)) \in 1 .. Len(pending)
    BY <1>1, <1>2, MinFacts
  <1> QED
    BY <1>3 DEF WithoutAnswered

LEMMA EndConserves ==
  ASSUME ChannelInv, Conserved, End
  PROVE  Conserved' /\ ~UnknownReturn(Dispatched.pending)
  <1> DEFINE pending == Dispatched.pending
             d       == returnTransaction[1]
             i       == Min(Answers(d, pending))
             answer  == pending[i]
             answers == returnTransaction # <<>> /\ Answers(d, pending) # {}
  <1>1. /\ HoldsRequests /\ outstanding \in [Transactions -> Nat]
        /\ transactionQueue \in Seq(AllTransactions)
    BY DEF Conserved, HoldsRequests, ChannelInv
  <1>2. DispatchKeeps(Dispatched)
    BY <1>1, DispatchedConserves
  <1>3. /\ transactionQueue' = Dispatched.transactions /\ queues' = Dispatched.queues
        /\ ReturnRead(pending)
        /\ UNCHANGED <<pendingTransactions, writeData, outgoingDataPacket>>
    BY DEF End
  <1>4. /\ Dispatched.transactions \in Seq(Transactions)
        /\ pending \in Seq(ReadRequests) /\ QueuesHome(Dispatched.queues)
        /\ \A t \in Transactions : Inside(Dispatched.transactions, pending, Dispatched.queues, t)
                                     = Inside(transactionQueue, pendingReads, queues, t)
    BY <1>2 DEF DispatchKeeps
  <1> HIDE DEF pending
  <1>5. ASSUME answers
        PROVE  /\ i \in 1 .. Len(pending) /\ answer \in Transactions /\ outstanding[answer] > 0
               /\ WithoutAnswered(pending, d) = RemoveAt(pending, i)
    <2>1. /\ i \in 1 .. Len(pending) /\ answer \in ReadRequests
          /\ WithoutAnswered(pending, d) = RemoveAt(pending, i)
      BY <1>4, <1>5, AnswerFacts
    <2> HIDE DEF i
    <2>2. answer \in Transactions
      BY <2>1 DEF ReadRequests
    <2>3. Tally(pending, {answer}) > 0 /\ Tally(pending, {answer}) \in Nat
      BY <1>4, <2>1, TallySome, TallyType
    <2>4. Inside(Dispatched.transactions, pending, Dispatched.queues, answer) > 0
      <3>1. KeyOf(answer.rank, answer.bank) \in QueueKeys
        BY <2>2, FrontEndAssumption, KeyOfType DEF AllTransactions
      <3>2. Dispatched.queues[KeyOf(answer.rank, answer.bank)] \in Seq(CommandsAt(KeyOf(answer.rank, answer.bank)))
        BY <1>4, <3>1 DEF QueuesHome
      <3> HIDE DEF answer
      <3>3. /\ Tally(Dispatched.transactions, {answer}) \in Nat
            /\ Tally(Dispatched.queues[KeyOf(answer.rank, answer.bank)], WriteCommands(answer)) \in Nat
        BY <1>4, <3>2, TallyType
      <3> QED
        BY <2>3, <3>3 DEF Inside
    <2>5. outstanding[answer] > 0
      <3> HIDE DEF answer
      <3>1. Balanced(answer)
        BY <2>2 DEF Conserved
      <3>2. /\ Tally(pendingTransactions, {answer}) \in Nat /\ Sending(answer) \in Nat
            /\ Inside(transactionQueue, pendingReads, queues, answer) \in Nat
        BY <1>1, <2>2, TalliesType
      <3>3. Inside(transactionQueue, pendingReads, queues, answer) > 0
        BY <1>4, <2>2, <2>4
      <3> QED
        BY <3>1, <3>2, <3>3 DEF Balanced
    <2> QED
      BY <2>1, <2>2, <2>5
  <1>6. ~UnknownReturn(pending)
    <2>1. UnknownReturn(pending) => answers /\ outstanding[answer] = 0
      BY DEF UnknownReturn
    <2> HIDE DEF answer, answers, i
    <2> QED
      BY <1>5, <2>1
  <1>7. /\ pendingReads' \in Seq(ReadRequests) /\ outstanding' \in [Transactions -> Nat]
        /\ \A t \in Transactions :
             /\ Tally(pending, {t}) = Tally(pendingReads', {t}) + One(answers /\ answer = t)
             /\ outstanding[t] = outstanding'[t] + One(answers /\ answer = t)
    <2>1. CASE answers
      <3>1. /\ i \in 1 .. Len(pending) /\ answer \in Transactions /\ outstanding[answer] > 0
            /\ WithoutAnswered(pending, d) = RemoveAt(pending, i)
        BY <1>5, <2>1
      <3>2. /\ pendingReads' = RemoveAt(pending, i)
            /\ outstanding' = [outstanding EXCEPT ![answer] = outstanding[answer] - 1]
        BY <1>3, <2>1, <3>1 DEF ReturnRead, CalledBack
      <3> HIDE DEF i
      <3>3. /\ RemoveAt(pending, i) \in Seq(ReadRequests)
            /\ \A t : Tally(pending, {t}) = Tally(RemoveAt(pending, i), {t}) + One(answer \in {t})
        BY <1>4, <3>1, RemoveAtFacts, TallyRemoveAt
      <3>4. \A t : One(answer \in {t}) = One(answers /\ answer = t)
        BY <2>1 DEF One
      <3> HIDE DEF answer, answers
      <3>5. outstanding[answer] \in Nat /\ outstanding[answer] - 1 \in Nat
        <4>1. outstanding[answer] \in Nat
          BY <1>1, <3>1
        <4> QED
          BY <3>1, <4>1
      <3>6. outstanding' \in [Transactions -> Nat]
        BY <1>1, <3>1, <3>2, <3>5
      <3>7. ASSUME NEW t \in Transactions PROVE outstanding[t] = outstanding'[t] + One(answers /\ answer = t)
        <4>1. outstanding[t] \in Nat
          BY <1>1
        <4>2. outstanding'[t] = IF t = answer THEN outstanding[t] - 1 ELSE outstanding[t]
          BY <1>1, <3>1, <3>2
        <4>3. One(answers /\ answer = t) = IF t = answer THEN 1 ELSE 0
          BY <2>1 DEF One
        <4> QED
          BY <4>1, <4>2, <4>3
      <3> QED
        BY <3>2, <3>3, <3>4, <3>6, <3>7
    <2>2. CASE ~answers
      <3>1. outstanding' = outstanding /\ pendingReads' = pending
        BY <1>3, <2>2 DEF ReturnRead, WithoutAnswered
      <3>2. \A t \in Transactions : /\ outstanding[t] \in Nat /\ Tally(pending, {t}) \in Nat
                                    /\ One(answers /\ answer = t) = 0
        BY <1>1, <1>4, <2>2, TallyType DEF One
      <3> HIDE DEF answers, answer
      <3>3. ASSUME NEW t \in Transactions
            PROVE  /\ Tally(pending, {t}) = Tally(pendingReads', {t}) + One(answers /\ answer = t)
                   /\ outstanding[t] = outstanding'[t] + One(answers /\ answer = t)
        BY <3>1, <3>2
      <3>4. pendingReads' \in Seq(ReadRequests) /\ outstanding' \in [Transactions -> Nat]
        BY <1>1, <1>4, <3>1
      <3> QED
        BY <3>3, <3>4
    <2> QED
      BY <2>1, <2>2
  <1> HIDE DEF answer, answers
  <1>8. HoldsRequests'
    <2>1. transactionQueue' \in Seq(Transactions) /\ QueuesHome(queues')
      BY <1>3, <1>4
    <2>2. /\ pendingTransactions' \in Seq(Transactions) /\ writeData' \in Seq(WriteData)
          /\ outgoingDataPacket' # NoPacket => WriteRequest(outgoingDataPacket') \in Transactions
      BY <1>1, <1>3 DEF HoldsRequests
    <2> QED
      BY <1>7, <2>1, <2>2 DEF HoldsRequests, QueuesHome
  <1>9. ASSUME NEW t \in Transactions PROVE Balanced(t)'
    <2> DEFINE a == Tally(transactionQueue', {t})
               c == Tally(queues'[KeyOf(t.rank, t.bank)], WriteCommands(t))
    <2>1. /\ outstanding[t] = Tally(pendingTransactions, {t})
                                + Inside(transactionQueue, pendingReads, queues, t) + Sending(t)
          /\ Tally(pendingTransactions, {t}) \in Nat /\ Sending(t) \in Nat
      BY <1>1, TalliesType DEF Conserved, Balanced
    <2>2. Inside(transactionQueue, pendingReads, queues, t) = a + Tally(pending, {t}) + c
      BY <1>3, <1>4 DEF Inside
    <2>3. a \in Nat /\ c \in Nat /\ Tally(pendingReads', {t}) \in Nat /\ outstanding'[t] \in Nat
          /\ One(answers /\ answer = t) \in {0, 1}
      <3>1. KeyOf(t.rank, t.bank) \in QueueKeys
        BY FrontEndAssumption, KeyOfType DEF AllTransactions
      <3>2. /\ transactionQueue' \in Seq(Transactions)
            /\ queues'[KeyOf(t.rank, t.bank)] \in Seq(CommandsAt(KeyOf(t.rank, t.bank)))
        BY <1>3, <1>4, <3>1 DEF QueuesHome
      <3>3. a \in Nat /\ c \in Nat
        BY <3>2, TallyType
      <3>4. Tally(pendingReads', {t}) \in Nat /\ One(answers /\ answer = t) \in {0, 1}
        BY <1>7, TallyType, OneType
      <3> QED
        BY <1>7, <3>3, <3>4
    <2>4. /\ Tally(pending, {t}) = Tally(pendingReads', {t}) + One(answers /\ answer = t)
          /\ outstanding[t] = outstanding'[t] + One(answers /\ answer = t)
      BY <1>7
    <2> HIDE DEF a, c
    <2>5. outstanding'[t] = Tally(pendingTransactions, {t}) + (a + Tally(pendingReads', {t}) + c) + Sending(t)
      BY <2>1, <2>2, <2>3, <2>4
    <2>6. Sending(t)' = Sending(t) /\ Tally(pendingTransactions', {t}) = Tally(pendingTransactions, {t})
      BY <1>3 DEF Sending, OnTheBus
    <2> QED
      BY <2>5, <2>6 DEF Balanced, Inside, a, c
  <1> QED
    BY <1>6, <1>8, <1>9 DEF Conserved, pending

-----------------------------------------------------------------------------
(* The channel. *)

\* The sums are those of RequestsConserved.
LEMMA ConservedMeansRequestsConserved == Conserved => RequestsConserved
  <1> SUFFICES ASSUME Conserved, NEW t \in Transactions
               PROVE  outstanding[t] =
                        Count(pendingTransactions, LAMBDA u : u = t) + Count(transactionQueue, LAMBDA u : u = t)
                          + IF t.transactionType = "DATA_READ" THEN Count(pendingReads, LAMBDA u : u = t)
                            ELSE WritesInside(t)
    BY DEF RequestsConserved
  <1> DEFINE k == KeyOf(t.rank, t.bank)
  <1>1. HoldsRequests /\ t \in AllTransactions /\ t.transactionType \in {"DATA_READ", "DATA_WRITE"}
    BY FrontEndAssumption DEF Conserved, AllTransactions
  <1>2. k \in QueueKeys
    BY <1>1, KeyOfType DEF AllTransactions
  <1>3. /\ Count(pendingTransactions, LAMBDA u : u = t) = Tally(pendingTransactions, {t})
        /\ Count(transactionQueue, LAMBDA u : u = t) = Tally(transactionQueue, {t})
        /\ Count(pendingReads, LAMBDA u : u = t) = Tally(pendingReads, {t})
    <2>1. \A s : {i \in DOMAIN s : s[i] = t} = Positions(s, {t})
      BY DEF Positions
    <2> QED
      BY <2>1 DEF Count, Tally
  <1>4. /\ Tally(pendingTransactions, {t}) \in Nat /\ Tally(transactionQueue, {t}) \in Nat
        /\ Tally(pendingReads, {t}) \in Nat /\ Tally(queues[k], WriteCommands(t)) \in Nat
        /\ Tally(writeData, DataFor(t)) \in Nat /\ One(OnTheBus(t)) \in {0, 1}
    BY <1>1, TalliesType
  <1>5. outstanding[t] = Tally(pendingTransactions, {t})
                           + (Tally(transactionQueue, {t}) + Tally(pendingReads, {t})
                                + Tally(queues[k], WriteCommands(t)))
                           + (Tally(writeData, DataFor(t)) + One(OnTheBus(t)))
    BY DEF Conserved, Balanced, Inside, Sending
  <1>6. /\ queues[k] \in Seq(CommandsAt(k)) /\ writeData \in Seq(WriteData)
        /\ pendingReads \in Seq(ReadRequests)
    BY <1>1, <1>2 DEF HoldsRequests, QueuesHome
  <1>7. CASE t.transactionType = "DATA_READ"
    <2>1. \A p : WriteRequest(p) # t
      BY <1>7 DEF WriteRequest
    <2>2. /\ Tally(queues[k], WriteCommands(t)) = 0 /\ Tally(writeData, DataFor(t)) = 0
          /\ One(OnTheBus(t)) = 0
      BY <1>6, <2>1, TallyNone DEF WriteCommands, DataFor, OnTheBus, One
    <2> QED
      BY <1>3, <1>4, <1>5, <1>7, <2>2
  <1>8. CASE t.transactionType = "DATA_WRITE"
    <2>1. \A p : WriteRequest(p) = t <=> SameAddress(p, t)
      BY <1>1, <1>8 DEF WriteRequest, SameAddress, AllTransactions
    <2>2. Tally(pendingReads, {t}) = 0
      <3>1. \A i \in 1 .. Len(pendingReads) : pendingReads[i] \notin {t}
        BY <1>6, <1>8 DEF ReadRequests
      <3> QED
        BY <1>6, <3>1, TallyNone
    <2>3. Queued(t, IsWrite) = Tally(queues[k], WriteCommands(t))
      <3>1. \A i \in DOMAIN queues[k] : queues[k][i] \in QueueCommands
        BY <1>6, LenProperties DEF CommandsAt
      <3>2. {i \in DOMAIN queues[k] : SameAddress(queues[k][i], t) /\ IsWrite(queues[k][i])}
              = Positions(queues[k], WriteCommands(t))
        BY <2>1, <3>1 DEF Positions, WriteCommands
      <3> QED
        BY <3>2 DEF Queued, Count, Tally
    <2>4. WritesSending(t) = Tally(writeData, DataFor(t)) + One(OnTheBus(t))
      <3>1. \A i \in DOMAIN writeData : writeData[i] \in WriteData
        BY <1>6, LenProperties
      <3>2. {i \in DOMAIN writeData : SameAddress(writeData[i].packet, t)} = Positions(writeData, DataFor(t))
        BY <2>1, <3>1 DEF Positions, DataFor
      <3>3. OnTheBus(t) <=> outgoingDataPacket # NoPacket /\ SameAddress(outgoingDataPacket, t)
        BY <2>1 DEF OnTheBus
      <3> QED
        BY <3>2, <3>3 DEF WritesSending, Count, Tally, One
    <2>5. WritesInside(t) = Tally(queues[k], WriteCommands(t)) + (Tally(writeData, DataFor(t)) + One(OnTheBus(t)))
      BY <2>3, <2>4 DEF WritesInside
    <2> HIDE DEF k
    <2> QED
      BY <1>3, <1>4, <1>5, <1>8, <2>2, <2>5
  <1> QED
    BY <1>1, <1>7, <1>8

\* Every step keeps the balance, unless it ends the program with a bus error.
LEMMA NextConserves ==
  ASSUME ChannelInv, Conserved, [Next]_vars, ~BusError'
  PROVE  Conserved'
  <1>1. CASE UNCHANGED vars
    <2>1. UNCHANGED <<outstanding, pendingTransactions, transactionQueue, pendingReads, queues,
                      writeData, outgoingDataPacket>>
      BY <1>1 DEF vars, queueVars, controllerVars
    <2>2. HoldsRequests'
      BY <2>1 DEF Conserved, HoldsRequests, QueuesHome
    <2>3. \A t \in Transactions : Balanced(t)'
      BY <2>1 DEF Conserved, Balanced, Inside, Sending, OnTheBus
    <2> QED
      BY <2>2, <2>3 DEF Conserved
  <1>2. ASSUME NEW t \in Transactions, AddTransaction(t) \/ ParkTransaction(t) PROVE Conserved'
    BY <1>2, AcceptConserves
  <1>3. CASE Begin
    BY <1>3, BeginConserves
  <1>4. CASE IssueForRefresh \/ IssueRefresh \/ IssueQueued \/ IssuePrecharge \/ IssueNothing
    BY <1>4, IssueConserves
  <1>5. CASE End
    BY <1>5, EndConserves
  <1> QED
    BY <1>1, <1>2, <1>3, <1>4, <1>5 DEF Next, Update

\* After an exit nothing happens any more.
LEMMA ExitIsFinal ==
  ASSUME [Next]_vars, error # "none"
  PROVE  error' = error
  <1>1. ~Next
    <2>1. \A t \in Transactions : ~AddTransaction(t) /\ ~ParkTransaction(t)
      BY DEF AddTransaction, ParkTransaction, Accept
    <2>2. ~Begin /\ ~IssueNothing /\ ~End
      BY DEF Begin, IssueNothing, End
    <2>3. ~IssueForRefresh /\ ~IssueRefresh /\ ~IssueQueued /\ ~IssuePrecharge
      BY DEF IssueForRefresh, IssueRefresh, IssueQueued, IssuePrecharge, IssuePopped
    <2> QED
      BY <2>1, <2>2, <2>3 DEF Next, Update
  <1> QED
    BY <1>1 DEF vars

UnknownCallback == error = "no pending request"

\* No step calls back a request that nobody waits for.
LEMMA NextCallbacksExpected ==
  ASSUME ChannelInv, Conserved, ~UnknownCallback, [Next]_vars, ~BusError'
  PROVE  ~UnknownCallback'
  <1>1. CASE UNCHANGED vars
    BY <1>1 DEF vars, UnknownCallback
  <1>2. ASSUME NEW t \in Transactions, AddTransaction(t) \/ ParkTransaction(t)
        PROVE  ~UnknownCallback'
    BY <1>2 DEF AddTransaction, ParkTransaction, UnknownCallback
  <1>3. CASE Begin
    BY <1>3, BeginConserves DEF UnknownCallback
  <1>4. CASE IssueForRefresh \/ IssueRefresh \/ IssueQueued \/ IssuePrecharge \/ IssueNothing
    BY <1>4 DEF IssueForRefresh, IssueRefresh, IssueQueued, IssuePrecharge, IssuePopped, IssueNothing,
                UnknownCallback
  <1>5. CASE End
    <2>1. ~UnknownReturn(Dispatched.pending)
      BY <1>5, EndConserves
    <2> QED
      BY <1>5, <2>1 DEF End, UnknownCallback
  <1> QED
    BY <1>1, <1>2, <1>3, <1>4, <1>5 DEF Next, Update

ConservationInv == error = "data bus collision" \/ (Conserved /\ ~UnknownCallback)

\* Requests are conserved as long as no data is lost on the bus.
THEOREM ConservationInvariance == Spec => []ConservationInv
  <1>1. Init => ConservationInv
    BY ConservedInit DEF ConservationInv, UnknownCallback
  <1>2. ChannelInv /\ (error # "command not allowed")' /\ ConservationInv /\ [Next]_vars => ConservationInv'
    <2> SUFFICES ASSUME ChannelInv, error' # "command not allowed", ConservationInv, [Next]_vars,
                        error' # "data bus collision"
                 PROVE  (Conserved /\ ~UnknownCallback)'
      BY DEF ConservationInv
    <2>1. ~BusError'
      BY DEF BusError
    <2>2. error # "data bus collision"
      <3>1. error = "data bus collision" => error # "none"
        OBVIOUS
      <3> QED
        BY <3>1, ExitIsFinal
    <2>3. Conserved /\ ~UnknownCallback
      BY <2>2 DEF ConservationInv
    <2> QED
      BY <2>1, <2>3, NextConserves, NextCallbacksExpected
  <1>3. error \notin {"command not allowed", "command bus collision", "power change not allowed"}
          => error # "command not allowed"
    OBVIOUS
  <1> QED
    BY <1>1, <1>2, <1>3, ChannelInvariance, ChannelNeverRejected, PTL DEF Spec

\* Whatever the constants: no request is lost and none is answered twice, unless the
\* program has ended with its exit for a collision on the data bus.
THEOREM RequestsAreConserved == Spec => [](error # "data bus collision" => RequestsConserved)
  <1>1. ConservationInv => (error # "data bus collision" => RequestsConserved)
    BY ConservedMeansRequestsConserved DEF ConservationInv
  <1> QED
    BY <1>1, ConservationInvariance, PTL

\* Every callback is for a request that the CPU waits for: the program never ends
\* in TransactionReceiver.
THEOREM CallbacksExpected == Spec => [](error # "no pending request")
  <1>1. ConservationInv => error # "no pending request"
    BY DEF ConservationInv, UnknownCallback
  <1> QED
    BY <1>1, ConservationInvariance, PTL

-----------------------------------------------------------------------------
(* The controller's banks, as the protocol's invariant leaves them. *)

\* At the start of update() the bursts are a cycle ahead of the banks' waits.
Lag == IF phase = "begin" THEN 1 ELSE 0

\* A row that closes itself is not accessed before it is closed.
ClosesInTime(m) ==
  m.currentBankState = "RowActive" /\ m.stateChangeCountdown > 0 =>
    /\ rowBufferPolicy # "OpenPage"
    /\ m.nextRead + Lag >= m.stateChangeCountdown
    /\ m.nextWrite + Lag >= m.stateChangeCountdown

BankInv ==
  /\ bankStates \in [RANKS -> [BANKS -> BankStates]]
  /\ outgoingCmdPacket # NoPacket => cmdCyclesLeft = 1 /\ phase # "issue"
  /\ \A r \in RANKS, b \in BANKS :
       LET m == bankStates[r][b]
       IN  /\ ClosesInTime(m)
           /\ m.currentBankState \in {"Idle", "PowerDown"} => m.stateChangeCountdown = 0
           /\ m.currentBankState = "Precharging" =>
                m.stateChangeCountdown >= 1 /\ m.lastCommand = "PRECHARGE"
           /\ m.currentBankState = "Refreshing" =>
                /\ m.stateChangeCountdown >= 1 /\ m.lastCommand = "REFRESH"
                /\ m.nextActivate + Lag >= m.stateChangeCountdown
           /\ m.currentBankState = "RowActive" /\ m.stateChangeCountdown > 0 =>
                m.lastCommand \in {"READ_P", "WRITE_P"}
           /\ m.currentBankState = "PowerDown" <=> powerDown[r]

\* The protocol's invariant holds in the channel.
LEMMA ProtocolInvHolds == Spec => []Checked!IInv
  <1>1. Checked!READ_AUTOPRE_DELAY >= Checked!READ_TO_PRE_DELAY
    BY AutoPrechargeAssumption
    DEF Checked!READ_AUTOPRE_DELAY, READ_AUTOPRE_DELAY, Checked!READ_TO_PRE_DELAY,
        READ_TO_PRE_DELAY, Checked!BURST, BURST, Checked!Later, Later
  <1>2. Checked!ProtocolSpec => []Checked!IInv
    BY Checked!ProtocolInvariance, <1>1, GeometryAssumption, TimingAssumption,
       CommandBusAssumption, PolicyAssumption
    DEF Checked!ProtocolInvariance
  <1>3. ImplementsProtocol => Checked!ProtocolSpec
    BY SameProtocol DEF ImplementsProtocol
  <1> QED
    BY <1>2, <1>3, ChannelImplementsProtocol, PTL

LEMMA BankInvariance == Spec => []BankInv
  <1>1. ASSUME Checked!IInv PROVE BankInv
    <2>1. /\ Checked!BankStates = BankStates /\ Checked!RANKS = RANKS /\ Checked!BANKS = BANKS
          /\ Checked!NoPacket = NoPacket
      BY DEF Checked!BankStates, BankStates, Checked!CurrentBankState, CurrentBankState,
             Checked!CommandTypes, CommandTypes, Checked!ColumnTypes, ColumnTypes,
             Checked!RANKS, RANKS, Checked!BANKS, BANKS, Checked!ROWS, ROWS,
             Checked!NoPacket, NoPacket
    <2>2. /\ bankStates \in [RANKS -> [BANKS -> BankStates]]
          /\ outgoingCmdPacket # NoPacket => cmdCyclesLeft = 1 /\ phase # "issue"
      BY <1>1, <2>1 DEF Checked!IInv, Checked!ProtocolTypeOK, Checked!BusConsistent
    <2>3. ASSUME NEW r \in RANKS, NEW b \in BANKS
          PROVE  /\ Checked!BankConsistent(bankStates[r][b], Lag)
                 /\ bankStates[r][b].currentBankState = "PowerDown" <=> powerDown[r]
      BY <1>1, <2>1 DEF Checked!IInv, Checked!PowerAgrees, Lag
    <2> QED
      BY <2>2, <2>3 DEF BankInv, ClosesInTime, Checked!BankConsistent
  <1> QED
    BY <1>1, ProtocolInvHolds, PTL

\* A popped command is one that the controller's bank states allow.
LEMMA Popped ==
  ASSUME ChannelInv, DataInv, BankInv,
         IssueForRefresh \/ IssueRefresh \/ IssueQueued \/ IssuePrecharge
  PROVE  LET p == outgoingCmdPacket'
         IN  /\ p \in Protocol!Commands /\ p \in BusPackets /\ Protocol!Issuable(p)
             /\ Transmit(p) /\ Idling
             /\ phase = "issue" /\ phase' = "end" /\ outgoingCmdPacket = NoPacket
  <1> DEFINE p == outgoingCmdPacket'
  <1>1. /\ Transmit(p) /\ Idling /\ phase = "issue" /\ phase' = "end"
    <2>1. \E d : Transmit(d) /\ Idling /\ phase = "issue" /\ phase' = "end"
      BY DEF IssueForRefresh, IssueRefresh, IssueQueued, IssuePrecharge, IssuePopped
    <2>2. PICK d : Transmit(d) /\ Idling /\ phase = "issue" /\ phase' = "end"
      BY <2>1
    <2>3. d = p
      BY <2>2 DEF Transmit
    <2> QED
      BY <2>2, <2>3
  <1>2. p \in Protocol!Commands /\ Protocol!Issuable(p)
    <2>1. PICK d \in Protocol!Commands : Protocol!Issue(d)
      BY PopRefines
    <2>2. d = p /\ Protocol!Issuable(d)
      BY <2>1 DEF Protocol!Issue
    <2> QED
      BY <2>1, <2>2
  <1>3. p \in BusPackets
    BY <1>2, SameSets DEF Protocol!Commands
  <1>4. outgoingCmdPacket = NoPacket
    BY <1>1 DEF BankInv
  <1> QED
    BY <1>1, <1>2, <1>3, <1>4

-----------------------------------------------------------------------------
(* No column command is stranded: one whose ACTIVATE has gone is the first   *)
(* for its row, and finds that row open with accesses left.                  *)

\* The accesses of a row are only counted while it is open, and with open page.
CountersReset ==
  \A r \in RANKS, b \in BANKS :
    rowBufferPolicy = "ClosePage" \/ bankStates[r][b].currentBankState # "RowActive" =>
      rowAccessCounters[r][b] = 0

ServedInv == ExposedServed /\ CountersReset

\* The bank m stays open for the same row, as n.
StaysOpen(m, n) == /\ n.currentBankState = m.currentBankState
                   /\ n.openRowAddress = m.openRowAddress
                   /\ n.stateChangeCountdown = m.stateChangeCountdown

\* A command leaves the banks open that it is not for.
LEMMA OthersStayOpen ==
  ASSUME NEW p \in BusPackets, p.busPacketType \in CommandTypes,
         NEW r \in RANKS, NEW b \in BANKS, NEW m \in BankStates,
         ~(r = p.rank /\ b = p.bank), p.busPacketType = "REFRESH" => r # p.rank
  PROVE  StaysOpen(m, AfterCommand(p, r, b, m))
  <1>1. p.busPacketType \in {"READ", "READ_P"} \cup {"WRITE", "WRITE_P"}
                              \cup {"ACTIVATE", "PRECHARGE", "REFRESH"}
    BY DEF CommandTypes, ColumnTypes
  <1>2. <<r, b>> # <<p.rank, p.bank>>
    OBVIOUS
  <1>3. CASE p.busPacketType \in {"READ", "READ_P"}
    <2>1. AfterCommand(p, r, b, m) = AfterReadElsewhere(p, r, m)
      BY <1>2, <1>3 DEF AfterCommand, AfterRead
    <2> QED
      BY <2>1 DEF AfterReadElsewhere, StaysOpen, BankStates
  <1>4. CASE p.busPacketType \in {"WRITE", "WRITE_P"}
    <2>1. AfterCommand(p, r, b, m) = AfterWriteElsewhere(p, r, m)
      BY <1>2, <1>4 DEF AfterCommand, AfterWrite
    <2> QED
      BY <2>1 DEF AfterWriteElsewhere, StaysOpen, BankStates
  <1>5. CASE p.busPacketType = "ACTIVATE"
    <2>1. AfterCommand(p, r, b, m) = AfterActivate(p, r, b, m)
      BY <1>5 DEF AfterCommand
    <2> QED
      BY <2>1 DEF AfterActivate, StaysOpen, BankStates
  <1>6. CASE p.busPacketType = "PRECHARGE"
    <2>1. AfterCommand(p, r, b, m) = m
      BY <1>2, <1>6 DEF AfterCommand, AfterPrecharge
    <2> QED
      BY <2>1 DEF StaysOpen
  <1>7. CASE p.busPacketType = "REFRESH"
    <2>1. AfterCommand(p, r, b, m) = m
      BY <1>7 DEF AfterCommand, AfterRefresh
    <2> QED
      BY <2>1 DEF StaysOpen
  <1> QED
    BY <1>1, <1>3, <1>4, <1>5, <1>6, <1>7

\* What a command does to the bank it is for.
LEMMA OwnBank ==
  ASSUME NEW p \in BusPackets, NEW m \in BankStates
  PROVE  LET n == AfterCommand(p, p.rank, p.bank, m)
         IN  /\ p.busPacketType = "ACTIVATE" =>
                  /\ n.currentBankState = "RowActive" /\ n.openRowAddress = p.row
                  /\ n.stateChangeCountdown = m.stateChangeCountdown
             /\ p.busPacketType \in ColumnTypes => n.currentBankState = m.currentBankState
  <1> DEFINE n == AfterCommand(p, p.rank, p.bank, m)
  <1>1. CASE p.busPacketType = "ACTIVATE"
    <2>1. n = AfterActivate(p, p.rank, p.bank, m)
      BY <1>1 DEF AfterCommand
    <2> QED
      BY <1>1, <2>1 DEF AfterActivate, BankStates, ColumnTypes
  <1>2. CASE p.busPacketType \in {"READ", "READ_P"}
    <2>1. n = AfterRead(p, p.rank, p.bank, m)
      BY <1>2 DEF AfterCommand
    <2>2. AfterReadElsewhere(p, p.rank, m).currentBankState = m.currentBankState
          /\ DOMAIN AfterReadElsewhere(p, p.rank, m) = DOMAIN m
      BY DEF AfterReadElsewhere, BankStates
    <2>3. n.currentBankState = m.currentBankState
      BY <2>1, <2>2 DEF AfterRead, BankStates
    <2> QED
      BY <1>2, <2>3
  <1>3. CASE p.busPacketType \in {"WRITE", "WRITE_P"}
    <2>1. n = AfterWrite(p, p.rank, p.bank, m)
      BY <1>3 DEF AfterCommand
    <2>2. AfterWriteElsewhere(p, p.rank, m).currentBankState = m.currentBankState
          /\ DOMAIN AfterWriteElsewhere(p, p.rank, m) = DOMAIN m
      BY DEF AfterWriteElsewhere, BankStates
    <2>3. n.currentBankState = m.currentBankState
      BY <2>1, <2>2 DEF AfterWrite, BankStates
    <2> QED
      BY <1>3, <2>3
  <1> QED
    BY <1>1, <1>2, <1>3 DEF ColumnTypes

\* A queued command is for a bank there is.
LEMMA QueuedForBank ==
  ASSUME QueuesSound(queues), NEW k \in QueueKeys, NEW i \in DOMAIN queues[k]
  PROVE  queues[k][i] \in BusPackets /\ queues[k][i].rank \in RANKS /\ queues[k][i].bank \in BANKS
  <1>1. queues[k] \in Seq(QueueCommands)
    BY DEF QueuesSound, QueueSound
  <1> QED
    BY <1>1 DEF QueueCommands, BusPackets

LEMMA ServedInit == Init => ServedInv
  <1> SUFFICES ASSUME Init PROVE ServedInv
    OBVIOUS
  <1>1. \A k \in QueueKeys : queues[k] = <<>>
    BY DEF Init, MemoryControllerInit, CommandQueueInit
  <1>2. Exposed(<<>>) = {}
    BY DEF Exposed
  <1>3. \A r \in RANKS, b \in BANKS : rowAccessCounters[r][b] = 0
    BY DEF Init, MemoryControllerInit, CommandQueueInit
  <1> QED
    BY <1>1, <1>2, <1>3 DEF ServedInv, ExposedServed, CountersReset

\* The row of d stays open when its bank does and no access is counted.
LEMMA StillOpenFor ==
  ASSUME NEW d, OpenFor(d), StaysOpen(bankStates[d.rank][d.bank], bankStates'[d.rank][d.bank]),
         rowAccessCounters'[d.rank][d.bank] = rowAccessCounters[d.rank][d.bank]
  PROVE  OpenFor(d)'
  BY DEF OpenFor, StaysOpen

\* A pop that exposes no more than PopExposes says.
LEMMA IssueServes ==
  ASSUME ChannelInv, DataInv, BankInv, AllHome, ServedInv, NEW p, p = outgoingCmdPacket',
         IssueForRefresh \/ IssueRefresh \/ IssueQueued \/ IssuePrecharge,
         PopExposes(p), PopCounts(p)
  PROVE  ServedInv'
  <1>1. /\ p \in BusPackets /\ p.busPacketType \in CommandTypes
        /\ p.rank \in RANKS /\ p.bank \in BANKS
        /\ Transmit(p) /\ phase = "issue"
        /\ p.busPacketType = "ACTIVATE" =>
             /\ bankStates[p.rank][p.bank].currentBankState \in {"Idle", "Refreshing"}
             /\ bankStates[p.rank][p.bank].nextActivate = 0
        /\ p.busPacketType = "REFRESH" =>
             \A b \in BANKS : bankStates[p.rank][b].currentBankState # "RowActive"
    <2>1. p \in Protocol!Commands /\ p \in BusPackets /\ Protocol!Issuable(p) /\ Transmit(p) /\ phase = "issue"
      BY Popped
    <2>2. p.busPacketType \in CommandTypes
      BY <2>1 DEF Protocol!Commands, Protocol!PolicyTypes, CommandTypes, ColumnTypes
    <2>3. Protocol!BANKS = BANKS
      BY DEF Protocol!BANKS, BANKS
    <2> QED
      BY <2>1, <2>2, <2>3 DEF Protocol!Issuable, Protocol!RefreshIssuable, BusPackets
  <1>2. /\ QueuesServed /\ QueuesSound(queues) /\ TOTAL_ROW_ACCESSES \in Nat \ {0}
        /\ rowAccessCounters \in [RANKS -> [BANKS -> 0 .. TOTAL_ROW_ACCESSES]]
        /\ bankStates \in [RANKS -> [BANKS -> BankStates]]
    BY GeometryAssumption DEF QueuesServed, ServedInv, ChannelInv, QueueInv, BankInv
  <1>3. \A r \in RANKS, b \in BANKS : bankStates'[r][b] = AfterCommand(p, r, b, bankStates[r][b])
    BY <1>1 DEF Transmit
  <1>4. ASSUME NEW r \in RANKS, NEW b \in BANKS, ~(r = p.rank /\ b = p.bank),
               p.busPacketType = "REFRESH" => r # p.rank
        PROVE  StaysOpen(bankStates[r][b], bankStates'[r][b])
    <2>1. bankStates[r][b] \in BankStates
      BY <1>2
    <2>2. StaysOpen(bankStates[r][b], AfterCommand(p, r, b, bankStates[r][b]))
      BY <1>1, <1>4, <2>1, OthersStayOpen
    <2> QED
      BY <1>3, <2>2
  <1>5. ASSUME NEW r \in RANKS, NEW b \in BANKS, ~(r = p.rank /\ b = p.bank)
        PROVE  rowAccessCounters'[r][b] = rowAccessCounters[r][b]
    <2>1. ASSUME NEW x, rowAccessCounters' = [rowAccessCounters EXCEPT ![p.rank][p.bank] = x]
          PROVE  rowAccessCounters'[r][b] = rowAccessCounters[r][b]
      BY <1>1, <1>2, <1>5, <2>1
    <2> QED
      BY <2>1 DEF PopCounts
  <1> DEFINE m == bankStates[p.rank][p.bank]
             n == bankStates'[p.rank][p.bank]
  <1>6. /\ m \in BankStates
        /\ p.busPacketType = "ACTIVATE" =>
             /\ n.currentBankState = "RowActive" /\ n.openRowAddress = p.row
             /\ n.stateChangeCountdown = m.stateChangeCountdown
        /\ p.busPacketType \in ColumnTypes => n.currentBankState = m.currentBankState
    <2>1. n = AfterCommand(p, p.rank, p.bank, m) /\ m \in BankStates
      BY <1>1, <1>2, <1>3
    <2> HIDE DEF m, n
    <2> QED
      BY <1>1, <2>1, OwnBank
  <1>7. ExposedServed'
    <2> SUFFICES ASSUME NEW k \in QueueKeys, NEW j \in Exposed(queues'[k]), NEW d, d = queues'[k][j]
                 PROVE  FirstForRow(queues'[k], j) /\ OpenFor(d)'
      BY DEF ExposedServed
    <2>1. ASSUME NEW e \in Exposed(queues[k]), StillExposed(queues'[k], j, queues[k], e),
                 ~SameBank(p, queues[k][e])
          PROVE  FirstForRow(queues'[k], j) /\ OpenFor(d)'
      <3>1. d = queues[k][e] /\ FirstForRow(queues'[k], j) /\ OpenFor(d)
        BY <1>2, <2>1 DEF StillExposed, QueuesServed, ExposedServed
      <3>2. d.rank \in RANKS /\ d.bank \in BANKS
        BY <1>2, <3>1, QueuedForBank DEF Exposed
      <3>3. ~(d.rank = p.rank /\ d.bank = p.bank)
        BY <2>1, <3>1 DEF SameBank
      <3>4. p.busPacketType = "REFRESH" => d.rank # p.rank
        BY <1>1, <3>1, <3>2 DEF OpenFor
      <3> QED
        BY <1>4, <1>5, <3>1, <3>2, <3>3, <3>4, StillOpenFor
    <2>2. ASSUME IsAct(p), SameAddress(p, d), FirstForRow(queues'[k], j)
          PROVE  FirstForRow(queues'[k], j) /\ OpenFor(d)'
      <3>1. p.busPacketType = "ACTIVATE"
        BY <2>2 DEF IsAct
      <3>2. m.stateChangeCountdown = 0
        <4>1. m.currentBankState \in {"Idle", "Refreshing"} /\ m.nextActivate = 0 /\ Lag = 0
          BY <1>1, <3>1 DEF Lag
        <4>2. m.currentBankState = "Refreshing" =>
                m.stateChangeCountdown >= 1 /\ m.nextActivate + Lag >= m.stateChangeCountdown
          BY <1>1 DEF BankInv
        <4>3. m.currentBankState = "Idle" => m.stateChangeCountdown = 0
          BY <1>1 DEF BankInv
        <4>4. m.stateChangeCountdown \in Nat
          BY <1>6 DEF BankStates
        <4> HIDE DEF m
        <4> QED
          BY <4>1, <4>2, <4>3, <4>4
      <3>3. rowAccessCounters'[p.rank][p.bank] = 0
        <4>1. rowAccessCounters' = rowAccessCounters
          BY <2>2 DEF PopCounts
        <4>2. m.currentBankState # "RowActive"
          BY <1>1, <3>1
        <4> QED
          BY <1>1, <4>1, <4>2 DEF ServedInv, CountersReset
      <3>4. n.currentBankState = "RowActive" /\ n.openRowAddress = p.row /\ n.stateChangeCountdown = 0
        BY <1>6, <3>1, <3>2
      <3>5. d.rank = p.rank /\ d.bank = p.bank /\ d.row = p.row
        BY <2>2 DEF SameAddress
      <3>6. 0 < TOTAL_ROW_ACCESSES
        BY <1>2
      <3> HIDE DEF m
      <3> QED
        BY <2>2, <3>3, <3>4, <3>5, <3>6 DEF OpenFor
    <2> QED
      BY <2>1, <2>2 DEF PopExposes
  <1>8. CountersReset'
    <2> SUFFICES ASSUME NEW r \in RANKS, NEW b \in BANKS,
                        rowBufferPolicy = "ClosePage" \/ bankStates'[r][b].currentBankState # "RowActive"
                 PROVE  rowAccessCounters'[r][b] = 0
      BY DEF CountersReset
    <2>1. CASE rowBufferPolicy = "ClosePage"
      BY <2>1 DEF PopCounts, ServedInv, CountersReset
    <2>2. CASE rowBufferPolicy # "ClosePage" /\ ~(r = p.rank /\ b = p.bank)
      <3>1. bankStates[r][b].currentBankState # "RowActive"
        BY <1>1, <1>4, <2>2 DEF StaysOpen
      <3> QED
        BY <1>5, <2>2, <3>1 DEF ServedInv, CountersReset
    <2>3. CASE rowBufferPolicy # "ClosePage" /\ r = p.rank /\ b = p.bank
      <3>1. n.currentBankState # "RowActive"
        BY <2>3
      <3>2. m.currentBankState # "RowActive" => rowAccessCounters[r][b] = 0
        BY <2>3 DEF ServedInv, CountersReset
      <3>3. p.busPacketType \in ColumnTypes \cup {"PRECHARGE", "REFRESH"}
        BY <1>1, <1>6, <3>1 DEF CommandTypes
      <3>4. p.busPacketType \in ColumnTypes \cup {"REFRESH"} => m.currentBankState # "RowActive"
        BY <1>1, <1>6, <3>1
      <3> HIDE DEF m, n
      <3>5. p.busPacketType = "PRECHARGE" => p.busPacketType \notin ColumnTypes
        BY DEF ColumnTypes
      <3>6. CASE rowAccessCounters' = rowAccessCounters /\ p.busPacketType # "PRECHARGE"
        BY <3>2, <3>3, <3>4, <3>6
      <3>7. ASSUME NEW x, rowAccessCounters' = [rowAccessCounters EXCEPT ![p.rank][p.bank] = x],
                   x = 0 \/ (p.busPacketType \in ColumnTypes /\ m.currentBankState = "RowActive")
            PROVE  rowAccessCounters'[r][b] = 0
        <4>1. x = 0
          BY <3>4, <3>7
        <4> QED
          BY <1>1, <1>2, <2>3, <3>7, <4>1
      <3>8. \/ rowAccessCounters' = rowAccessCounters /\ p.busPacketType # "PRECHARGE"
            \/ \E x : /\ rowAccessCounters' = [rowAccessCounters EXCEPT ![p.rank][p.bank] = x]
                      /\ x = 0 \/ (p.busPacketType \in ColumnTypes /\ m.currentBankState = "RowActive")
        BY DEF PopCounts, m
      <3> QED
        BY <3>6, <3>7, <3>8
    <2> QED
      BY <2>1, <2>2, <2>3
  <1> QED
    BY <1>7, <1>8 DEF ServedInv

\* What pop() does in the issue step, whichever way it pops.
LEMMA IssueExposes ==
  ASSUME ChannelInv, QueuesServed,
         IssueForRefresh \/ IssueRefresh \/ IssueQueued \/ IssuePrecharge
  PROVE  PopExposes(outgoingCmdPacket') /\ PopCounts(outgoingCmdPacket')
  <1>1. QueueInv
    BY DEF ChannelInv
  <1>2. ASSUME NEW p, NEW pop, IssuePopped(p, pop) PROVE pop /\ outgoingCmdPacket' = p
    BY <1>2 DEF IssuePopped, Transmit
  <1>3. ASSUME NEW p, IssuePopped(p, PopRefreshColumn(p)) PROVE PopExposes(p) /\ PopCounts(p)
    BY <1>1, <1>2, <1>3, PopRefreshColumnExposes
  <1>4. ASSUME NEW p, IssuePopped(p, PopRefreshPrecharge(p)) PROVE PopExposes(p) /\ PopCounts(p)
    BY <1>1, <1>2, <1>4, PopRefreshPrechargeExposes
  <1>5. ASSUME NEW p, IssuePopped(p, PopRefresh(p)) PROVE PopExposes(p) /\ PopCounts(p)
    BY <1>1, <1>2, <1>5, PopRefreshExposes
  <1>6. ASSUME NEW p, IssuePopped(p, PopQueued(p)) PROVE PopExposes(p) /\ PopCounts(p)
    BY <1>1, <1>2, <1>6, PopQueuedExposes
  <1>7. ASSUME NEW p, IssuePopped(p, PopPrecharge(p)) PROVE PopExposes(p) /\ PopCounts(p)
    BY <1>1, <1>2, <1>7, PopPrechargeExposes
  <1>8. CASE IssueForRefresh
    <2>1. \E p : IssuePopped(p, PopRefreshColumn(p)) \/ IssuePopped(p, PopRefreshPrecharge(p))
      BY <1>8 DEF IssueForRefresh
    <2> QED
      BY <2>1, <1>2, <1>3, <1>4
  <1>9. CASE IssueRefresh
    <2>1. \E p : IssuePopped(p, PopRefresh(p))
      BY <1>9 DEF IssueRefresh
    <2> QED
      BY <2>1, <1>2, <1>5
  <1>10. CASE IssueQueued
    <2>1. \E p : IssuePopped(p, PopQueued(p))
      BY <1>10 DEF IssueQueued
    <2> QED
      BY <2>1, <1>2, <1>6
  <1>11. CASE IssuePrecharge
    <2>1. \E p : IssuePopped(p, PopPrecharge(p))
      BY <1>11 DEF IssuePrecharge
    <2> QED
      BY <2>1, <1>2, <1>7
  <1> QED
    BY <1>8, <1>9, <1>10, <1>11

\* The countdowns leave an open bank open.
LEMMA BeginServes ==
  ASSUME ChannelInv, BankInv, ServedInv, Begin
  PROVE  ServedInv'
  <1>1. /\ queues' = queues /\ rowAccessCounters' = rowAccessCounters
        /\ \A r \in RANKS, b \in BANKS : bankStates'[r][b] = CountDown(bankStates[r][b])
        /\ bankStates \in [RANKS -> [BANKS -> BankStates]] /\ QueuesSound(queues)
    BY DEF Begin, BankInv, ChannelInv, QueueInv
  <1>2. ASSUME NEW m \in BankStates
        PROVE  /\ m.stateChangeCountdown = 0 => StaysOpen(m, CountDown(m))
               /\ m.stateChangeCountdown # 1 => CountDown(m).currentBankState = m.currentBankState
    <2>1. CASE m.stateChangeCountdown # 1
      <3>1. CountDown(m) = [m EXCEPT !.stateChangeCountdown = Sooner(m.stateChangeCountdown)]
        BY <2>1 DEF CountDown
      <3> QED
        BY <2>1, <3>1 DEF StaysOpen, BankStates, Sooner
    <2>2. CASE m.stateChangeCountdown = 1
      BY <2>2
    <2> QED
      BY <2>1, <2>2
  <1>3. ExposedServed'
    <2> SUFFICES ASSUME NEW k \in QueueKeys, NEW j \in Exposed(queues[k]), NEW d, d = queues[k][j]
                 PROVE  FirstForRow(queues[k], j) /\ OpenFor(d)'
      BY <1>1 DEF ExposedServed
    <2>1. FirstForRow(queues[k], j) /\ OpenFor(d)
      BY DEF ServedInv, ExposedServed
    <2>2. d.rank \in RANKS /\ d.bank \in BANKS
      BY <1>1, QueuedForBank DEF Exposed
    <2>3. StaysOpen(bankStates[d.rank][d.bank], bankStates'[d.rank][d.bank])
      BY <1>1, <1>2, <2>1, <2>2 DEF OpenFor
    <2> QED
      BY <1>1, <2>1, <2>3, StillOpenFor
  <1>4. CountersReset'
    <2> SUFFICES ASSUME NEW r \in RANKS, NEW b \in BANKS, rowBufferPolicy # "ClosePage",
                        bankStates'[r][b].currentBankState # "RowActive"
                 PROVE  rowAccessCounters[r][b] = 0
      BY <1>1 DEF CountersReset, ServedInv
    <2> DEFINE m == bankStates[r][b]
    <2>1. m \in BankStates
      BY <1>1
    <2>2. m.currentBankState # "RowActive"
      <3>1. m.currentBankState = "RowActive" /\ m.stateChangeCountdown > 0 => rowBufferPolicy # "OpenPage"
        BY DEF BankInv, ClosesInTime
      <3>2. m.stateChangeCountdown # 1 => m.currentBankState # "RowActive"
        BY <1>1, <1>2, <2>1
      <3> HIDE DEF m
      <3> QED
        BY <3>1, <3>2, PolicyAssumption
    <2> QED
      BY <2>2 DEF ServedInv, CountersReset
  <1> QED
    BY <1>3, <1>4 DEF ServedInv

\* Dispatch exposes nothing, and only idle banks are powered down.
LEMMA EndServes ==
  ASSUME ChannelInv, BankInv, ServedInv, End
  PROVE  ServedInv'
  <1>1. /\ queues' = Dispatched.queues /\ rowAccessCounters' = rowAccessCounters
        /\ bankStates \in [RANKS -> [BANKS -> BankStates]] /\ QueuesSound(queues)
        /\ transactionQueue \in Seq(AllTransactions) /\ pendingReads \in Seq(AllTransactions)
    BY DEF End, BankInv, ChannelInv, QueueInv
  <1>2. DispatchExposes(Dispatched)
    BY <1>1, DispatchedExposes
  <1>3. \E down, up :
          /\ \A s \in down : \A c \in BANKS : bankStates[s][c].currentBankState = "Idle"
          /\ \A s \in up : powerDown[s]
          /\ PowerAndStep(down, up)
    <2> DEFINE idle == IdleRanks(Dispatched.queues)
    <2>1. /\ \A s \in GoingDown(idle) : \A c \in BANKS : bankStates[s][c].currentBankState = "Idle"
          /\ \A s \in ComingUp(idle) : powerDown[s]
          /\ PowerAndStep(GoingDown(idle), ComingUp(idle))
      BY DEF End, GoingDown, ComingUp
    <2> QED
      BY <2>1
  <1>4. ASSUME NEW r \in RANKS, NEW b \in BANKS
        PROVE  \/ StaysOpen(bankStates[r][b], bankStates'[r][b])
               \/ bankStates[r][b].currentBankState # "RowActive"
    <2>1. PICK down, up : /\ \A s \in down : \A c \in BANKS : bankStates[s][c].currentBankState = "Idle"
                          /\ \A s \in up : powerDown[s]
                          /\ PowerAndStep(down, up)
      BY <1>3
    <2> DEFINE m == bankStates[r][b]
    <2>2. bankStates'[r][b] = Step(IF r \in down THEN PoweredDown(m)
                                   ELSE IF r \in up THEN PoweredUp(m) ELSE m)
      BY <2>1 DEF PowerAndStep
    <2>3. r \in down \cup up => m.currentBankState # "RowActive"
      BY <2>1 DEF BankInv
    <2>4. r \notin down \cup up => bankStates'[r][b] = Step(m)
      BY <2>2
    <2>5. m \in BankStates
      BY <1>1
    <2> HIDE DEF m
    <2>6. StaysOpen(m, Step(m))
      BY <2>5 DEF StaysOpen, Step, BankStates
    <2> QED
      BY <2>3, <2>4, <2>6 DEF m
  <1>5. ExposedServed'
    <2> SUFFICES ASSUME NEW k \in QueueKeys, NEW j \in Exposed(Dispatched.queues[k]),
                        NEW d, d = Dispatched.queues[k][j]
                 PROVE  FirstForRow(Dispatched.queues[k], j) /\ OpenFor(d)'
      BY <1>1 DEF ExposedServed
    <2>1. j \in Exposed(queues[k]) /\ \A l \in 1 .. j : Dispatched.queues[k][l] = queues[k][l]
      BY <1>2 DEF DispatchExposes
    <2>2. j \in 1 .. j /\ j \in Nat /\ j \in DOMAIN queues[k]
      <3>1. queues[k] \in Seq(QueueCommands)
        BY <1>1 DEF QueuesSound, QueueSound
      <3>2. j \in 1 .. Len(queues[k]) /\ Len(queues[k]) \in Nat
        BY <2>1, <3>1, LenProperties DEF Exposed
      <3> QED
        BY <3>2, <2>1 DEF Exposed
    <2>3. d = queues[k][j] /\ FirstForRow(queues[k], j) /\ OpenFor(d)
      BY <2>1, <2>2 DEF ServedInv, ExposedServed
    <2>4. FirstForRow(Dispatched.queues[k], j)
      <3>1. \A l \in 1 .. j - 1 : l \in 1 .. j
        BY <2>2
      <3> QED
        BY <2>1, <2>2, <2>3, <3>1 DEF FirstForRow
    <2>5. d.rank \in RANKS /\ d.bank \in BANKS
      BY <1>1, <2>2, <2>3, QueuedForBank
    <2>6. StaysOpen(bankStates[d.rank][d.bank], bankStates'[d.rank][d.bank])
      BY <1>4, <2>3, <2>5 DEF OpenFor
    <2> QED
      BY <1>1, <2>3, <2>4, <2>6, StillOpenFor
  <1>6. CountersReset'
    <2> SUFFICES ASSUME NEW r \in RANKS, NEW b \in BANKS,
                        rowBufferPolicy = "ClosePage" \/ bankStates'[r][b].currentBankState # "RowActive"
                 PROVE  rowAccessCounters[r][b] = 0
      BY <1>1 DEF CountersReset
    <2>1. rowBufferPolicy = "ClosePage" \/ bankStates[r][b].currentBankState # "RowActive"
      BY <1>4 DEF StaysOpen
    <2> QED
      BY <2>1 DEF ServedInv, CountersReset
  <1> QED
    BY <1>5, <1>6 DEF ServedInv

LEMMA ConservedIsHome == Conserved => AllHome
  <1> SUFFICES ASSUME Conserved, NEW k \in QueueKeys, NEW i \in DOMAIN queues[k]
               PROVE  KeyOf(queues[k][i].rank, queues[k][i].bank) = k
    BY DEF AllHome
  <1>1. queues[k] \in Seq(CommandsAt(k))
    BY DEF Conserved, HoldsRequests, QueuesHome
  <1>2. queues[k][i] \in CommandsAt(k)
    BY <1>1
  <1> QED
    BY <1>2 DEF CommandsAt

\* ServedInv is inductive, relative to the invariants before it.
THEOREM ServedInvariance == Spec => []ServedInv
  <1>1. ChannelInv /\ DataInv /\ BankInv /\ ConservationInv /\ ServedInv /\ [Next]_vars => ServedInv'
    <2> SUFFICES ASSUME ChannelInv, DataInv, BankInv, ConservationInv, ServedInv, [Next]_vars
                 PROVE  ServedInv'
      OBVIOUS
    <2>1. ASSUME UNCHANGED <<queues, bankStates, rowAccessCounters>> PROVE ServedInv'
      BY <2>1 DEF ServedInv, ExposedServed, OpenFor, CountersReset
    <2>2. CASE UNCHANGED vars
      BY <2>1, <2>2 DEF vars, queueVars, controllerVars
    <2>3. CASE \E t \in Transactions : AddTransaction(t) \/ ParkTransaction(t)
      <3>1. UNCHANGED <<queues, bankStates, rowAccessCounters>>
        BY <2>3 DEF AddTransaction, ParkTransaction, queueVars, controllerVars
      <3> QED
        BY <2>1, <3>1
    <2>4. CASE Begin
      BY <2>4, BeginServes
    <2>5. CASE IssueForRefresh \/ IssueRefresh \/ IssueQueued \/ IssuePrecharge
      <3>1. error # "data bus collision"
        BY <2>5 DEF IssueForRefresh, IssueRefresh, IssueQueued, IssuePrecharge, IssuePopped
      <3>2. AllHome
        BY <3>1, ConservedIsHome DEF ConservationInv
      <3>3. QueuesServed
        BY <3>2 DEF QueuesServed, ServedInv, ChannelInv, QueueInv
      <3>4. PopExposes(outgoingCmdPacket') /\ PopCounts(outgoingCmdPacket')
        BY <2>5, <3>3, IssueExposes
      <3> QED
        BY <2>5, <3>2, <3>4, IssueServes
    <2>6. CASE IssueNothing
      <3>1. UNCHANGED <<queues, bankStates, rowAccessCounters>>
        BY <2>6 DEF IssueNothing, PopNothing
      <3> QED
        BY <2>1, <3>1
    <2>7. CASE End
      BY <2>7, EndServes
    <2> QED
      BY <2>2, <2>3, <2>4, <2>5, <2>6, <2>7 DEF Next, Update
  <1> QED
    BY <1>1, ServedInit, ChannelInvariance, DataInvariance, BankInvariance,
       ConservationInvariance, PTL DEF Spec

\* Whatever the geometry, the timing and the policies: a column command whose ACTIVATE
\* has gone finds its row open, and is not left behind by a precharge, a refresh or
\* the limit of accesses.
THEOREM NoColumnEverStranded == Spec => []NoStrandedColumn
  <1>1. ServedInv => NoStrandedColumn
    <2> SUFFICES ASSUME ServedInv, NEW k \in QueueKeys, NEW i \in DOMAIN queues[k],
                        ~IsAct(queues[k][i]), i = 1 \/ ~IsAct(queues[k][i-1])
                 PROVE  OpenFor(queues[k][i])
      BY DEF NoStrandedColumn, OpenFor
    <2>1. i \in Exposed(queues[k])
      BY DEF Exposed
    <2> QED
      BY <2>1 DEF ServedInv, ExposedServed
  <1> QED
    BY <1>1, ServedInvariance, PTL

-----------------------------------------------------------------------------
(* The order of the commands for one address. *)

AddressColumns(t) == {p \in QueueCommands : SameAddress(p, t) /\ ~IsAct(p)}

Types(s) == [n \in DOMAIN s |-> s[n].busPacketType]

LEMMA ColumnsSelected ==
  ASSUME NEW q \in Seq(QueueCommands), NEW t
  PROVE  LET mine == InOrder({i \in DOMAIN q : SameAddress(q[i], t) /\ ~IsAct(q[i])})
         IN  [n \in DOMAIN mine |-> q[mine[n]].busPacketType] = Types(Selected(q, AddressColumns(t)))
  <1>1. {i \in DOMAIN q : SameAddress(q[i], t) /\ ~IsAct(q[i])} = Positions(q, AddressColumns(t))
    <2>1. \A i \in DOMAIN q : q[i] \in QueueCommands
      BY LenProperties
    <2> QED
      BY <2>1 DEF Positions, AddressColumns
  <1>2. PICK mine : mine = InOrder(Positions(q, AddressColumns(t)))
    OBVIOUS
  <1>3. Selected(q, AddressColumns(t)) = [n \in DOMAIN mine |-> q[mine[n]]]
    BY <1>2 DEF Selected
  <1>4. Types(Selected(q, AddressColumns(t))) = [n \in DOMAIN mine |-> q[mine[n]].busPacketType]
    BY <1>3 DEF Types
  <1> QED
    BY <1>1, <1>2, <1>4

LEMMA TypesOfTail ==
  ASSUME NEW T, NEW s \in Seq(T), s # <<>>
  PROVE  Types(s) # <<>> /\ Types(Tail(s)) = Tail(Types(s))
  <1>1. /\ Len(s) \in Nat \ {0} /\ DOMAIN s = 1 .. Len(s)
        /\ Len(Tail(s)) = Len(s) - 1 /\ Tail(s) \in Seq(T)
        /\ \A j \in 1 .. Len(s) - 1 : Tail(s)[j] = s[j+1]
    BY HeadTailProperties, EmptySeq, LenProperties
  <1>2. PICK r : r = Tail(s)
    OBVIOUS
  <1>3. DOMAIN r = 1 .. Len(s) - 1 /\ \A j \in 1 .. Len(s) - 1 : r[j] = s[j+1]
    BY <1>1, <1>2, LenProperties
  <1>4. Types(r) = [j \in 1 .. Len(s) - 1 |-> s[j+1].busPacketType]
    BY <1>3 DEF Types
  <1>5. PICK y : y = Types(s)
    OBVIOUS
  <1>6. y = [j \in 1 .. Len(s) |-> s[j].busPacketType]
    BY <1>1, <1>5 DEF Types
  <1>7. PICK U : U = {s[j].busPacketType : j \in 1 .. Len(s)}
    OBVIOUS
  <1>8. y \in Seq(U) /\ Len(y) = Len(s) /\ y # <<>>
    BY <1>1, <1>6, <1>7
  <1>9. PICK z : z = Tail(y)
    OBVIOUS
  <1>10. /\ z \in Seq(U) /\ Len(z) = Len(s) - 1
         /\ \A j \in 1 .. Len(s) - 1 : z[j] = y[j+1]
    <2>1. /\ Tail(y) \in Seq(U) /\ Len(Tail(y)) = Len(y) - 1
          /\ \A j \in 1 .. Len(Tail(y)) : Tail(y)[j] = y[j+1]
      BY <1>8, HeadTailProperties
    <2> QED
      BY <1>8, <1>9, <2>1
  <1>11. z = [j \in 1 .. Len(s) - 1 |-> s[j+1].busPacketType]
    <2>1. DOMAIN z = 1 .. Len(s) - 1 /\ z = [j \in DOMAIN z |-> z[j]]
      BY <1>10, LenProperties
    <2>2. \A j \in 1 .. Len(s) - 1 : y[j+1] = s[j+1].busPacketType
      BY <1>1, <1>6
    <2> QED
      BY <1>10, <2>1, <2>2
  <1> QED
    BY <1>2, <1>4, <1>5, <1>8, <1>9, <1>11

LEMMA IssueTakesFirst ==
  ASSUME ChannelInv, QueuesServed, NEW S, ForOneRow(S),
         IssueForRefresh \/ IssueRefresh \/ IssueQueued \/ IssuePrecharge
  PROVE  PopTakesFirst(S)
  <1>1. QueueInv
    BY DEF ChannelInv
  <1>2. ASSUME NEW p, NEW pop, IssuePopped(p, pop) PROVE pop
    BY <1>2 DEF IssuePopped
  <1>3. CASE IssueForRefresh
    <2>1. PICK p : PopRefreshColumn(p) \/ PopRefreshPrecharge(p)
      BY <1>2, <1>3 DEF IssueForRefresh
    <2>2. CASE PopRefreshColumn(p)
      BY <1>1, <2>2, PopRefreshColumnTakesFirst
    <2>3. CASE PopRefreshPrecharge(p)
      BY <2>3, NothingTaken DEF PopRefreshPrecharge
    <2> QED
      BY <2>1, <2>2, <2>3
  <1>4. CASE IssueRefresh
    <2>1. PICK p : PopRefresh(p)
      BY <1>2, <1>4 DEF IssueRefresh
    <2> QED
      BY <2>1, NothingTaken DEF PopRefresh
  <1>5. CASE IssueQueued
    <2>1. PICK p : PopQueued(p)
      BY <1>2, <1>5 DEF IssueQueued
    <2> QED
      BY <1>1, <2>1, PopQueuedTakesFirst
  <1>6. CASE IssuePrecharge
    <2>1. PICK p : PopPrecharge(p)
      BY <1>2, <1>6 DEF IssuePrecharge
    <2> QED
      BY <2>1, NothingTaken DEF PopPrecharge
  <1> QED
    BY <1>3, <1>4, <1>5, <1>6

\* Whatever the geometry, the timing and the policies, and however a queue is searched:
\* pop() takes the reads and writes of one address in the order they were queued.
THEOREM SameAddressOrderAlwaysKept == Spec => SameAddressOrderKept
  <1> DEFINE InOrderFor(t) ==
               \/ QueuedColumns(t)' = QueuedColumns(t)
               \/ QueuedColumns(t) # <<>> /\ QueuedColumns(t)' = Tail(QueuedColumns(t))
             InTurn == phase = "issue" => \A t \in Transactions : InOrderFor(t)
  <1>1. ASSUME ChannelInv, ChannelInv', ConservationInv, ServedInv, [Next]_vars
        PROVE  [InTurn]_vars
    <2> SUFFICES ASSUME Next, phase = "issue", NEW t \in Transactions
                 PROVE  InOrderFor(t)
      BY <1>1
    <2>1. QueuesSound(queues) /\ QueuesSound(queues')
      BY <1>1 DEF ChannelInv, QueueInv, QueuesSound
    <2>2. t.rank \in RANKS /\ t.bank \in BANKS
      BY FrontEndAssumption DEF AllTransactions
    <2>3. PICK k \in QueueKeys : k = KeyOf(t.rank, t.bank)
      BY <2>2, KeyOfType
    <2>4. queues[k] \in Seq(QueueCommands) /\ queues'[k] \in Seq(QueueCommands)
      BY <2>1 DEF QueuesSound, QueueSound
    <2>5. PICK S : S = AddressColumns(t)
      OBVIOUS
    <2>6. /\ QueuedColumns(t) = Types(Selected(queues[k], S))
          /\ QueuedColumns(t)' = Types(Selected(queues'[k], S))
      BY <2>3, <2>4, <2>5, ColumnsSelected DEF QueuedColumns
    <2>7. ASSUME queues' = queues PROVE InOrderFor(t)
      BY <2>6, <2>7
    <2>8. CASE IssueForRefresh \/ IssueRefresh \/ IssueQueued \/ IssuePrecharge
      <3>1. error # "data bus collision"
        BY <2>8 DEF IssueForRefresh, IssueRefresh, IssueQueued, IssuePrecharge, IssuePopped
      <3>2. AllHome
        BY <1>1, <3>1, ConservedIsHome DEF ConservationInv
      <3>3. QueuesServed
        BY <1>1, <2>1, <3>2 DEF QueuesServed, ServedInv
      <3>4. ForOneRow(S)
        BY <2>5 DEF ForOneRow, AddressColumns, SameAddress
      <3>5. TakesFirst(queues'[k], queues[k], S)
        BY <1>1, <2>8, <3>3, <3>4, IssueTakesFirst DEF PopTakesFirst
      <3>6. Selected(queues[k], S) \in Seq(QueueCommands)
        BY <2>4, SelectedType
      <3>7. CASE Selected(queues'[k], S) = Selected(queues[k], S)
        BY <2>6, <3>7
      <3>8. CASE /\ Selected(queues[k], S) # <<>>
                 /\ Selected(queues'[k], S) = Tail(Selected(queues[k], S))
        BY <2>6, <3>6, <3>8, TypesOfTail
      <3> QED
        BY <3>5, <3>7, <3>8 DEF TakesFirst
    <2>9. CASE IssueNothing
      BY <2>7, <2>9 DEF IssueNothing, PopNothing
    <2>10. CASE \E u \in Transactions : AddTransaction(u) \/ ParkTransaction(u)
      BY <2>7, <2>10 DEF AddTransaction, ParkTransaction, queueVars
    <2>11. CASE Begin \/ End
      BY <2>11 DEF Begin, End
    <2> QED
      BY <2>8, <2>9, <2>10, <2>11 DEF Next, Update
  <1>2. SameAddressOrderKept <=> [][InTurn]_vars
    BY DEF SameAddressOrderKept
  <1> QED
    BY <1>1, <1>2, ChannelInvariance, ConservationInvariance, ServedInvariance, PTL DEF Spec
=============================================================================
