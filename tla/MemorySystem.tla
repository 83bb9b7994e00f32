---------------------------- MODULE MemorySystem ----------------------------
(***************************************************************************)
(* One channel: the controller with its command queue, and its ranks.  The *)
(* CPU side adds transactions between updates; MemorySystem::update then   *)
(* runs the ranks, the controller and the clocks, in that order.  One      *)
(* update is the three steps Begin (ranks, buses, refresh check), an issue *)
(* step (pop() and its effects) and End (dispatch, power, read return,     *)
(* clocks).  Nothing else runs in between, so the split adds no behaviour. *)
(***************************************************************************)
EXTENDS MemoryController, Rank, FiniteCollections

CONSTANTS
  Transactions,        \* what the CPU may ask for
  MaxTransactions,     \* bound: transactions added in one behaviour ...
  Endless,             \* ... or, when TRUE, unanswered at a time: the CPU never stops
  Buffered             \* TRUE: addTransaction(isWrite, addr, id), which parks requests

ASSUME FrontEndAssumption ==
  /\ Transactions \subseteq AllTransactions
  /\ MaxTransactions \in Nat
  /\ Endless \in BOOLEAN
  /\ Buffered \in BOOLEAN

VARIABLES
  pendingTransactions, \* requests parked while the transaction queue is full
  outstanding,         \* the CPU's view: requests added and not yet called back
  added,               \* how many were added, when MaxTransactions bounds that
  rankBanks, isPowerDown,
  rankRefreshWaiting,
  readReturn,          \* per rank: readReturnPacket and readReturnCountdown
  rankDataPacket, rankDataCyclesLeft,
  phase, error

rankVars == <<rankBanks, isPowerDown, rankRefreshWaiting, readReturn,
              rankDataPacket, rankDataCyclesLeft>>

vars == <<queueVars, controllerVars, rankVars, pendingTransactions, outstanding,
          added, phase, error>>

Exits == {"none", "command not allowed", "command bus collision",
          "power change not allowed", "data bus collision", "command queue overrun",
          "no pending request"}

Init ==
  /\ MemoryControllerInit
  /\ pendingTransactions = <<>>
  /\ outstanding = [t \in Transactions |-> 0]
  /\ added = 0
  /\ rankBanks = [r \in RANKS |-> [b \in BANKS |-> InitBank]]
  /\ isPowerDown = [r \in RANKS |-> FALSE]
  /\ rankRefreshWaiting = [r \in RANKS |-> FALSE]
  /\ readReturn = [r \in RANKS |-> <<>>]
  /\ rankDataPacket = [r \in RANKS |-> NoPacket]
  /\ rankDataCyclesLeft = [r \in RANKS |-> 0]
  /\ phase = "begin"
  /\ error = "none"

\* The state of queue, controller and ranks stays well formed: no wait or burst
\* counter runs below zero and no refresh counter past its end.
TypeOK ==
  /\ MemoryControllerTypeOK
  /\ pendingTransactions \in Seq(Transactions)
  /\ outstanding \in [Transactions -> Nat]
  /\ added \in 0 .. MaxTransactions
  /\ rankBanks \in [RANKS -> [BANKS -> BankStates]]
  /\ isPowerDown \in [RANKS -> BOOLEAN]
  /\ rankRefreshWaiting \in [RANKS -> BOOLEAN]
  /\ readReturn \in [RANKS -> Seq([packet : BusPackets, countdown : 1 .. RL])]
  /\ rankDataPacket \in [RANKS -> BusPackets \cup {NoPacket}]
  /\ rankDataCyclesLeft \in [RANKS -> 0 .. BURST]
  /\ phase \in {"begin", "issue", "end"}
  /\ error \in Exits

-----------------------------------------------------------------------------
(* The CPU side. *)

Unanswered == Total(outstanding, Transactions)

Accept(t) ==
  /\ phase = "begin" /\ error = "none"
  /\ IF Endless THEN Unanswered < MaxTransactions /\ UNCHANGED added
     ELSE added < MaxTransactions /\ added' = added + 1
  /\ outstanding' = [outstanding EXCEPT ![t] = @ + 1]

\* Both addTransaction entry points, with room in the transaction queue.  Without
\* room the one that takes a Transaction returns false and changes nothing.
AddTransaction(t) ==
  /\ Accept(t)
  /\ WillAcceptTransaction
  /\ transactionQueue' = Append(transactionQueue, t)
  /\ UNCHANGED <<queueVars, pendingReads, returnTransaction, powerDown, outgoingCmdPacket,
                 cmdCyclesLeft, outgoingDataPacket, dataCyclesLeft, writeData,
                 refreshCountdown, refreshRank, bankStates, rankVars,
                 pendingTransactions, phase, error>>

\* addTransaction(isWrite, addr, id) without room.
ParkTransaction(t) ==
  /\ Accept(t)
  /\ Buffered
  /\ ~WillAcceptTransaction
  /\ pendingTransactions' = Append(pendingTransactions, t)
  /\ UNCHANGED <<queueVars, controllerVars, rankVars, phase, error>>

\* The CPU's callbacks: TransactionReceiver exits when nothing is pending for one.
CalledBack(t, count) == [count EXCEPT ![t] = @ - 1]

-----------------------------------------------------------------------------
(* Begin: Rank::update of every rank, the parked transactions, and the first *)
(* half of MemoryController::update.                                         *)

BurstDone(r)   == rankDataPacket[r] # NoPacket /\ rankDataCyclesLeft[r] = 1
NextReadDue(r) == readReturn[r] # <<>> /\ readReturn[r][1].countdown = 1

\* The read data the controller has received when the first n ranks have been updated.
Received[n \in 0 .. NUM_RANKS] ==
  IF n = 0 THEN returnTransaction
  ELSE IF BurstDone(n - 1) THEN Append(Received[n - 1], rankDataPacket[n - 1])
  ELSE Received[n - 1]

\* Rank::update; a read received in this cycle joins behind, with its full RL.
RankUpdate ==
  /\ returnTransaction' = Received[NUM_RANKS]
  /\ rankDataPacket' = [r \in RANKS |->
       IF NextReadDue(r) THEN readReturn[r][1].packet
       ELSE IF BurstDone(r) THEN NoPacket ELSE rankDataPacket[r]]
  /\ rankDataCyclesLeft' = [r \in RANKS |->
       IF NextReadDue(r) THEN BURST
       ELSE IF rankDataPacket[r] # NoPacket THEN rankDataCyclesLeft[r] - 1
       ELSE rankDataCyclesLeft[r]]
  /\ readReturn' = [r \in RANKS |->
       LET left  == [i \in DOMAIN readReturn[r] |->
                       [readReturn[r][i] EXCEPT !.countdown = @ - 1]]
           ahead == IF NextReadDue(r) THEN Tail(left) ELSE left
           p     == outgoingCmdPacket
       IN  IF CommandDue /\ p.rank = r /\ IsRead(p)
           THEN Append(ahead, [packet |-> [p EXCEPT !.busPacketType = "DATA"],
                               countdown |-> RL])
           ELSE ahead]

\* Mutant: a parked request leaves its queue although the transaction queue is full.
UnparkAlways ==
  IF pendingTransactions # <<>>
  THEN /\ transactionQueue' = IF WillAcceptTransaction
                              THEN Append(transactionQueue, Head(pendingTransactions))
                              ELSE transactionQueue
       /\ pendingTransactions' = Tail(pendingTransactions)
  ELSE UNCHANGED <<transactionQueue, pendingTransactions>>

\* Only the front moves, and only one in a cycle.
UnparkTransaction ==
  IF pendingTransactions # <<>> /\ WillAcceptTransaction
  THEN /\ transactionQueue' = Append(transactionQueue, Head(pendingTransactions))
       /\ pendingTransactions' = Tail(pendingTransactions)
  ELSE UNCHANGED <<transactionQueue, pendingTransactions>>

\* Rank::receiveFromBus, and the controller's own refreshWaiting marks on ranks.
ReceiveCommand ==
  LET p == outgoingCmdPacket
  IN  /\ rankBanks' = IF CommandDue
                      THEN [rankBanks EXCEPT ![p.rank] =
                              [b \in BANKS |-> RankAfter(p, b, rankBanks[p.rank][b])]]
                      ELSE rankBanks
      /\ rankRefreshWaiting' =
           [r \in RANKS |->
              \/ r = refreshRank /\ (RefreshDue \/ PowerUpForRefresh)
              \/ /\ rankRefreshWaiting[r]
                 /\ ~(CommandDue /\ p.rank = r /\ p.busPacketType = "REFRESH")]

\* The write request whose data the data packet d carries.
WriteRequest(d) == [transactionType |-> "DATA_WRITE", rank |-> d.rank,
                    bank |-> d.bank, row |-> d.row, column |-> d.column]

Begin ==
  /\ phase = "begin" /\ error = "none"
  /\ phase' = "issue"
  /\ RankUpdate
  /\ UnparkTransaction
  /\ bankStates' = [r \in RANKS |-> [b \in BANKS |-> CountDown(bankStates[r][b])]]
  /\ DeliverCommand
  /\ ReceiveCommand
  /\ SendWriteData
  /\ ScheduleRefresh
  /\ LET done    == WriteRequest(outgoingDataPacket)
         unknown == DataDone /\ outstanding[done] = 0
     IN  /\ outstanding' = IF DataDone /\ ~unknown THEN CalledBack(done, outstanding)
                           ELSE outstanding
         /\ error' = IF CommandDue /\ ~RankAccepts(outgoingCmdPacket,
                                                   rankBanks[outgoingCmdPacket.rank])
                     THEN "command not allowed"
                     ELSE IF unknown THEN "no pending request"
                     ELSE IF DataBusCollision THEN "data bus collision" ELSE "none"
  /\ UNCHANGED <<queues, nextRank, nextBank, nextRankPRE, nextBankPRE, tFAWCountdown,
                 rowAccessCounters, sendAct, pendingReads, powerDown, isPowerDown, added>>

-----------------------------------------------------------------------------
(* The issue step: CommandQueue::pop and what update() does with the result. *)

Idling == UNCHANGED <<transactionQueue, pendingReads, returnTransaction, powerDown,
                      outgoingDataPacket, dataCyclesLeft, refreshCountdown, refreshRank,
                      rankVars, pendingTransactions, outstanding, added>>

\* "pop" is one of the queue's Pop actions, taken with the packet p.
IssuePopped(p, pop) ==
  /\ phase = "issue" /\ error = "none"
  /\ pop
  /\ Transmit(p)
  /\ phase' = "end"
  /\ error' = IF outgoingCmdPacket # NoPacket THEN "command bus collision" ELSE "none"
  /\ Idling

IssueForRefresh ==
  \/ \E p \in QueuedPackets : IssuePopped(p, PopRefreshColumn(p))
  \/ \E r \in RANKS, b \in BANKS :
       LET p == Packet("PRECHARGE", r, b, 0, 0) IN IssuePopped(p, PopRefreshPrecharge(p))

IssueRefresh ==
  \E r \in RANKS : LET p == Packet("REFRESH", r, 0, 0, 0) IN IssuePopped(p, PopRefresh(p))

IssueQueued == \E p \in QueuedPackets : IssuePopped(p, PopQueued(p))

IssuePrecharge ==
  \E r \in RANKS, b \in BANKS :
    LET p == Packet("PRECHARGE", r, b, 0, 0) IN IssuePopped(p, PopPrecharge(p))

IssueNothing ==
  /\ phase = "issue" /\ error = "none"
  /\ PopNothing
  /\ phase' = "end"
  /\ Idling
  /\ UNCHANGED <<bankStates, outgoingCmdPacket, cmdCyclesLeft, writeData, error>>

-----------------------------------------------------------------------------
(* End: dispatch, power-down, read return, counters and clocks. *)

\* isEmpty() is asked after the dispatch loop of the same update.
IdleRanks(qs) == {r \in RANKS : isEmpty(qs, r) /\ ~rankRefreshWaiting[r]}

\* The ranks of "idle" that are powered down, and the others that are powered up.
GoingDown(idle) ==
  {r \in idle : USE_LOW_POWER /\ \A b \in BANKS : bankStates[r][b].currentBankState = "Idle"}

ComingUp(idle) ==
  {r \in RANKS \ idle : USE_LOW_POWER /\ powerDown[r] /\ bankStates[r][0].nextPowerUp = 0}

PowerAllowed(down, up) ==
  /\ \A r \in down : MayPowerDown(rankBanks[r])
  /\ \A r \in up : MayPowerUp(isPowerDown[r], rankBanks[r])

\* Power changes, and the clocks: one cycle has passed for every bank.
PowerAndStep(down, up) ==
  LET Powered(r, m) == IF r \in down THEN PoweredDown(m)
                       ELSE IF r \in up THEN PoweredUp(m) ELSE m
  IN  /\ powerDown' = [r \in RANKS |-> r \in down \/ (powerDown[r] /\ r \notin up)]
      /\ isPowerDown' = [r \in RANKS |-> r \in down \/ (isPowerDown[r] /\ r \notin up)]
      /\ bankStates' = [r \in RANKS |-> [b \in BANKS |-> Step(Powered(r, bankStates[r][b]))]]
      /\ rankBanks' = [r \in RANKS |-> [b \in BANKS |-> Step(Powered(r, rankBanks[r][b]))]]

\* At most one read is handed back in a cycle.
ReturnRead(pending) ==
  LET d       == returnTransaction[1]
      answer  == pending[Min(Answers(d, pending))]
  IN  IF returnTransaction = <<>>
      THEN /\ pendingReads' = pending
           /\ UNCHANGED <<returnTransaction, outstanding>>
      ELSE /\ pendingReads' = WithoutAnswered(pending, d)
           /\ returnTransaction' = Tail(returnTransaction)
           /\ outstanding' = IF Answers(d, pending) # {} /\ outstanding[answer] > 0
                             THEN CalledBack(answer, outstanding) ELSE outstanding

\* A read callback that TransactionReceiver does not expect.
UnknownReturn(pending) ==
  /\ returnTransaction # <<>>
  /\ LET answers == Answers(returnTransaction[1], pending)
     IN  answers # {} /\ outstanding[pending[Min(answers)]] = 0

End ==
  /\ phase = "end" /\ error = "none"
  /\ LET after == Dispatched
         idle  == IdleRanks(after.queues)
         down  == GoingDown(idle)
         up    == ComingUp(idle)
     IN  /\ transactionQueue' = after.transactions
         /\ queues' = after.queues
         /\ PowerAndStep(down, up)
         /\ ReturnRead(after.pending)
         /\ error' = IF QueueOverrun(after.queues) THEN "command queue overrun"
                     ELSE IF ~PowerAllowed(down, up) THEN "power change not allowed"
                     ELSE IF UnknownReturn(after.pending) THEN "no pending request" ELSE "none"
  /\ TickRefreshCounters
  /\ phase' = "begin"
  /\ UNCHANGED <<nextRank, nextBank, nextRankPRE, nextBankPRE, cqRefreshRank,
                 cqRefreshWaiting, tFAWCountdown, rowAccessCounters, sendAct,
                 outgoingCmdPacket, cmdCyclesLeft, outgoingDataPacket, dataCyclesLeft,
                 writeData, refreshRank, rankRefreshWaiting, readReturn, rankDataPacket,
                 rankDataCyclesLeft, pendingTransactions, added>>

-----------------------------------------------------------------------------
Update == \/ Begin
          \/ IssueForRefresh \/ IssueRefresh \/ IssueQueued \/ IssuePrecharge
          \/ IssueNothing
          \/ End

Next == \/ \E t \in Transactions : AddTransaction(t) \/ ParkTransaction(t)
        \/ Update

Spec == Init /\ [][Next]_vars

\* Update is enabled whenever the program has not exited, and only an Update step
\* changes the phase: this is WF_vars(Update), in a form that is cheap to check.
UpdateGoesOn == error = "none" /\ phase' \in {"begin", "issue", "end"}

\* The program's main loop calls update() forever.
FairSpec == Spec /\ WF_phase(UpdateGoesOn)
-----------------------------------------------------------------------------
(* Properties. *)

\* None of the program's own checks fails: no rank receives a command or a power
\* change it forbids, no bus collides, no queue overruns, and every callback is
\* for a request the CPU is waiting for.
NoExit == error = "none"

Count(s, Test(_)) == Cardinality({i \in DOMAIN s : Test(s[i])})

\* How many commands for t's address satisfying Test the command queue holds.
Queued(t, Test(_)) ==
  Count(queues[KeyOf(t.rank, t.bank)], LAMBDA p : SameAddress(p, t) /\ Test(p))

\* How many writes to it have been sent and not their data.
WritesSending(t) ==
  Count(writeData, LAMBDA w : SameAddress(w.packet, t))
    + One(outgoingDataPacket # NoPacket /\ SameAddress(outgoingDataPacket, t))

WritesInside(t) == Queued(t, IsWrite) + WritesSending(t)

\* No request is lost and none is answered twice: what the CPU still waits for is
\* exactly what is parked, in the transaction queue, and in the pending reads or
\* on the way of a write.
RequestsConserved ==
  \A t \in Transactions :
    outstanding[t] =
      Count(pendingTransactions, LAMBDA u : u = t) + Count(transactionQueue, LAMBDA u : u = t)
        + IF t.transactionType = "DATA_READ" THEN Count(pendingReads, LAMBDA u : u = t)
          ELSE WritesInside(t)

\* Every pending read is somewhere on its way: as a command in the queue or on the
\* bus, in the rank's read pipeline, on the data bus, or returned; and the rank
\* never overwrites a burst that is still on the bus.
ReadsOnTheWay ==
  \A t \in Transactions :
    t.transactionType = "DATA_READ" =>
      Count(pendingReads, LAMBDA u : u = t) =
        Queued(t, IsRead)
          + One(IsRead(outgoingCmdPacket) /\ SameAddress(outgoingCmdPacket, t))
          + Count(readReturn[t.rank], LAMBDA e : SameAddress(e.packet, t))
          + One(rankDataPacket[t.rank] # NoPacket /\ SameAddress(rankDataPacket[t.rank], t))
          + Count(returnTransaction, LAMBDA d : SameAddress(d, t))

\* At most one burst is on the data bus: the controller's write data or one rank's
\* read data.  Nothing in the code checks it between ranks.
DataBusExclusive ==
  One(outgoingDataPacket # NoPacket)
    + Cardinality({r \in RANKS : rankDataPacket[r] # NoPacket}) <= 1

\* An ACTIVATE stays right in front of the column command it was queued for,
\* which is what pop() relies on to skip or drop it.
ActivatesPaired ==
  \A k \in QueueKeys : \A i \in DOMAIN queues[k] :
    IsAct(queues[k][i]) => /\ i < Len(queues[k])
                           /\ ~IsAct(queues[k][i+1])
                           /\ SameAddress(queues[k][i], queues[k][i+1])

\* A column command whose ACTIVATE has gone finds its row open, and open for it:
\* not about to be precharged and with accesses left.  Otherwise nothing would
\* ever open the row again and the command would block its queue for good.
NoStrandedColumn ==
  \A k \in QueueKeys : \A i \in DOMAIN queues[k] :
    LET p == queues[k][i]
        m == bankStates[p.rank][p.bank]
    IN  ~IsAct(p) /\ (i = 1 \/ ~IsAct(queues[k][i-1])) =>
          /\ m.currentBankState = "RowActive" /\ m.openRowAddress = p.row
          /\ m.stateChangeCountdown = 0
          /\ rowAccessCounters[p.rank][p.bank] < TOTAL_ROW_ACCESSES

\* "the head will always be the smallest counter", and a rank never has more than
\* four activations in a tFAW window.
FAWWindow ==
  \A r \in RANKS :
    /\ Len(tFAWCountdown[r]) <= 4
    /\ \A i, j \in DOMAIN tFAWCountdown[r] : i < j => tFAWCountdown[r][i] < tFAWCountdown[r][j]

\* Only the counter that update() looks at runs out: a rank whose counter did so
\* out of turn would not be refreshed until the counter had wrapped around.
RefreshDueInTurn == \A r \in RANKS : refreshCountdown[r] = 0 => r = refreshRank

\* When a refresh falls due, it is in turn and the one before it has been sent:
\* needRefresh() would otherwise forget a rank.  The second part is about a CPU that
\* stops asking: endless reads from another rank can keep a refresh waiting longer.
RefreshNotOverrun ==
  phase = "begin" =>
    /\ RefreshDueInTurn
    /\ RefreshDue => ~cqRefreshWaiting

\* A rank takes the data of a READ from the bank when the command arrives, and a
\* WRITE's data gets there at the end of its burst: no data for the address that is
\* read is still on its way from the controller then.
ReadFindsDataStored ==
  phase = "begin" /\ CommandDue /\ IsRead(outgoingCmdPacket) =>
    \A t \in Transactions : SameAddress(outgoingCmdPacket, t) => WritesSending(t) = 0

\* A rank that is powered down has nothing left to send or receive on the data bus.
PoweredDownRankIsQuiet ==
  \A r \in RANKS :
    powerDown[r] =>
      /\ readReturn[r] = <<>> /\ rankDataPacket[r] = NoPacket
      /\ \A i \in DOMAIN writeData : writeData[i].packet.rank # r

\* The controller never reaches its "Data Bus Collision" exit, for the additive
\* latencies the device files allow ("AL=3; needs to be tRCD-1 or 0").
NoDataBusCollision == error # "data bus collision"

\* The column commands for t's address, oldest first, in the command queue and
\* then in the transaction queue.
QueuedColumns(t) ==
  LET q    == queues[KeyOf(t.rank, t.bank)]
      mine == InOrder({i \in DOMAIN q : SameAddress(q[i], t) /\ ~IsAct(q[i])})
  IN  [n \in DOMAIN mine |-> q[mine[n]].busPacketType]

ArrivedColumns(t) ==
  LET mine == InOrder({i \in DOMAIN transactionQueue : SameAddress(transactionQueue[i], t)})
  IN  [n \in DOMAIN mine |-> ColumnType(transactionQueue[mine[n]].transactionType)]

\* pop() never lets a column command overtake an older one for the same address.
SameAddressOrderKept ==
  [][phase = "issue" =>
       \A t \in Transactions :
         \/ QueuedColumns(t)' = QueuedColumns(t)
         \/ QueuedColumns(t) # <<>> /\ QueuedColumns(t)' = Tail(QueuedColumns(t))]_vars

\* Dispatch takes the transactions for an address in the order they arrived.
DispatchKeepsArrivalOrder ==
  [][phase = "end" =>
       \A t \in Transactions :
         (QueuedColumns(t) \o ArrivedColumns(t))' = QueuedColumns(t) \o ArrivedColumns(t)]_vars

\* The scheduler, the power logic and the buses implement the command protocol.
Protocol == INSTANCE CommandProtocol
              WITH error <- IF error \in {"none", "command not allowed", "command bus collision",
                                          "power change not allowed"} THEN error ELSE "none"
ImplementsProtocol == Protocol!ProtocolSpec

\* What the CPU still waits for and has left the transaction queue.
Underway ==
  [t \in Transactions |-> outstanding[t] - Count(transactionQueue, LAMBDA u : u = t)]

Half == IF phase = "begin" THEN "begin" ELSE "end"

\* A channel answers every transaction it accepted exactly once, in the callback
\* order MemoryContract gives.
Contract == INSTANCE MemoryContract
              WITH QueueDepth <- TRANS_QUEUE_DEPTH,
                   MaxUnderway <- MaxTransactions + 1,
                   waiting <- transactionQueue,
                   underway <- Underway,
                   half <- Half
ImplementsContract == Contract!ContractSpec

\* A request is added while older ones are parked, and takes the free place of the
\* transaction queue that they wait for.
Overtaken == pendingTransactions # <<>> /\ \E t \in Transactions : AddTransaction(t)

\* However the CPU goes on asking, every request is answered: row hits, refreshes
\* and power-down starve none for ever.  Only a CPU that always has another request
\* at hand can keep a parked one out for ever.
EveryRequestAnswered ==
  \A t \in Transactions :
    \/ []<>(outstanding[t] = 0)
    \/ []<><<outstanding'[t] < outstanding[t]>>_outstanding
    \/ []<><<Overtaken>>_transactionQueue

\* A rank that waits for its refresh gets it.
EveryRefreshSent ==
  \A r \in RANKS : (cqRefreshWaiting /\ cqRefreshRank = r)
                     ~> ~(cqRefreshWaiting /\ cqRefreshRank = r)
=============================================================================
