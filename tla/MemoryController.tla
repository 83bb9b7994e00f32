-------------------------- MODULE MemoryController --------------------------
(***************************************************************************)
(* The memory controller: the transaction queue and its dispatch into the  *)
(* command queue, the write-data FIFO and the data bus, the refresh        *)
(* counters, the power-down decision and the return of read data.  Its     *)
(* bank states are in BankState and CommandQueue.  The operators here are  *)
(* the parts of MemoryController::update; MemorySystem puts them together. *)
(***************************************************************************)
EXTENDS CommandQueue

VARIABLES
  transactionQueue,    \* accepted transactions, oldest first
  pendingReads,        \* pendingReadTransactions: dispatched reads without their data
  returnTransaction,   \* read data received from the ranks, not yet handed to the CPU
  powerDown,
  outgoingCmdPacket, cmdCyclesLeft,
  outgoingDataPacket, dataCyclesLeft,
  writeData,           \* writeDataToSend and writeDataCountdown, entry by entry
  refreshCountdown, refreshRank

controllerVars == <<transactionQueue, pendingReads, returnTransaction, powerDown,
                    outgoingCmdPacket, cmdCyclesLeft, outgoingDataPacket,
                    dataCyclesLeft, writeData, refreshCountdown, refreshRank,
                    bankStates>>

\* The refreshes of the ranks are staggered by at least a cycle.
ASSUME RefreshAssumption == NUM_RANKS <= REFRESH_CYCLES

\* A transaction, its address already mapped to rank, bank, row and column.
AllTransactions ==
  [transactionType : {"DATA_READ", "DATA_WRITE"},
   rank : RANKS, bank : BANKS, row : ROWS, column : COLS]

MemoryControllerInit ==
  /\ CommandQueueInit
  /\ bankStates = [r \in RANKS |-> [b \in BANKS |-> InitBank]]
  /\ transactionQueue = <<>>
  /\ pendingReads = <<>>
  /\ returnTransaction = <<>>
  /\ powerDown = [r \in RANKS |-> FALSE]
  /\ outgoingCmdPacket = NoPacket /\ cmdCyclesLeft = 0
  /\ outgoingDataPacket = NoPacket /\ dataCyclesLeft = 0
  /\ writeData = <<>>
  \* staggers when each rank is due for a refresh
  /\ refreshCountdown = [r \in RANKS |-> (REFRESH_CYCLES \div NUM_RANKS) * (r + 1)]
  /\ refreshRank = 0

MemoryControllerTypeOK ==
  /\ CommandQueueTypeOK
  /\ bankStates \in [RANKS -> [BANKS -> BankStates]]
  /\ transactionQueue \in Seq(AllTransactions)
  /\ Len(transactionQueue) <= TRANS_QUEUE_DEPTH
  /\ pendingReads \in Seq(AllTransactions)
  /\ returnTransaction \in Seq(BusPackets)
  /\ powerDown \in [RANKS -> BOOLEAN]
  /\ outgoingCmdPacket \in BusPackets \cup {NoPacket}
  /\ cmdCyclesLeft \in 0 .. tCMD
  /\ outgoingDataPacket \in BusPackets \cup {NoPacket}
  /\ dataCyclesLeft \in 0 .. BURST
  /\ writeData \in Seq([packet : BusPackets, countdown : 1 .. WL])
  /\ refreshCountdown \in [RANKS -> 0 .. REFRESH_CYCLES]
  /\ refreshRank \in RANKS

-----------------------------------------------------------------------------
\* Mutant: one transaction too many is accepted.
WillAcceptOneMore == Len(transactionQueue) <= TRANS_QUEUE_DEPTH

WillAcceptTransaction == Len(transactionQueue) < TRANS_QUEUE_DEPTH

-----------------------------------------------------------------------------
(* The start of update(): the buses. *)

CommandDue  == outgoingCmdPacket # NoPacket /\ cmdCyclesLeft = 1

\* A write's data has been sent: the CPU is told.
DataDone    == outgoingDataPacket # NoPacket /\ dataCyclesLeft = 1
NextDataDue == writeData # <<>> /\ writeData[1].countdown = 1

\* The head of the write FIFO wants the bus while the previous burst is on it.
DataBusCollision == NextDataDue /\ outgoingDataPacket # NoPacket /\ ~DataDone

DeliverCommand ==
  /\ outgoingCmdPacket' = IF CommandDue THEN NoPacket ELSE outgoingCmdPacket
  /\ cmdCyclesLeft' = IF outgoingCmdPacket = NoPacket THEN cmdCyclesLeft
                      ELSE cmdCyclesLeft - 1

SendWriteData ==
  /\ writeData' = LET left == [i \in DOMAIN writeData |->
                                 [writeData[i] EXCEPT !.countdown = @ - 1]]
                  IN  IF NextDataDue THEN Tail(left) ELSE left
  /\ outgoingDataPacket' = IF NextDataDue THEN writeData[1].packet
                           ELSE IF DataDone THEN NoPacket ELSE outgoingDataPacket
  /\ dataCyclesLeft' = IF NextDataDue THEN BURST
                       ELSE IF outgoingDataPacket # NoPacket THEN dataCyclesLeft - 1
                       ELSE dataCyclesLeft

\* The refresh counter that is looked at has run out ...
RefreshDue == refreshCountdown[refreshRank] = 0

\* ... or is about to while its rank is powered down.
PowerUpForRefresh ==
  ~RefreshDue /\ powerDown[refreshRank] /\ refreshCountdown[refreshRank] <= tXP

\* Mutant: refreshRank does not move on.
ScheduleSameRank ==
  IF RefreshDue
  THEN /\ cqRefreshWaiting' = TRUE
       /\ cqRefreshRank' = refreshRank
       /\ refreshCountdown' = [refreshCountdown EXCEPT ![refreshRank] = REFRESH_CYCLES]
       /\ UNCHANGED refreshRank
  ELSE UNCHANGED <<cqRefreshWaiting, cqRefreshRank, refreshCountdown, refreshRank>>

\* needRefresh() overwrites the rank a refresh is already waiting for.
ScheduleRefresh ==
  IF RefreshDue
  THEN /\ cqRefreshWaiting' = TRUE
       /\ cqRefreshRank' = refreshRank
       /\ refreshCountdown' = [refreshCountdown EXCEPT ![refreshRank] = REFRESH_CYCLES]
       /\ refreshRank' = (refreshRank + 1) % NUM_RANKS
  ELSE UNCHANGED <<cqRefreshWaiting, cqRefreshRank, refreshCountdown, refreshRank>>

-----------------------------------------------------------------------------
(* A popped command. *)

IsWrite(p) == p.busPacketType \in {"WRITE", "WRITE_P"}
IsRead(p)  == p.busPacketType \in {"READ", "READ_P"}

\* What update() does with the packet p that pop() returned.
Transmit(p) ==
  /\ writeData' = IF IsWrite(p)
                  THEN Append(writeData, [packet |-> [p EXCEPT !.busPacketType = "DATA"],
                                          countdown |-> WL])
                  ELSE writeData
  /\ bankStates' = [r \in RANKS |->
                      [b \in BANKS |-> AfterCommand(p, r, b, bankStates[r][b])]]
  /\ outgoingCmdPacket' = p
  /\ cmdCyclesLeft' = tCMD

-----------------------------------------------------------------------------
(* Dispatching transactions to the command queue. *)

ColumnType(type) ==
  CASE type = "DATA_READ"  /\ rowBufferPolicy = "OpenPage"  -> "READ"
    [] type = "DATA_READ"  /\ rowBufferPolicy = "ClosePage" -> "READ_P"
    [] type = "DATA_WRITE" /\ rowBufferPolicy = "OpenPage"  -> "WRITE"
    [] type = "DATA_WRITE" /\ rowBufferPolicy = "ClosePage" -> "WRITE_P"

CommandFor(t, type) == Packet(type, t.rank, t.bank, t.row, t.column)

\* One iteration of the dispatch loop.  The entry behind an erased one moves to
\* index i and the loop goes on with i+1: it is not looked at in this cycle.
DispatchAt(s, i) ==
  IF i > Len(s.transactions) THEN s
  ELSE LET t == s.transactions[i]
       IN  IF ~HasRoomFor(2, s.queues, t.rank, t.bank) THEN s
           ELSE [transactions |-> RemoveAt(s.transactions, i),
                 queues |-> Enqueue(Enqueue(s.queues, CommandFor(t, "ACTIVATE")),
                                    CommandFor(t, ColumnType(t.transactionType))),
                 pending |-> IF t.transactionType = "DATA_READ"
                             THEN Append(s.pending, t) ELSE s.pending]

\* After i iterations.
Dispatching[i \in 0 .. Len(transactionQueue)] ==
  IF i = 0 THEN [transactions |-> transactionQueue, queues |-> queues, pending |-> pendingReads]
  ELSE DispatchAt(Dispatching[i - 1], i)

Dispatched == Dispatching[Len(transactionQueue)]

\* The exit in enqueue(): more commands than hasRoomFor() promised room for.
QueueOverrun(qs) == \E k \in QueueKeys : Len(qs[k]) > CMD_QUEUE_DEPTH

-----------------------------------------------------------------------------
(* Returning read data. *)

\* The positions in pending of the reads the returned data d answers.
Answers(d, pending) == {i \in DOMAIN pending : SameAddress(pending[i], d)}

\* Mutant: returned data is taken for the answer to the oldest read.
WithoutOldest(pending, d) == Tail(pending)

\* pending without the oldest read that d answers; data nobody waits for is dropped.
WithoutAnswered(pending, d) ==
  IF Answers(d, pending) = {} THEN pending ELSE RemoveAt(pending, Min(Answers(d, pending)))

TickRefreshCounters == refreshCountdown' = [r \in RANKS |-> refreshCountdown[r] - 1]
=============================================================================
