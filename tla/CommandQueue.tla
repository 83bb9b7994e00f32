---------------------------- MODULE CommandQueue ----------------------------
(***************************************************************************)
(* The command queue: where the controller parks the commands of accepted  *)
(* transactions, and how pop() chooses, once in every cycle, the command   *)
(* to put on the bus.  The queue reads the controller's bank states (it    *)
(* holds a reference to them) and never writes them.                       *)
(*                                                                         *)
(* pop() is the disjunction of the Pop actions below, which exclude each   *)
(* other: first what a waiting refresh needs, then the round-robin scan of *)
(* the queues, then (open page) closing an unused row.                     *)
(***************************************************************************)
EXTENDS BankState, SequencesExt, FiniteSetsExt

VARIABLES
  bankStates,
  queues,              \* [QueueKeys -> Seq(packet)]
  nextRank, nextBank,          \* where the scan of the queues starts
  nextRankPRE, nextBankPRE,    \* where the scan for rows to close starts
  cqRefreshRank,       \* the rank that needs a refresh, or NoRank
  cqRefreshWaiting,
  tFAWCountdown,       \* per rank, the activations in the current tFAW window
  rowAccessCounters,
  sendAct

queueVars == <<queues, nextRank, nextBank, nextRankPRE, nextBankPRE, cqRefreshRank,
               cqRefreshWaiting, tFAWCountdown, rowAccessCounters, sendAct>>

\* refreshRank = -1 in the code.
NoRank == NUM_RANKS

QueueKeys    == IF queuingStructure = "PerRank" THEN RANKS \X {0} ELSE RANKS \X BANKS
KeyOf(r, b)  == IF queuingStructure = "PerRank" THEN <<r, 0>> ELSE <<r, b>>
Queue(r, b)  == queues[KeyOf(r, b)]

IsAct(p)     == p.busPacketType = "ACTIVATE"
SameAddress(p, q) == /\ p.rank = q.rank /\ p.bank = q.bank
                     /\ p.row = q.row /\ p.column = q.column

CommandQueueInit ==
  /\ queues = [k \in QueueKeys |-> <<>>]
  /\ nextRank = 0 /\ nextBank = 0
  /\ nextRankPRE = 0 /\ nextBankPRE = 0
  /\ cqRefreshRank = 0
  /\ cqRefreshWaiting = FALSE
  /\ tFAWCountdown = [r \in RANKS |-> <<>>]
  /\ rowAccessCounters = [r \in RANKS |-> [b \in BANKS |-> 0]]
  /\ sendAct = TRUE

CommandQueueTypeOK ==
  /\ DOMAIN queues = QueueKeys
  /\ \A k \in QueueKeys : /\ queues[k] \in Seq(BusPackets)
                          /\ Len(queues[k]) <= CMD_QUEUE_DEPTH
  /\ nextRank \in RANKS /\ nextBank \in BANKS
  /\ nextRankPRE \in RANKS /\ nextBankPRE \in BANKS
  /\ cqRefreshRank \in RANKS \cup {NoRank}
  /\ cqRefreshWaiting \in BOOLEAN
  /\ tFAWCountdown \in [RANKS -> Seq(1 .. tFAW)]
  /\ rowAccessCounters \in [RANKS -> [BANKS -> 0 .. TOTAL_ROW_ACCESSES]]
  /\ sendAct \in BOOLEAN

-----------------------------------------------------------------------------
\* The queue that a packet for (rank, bank) joins, and its free places.
HasRoomFor(n, qs, rank, bank) == CMD_QUEUE_DEPTH - Len(qs[KeyOf(rank, bank)]) >= n

Enqueue(qs, p) == [qs EXCEPT ![KeyOf(p.rank, p.bank)] = Append(@, p)]

\* Every packet that is in some queue.
QueuedPackets == UNION {ToSet(queues[k]) : k \in QueueKeys}

isEmpty(qs, rank) == \A k \in QueueKeys : k[1] = rank => qs[k] = <<>>

\* The bookkeeping at the start of pop(): every counter runs down, and a window
\* that is over leaves the front.
TickedFAW(r) ==
  LET left == [j \in DOMAIN tFAWCountdown[r] |-> tFAWCountdown[r][j] - 1]
  IN  IF left # <<>> /\ left[1] = 0 THEN Tail(left) ELSE left

\* Mutant: five activations to a tFAW window.
FiveActivationsAllowed(rank) == Len(TickedFAW(rank)) <= 4

\* Four activations to a tFAW window.
ActivationAllowed(rank) == Len(TickedFAW(rank)) < 4

isIssuable(p) ==
  LET m       == bankStates[p.rank][p.bank]
      RowOpen == /\ m.currentBankState = "RowActive" /\ p.row = m.openRowAddress
                 /\ rowAccessCounters[p.rank][p.bank] < TOTAL_ROW_ACCESSES
  IN  CASE IsAct(p) -> /\ m.currentBankState \in {"Idle", "Refreshing"}
                       /\ m.nextActivate = 0
                       /\ ActivationAllowed(p.rank)
        [] p.busPacketType \in {"WRITE", "WRITE_P"} -> RowOpen /\ m.nextWrite = 0
        [] p.busPacketType \in {"READ", "READ_P"}   -> RowOpen /\ m.nextRead = 0

\* The n-th (rank, bank) after a given one in the round robin.
CellAfter(cell, n) ==
  IF schedulingPolicy = "RankThenBankRoundRobin"
  THEN LET at == (cell[2] * NUM_RANKS + cell[1] + n) % (NUM_RANKS * NUM_BANKS)
       IN  <<at % NUM_RANKS, at \div NUM_RANKS>>
  ELSE LET at == (cell[1] * NUM_BANKS + cell[2] + n) % (NUM_RANKS * NUM_BANKS)
       IN  <<at \div NUM_BANKS, at % NUM_BANKS>>

Cells == 0 .. NUM_RANKS * NUM_BANKS - 1

\* Queue positions that hold something for the open row of (r, b).  In a queue
\* of one bank the row alone decides.
ToOpenRow(r, b) ==
  {j \in DOMAIN Queue(r, b) :
     /\ Queue(r, b)[j].row = bankStates[r][b].openRowAddress
     /\ queuingStructure = "PerRank" => Queue(r, b)[j].bank = b}

-----------------------------------------------------------------------------
(* Serving a waiting refresh. *)

\* Mutant: only open banks keep the refresh back.
OpenBanks == {b \in BANKS : bankStates[cqRefreshRank][b].currentBankState = "RowActive"}

\* Banks that keep the refresh back: open ones, and those whose tRP is not over.
Blocking == {b \in BANKS : \/ bankStates[cqRefreshRank][b].currentBankState = "RowActive"
                           \/ bankStates[cqRefreshRank][b].nextActivate # 0}

\* The first of them, when it is an open bank: the one pop() works on.
OpenBlocker ==
  {b \in BANKS : /\ cqRefreshWaiting
                 /\ b \in Blocking /\ \A a \in Blocking : b <= a
                 /\ bankStates[cqRefreshRank][b].currentBankState = "RowActive"}

\* Mutant: a refresh closes an open bank whatever is queued for its row.
WantingNothing(b) == {}

\* The queue position of the column command that still wants the open row of b:
\* the first entry for that row, unless that is the ACTIVATE of a later access.
WantingColumn(b) ==
  {j \in ToOpenRow(cqRefreshRank, b) :
     /\ \A i \in ToOpenRow(cqRefreshRank, b) : j <= i
     /\ ~IsAct(Queue(cqRefreshRank, b)[j])}

\* The column commands (a set of at most one (bank, position)) pop() sends to let
\* an open bank close.
RefreshColumn ==
  {at \in OpenBlocker \X (1 .. CMD_QUEUE_DEPTH) :
     at[2] \in WantingColumn(at[1]) /\ isIssuable(Queue(cqRefreshRank, at[1])[at[2]])}

\* Mutant: a bank is closed for the refresh only when no queued command is for its row.
RefreshPrechargeWhenUnwanted ==
  {b \in OpenBlocker : /\ rowBufferPolicy = "OpenPage"
                       /\ ToOpenRow(cqRefreshRank, b) = {}
                       /\ bankStates[cqRefreshRank][b].nextPrecharge = 0}

\* The bank pop() closes for the refresh; close-page commands close their bank
\* themselves.
RefreshPrecharge ==
  {b \in OpenBlocker : /\ rowBufferPolicy = "OpenPage"
                       /\ WantingColumn(b) = {}
                       /\ bankStates[cqRefreshRank][b].nextPrecharge = 0}

RefreshReady ==
  /\ cqRefreshWaiting
  /\ Blocking = {}
  /\ bankStates[cqRefreshRank][0].currentBankState # "PowerDown"

ServesRefresh == RefreshColumn # {} \/ RefreshPrecharge # {} \/ RefreshReady

-----------------------------------------------------------------------------
(* The scan of the queues. *)

\* A queue of a rank that waits for its refresh is passed over.
Passed(rank) == rank = cqRefreshRank /\ cqRefreshWaiting

\* Mutant of each Sendable below: any issuable command, without looking at the
\* entries in front of it.
SendableAny(q) == {i \in DOMAIN q : isIssuable(q[i])}

\* Close page, one queue per rank: any issuable command whose own ACTIVATE is not
\* right in front of it.
SendablePerRankClose(q) ==
  {i \in DOMAIN q :
     /\ isIssuable(q[i])
     /\ ~(i > 1 /\ IsAct(q[i-1]) /\ SameAddress(q[i-1], q[i]))}

\* Open page, one queue per rank: any issuable command with no earlier column
\* command for the same row of the same bank.
SendablePerRankOpen(q) ==
  {i \in DOMAIN q :
     /\ isIssuable(q[i])
     /\ \A j \in 1 .. i - 1 : q[j].bank = q[i].bank /\ q[j].row = q[i].row => IsAct(q[j])}

\* Close page, one queue per bank: only the front.
SendablePerBankClose(q) == {i \in DOMAIN q : i = 1 /\ isIssuable(q[1])}

\* Open page, one queue per bank.
SendablePerBankOpen(q) ==
  {i \in DOMAIN q :
     /\ isIssuable(q[i])
     /\ \A j \in 1 .. i - 1 : q[j].row = q[i].row => IsAct(q[j])}

Sendable(q) ==
  CASE queuingStructure = "PerRank" /\ rowBufferPolicy = "ClosePage" -> SendablePerRankClose(q)
    [] queuingStructure = "PerRank" /\ rowBufferPolicy = "OpenPage"  -> SendablePerRankOpen(q)
    [] queuingStructure # "PerRank" /\ rowBufferPolicy = "ClosePage" -> SendablePerBankClose(q)
    [] queuingStructure # "PerRank" /\ rowBufferPolicy = "OpenPage"  -> SendablePerBankOpen(q)

\* The n-th cell the scan visits.  With a queue per rank only the rank moves.
ScanCell(n) == IF queuingStructure = "PerRank"
               THEN <<(nextRank + n) % NUM_RANKS, nextBank>>
               ELSE CellAfter(<<nextRank, nextBank>>, n)

\* The cells whose queue has something to send, by the step that visits them.
ScanHits == {n \in IF queuingStructure = "PerRank" THEN RANKS ELSE Cells :
               LET c == ScanCell(n)
               IN  ~Passed(c[1]) /\ Sendable(Queue(c[1], c[2])) # {}}

\* A column command takes the ACTIVATE in front of it along: the row is open.
TakesAct(q, i) == rowBufferPolicy = "OpenPage" /\ i > 1 /\ IsAct(q[i-1])

Without(q, i) == IF TakesAct(q, i) THEN RemoveAt(RemoveAt(q, i), i - 1) ELSE RemoveAt(q, i)

-----------------------------------------------------------------------------
(* Closing a row that nothing in the queues wants. *)

\* bool startingRank = nextRankPRE: with a queue per bank, the cell at which the
\* scan stops is the starting cell with both indices clipped to 0 or 1.
StopCell ==
  LET Clip(x) == IF x = 0 THEN 0 ELSE 1
  IN  IF queuingStructure = "PerRank" THEN <<nextRankPRE, nextBankPRE>>
      ELSE <<Clip(nextRankPRE), Clip(nextBankPRE)>>

PreCell(n) == CellAfter(<<nextRankPRE, nextBankPRE>>, n)

\* The steps of the do-while: it visits its first cell before it tests for the end.
PreScan == {n \in Cells : \A i \in 1 .. n : PreCell(i) # StopCell}

Closable(cell) ==
  LET m == bankStates[cell[1]][cell[2]]
  IN  /\ m.currentBankState = "RowActive"
      /\ \/ ToOpenRow(cell[1], cell[2]) = {}
         \/ rowAccessCounters[cell[1]][cell[2]] = TOTAL_ROW_ACCESSES
      /\ m.nextPrecharge = 0

PreHits == {n \in PreScan : rowBufferPolicy = "OpenPage" /\ Closable(PreCell(n))}

-----------------------------------------------------------------------------
\* After a command was found: posted CAS keeps the scan where it is for the
\* column command paired with an ACTIVATE; otherwise the round robin advances.
Advance(cell) ==
  LET stay == AL > 0 /\ sendAct
      at   == IF stay THEN cell ELSE CellAfter(cell, 1)
  IN  /\ sendAct' = ~stay
      /\ nextRank' = at[1] /\ nextBank' = at[2]

\* Every pop() ticks the tFAW windows, and an ACTIVATE opens another one.
CountActivation(p) ==
  tFAWCountdown' = [r \in RANKS |-> IF IsAct(p) /\ p.rank = r
                                    THEN Append(TickedFAW(r), tFAW) ELSE TickedFAW(r)]

PopRefreshColumn(p) ==
  \E b \in BANKS, j \in 1 .. CMD_QUEUE_DEPTH :
    /\ <<b, j>> \in RefreshColumn
    /\ p = Queue(cqRefreshRank, b)[j]
    /\ queues' = [queues EXCEPT ![KeyOf(cqRefreshRank, b)] = RemoveAt(@, j)]
    /\ Advance(<<nextRank, nextBank>>)
    /\ CountActivation(p)
    /\ UNCHANGED <<nextRankPRE, nextBankPRE, cqRefreshRank, cqRefreshWaiting,
                   rowAccessCounters>>

PopRefreshPrecharge(p) ==
  \E b \in RefreshPrecharge :
    /\ p = Packet("PRECHARGE", cqRefreshRank, b, 0, 0)
    /\ rowAccessCounters' = [rowAccessCounters EXCEPT ![cqRefreshRank][b] = 0]
    /\ Advance(<<nextRank, nextBank>>)
    /\ CountActivation(p)
    /\ UNCHANGED <<queues, nextRankPRE, nextBankPRE, cqRefreshRank, cqRefreshWaiting>>

PopRefresh(p) ==
  /\ RefreshReady
  /\ p = Packet("REFRESH", cqRefreshRank, 0, 0, 0)
  /\ cqRefreshRank' = NoRank
  /\ cqRefreshWaiting' = FALSE
  /\ Advance(<<nextRank, nextBank>>)
  /\ CountActivation(p)
  /\ UNCHANGED <<queues, nextRankPRE, nextBankPRE, rowAccessCounters>>

PopQueued(p) ==
  /\ ~ServesRefresh
  /\ ScanHits # {}
  /\ LET cell == ScanCell(Min(ScanHits))
         key  == KeyOf(cell[1], cell[2])
         i    == Min(Sendable(queues[key]))
     IN  /\ p = queues[key][i]
         /\ queues' = [queues EXCEPT ![key] = Without(@, i)]
         /\ rowAccessCounters' = IF TakesAct(queues[key], i)
                                 THEN [rowAccessCounters EXCEPT ![p.rank][p.bank] = @ + 1]
                                 ELSE rowAccessCounters
         /\ Advance(cell)
  /\ CountActivation(p)
  /\ UNCHANGED <<nextRankPRE, nextBankPRE, cqRefreshRank, cqRefreshWaiting>>

PopPrecharge(p) ==
  /\ ~ServesRefresh
  /\ ScanHits = {} /\ PreHits # {}
  /\ LET cell == PreCell(Min(PreHits))
     IN  /\ p = Packet("PRECHARGE", cell[1], cell[2], 0, 0)
         /\ rowAccessCounters' = [rowAccessCounters EXCEPT ![cell[1]][cell[2]] = 0]
         /\ nextRankPRE' = cell[1] /\ nextBankPRE' = cell[2]
  /\ Advance(<<nextRank, nextBank>>)
  /\ CountActivation(p)
  /\ UNCHANGED <<queues, cqRefreshRank, cqRefreshWaiting>>

\* pop() returns false: the scans are back where they started or, for the rows to
\* close, at the cell where the loop stopped.
PopNothing ==
  /\ ~ServesRefresh
  /\ ScanHits = {} /\ PreHits = {}
  /\ CountActivation(NoPacket)
  /\ LET at == IF rowBufferPolicy = "OpenPage" THEN StopCell ELSE <<nextRankPRE, nextBankPRE>>
     IN  nextRankPRE' = at[1] /\ nextBankPRE' = at[2]
  /\ UNCHANGED <<queues, nextRank, nextBank, cqRefreshRank, cqRefreshWaiting,
                 rowAccessCounters, sendAct>>
=============================================================================
