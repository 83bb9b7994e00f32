------------------------------ MODULE Statistics ------------------------------
(***************************************************************************)
(* What MemoryController counts and prints: transfers and latencies of an  *)
(* epoch, which are printed and cleared at its end, the histogram of all   *)
(* latencies, and the latencies that SCIC keeps beside them for a caller   *)
(* to query.                                                               *)
(*                                                                         *)
(* An address is abstracted to its rank and bank, and the scheduling in    *)
(* between to a choice of the read or write that is served in a cycle.     *)
(* Data of at most one read arrives in a cycle (DataBusExclusive of        *)
(* MemorySystem), so that the update that receives it also returns it.     *)
(***************************************************************************)
EXTENDS Integers, SequencesExt, FiniteCollections

CONSTANTS
  NUM_RANKS, NUM_BANKS,
  EPOCH_LENGTH,
  HISTOGRAM_BIN_SIZE,
  MaxCycle,          \* bound: the simulation ends at this cycle at the latest
  MaxTransfers       \* bound: reads accepted and writes sent

ASSUME StatisticsAssumption ==
  {NUM_RANKS, NUM_BANKS, EPOCH_LENGTH, HISTOGRAM_BIN_SIZE, MaxCycle, MaxTransfers}
    \subseteq Nat \ {0}

VARIABLES
  currentClockCycle,
  pendingReadTransactions,     \* where each read goes, and when it was added
  totals,                      \* the counters of the epoch
  latencies,                   \* the histogram: how often, by the start of the bin
  _vctRtLatencyReport,         \* latencies measured for SCIC's caller, per bank
  ended,
  bankUsage,                   \* printed at the end: the "Bank usage list"
  history,                     \* not of the code: what was served and shown ...
  queried                      \* ... and what was measured for, and said to, SCIC's caller

vars == <<currentClockCycle, pendingReadTransactions, totals, latencies,
          _vctRtLatencyReport, ended, bankUsage, history, queried>>

RankIds == 0 .. NUM_RANKS - 1
BankIds == 0 .. NUM_BANKS - 1
Indices == 0 .. NUM_RANKS * NUM_BANKS - 1
Places  == [rank : RankIds, bank : BankIds]

SEQUENTIAL(rank, bank) == rank * NUM_BANKS + bank

OfRank(f, rank) == Total(f, {SEQUENTIAL(rank, bank) : bank \in BankIds})

Zero(S) == [x \in S |-> 0]

Cleared == [totalTransactions |-> 0, totalReadsPerBank |-> Zero(Indices),
            totalWritesPerBank |-> Zero(Indices), totalEpochLatency |-> Zero(Indices),
            totalReadsPerRank |-> Zero(RankIds), totalWritesPerRank |-> Zero(RankIds)]

\* The histogram's bins are named by their lowest latency.
Bin(latency) == (latency \div HISTOGRAM_BIN_SIZE) * HISTOGRAM_BIN_SIZE

NothingYet == [reads |-> Zero(RankIds), writes |-> Zero(RankIds)]

StatisticsInit ==
  /\ currentClockCycle = 0
  /\ pendingReadTransactions = <<>>
  /\ totals = Cleared
  /\ latencies = [b \in {Bin(latency) : latency \in 0 .. MaxCycle} |-> 0]
  /\ _vctRtLatencyReport = Zero(Indices)
  /\ ended = FALSE
  /\ bankUsage = [i \in RankIds |-> Zero(BankIds)]
  /\ history = [served |-> NothingYet, shown |-> NothingYet, transactions |-> 0]
  /\ queried = [measured |-> Zero(Indices), told |-> Zero(RankIds), returned |-> 0]

-----------------------------------------------------------------------------
(* What happens to the counters. *)

\* Mutant: insertHistogram is called with rank and bank swapped.
CountReadSwapped(t, place, latency) ==
  LET index == SEQUENTIAL(place.rank, place.bank)
  IN  [t EXCEPT !.totalReadsPerBank[index] = @ + 1, !.totalTransactions = @ + 1,
                !.totalEpochLatency[SEQUENTIAL(place.bank, place.rank)] = @ + latency]

\* receiveFromBus, and then update() returns the data.
CountRead(t, place, latency) ==
  LET index == SEQUENTIAL(place.rank, place.bank)
  IN  [t EXCEPT !.totalReadsPerBank[index] = @ + 1, !.totalTransactions = @ + 1,
                !.totalEpochLatency[index] = @ + latency]

CountWrite(t, place) ==
  [t EXCEPT !.totalWritesPerBank[SEQUENTIAL(place.rank, place.bank)] = @ + 1,
            !.totalTransactions = @ + 1]

\* printStats adds the banks to their rank before it prints.
AddBanksToRanks(t) ==
  [t EXCEPT !.totalReadsPerRank = [r \in RankIds |-> @[r] + OfRank(t.totalReadsPerBank, r)],
            !.totalWritesPerRank = [r \in RankIds |-> @[r] + OfRank(t.totalWritesPerBank, r)]]

Shown(h, t) ==
  [h EXCEPT !.shown.reads = [r \in RankIds |-> @[r] + t.totalReadsPerRank[r]],
            !.shown.writes = [r \in RankIds |-> @[r] + t.totalWritesPerRank[r]],
            !.transactions = @ + t.totalTransactions]

\* Mutant: the counters of the ranks are not cleared.
ClearedButForRanks(t) == [Cleared EXCEPT !.totalReadsPerRank = t.totalReadsPerRank]

AfterEpoch(t) == Cleared

\* The end of update(): printStats prints nothing in cycle 0, the counters are cleared
\* all the same.
EndOfUpdate(t, h) ==
  LET epochEnds == currentClockCycle % EPOCH_LENGTH = 0
      printed   == epochEnds /\ currentClockCycle # 0
  IN  /\ totals' = IF epochEnds THEN AfterEpoch(AddBanksToRanks(t)) ELSE t
      /\ history' = IF printed THEN Shown(h, AddBanksToRanks(t)) ELSE h
      /\ currentClockCycle' = currentClockCycle + 1
      /\ UNCHANGED <<ended, bankUsage>>

-----------------------------------------------------------------------------
Served(h) == Total(h.served.reads, RankIds) + Total(h.served.writes, RankIds)

\* addTransaction with a read.
AddRead(place) ==
  /\ ~ended /\ Served(history) + Len(pendingReadTransactions) < MaxTransfers
  /\ pendingReadTransactions' =
       Append(pendingReadTransactions, [place |-> place, timeAdded |-> currentClockCycle])
  /\ UNCHANGED <<currentClockCycle, totals, latencies, _vctRtLatencyReport, ended,
                 bankUsage, history, queried>>

\* A cycle in which nothing is transferred.
Update ==
  /\ ~ended /\ currentClockCycle < MaxCycle
  /\ EndOfUpdate(totals, history)
  /\ UNCHANGED <<pendingReadTransactions, latencies, _vctRtLatencyReport, queried>>

\* A cycle in which the data of a read arrive and are returned; the latency goes to
\* measureIndividualLatency and insertHistogram.
ReturnRead(i) ==
  LET place   == pendingReadTransactions[i].place
      index   == SEQUENTIAL(place.rank, place.bank)
      latency == currentClockCycle - pendingReadTransactions[i].timeAdded
  IN  /\ ~ended /\ latency > 0 /\ currentClockCycle < MaxCycle
      /\ pendingReadTransactions' = RemoveAt(pendingReadTransactions, i)
      /\ latencies' = [latencies EXCEPT ![Bin(latency)] = @ + 1]
      /\ _vctRtLatencyReport' = [_vctRtLatencyReport EXCEPT ![index] = @ + latency]
      /\ queried' = [queried EXCEPT !.measured[index] = @ + latency]
      /\ EndOfUpdate(CountRead(totals, place, latency),
                     [history EXCEPT !.served.reads[place.rank] = @ + 1])

\* A cycle in which the data of a write go on the bus.
SendWriteData(place) ==
  /\ ~ended /\ 0 < currentClockCycle /\ currentClockCycle < MaxCycle
  /\ Served(history) + Len(pendingReadTransactions) < MaxTransfers
  /\ EndOfUpdate(CountWrite(totals, place),
                 [history EXCEPT !.served.writes[place.rank] = @ + 1])
  /\ UNCHANGED <<pendingReadTransactions, latencies, _vctRtLatencyReport, queried>>

\* The "Bank usage list" prints for bank j of rank i what is at the index i + j.
UsageList(t) ==
  [i \in RankIds |-> [j \in BankIds |-> t.totalReadsPerBank[i + j] + t.totalWritesPerBank[i + j]]]

\* The last thing a simulation does.
printStats ==
  /\ ~ended
  /\ ended' = TRUE
  /\ IF currentClockCycle = 0 THEN UNCHANGED <<totals, history, bankUsage>>
     ELSE /\ totals' = AddBanksToRanks(totals)
          /\ history' = Shown(history, AddBanksToRanks(totals))
          /\ bankUsage' = UsageList(totals)
  /\ UNCHANGED <<currentClockCycle, pendingReadTransactions, latencies,
                 _vctRtLatencyReport, queried>>

\* The indices that the loop over the banks of rank i goes through, and those of them
\* that it does not find cleared by the loop of an earlier rank.
Visited(i) == {i + j : j \in BankIds}
ToldTo(i)  == Visited(i) \ UNION {Visited(r) : r \in 0 .. i - 1}

\* perfInfo[i] after the first j + 1 banks, and at the end.
PerfInfoAfter(i, j) == Total(_vctRtLatencyReport, ToldTo(i) \cap i .. i + j)
perfInfo(i) == Total(_vctRtLatencyReport, ToldTo(i))

\* The returned value: perfInfo[i] is added to it after every bank.
nLatency ==
  Total([i \in RankIds |-> Total([j \in BankIds |-> PerfInfoAfter(i, j)], BankIds)], RankIds)

\* Mutant: the time point is marked for every bank, the latencies are not.
AllMarked == Zero(Indices)

Marked == [index \in Indices |->
             IF \E i \in RankIds : index \in Visited(i) THEN 0 ELSE _vctRtLatencyReport[index]]

GetLatencyandMarkTimepoint ==
  /\ ~ended
  /\ _vctRtLatencyReport' = Marked
  /\ queried' = [queried EXCEPT !.told = [i \in RankIds |-> @[i] + perfInfo(i)],
                                !.returned = @ + nLatency]
  /\ UNCHANGED <<currentClockCycle, pendingReadTransactions, totals, latencies, ended,
                 bankUsage, history>>

StatisticsNext ==
  \/ \E place \in Places : AddRead(place) \/ SendWriteData(place)
  \/ \E i \in DOMAIN pendingReadTransactions : ReturnRead(i)
  \/ Update \/ printStats \/ GetLatencyandMarkTimepoint

StatisticsSpec == StatisticsInit /\ [][StatisticsNext]_vars

-----------------------------------------------------------------------------
(* Properties. *)

\* The counters are there for every rank and bank, and a latency is only counted
\* together with a read of the same bank, by whose number printStats divides it.
StatisticsTypeOK ==
  /\ currentClockCycle \in 0 .. MaxCycle
  /\ \A i \in DOMAIN pendingReadTransactions :
       pendingReadTransactions[i] \in [place : Places, timeAdded : 0 .. currentClockCycle]
  /\ totals.totalTransactions \in Nat
  /\ {totals.totalReadsPerBank, totals.totalWritesPerBank, totals.totalEpochLatency,
      _vctRtLatencyReport} \subseteq [Indices -> Nat]
  /\ {totals.totalReadsPerRank, totals.totalWritesPerRank} \subseteq [RankIds -> Nat]
  /\ \A b \in Indices : totals.totalEpochLatency[b] > 0 => totals.totalReadsPerBank[b] > 0

\* What is counted now and what the epochs printed before make up what was served, for
\* every rank and in total: no transfer is printed twice or falls between two epochs.
\* The histogram has every read.  Of the bank usage list, whose index is wrong for
\* every rank but the first, only that rank's entries agree with its printed figures.
PrintedAddsUp ==
  LET now(count) == IF ended THEN 0 ELSE count
      h == history
  IN  /\ \A r \in RankIds :
           /\ h.shown.reads[r] + now(OfRank(totals.totalReadsPerBank, r)) = h.served.reads[r]
           /\ h.shown.writes[r] + now(OfRank(totals.totalWritesPerBank, r)) = h.served.writes[r]
      /\ h.transactions + now(totals.totalTransactions) = Served(h)
      /\ Total(latencies, DOMAIN latencies) = Total(h.served.reads, RankIds)
      /\ ended /\ currentClockCycle # 0 =>
           Total(bankUsage[0], BankIds) = totals.totalReadsPerRank[0] + totals.totalWritesPerRank[0]

\* However the queries fall between the reads, a latency is in the entry of one rank
\* at most, and once: what a rank was told and what is kept for it is what was measured
\* at its indices.  These are all banks of the first rank, but for each other rank one
\* index, which need not be its own; those behind are never reported.  The total that
\* is returned is at least what the ranks are told, as it counts banks several times.
LatencyToldOnce ==
  LET report == _vctRtLatencyReport
  IN  /\ \A i \in RankIds :
           queried.told[i] + Total(report, ToldTo(i)) = Total(queried.measured, ToldTo(i))
      /\ \A index \in Indices \ UNION {Visited(i) : i \in RankIds} :
           report[index] = queried.measured[index]
      /\ queried.returned >= Total(queried.told, RankIds)
=============================================================================
