---------------------------- MODULE StatisticsProofs ----------------------------
(***************************************************************************)
(* Why the statistics add up, for every number of ranks and banks, every   *)
(* epoch length and every choice of transfers.  What was shown and what    *)
(* the counters hold make up what was served; the counters are summed up   *)
(* over banks and ranks, with FiniteCollectionsProofs.                     *)
(***************************************************************************)
EXTENDS Statistics, FiniteCollectionsProofs

-----------------------------------------------------------------------------
(* Ranks, banks and the indices of both. *)

LEMMA StatisticsNumbers ==
  /\ NUM_RANKS \in Nat /\ NUM_RANKS >= 1 /\ NUM_BANKS \in Nat /\ NUM_BANKS >= 1
  /\ HISTOGRAM_BIN_SIZE \in Nat /\ HISTOGRAM_BIN_SIZE >= 1
  /\ EPOCH_LENGTH \in Nat /\ EPOCH_LENGTH >= 1 /\ MaxCycle \in Nat /\ MaxCycle >= 1
  BY StatisticsAssumption

LEMMA FiniteIds ==
  IsFiniteSet(RankIds) /\ IsFiniteSet(BankIds) /\ IsFiniteSet(Indices)
  <1>1. {NUM_RANKS - 1, NUM_BANKS - 1, NUM_RANKS * NUM_BANKS - 1} \subseteq Int
    BY StatisticsNumbers
  <1> QED
    BY <1>1, FS_Interval DEF RankIds, BankIds, Indices

\* Every bank of every rank has an index of its own.
LEMMA IndexInRange ==
  ASSUME NEW r \in RankIds, NEW b \in BankIds
  PROVE  SEQUENTIAL(r, b) \in Indices
  <1> DEFINE R == NUM_RANKS
             B == NUM_BANKS
  <1>1. R \in Nat /\ B \in Nat /\ r \in Nat /\ b \in Nat /\ r <= R - 1 /\ b <= B - 1
    BY StatisticsNumbers DEF RankIds, BankIds
  <1> HIDE DEF R, B
  <1>2. \A x, y, z \in Nat : x <= y => x * z <= y * z
    BY SMTT(30)
  <1>3. r * B <= (R - 1) * B /\ r * B \in Nat
    BY <1>1, <1>2
  <1>4. (R - 1) * B = R * B - B
    BY <1>1
  <1>5. r * B + b \in 0 .. R * B - 1
    BY <1>1, <1>3, <1>4
  <1> QED
    BY <1>5 DEF SEQUENTIAL, Indices, R, B

LEMMA IndexOfItsOwn ==
  ASSUME NEW r \in RankIds, NEW q \in RankIds, NEW b \in BankIds, NEW c \in BankIds,
         SEQUENTIAL(r, b) = SEQUENTIAL(q, c)
  PROVE  r = q /\ b = c
  <1> DEFINE B == NUM_BANKS
  <1>1. B \in Nat /\ r \in Nat /\ q \in Nat /\ b \in Nat /\ c \in Nat /\ b < B /\ c < B
    BY StatisticsNumbers DEF RankIds, BankIds
  <1>2. r * B + b = q * B + c
    BY DEF SEQUENTIAL
  <1> HIDE DEF B
  <1>3. \A x, y, v, w \in Nat : x < y /\ v < B => x * B + v < y * B + w
    <2> SUFFICES ASSUME NEW x \in Nat, NEW y \in Nat, NEW v \in Nat, NEW w \in Nat, x < y, v < B
                 PROVE  x * B + v < y * B + w
      OBVIOUS
    <2>1. PICK d \in Nat : y = x + 1 + d
      <3>1. y - x - 1 \in Nat /\ y = x + 1 + (y - x - 1)
        OBVIOUS
      <3> QED
        BY <3>1
    <2>2. y * B = x * B + B + d * B
      BY <1>1, <2>1
    <2>3. d * B \in Nat /\ x * B \in Nat
      BY <1>1
    <2> QED
      BY <1>1, <2>2, <2>3
  <1>4. r = q
    <2>1. ~(r < q) /\ ~(q < r)
      <3>1. r < q => r * B + b < q * B + c
        BY <1>1, <1>3
      <3>2. q < r => q * B + c < r * B + b
        BY <1>1, <1>3
      <3>3. r * B \in Nat /\ q * B \in Nat
        BY <1>1
      <3> QED
        BY <1>1, <1>2, <3>1, <3>2, <3>3
    <2> QED
      BY <1>1, <2>1
  <1>5. r * B \in Nat
    BY <1>1
  <1> QED
    BY <1>1, <1>2, <1>4, <1>5

\* The indices of a rank.
LEMMA BanksOfRank ==
  ASSUME NEW r \in RankIds
  PROVE  LET S == {SEQUENTIAL(r, bank) : bank \in BankIds}
         IN  /\ S \subseteq Indices /\ IsFiniteSet(S)
             /\ \A p \in Places : SEQUENTIAL(p.rank, p.bank) \in S <=> p.rank = r
  <1> DEFINE S == {SEQUENTIAL(r, bank) : bank \in BankIds}
  <1>1. S \subseteq Indices
    BY IndexInRange
  <1>2. IsFiniteSet(S)
    BY <1>1, FiniteIds, FS_Subset
  <1>3. ASSUME NEW p \in Places
        PROVE  SEQUENTIAL(p.rank, p.bank) \in S <=> p.rank = r
    BY IndexOfItsOwn DEF Places
  <1> QED
    BY <1>1, <1>2, <1>3

-----------------------------------------------------------------------------
(* The invariant. *)

Counters ==
  [totalTransactions : Nat, totalReadsPerBank : [Indices -> Nat],
   totalWritesPerBank : [Indices -> Nat], totalEpochLatency : [Indices -> Nat],
   totalReadsPerRank : [RankIds -> Nat], totalWritesPerRank : [RankIds -> Nat]]

Bins == {Bin(latency) : latency \in 0 .. MaxCycle}

PerRank == [reads : [RankIds -> Nat], writes : [RankIds -> Nat]]

Histories ==
  [served : PerRank, shown : PerRank, transactions : Nat]

Queries == [measured : [Indices -> Nat], told : [RankIds -> Nat], returned : Nat]

\* A latency is counted with its read.
WithReads(t) == \A b \in Indices : t.totalEpochLatency[b] > 0 => t.totalReadsPerBank[b] > 0

\* The ranks' own counters are only filled to be printed.
RanksClear(t) == t.totalReadsPerRank = Zero(RankIds) /\ t.totalWritesPerRank = Zero(RankIds)

\* What is shown and what is counted are together what was served.
AddsUp(h, t) ==
  /\ \A r \in RankIds : /\ h.shown.reads[r] + OfRank(t.totalReadsPerBank, r) = h.served.reads[r]
                        /\ h.shown.writes[r] + OfRank(t.totalWritesPerBank, r) = h.served.writes[r]
  /\ h.transactions + t.totalTransactions = Served(h)

AllShown(h) ==
  /\ \A r \in RankIds : h.shown.reads[r] = h.served.reads[r] /\ h.shown.writes[r] = h.served.writes[r]
  /\ h.transactions = Served(h)

ReadsInHistogram == Total(latencies, Bins) = Total(history.served.reads, RankIds)

\* Of the bank usage list the first rank's entries agree with its printed figures.
FirstRankListed ==
  currentClockCycle # 0 =>
    Total(bankUsage[0], BankIds) = totals.totalReadsPerRank[0] + totals.totalWritesPerRank[0]

CountersInv ==
  /\ ended \in BOOLEAN /\ currentClockCycle \in 0 .. MaxCycle
  /\ totals \in Counters /\ history \in Histories /\ WithReads(totals)
  /\ ~ended => RanksClear(totals) /\ AddsUp(history, totals)
  /\ ended => AllShown(history) /\ FirstRankListed
  /\ currentClockCycle = 0 => totals = Cleared

PendingReads == [place : Places, timeAdded : Nat]

\* No pending read is from the future.
AddedBefore(s, now) == \A i \in DOMAIN s : s[i].timeAdded \in Nat /\ s[i].timeAdded <= now

ReadsInv ==
  /\ pendingReadTransactions \in Seq(PendingReads)
  /\ AddedBefore(pendingReadTransactions, currentClockCycle)
  /\ latencies \in [Bins -> Nat]
  /\ ReadsInHistogram

ReportInv ==
  /\ _vctRtLatencyReport \in [Indices -> Nat]
  /\ queried \in Queries
  /\ LatencyToldOnce

StatisticsInv == CountersInv /\ ReadsInv /\ ReportInv

LEMMA ClearedFacts ==
  /\ Cleared \in Counters /\ WithReads(Cleared) /\ RanksClear(Cleared)
  /\ \A r \in RankIds : /\ OfRank(Cleared.totalReadsPerBank, r) = 0
                        /\ OfRank(Cleared.totalWritesPerBank, r) = 0
  <1>1. /\ Cleared.totalReadsPerBank = Zero(Indices) /\ Cleared.totalWritesPerBank = Zero(Indices)
        /\ Cleared.totalEpochLatency = Zero(Indices)
        /\ RanksClear(Cleared)
    BY DEF Cleared, RanksClear
  <1>2. Zero(Indices) \in [Indices -> Nat] /\ Zero(RankIds) \in [RankIds -> Nat]
    BY DEF Zero
  <1>3. Cleared \in Counters
    BY <1>2 DEF Cleared, Counters
  <1>4. WithReads(Cleared)
    BY <1>1 DEF WithReads, Zero
  <1>5. ASSUME NEW r \in RankIds
        PROVE  OfRank(Zero(Indices), r) = 0
    <2> DEFINE S == {SEQUENTIAL(r, bank) : bank \in BankIds}
    <2>1. S \subseteq Indices /\ IsFiniteSet(S)
      BY BanksOfRank
    <2>2. \A x \in S : Zero(Indices)[x] = 0
      BY <2>1 DEF Zero
    <2> HIDE DEF S
    <2>3. Total(Zero(Indices), S) = 0
      BY <2>1, <2>2, TotalOfZeros
    <2> QED
      BY <2>3 DEF OfRank, S
  <1> QED
    BY <1>1, <1>3, <1>4, <1>5

LEMMA ServedType ==
  ASSUME NEW h \in Histories
  PROVE  /\ Served(h) \in Nat
         /\ Total(h.served.reads, RankIds) \in Nat /\ Total(h.served.writes, RankIds) \in Nat
  <1>1. \A r \in RankIds : h.served.reads[r] \in Nat /\ h.served.writes[r] \in Nat
    BY DEF Histories, PerRank
  <1>2. Total(h.served.reads, RankIds) \in Nat /\ Total(h.served.writes, RankIds) \in Nat
    BY <1>1, FiniteIds, TotalType
  <1> QED
    BY <1>2 DEF Served

LEMMA OfRankType ==
  ASSUME NEW f \in [Indices -> Nat], NEW r \in RankIds
  PROVE  OfRank(f, r) \in Nat
  <1> DEFINE S == {SEQUENTIAL(r, bank) : bank \in BankIds}
  <1>1. S \subseteq Indices /\ IsFiniteSet(S)
    BY BanksOfRank
  <1>2. \A x \in S : f[x] \in Nat
    BY <1>1
  <1> HIDE DEF S
  <1>3. Total(f, S) \in Nat
    BY <1>1, <1>2, TotalType
  <1> QED
    BY <1>3 DEF OfRank, S

\* One more at a place is one more of its rank and of no other.
LEMMA OfRankGrows ==
  ASSUME NEW f \in [Indices -> Nat], NEW p \in Places, NEW r \in RankIds
  PROVE  LET g == [f EXCEPT ![SEQUENTIAL(p.rank, p.bank)] = @ + 1]
         IN  /\ g \in [Indices -> Nat]
             /\ OfRank(g, r) = IF r = p.rank THEN OfRank(f, r) + 1 ELSE OfRank(f, r)
  <1> DEFINE S == {SEQUENTIAL(r, bank) : bank \in BankIds}
             x == SEQUENTIAL(p.rank, p.bank)
             g == [f EXCEPT ![x] = @ + 1]
  <1>1. S \subseteq Indices /\ IsFiniteSet(S) /\ (x \in S <=> p.rank = r)
    BY BanksOfRank
  <1>2. x \in Indices
    BY IndexInRange DEF Places
  <1> HIDE DEF S, x
  <1>3. g \in [Indices -> Nat] /\ \A y \in Indices : g[y] = IF y = x THEN f[y] + 1 ELSE f[y]
    BY <1>2
  <1> HIDE DEF g
  <1>4. \A y \in S : f[y] \in Nat /\ g[y] = IF y = x THEN f[y] + 1 ELSE f[y]
    BY <1>1, <1>3
  <1>5. CASE r = p.rank
    <2>1. x \in S /\ 1 \in Nat
      BY <1>1, <1>5
    <2>2. IsFiniteSet(S)
      BY <1>1
    <2>3. Total(g, S) = Total(f, S) + 1
      BY ONLY <1>4, <2>1, <2>2, TotalGrows
    <2> QED
      BY <1>3, <1>5, <2>3 DEF OfRank, S, g, x
  <1>6. CASE r # p.rank
    <2>1. \A y \in S : f[y] \in Nat /\ g[y] = f[y]
      BY <1>1, <1>4, <1>6
    <2>2. Total(g, S) = Total(f, S)
      BY <1>1, <2>1, TotalSame
    <2> QED
      BY <1>3, <1>6, <2>2 DEF OfRank, S, g, x
  <1> QED
    BY <1>5, <1>6

-----------------------------------------------------------------------------
(* One transfer, and the end of an update. *)

LEMMA CountersAre ==
  ASSUME NEW n \in Nat, NEW f \in [Indices -> Nat], NEW g \in [Indices -> Nat],
         NEW e \in [Indices -> Nat], NEW i \in [RankIds -> Nat], NEW j \in [RankIds -> Nat]
  PROVE  [totalTransactions |-> n, totalReadsPerBank |-> f, totalWritesPerBank |-> g,
          totalEpochLatency |-> e, totalReadsPerRank |-> i, totalWritesPerRank |-> j] \in Counters
  BY DEF Counters

LEMMA OneServed ==
  ASSUME NEW f, f \in [RankIds -> Nat], NEW q \in RankIds, NEW g,
         \A r \in RankIds : g[r] = IF r = q THEN f[r] + 1 ELSE f[r]
  PROVE  Total(g, RankIds) = Total(f, RankIds) + 1
  <1>1. \A r \in RankIds : f[r] \in Nat /\ g[r] = IF r = q THEN f[r] + 1 ELSE f[r]
    OBVIOUS
  <1>2. IsFiniteSet(RankIds) /\ 1 \in Nat /\ q \in RankIds
    BY FiniteIds
  <1> QED
    BY ONLY <1>1, <1>2, TotalGrows

\* The history after a read of p is returned, and after p is written.
ReadServed(h, p) == [h EXCEPT !.served.reads[p.rank] = @ + 1]
WriteServed(h, p) == [h EXCEPT !.served.writes[p.rank] = @ + 1]

LEMMA ReadCounted ==
  ASSUME NEW h \in Histories, NEW t \in Counters, NEW p \in Places, NEW l \in Nat,
         WithReads(t), RanksClear(t), AddsUp(h, t),
         NEW k, k = ReadServed(h, p)
  PROVE  /\ k \in Histories
         /\ Total(k.served.reads, RankIds) = Total(h.served.reads, RankIds) + 1
         /\ CountRead(t, p, l) \in Counters
         /\ WithReads(CountRead(t, p, l)) /\ RanksClear(CountRead(t, p, l))
         /\ AddsUp(k, CountRead(t, p, l))
  <1> DEFINE x == SEQUENTIAL(p.rank, p.bank)
             u == CountRead(t, p, l)
             g == [t.totalReadsPerBank EXCEPT ![x] = @ + 1]
             e == [t.totalEpochLatency EXCEPT ![x] = @ + l]
  <1>1. x \in Indices /\ p.rank \in RankIds
    BY IndexInRange DEF Places
  <1>2. /\ t.totalReadsPerBank \in [Indices -> Nat] /\ t.totalEpochLatency \in [Indices -> Nat]
        /\ t.totalTransactions \in Nat
    BY DEF Counters
  <1>3. u = [t EXCEPT !.totalReadsPerBank = g, !.totalTransactions = @ + 1, !.totalEpochLatency = e]
    BY DEF CountRead, Counters
  <1>4. /\ u.totalReadsPerBank = g /\ u.totalEpochLatency = e
        /\ u.totalTransactions = t.totalTransactions + 1
        /\ u.totalWritesPerBank = t.totalWritesPerBank
        /\ u.totalReadsPerRank = t.totalReadsPerRank /\ u.totalWritesPerRank = t.totalWritesPerRank
    BY <1>3 DEF Counters
  <1>5. /\ g \in [Indices -> Nat] /\ e \in [Indices -> Nat]
        /\ \A b \in Indices : /\ g[b] = IF b = x THEN t.totalReadsPerBank[b] + 1 ELSE t.totalReadsPerBank[b]
                              /\ b # x => e[b] = t.totalEpochLatency[b]
    <2> HIDE DEF x
    <2> QED
      BY <1>1, <1>2
  <1>6. \A r \in RankIds : OfRank(g, r) = IF r = p.rank THEN OfRank(t.totalReadsPerBank, r) + 1
                                          ELSE OfRank(t.totalReadsPerBank, r)
    BY <1>2, OfRankGrows
  <1>7. u \in Counters
    <2> HIDE DEF g, e, x
    <2>1. u = [totalTransactions |-> t.totalTransactions + 1, totalReadsPerBank |-> g,
               totalWritesPerBank |-> t.totalWritesPerBank, totalEpochLatency |-> e,
               totalReadsPerRank |-> t.totalReadsPerRank, totalWritesPerRank |-> t.totalWritesPerRank]
      BY <1>3 DEF Counters
    <2>2. /\ t.totalTransactions + 1 \in Nat /\ t.totalWritesPerBank \in [Indices -> Nat]
          /\ t.totalReadsPerRank \in [RankIds -> Nat] /\ t.totalWritesPerRank \in [RankIds -> Nat]
      BY <1>2 DEF Counters
    <2> HIDE DEF u
    <2> QED
      BY <1>5, <2>1, <2>2, CountersAre
  <1> HIDE DEF u, g, e, x
  <1>8. WithReads(u)
    <2> SUFFICES ASSUME NEW b \in Indices, e[b] > 0
                 PROVE  g[b] > 0
      BY <1>4 DEF WithReads
    <2>1. t.totalReadsPerBank[b] \in Nat /\ t.totalEpochLatency[b] \in Nat
      BY <1>2
    <2>2. b # x => t.totalReadsPerBank[b] > 0
      BY <1>5 DEF WithReads
    <2> QED
      BY <1>5, <2>1, <2>2
  <1>9. RanksClear(u)
    BY <1>4 DEF RanksClear
  <1> DEFINE reads == [h.served.reads EXCEPT ![p.rank] = @ + 1]
  <1>10. h.served \in PerRank /\ h.shown \in PerRank /\ h.transactions \in Nat
    BY DEF Histories
  <1>11. h.served.reads \in [RankIds -> Nat]
    BY <1>10 DEF PerRank
  <1>12. /\ reads \in [RankIds -> Nat]
         /\ \A r \in RankIds : reads[r] = IF r = p.rank THEN h.served.reads[r] + 1 ELSE h.served.reads[r]
    BY <1>1, <1>11
  <1>16. Total(reads, RankIds) = Total(h.served.reads, RankIds) + 1
    <2> HIDE DEF reads
    <2> QED
      BY <1>1, <1>11, <1>12, OneServed
  <1>13. k = [h EXCEPT !.served = [@ EXCEPT !.reads = reads]]
    BY <1>10 DEF ReadServed, Histories, PerRank
  <1> HIDE DEF reads
  <1>14. /\ k.served.reads = reads /\ k.served.writes = h.served.writes /\ k.shown = h.shown
         /\ k.transactions = h.transactions
    BY <1>10, <1>13 DEF Histories, PerRank
  <1>15. k \in Histories
    <2> DEFINE s == [h.served EXCEPT !.reads = reads]
    <2>1. s \in PerRank
      BY <1>10, <1>12 DEF PerRank
    <2>2. k = [served |-> s, shown |-> h.shown, transactions |-> h.transactions]
      BY <1>13 DEF Histories
    <2> HIDE DEF s
    <2>4. [served |-> s, shown |-> h.shown, transactions |-> h.transactions] \in Histories
      BY <1>10, <2>1 DEF Histories
    <2> QED
      BY <2>2, <2>4
  <1>17. Served(k) = Served(h) + 1
    BY <1>14, <1>16, ServedType DEF Served
  <1>18. AddsUp(k, u)
    <2>1. k.transactions + u.totalTransactions = Served(k)
      BY <1>2, <1>4, <1>10, <1>14, <1>17, ServedType DEF AddsUp
    <2>2. ASSUME NEW r \in RankIds
          PROVE  k.shown.reads[r] + OfRank(u.totalReadsPerBank, r) = k.served.reads[r]
      <3>1. h.shown.reads[r] + OfRank(t.totalReadsPerBank, r) = h.served.reads[r]
        BY DEF AddsUp
      <3>2. OfRank(t.totalReadsPerBank, r) \in Nat /\ h.shown.reads[r] \in Nat /\ h.served.reads[r] \in Nat
        BY <1>2, <1>10, OfRankType DEF PerRank
      <3> QED
        BY <1>4, <1>6, <1>12, <1>14, <3>1, <3>2
    <2>3. ASSUME NEW r \in RankIds
          PROVE  k.shown.writes[r] + OfRank(u.totalWritesPerBank, r) = k.served.writes[r]
      BY <1>4, <1>14 DEF AddsUp
    <2> QED
      BY <2>1, <2>2, <2>3 DEF AddsUp
  <1> QED
    BY <1>7, <1>8, <1>9, <1>14, <1>15, <1>16, <1>18 DEF u

LEMMA WriteCounted ==
  ASSUME NEW h \in Histories, NEW t \in Counters, NEW p \in Places,
         WithReads(t), RanksClear(t), AddsUp(h, t),
         NEW k, k = WriteServed(h, p)
  PROVE  /\ k \in Histories
         /\ k.served.reads = h.served.reads
         /\ CountWrite(t, p) \in Counters
         /\ WithReads(CountWrite(t, p)) /\ RanksClear(CountWrite(t, p))
         /\ AddsUp(k, CountWrite(t, p))
  <1> DEFINE x == SEQUENTIAL(p.rank, p.bank)
             u == CountWrite(t, p)
             g == [t.totalWritesPerBank EXCEPT ![x] = @ + 1]
  <1>1. x \in Indices /\ p.rank \in RankIds
    BY IndexInRange DEF Places
  <1>2. t.totalWritesPerBank \in [Indices -> Nat] /\ t.totalTransactions \in Nat
    BY DEF Counters
  <1>3. u = [t EXCEPT !.totalWritesPerBank = g, !.totalTransactions = @ + 1]
    BY DEF CountWrite, Counters
  <1>4. /\ u.totalWritesPerBank = g /\ u.totalEpochLatency = t.totalEpochLatency
        /\ u.totalTransactions = t.totalTransactions + 1
        /\ u.totalReadsPerBank = t.totalReadsPerBank
        /\ u.totalReadsPerRank = t.totalReadsPerRank /\ u.totalWritesPerRank = t.totalWritesPerRank
    BY <1>3 DEF Counters
  <1>5. /\ g \in [Indices -> Nat]
        /\ \A r \in RankIds : OfRank(g, r) = IF r = p.rank THEN OfRank(t.totalWritesPerBank, r) + 1
                                             ELSE OfRank(t.totalWritesPerBank, r)
    <2>1. g \in [Indices -> Nat]
      <3> HIDE DEF x
      <3> QED
        BY <1>1, <1>2
    <2> QED
      BY <1>2, <2>1, OfRankGrows
  <1>6. u \in Counters
    <2> HIDE DEF g, x
    <2>1. u = [totalTransactions |-> t.totalTransactions + 1, totalReadsPerBank |-> t.totalReadsPerBank,
               totalWritesPerBank |-> g, totalEpochLatency |-> t.totalEpochLatency,
               totalReadsPerRank |-> t.totalReadsPerRank, totalWritesPerRank |-> t.totalWritesPerRank]
      BY <1>3 DEF Counters
    <2>2. /\ t.totalTransactions + 1 \in Nat /\ t.totalReadsPerBank \in [Indices -> Nat]
          /\ t.totalEpochLatency \in [Indices -> Nat]
          /\ t.totalReadsPerRank \in [RankIds -> Nat] /\ t.totalWritesPerRank \in [RankIds -> Nat]
      BY <1>2 DEF Counters
    <2> HIDE DEF u
    <2> QED
      BY <1>5, <2>1, <2>2, CountersAre
  <1> HIDE DEF u, g, x
  <1>7. WithReads(u) /\ RanksClear(u)
    BY <1>4 DEF WithReads, RanksClear
  <1> DEFINE writes == [h.served.writes EXCEPT ![p.rank] = @ + 1]
  <1>10. h.served \in PerRank /\ h.shown \in PerRank /\ h.transactions \in Nat
    BY DEF Histories
  <1>11. h.served.writes \in [RankIds -> Nat]
    BY <1>10 DEF PerRank
  <1>12. /\ writes \in [RankIds -> Nat]
         /\ \A r \in RankIds : writes[r] = IF r = p.rank THEN h.served.writes[r] + 1 ELSE h.served.writes[r]
    BY <1>1, <1>11
  <1>16. Total(writes, RankIds) = Total(h.served.writes, RankIds) + 1
    <2> HIDE DEF writes
    <2> QED
      BY <1>1, <1>11, <1>12, OneServed
  <1>13. k = [h EXCEPT !.served = [@ EXCEPT !.writes = writes]]
    BY <1>10 DEF WriteServed, Histories, PerRank
  <1> HIDE DEF writes
  <1>14. /\ k.served.writes = writes /\ k.served.reads = h.served.reads /\ k.shown = h.shown
         /\ k.transactions = h.transactions
    BY <1>10, <1>13 DEF Histories, PerRank
  <1>15. k \in Histories
    <2> DEFINE s == [h.served EXCEPT !.writes = writes]
    <2>1. s \in PerRank
      BY <1>10, <1>12 DEF PerRank
    <2>2. k = [served |-> s, shown |-> h.shown, transactions |-> h.transactions]
      BY <1>13 DEF Histories
    <2> HIDE DEF s
    <2>4. [served |-> s, shown |-> h.shown, transactions |-> h.transactions] \in Histories
      BY <1>10, <2>1 DEF Histories
    <2> QED
      BY <2>2, <2>4
  <1>17. Served(k) = Served(h) + 1
    <2>1. Total(h.served.reads, RankIds) \in Nat /\ Total(h.served.writes, RankIds) \in Nat
      BY ServedType
    <2>2. /\ Served(k) = Total(h.served.reads, RankIds) + Total(writes, RankIds)
          /\ Served(h) = Total(h.served.reads, RankIds) + Total(h.served.writes, RankIds)
      BY <1>14 DEF Served
    <2> QED
      BY <1>16, <2>1, <2>2
  <1>18. AddsUp(k, u)
    <2>1. k.transactions + u.totalTransactions = Served(k)
      BY <1>2, <1>4, <1>10, <1>14, <1>17, ServedType DEF AddsUp
    <2>2. ASSUME NEW r \in RankIds
          PROVE  k.shown.writes[r] + OfRank(u.totalWritesPerBank, r) = k.served.writes[r]
      <3>1. h.shown.writes[r] + OfRank(t.totalWritesPerBank, r) = h.served.writes[r]
        BY DEF AddsUp
      <3>2. OfRank(t.totalWritesPerBank, r) \in Nat /\ h.shown.writes[r] \in Nat /\ h.served.writes[r] \in Nat
        BY <1>2, <1>10, OfRankType DEF PerRank
      <3> QED
        BY <1>4, <1>5, <1>12, <1>14, <3>1, <3>2
    <2>3. ASSUME NEW r \in RankIds
          PROVE  k.shown.reads[r] + OfRank(u.totalReadsPerBank, r) = k.served.reads[r]
      BY <1>4, <1>14 DEF AddsUp
    <2> QED
      BY <2>1, <2>2, <2>3 DEF AddsUp
  <1> QED
    BY <1>6, <1>7, <1>14, <1>15, <1>18 DEF u

LEMMA BanksAdded ==
  ASSUME NEW t \in Counters, WithReads(t), RanksClear(t), NEW u, u = AddBanksToRanks(t)
  PROVE  /\ u \in Counters /\ WithReads(u) /\ u.totalTransactions = t.totalTransactions
         /\ \A r \in RankIds : /\ u.totalReadsPerRank[r] = OfRank(t.totalReadsPerBank, r)
                               /\ u.totalWritesPerRank[r] = OfRank(t.totalWritesPerBank, r)
  <1> DEFINE reads == [r \in RankIds |-> t.totalReadsPerRank[r] + OfRank(t.totalReadsPerBank, r)]
             writes == [r \in RankIds |-> t.totalWritesPerRank[r] + OfRank(t.totalWritesPerBank, r)]
  <1>1. /\ t.totalReadsPerBank \in [Indices -> Nat] /\ t.totalWritesPerBank \in [Indices -> Nat]
        /\ t.totalEpochLatency \in [Indices -> Nat] /\ t.totalTransactions \in Nat
    BY DEF Counters
  <1>2. \A r \in RankIds :
          /\ OfRank(t.totalReadsPerBank, r) \in Nat /\ OfRank(t.totalWritesPerBank, r) \in Nat
          /\ t.totalReadsPerRank[r] = 0 /\ t.totalWritesPerRank[r] = 0
    BY <1>1, OfRankType DEF RanksClear, Zero
  <1>3. /\ reads \in [RankIds -> Nat] /\ writes \in [RankIds -> Nat]
        /\ \A r \in RankIds : /\ reads[r] = OfRank(t.totalReadsPerBank, r)
                              /\ writes[r] = OfRank(t.totalWritesPerBank, r)
    BY <1>2
  <1>4. u = [totalTransactions |-> t.totalTransactions, totalReadsPerBank |-> t.totalReadsPerBank,
             totalWritesPerBank |-> t.totalWritesPerBank, totalEpochLatency |-> t.totalEpochLatency,
             totalReadsPerRank |-> reads, totalWritesPerRank |-> writes]
    BY DEF AddBanksToRanks, Counters
  <1> HIDE DEF reads, writes
  <1>5. [totalTransactions |-> t.totalTransactions, totalReadsPerBank |-> t.totalReadsPerBank,
         totalWritesPerBank |-> t.totalWritesPerBank, totalEpochLatency |-> t.totalEpochLatency,
         totalReadsPerRank |-> reads, totalWritesPerRank |-> writes] \in Counters
    BY <1>1, <1>3 DEF Counters
  <1>6. u \in Counters
    BY <1>4, <1>5
  <1>7. /\ u.totalReadsPerBank = t.totalReadsPerBank /\ u.totalEpochLatency = t.totalEpochLatency
        /\ u.totalReadsPerRank = reads /\ u.totalWritesPerRank = writes
        /\ u.totalTransactions = t.totalTransactions
    BY <1>4
  <1>8. WithReads(u)
    BY <1>7 DEF WithReads
  <1> QED
    BY <1>3, <1>6, <1>7, <1>8

\* The bank usage list of the first rank, where the index i + j is the right one.
LEMMA FirstRanksUsage ==
  ASSUME NEW t \in Counters, WithReads(t), RanksClear(t), NEW u, u = AddBanksToRanks(t)
  PROVE  Total(UsageList(t)[0], BankIds) = u.totalReadsPerRank[0] + u.totalWritesPerRank[0]
  <1> DEFINE f == t.totalReadsPerBank
             g == t.totalWritesPerBank
             h == UsageList(t)[0]
  <1>1. f \in [Indices -> Nat] /\ g \in [Indices -> Nat]
    BY DEF Counters
  <1>2. 0 \in RankIds
    BY StatisticsNumbers DEF RankIds
  <1>3. \A b \in BankIds : SEQUENTIAL(0, b) = b /\ 0 + b = b
    BY StatisticsNumbers DEF SEQUENTIAL, BankIds
  <1>4. {SEQUENTIAL(0, b) : b \in BankIds} = BankIds
    BY <1>3
  <1>5. BankIds \subseteq Indices /\ IsFiniteSet(BankIds)
    BY <1>2, <1>4, BanksOfRank
  <1>6. \A b \in BankIds : h[b] = f[b] + g[b]
    BY <1>2, <1>3 DEF UsageList
  <1>7. OfRank(f, 0) = Total(f, BankIds) /\ OfRank(g, 0) = Total(g, BankIds)
    BY <1>4 DEF OfRank
  <1>8. u.totalReadsPerRank[0] = OfRank(f, 0) /\ u.totalWritesPerRank[0] = OfRank(g, 0)
    BY <1>2, BanksAdded
  <1> HIDE DEF f, g, h
  <1>9. \A b \in BankIds : f[b] \in Nat /\ g[b] \in Nat /\ h[b] = f[b] + g[b]
    BY <1>1, <1>5, <1>6
  <1>10. Total(h, BankIds) = Total(f, BankIds) + Total(g, BankIds)
    BY <1>5, <1>9, TotalAdds
  <1> QED
    BY <1>7, <1>8, <1>10 DEF h

\* What is printed includes everything that was served.
LEMMA ShownFacts ==
  ASSUME NEW h \in Histories, NEW t \in Counters, WithReads(t), RanksClear(t), AddsUp(h, t),
         NEW k, k = Shown(h, AddBanksToRanks(t))
  PROVE  /\ k \in Histories /\ AllShown(k)
         /\ k.served = h.served
  <1> DEFINE u == AddBanksToRanks(t)
             reads == [r \in RankIds |-> h.shown.reads[r] + u.totalReadsPerRank[r]]
             writes == [r \in RankIds |-> h.shown.writes[r] + u.totalWritesPerRank[r]]
  <1>1. /\ u \in Counters /\ u.totalTransactions = t.totalTransactions
        /\ \A r \in RankIds : /\ u.totalReadsPerRank[r] = OfRank(t.totalReadsPerBank, r)
                              /\ u.totalWritesPerRank[r] = OfRank(t.totalWritesPerBank, r)
    BY BanksAdded
  <1>2. /\ h.shown \in PerRank /\ h.served \in PerRank /\ h.transactions \in Nat
    BY DEF Histories
  <1>3. k = [served |-> h.served, shown |-> [reads |-> reads, writes |-> writes],
             transactions |-> h.transactions + u.totalTransactions]
    BY <1>2 DEF Shown, Histories, PerRank
  <1>4. u.totalReadsPerRank \in [RankIds -> Nat] /\ u.totalWritesPerRank \in [RankIds -> Nat]
        /\ u.totalTransactions \in Nat
    BY <1>1 DEF Counters
  <1> HIDE DEF u
  <1>5. /\ reads \in [RankIds -> Nat] /\ writes \in [RankIds -> Nat]
        /\ \A r \in RankIds : reads[r] = h.served.reads[r] /\ writes[r] = h.served.writes[r]
    <2>1. h.shown.reads \in [RankIds -> Nat] /\ h.shown.writes \in [RankIds -> Nat]
      BY <1>2 DEF PerRank
    <2>2. ASSUME NEW r \in RankIds
          PROVE  reads[r] = h.served.reads[r] /\ writes[r] = h.served.writes[r]
      BY <1>1 DEF AddsUp
    <2> QED
      BY <1>4, <2>1, <2>2
  <1> HIDE DEF reads, writes
  <1> DEFINE d == [reads |-> reads, writes |-> writes]
  <1>6. d \in PerRank
    BY <1>5 DEF PerRank
  <1> DEFINE n == h.transactions + u.totalTransactions
  <1>7. n \in Nat /\ n = Served(h)
    BY <1>1, <1>2, <1>4 DEF AddsUp
  <1>8. /\ k.served = h.served
        /\ k.shown.reads = reads /\ k.shown.writes = writes /\ k.transactions = n
    BY <1>3
  <1>9. k \in Histories
    <2> HIDE DEF d, n
    <2>1. [served |-> h.served, shown |-> d, transactions |-> n] \in Histories
      BY <1>2, <1>6, <1>7 DEF Histories
    <2>2. k = [served |-> h.served, shown |-> d, transactions |-> n]
      BY <1>3 DEF d, n
    <2> QED
      BY <2>1, <2>2
  <1>10. AllShown(k)
    <2>1. Served(k) = Served(h)
      BY <1>8 DEF Served
    <2> HIDE DEF n
    <2> QED
      BY <1>5, <1>7, <1>8, <2>1 DEF AllShown
  <1> QED
    BY <1>8, <1>9, <1>10

LEMMA EndAddsUp ==
  ASSUME NEW h \in Histories, NEW t \in Counters, WithReads(t), RanksClear(t), AddsUp(h, t),
         currentClockCycle \in 0 .. MaxCycle - 1, currentClockCycle = 0 => t = Cleared,
         ended = FALSE, EndOfUpdate(t, h)
  PROVE  /\ CountersInv' /\ ended' = FALSE /\ currentClockCycle' = currentClockCycle + 1
         /\ history'.served = h.served
  <1> DEFINE epochEnds == currentClockCycle % EPOCH_LENGTH = 0
             k == Shown(h, AddBanksToRanks(t))
  <1>1. /\ totals' = IF epochEnds THEN Cleared ELSE t
        /\ history' = IF epochEnds /\ currentClockCycle # 0 THEN k ELSE h
        /\ currentClockCycle' = currentClockCycle + 1 /\ ended' = FALSE
    BY DEF EndOfUpdate, AfterEpoch
  <1> HIDE DEF epochEnds
  <1>2. /\ k \in Histories /\ AllShown(k)
        /\ k.served = h.served
    BY ShownFacts
  <1> HIDE DEF k
  <1>3. currentClockCycle' \in 0 .. MaxCycle /\ currentClockCycle' # 0
    BY <1>1, StatisticsNumbers
  <1>4. totals' \in Counters /\ WithReads(totals') /\ RanksClear(totals')
    BY <1>1, ClearedFacts
  <1>5. /\ history' \in Histories /\ history'.served = h.served
    BY <1>1, <1>2
  <1>6. AddsUp(history', totals')
    <2>1. CASE epochEnds /\ currentClockCycle # 0
      <3>1. totals' = Cleared /\ history' = k
        BY <1>1, <2>1
      <3>2. \A r \in RankIds : k.shown.reads[r] \in Nat /\ k.shown.writes[r] \in Nat
        BY <1>2 DEF Histories, PerRank
      <3>3. k.transactions \in Nat /\ Cleared.totalTransactions = 0
        BY <1>2 DEF Histories, Cleared
      <3>4. AddsUp(k, Cleared)
        BY <1>2, <3>2, <3>3, ClearedFacts DEF AddsUp, AllShown
      <3> QED
        BY <3>1, <3>4
    <2>2. CASE ~(epochEnds /\ currentClockCycle # 0)
      <3>1. totals' = t /\ history' = h
        BY <1>1, <2>2
      <3> QED
        BY <3>1
    <2> QED
      BY <2>1, <2>2
  <1>7. CountersInv'
    BY <1>1, <1>3, <1>4, <1>5, <1>6 DEF CountersInv
  <1> QED
    BY <1>1, <1>5, <1>7

-----------------------------------------------------------------------------
(* The query: what it tells a rank, it marks. *)

LEMMA VisitedIs ==
  ASSUME NEW i \in Nat
  PROVE  Visited(i) = i .. i + NUM_BANKS - 1
  <1>1. NUM_BANKS \in Nat /\ BankIds = 0 .. NUM_BANKS - 1
    BY StatisticsNumbers DEF BankIds
  <1>2. ASSUME NEW x \in i .. i + NUM_BANKS - 1
        PROVE  x - i \in 0 .. NUM_BANKS - 1 /\ x = i + (x - i)
    BY <1>1
  <1>3. ASSUME NEW j \in 0 .. NUM_BANKS - 1
        PROVE  i + j \in i .. i + NUM_BANKS - 1
    BY <1>1
  <1> QED
    BY <1>1, <1>2, <1>3 DEF Visited

LEMMA VisitedInRange ==
  ASSUME NEW i \in RankIds
  PROVE  Visited(i) \subseteq Indices
  <1> DEFINE R == NUM_RANKS
             B == NUM_BANKS
  <1>1. R \in Nat /\ B \in Nat /\ R >= 1 /\ B >= 1 /\ i \in Nat /\ i <= R - 1
    BY StatisticsNumbers DEF RankIds
  <1>2. Visited(i) = i .. i + B - 1
    BY <1>1, VisitedIs
  <1>3. Indices = 0 .. R * B - 1
    BY DEF Indices
  <1> HIDE DEF R, B
  <1>4. R + B <= R * B + 1
    <2>1. (R - 1) * (B - 1) \in Nat
      BY <1>1
    <2>2. (R - 1) * (B - 1) = R * B - R - B + 1
      BY <1>1
    <2>3. R * B \in Nat
      BY <1>1
    <2> QED
      BY <1>1, <2>1, <2>2, <2>3
  <1>5. R * B \in Nat
    BY <1>1
  <1> QED
    BY <1>1, <1>2, <1>3, <1>4, <1>5

LEMMA ToldToFacts ==
  ASSUME NEW i \in RankIds
  PROVE  /\ ToldTo(i) \subseteq Visited(i) /\ ToldTo(i) \subseteq Indices /\ IsFiniteSet(ToldTo(i))
         /\ ToldTo(i) \cap i .. i + (NUM_BANKS - 1) = ToldTo(i)
  <1>1. ToldTo(i) \subseteq Visited(i)
    BY DEF ToldTo
  <1>2. ToldTo(i) \subseteq Indices
    BY <1>1, VisitedInRange
  <1>3. Visited(i) = i .. i + (NUM_BANKS - 1)
    <2>1. i \in Nat /\ i + NUM_BANKS - 1 = i + (NUM_BANKS - 1)
      BY StatisticsNumbers DEF RankIds
    <2> QED
      BY <2>1, VisitedIs
  <1> QED
    BY <1>1, <1>2, <1>3, FiniteIds, FS_Subset

LEMMA MarkedFacts ==
  ASSUME _vctRtLatencyReport \in [Indices -> Nat]
  PROVE  /\ Marked \in [Indices -> Nat]
         /\ \A i \in RankIds : Total(Marked, ToldTo(i)) = 0
         /\ \A x \in Indices \ UNION {Visited(i) : i \in RankIds} : Marked[x] = _vctRtLatencyReport[x]
  <1>1. Marked \in [Indices -> Nat]
    BY DEF Marked
  <1>2. ASSUME NEW i \in RankIds
        PROVE  Total(Marked, ToldTo(i)) = 0
    <2>1. \A x \in ToldTo(i) : Marked[x] = 0
      BY ToldToFacts DEF Marked
    <2> QED
      BY <2>1, ToldToFacts, TotalOfZeros
  <1>3. \A x \in Indices \ UNION {Visited(i) : i \in RankIds} : Marked[x] = _vctRtLatencyReport[x]
    BY DEF Marked
  <1> QED
    BY <1>1, <1>2, <1>3

LEMMA PerfInfoFacts ==
  ASSUME _vctRtLatencyReport \in [Indices -> Nat], NEW i \in RankIds
  PROVE  /\ perfInfo(i) \in Nat /\ \A j \in BankIds : PerfInfoAfter(i, j) \in Nat
         /\ PerfInfoAfter(i, NUM_BANKS - 1) = perfInfo(i)
  <1>1. ASSUME NEW T \in SUBSET ToldTo(i)
        PROVE  Total(_vctRtLatencyReport, T) \in Nat
    <2>1. IsFiniteSet(T) /\ \A x \in T : _vctRtLatencyReport[x] \in Nat
      BY ToldToFacts, FS_Subset
    <2> QED
      BY <2>1, TotalType
  <1>2. perfInfo(i) \in Nat
    BY <1>1 DEF perfInfo
  <1>3. \A j \in BankIds : PerfInfoAfter(i, j) \in Nat
    BY <1>1 DEF PerfInfoAfter
  <1>4. PerfInfoAfter(i, NUM_BANKS - 1) = perfInfo(i)
    BY ToldToFacts DEF PerfInfoAfter, perfInfo
  <1> QED
    BY <1>2, <1>3, <1>4

\* The returned total has every rank's figure, and those after its earlier banks too.
LEMMA ReturnedHasPerfInfo ==
  ASSUME _vctRtLatencyReport \in [Indices -> Nat]
  PROVE  nLatency \in Nat /\ nLatency >= Total([i \in RankIds |-> perfInfo(i)], RankIds)
  <1> DEFINE after(i) == [j \in BankIds |-> PerfInfoAfter(i, j)]
             f == [i \in RankIds |-> perfInfo(i)]
             g == [i \in RankIds |-> Total(after(i), BankIds)]
  <1>1. ASSUME NEW i \in RankIds
        PROVE  f[i] \in Nat /\ g[i] \in Nat /\ f[i] <= g[i]
    <2> DEFINE a == after(i)
               last == NUM_BANKS - 1
    <2>1. last \in BankIds /\ IsFiniteSet(BankIds) /\ IsFiniteSet(BankIds \ {last})
      BY StatisticsNumbers, FiniteIds, FS_Subset DEF BankIds
    <2>2. (\A j \in BankIds : a[j] \in Nat) /\ a[last] = perfInfo(i) /\ perfInfo(i) \in Nat
      BY <2>1, PerfInfoFacts
    <2>3. g[i] = Total(a, BankIds) /\ f[i] = perfInfo(i)
      OBVIOUS
    <2> HIDE DEF a, last, f, g
    <2>4. Total(a, BankIds) = a[last] + Total(a, BankIds \ {last})
      BY ONLY <2>1, <2>2, TotalTakeOut
    <2>5. Total(a, BankIds \ {last}) \in Nat
      BY <2>1, <2>2, TotalType
    <2> QED
      BY <2>2, <2>3, <2>4, <2>5
  <1>2. nLatency = Total(g, RankIds)
    BY DEF nLatency
  <1> HIDE DEF f, g
  <1>3. Total(f, RankIds) <= Total(g, RankIds) /\ Total(g, RankIds) \in Nat /\ Total(f, RankIds) \in Nat
    BY <1>1, FiniteIds, TotalAtMost, TotalType
  <1> QED
    BY <1>2, <1>3 DEF f

-----------------------------------------------------------------------------
(* Every step keeps the invariant. *)

LEMMA FiniteBins == IsFiniteSet(Bins)
  <1> DEFINE f == [latency \in 0 .. MaxCycle |-> Bin(latency)]
  <1>1. f \in Surjection(0 .. MaxCycle, Bins)
    BY DEF Surjection, Bins
  <1>2. IsFiniteSet(0 .. MaxCycle)
    <2>1. 0 \in Int /\ MaxCycle \in Int
      BY StatisticsNumbers
    <2> QED
      BY <2>1, FS_Interval
  <1> QED
    BY <1>1, <1>2, FS_Surjection

\* A read has left the pending ones and is in the histogram.
LEMMA ReadTaken ==
  ASSUME ReadsInv, currentClockCycle \in 0 .. MaxCycle - 1,
         NEW i \in DOMAIN pendingReadTransactions,
         NEW l, l = currentClockCycle - pendingReadTransactions[i].timeAdded,
         pendingReadTransactions' = RemoveAt(pendingReadTransactions, i),
         latencies' = [latencies EXCEPT ![Bin(l)] = @ + 1],
         currentClockCycle' = currentClockCycle + 1,
         Total(history'.served.reads, RankIds) = Total(history.served.reads, RankIds) + 1
  PROVE  ReadsInv'
  <1> DEFINE s == pendingReadTransactions
  <1>1. s \in Seq(PendingReads) /\ AddedBefore(s, currentClockCycle)
    BY DEF ReadsInv
  <1>2. i \in 1 .. Len(s) /\ Len(s) \in Nat
    BY <1>1
  <1>3. s[i].timeAdded \in Nat /\ s[i].timeAdded <= currentClockCycle
    BY <1>1 DEF AddedBefore
  <1>4. Bin(l) \in Bins /\ currentClockCycle \in Nat
    <2>1. l \in 0 .. MaxCycle /\ currentClockCycle \in Nat
      BY <1>3, StatisticsNumbers
    <2> QED
      BY <2>1 DEF Bins
  <1>5. /\ RemoveAt(s, i) \in Seq(PendingReads) /\ Len(RemoveAt(s, i)) = Len(s) - 1
        /\ \A j \in 1 .. Len(s) - 1 : RemoveAt(s, i)[j] = IF j < i THEN s[j] ELSE s[j + 1]
    BY <1>1, <1>2, RemoveAtFacts
  <1>6. AddedBefore(RemoveAt(s, i), currentClockCycle + 1)
    <2> SUFFICES ASSUME NEW j \in DOMAIN RemoveAt(s, i)
                 PROVE  /\ RemoveAt(s, i)[j].timeAdded \in Nat
                        /\ RemoveAt(s, i)[j].timeAdded <= currentClockCycle + 1
      BY DEF AddedBefore
    <2>1. j \in 1 .. Len(s) - 1
      BY <1>5
    <2>2. PICK k \in DOMAIN s : RemoveAt(s, i)[j] = s[k]
      <3>1. j \in DOMAIN s /\ j + 1 \in DOMAIN s
        BY <1>1, <1>2, <2>1
      <3> QED
        BY <1>5, <2>1, <3>1
    <2>3. s[k].timeAdded \in Nat /\ s[k].timeAdded <= currentClockCycle
      BY <1>1 DEF AddedBefore
    <2> QED
      BY <1>4, <2>2, <2>3
  <1>7. /\ latencies' \in [Bins -> Nat]
        /\ \A b \in Bins : latencies[b] \in Nat
                           /\ latencies'[b] = IF b = Bin(l) THEN latencies[b] + 1 ELSE latencies[b]
    BY <1>4 DEF ReadsInv
  <1>8. Total(latencies', Bins) = Total(latencies, Bins) + 1
    <2>1. 1 \in Nat /\ IsFiniteSet(Bins)
      BY FiniteBins
    <2> PICK x : x = Bin(l)
      OBVIOUS
    <2> PICK f : f = latencies
      OBVIOUS
    <2> PICK g : g = latencies'
      OBVIOUS
    <2>2. x \in Bins /\ \A b \in Bins : f[b] \in Nat /\ g[b] = IF b = x THEN f[b] + 1 ELSE f[b]
      BY <1>4, <1>7
    <2>3. Total(g, Bins) = Total(f, Bins) + 1
      BY ONLY <2>1, <2>2, TotalGrows
    <2> QED
      BY <2>3
  <1>9. ReadsInHistogram'
    <2>1. ReadsInHistogram
      BY DEF ReadsInv
    <2> QED
      BY <1>8, <2>1 DEF ReadsInHistogram
  <1> QED
    BY <1>5, <1>6, <1>7, <1>9 DEF ReadsInv

\* A cycle without a read.
LEMMA ReadsStay ==
  ASSUME ReadsInv, UNCHANGED <<pendingReadTransactions, latencies>>,
         currentClockCycle \in Nat, currentClockCycle' \in {currentClockCycle, currentClockCycle + 1},
         history'.served.reads = history.served.reads
  PROVE  ReadsInv'
  <1>1. AddedBefore(pendingReadTransactions, currentClockCycle')
    BY DEF ReadsInv, AddedBefore
  <1>2. ReadsInHistogram'
    BY DEF ReadsInv, ReadsInHistogram
  <1> QED
    BY <1>1, <1>2 DEF ReadsInv

LEMMA StatisticsStart == StatisticsInit => StatisticsInv
  <1> SUFFICES ASSUME StatisticsInit
               PROVE  StatisticsInv
    OBVIOUS
  <1>1. history \in Histories /\ AllShown(history) /\ Served(history) = 0
        /\ Total(history.served.reads, RankIds) = 0
    <2>1. \A r \in RankIds : Zero(RankIds)[r] = 0
      BY DEF Zero
    <2>2. Total(Zero(RankIds), RankIds) = 0
      BY <2>1, FiniteIds, TotalOfZeros
    <2>3. history.served = NothingYet /\ history.shown = NothingYet /\ history.transactions = 0
      BY DEF StatisticsInit
    <2>4. Zero(RankIds) \in [RankIds -> Nat]
      BY DEF Zero
    <2>5. NothingYet \in PerRank
      BY <2>4 DEF NothingYet, PerRank
    <2>6. history \in Histories
      BY <2>5 DEF StatisticsInit, Histories
    <2>7. NothingYet.reads = Zero(RankIds) /\ NothingYet.writes = Zero(RankIds)
      BY DEF NothingYet
    <2>8. Served(history) = 0
      BY <2>2, <2>3, <2>7 DEF Served
    <2> QED
      BY <2>2, <2>3, <2>6, <2>7, <2>8 DEF AllShown
  <1>2. CountersInv
    <2>1. AddsUp(history, Cleared)
      <3>1. \A r \in RankIds : history.shown.reads[r] \in Nat /\ history.shown.writes[r] \in Nat
        BY <1>1 DEF Histories, PerRank
      <3>2. history.transactions = 0 /\ Cleared.totalTransactions = 0
        BY DEF StatisticsInit, Cleared
      <3> QED
        BY <1>1, <3>1, <3>2, ClearedFacts DEF AddsUp, AllShown
    <2>2. currentClockCycle = 0 /\ totals = Cleared /\ ended = FALSE
      BY DEF StatisticsInit
    <2>3. currentClockCycle \in 0 .. MaxCycle
      BY <2>2, StatisticsNumbers
    <2> QED
      BY <1>1, <2>1, <2>2, <2>3, ClearedFacts DEF CountersInv
  <1>3. ReadsInv
    <2>1. latencies \in [Bins -> Nat] /\ \A b \in Bins : latencies[b] = 0
      BY DEF StatisticsInit, Bins
    <2>2. Total(latencies, Bins) = 0
      BY <2>1, FiniteBins, TotalOfZeros
    <2>3. pendingReadTransactions = <<>>
      BY DEF StatisticsInit
    <2> QED
      BY <1>1, <2>1, <2>2, <2>3 DEF ReadsInv, ReadsInHistogram, AddedBefore
  <1>4. ReportInv
    <2>1. /\ _vctRtLatencyReport = Zero(Indices) /\ queried.measured = Zero(Indices)
          /\ queried.told = Zero(RankIds) /\ queried.returned = 0
          /\ queried = [measured |-> Zero(Indices), told |-> Zero(RankIds), returned |-> 0]
      BY DEF StatisticsInit
    <2>2. /\ Zero(Indices) \in [Indices -> Nat] /\ \A x \in Indices : Zero(Indices)[x] = 0
          /\ Zero(RankIds) \in [RankIds -> Nat] /\ \A i \in RankIds : Zero(RankIds)[i] = 0
      BY DEF Zero
    <2>3. \A i \in RankIds : Total(Zero(Indices), ToldTo(i)) = 0
      <3> TAKE i \in RankIds
      <3>1. IsFiniteSet(ToldTo(i)) /\ \A x \in ToldTo(i) : Zero(Indices)[x] = 0
        BY <2>2, ToldToFacts
      <3> QED
        BY <3>1, TotalOfZeros
    <2>4. Total(Zero(RankIds), RankIds) = 0
      BY <2>2, FiniteIds, TotalOfZeros
    <2>5. LatencyToldOnce
      BY <2>1, <2>2, <2>3, <2>4 DEF LatencyToldOnce
    <2>6. queried \in Queries
      BY <2>1, <2>2 DEF Queries
    <2> QED
      BY <2>1, <2>2, <2>5, <2>6 DEF ReportInv
  <1> QED
    BY <1>2, <1>3, <1>4 DEF StatisticsInv

\* A cycle ends: the counters are as EndOfUpdate leaves them.
LEMMA UpdateKeeps ==
  ASSUME StatisticsInv, Update
  PROVE  StatisticsInv'
  <1>1. /\ ended = FALSE /\ currentClockCycle \in 0 .. MaxCycle - 1
        /\ EndOfUpdate(totals, history)
        /\ UNCHANGED <<pendingReadTransactions, latencies, _vctRtLatencyReport, queried>>
    BY StatisticsNumbers DEF Update, StatisticsInv, CountersInv
  <1>2. /\ totals \in Counters /\ history \in Histories /\ WithReads(totals)
        /\ RanksClear(totals) /\ AddsUp(history, totals)
        /\ currentClockCycle = 0 => totals = Cleared
    BY <1>1 DEF StatisticsInv, CountersInv
  <1>3. /\ CountersInv' /\ currentClockCycle' = currentClockCycle + 1
        /\ history'.served = history.served
    BY <1>1, <1>2, EndAddsUp
  <1>4. ReadsInv'
    BY <1>1, <1>3, ReadsStay DEF StatisticsInv
  <1>5. ReportInv'
    BY <1>1, <1>3 DEF StatisticsInv, ReportInv, LatencyToldOnce
  <1> QED
    BY <1>3, <1>4, <1>5 DEF StatisticsInv

LEMMA SendWriteDataKeeps ==
  ASSUME StatisticsInv, NEW place \in Places, SendWriteData(place)
  PROVE  StatisticsInv'
  <1> DEFINE h == WriteServed(history, place)
             t == CountWrite(totals, place)
  <1>1. /\ ended = FALSE /\ currentClockCycle \in 0 .. MaxCycle - 1 /\ currentClockCycle # 0
        /\ EndOfUpdate(t, h)
        /\ UNCHANGED <<pendingReadTransactions, latencies, _vctRtLatencyReport, queried>>
    BY StatisticsNumbers DEF SendWriteData, WriteServed, StatisticsInv, CountersInv
  <1>2. /\ totals \in Counters /\ history \in Histories /\ WithReads(totals)
        /\ RanksClear(totals) /\ AddsUp(history, totals)
    BY <1>1 DEF StatisticsInv, CountersInv
  <1> HIDE DEF h, t
  <1>3. /\ h \in Histories
        /\ h.served.reads = history.served.reads
        /\ t \in Counters /\ WithReads(t) /\ RanksClear(t) /\ AddsUp(h, t)
    BY <1>2, WriteCounted DEF h, t
  <1>4. /\ CountersInv' /\ currentClockCycle' = currentClockCycle + 1
        /\ history'.served = h.served
    BY <1>1, <1>3, EndAddsUp
  <1>5. ReadsInv'
    BY <1>1, <1>3, <1>4, ReadsStay DEF StatisticsInv
  <1>6. ReportInv'
    BY <1>1, <1>3, <1>4 DEF StatisticsInv, ReportInv, LatencyToldOnce
  <1> QED
    BY <1>4, <1>5, <1>6 DEF StatisticsInv

\* A latency is measured and kept at the same index.
LEMMA LatencyMeasured ==
  ASSUME ReportInv, NEW x \in Indices, NEW l \in Nat,
         _vctRtLatencyReport' = [_vctRtLatencyReport EXCEPT ![x] = @ + l],
         queried' = [queried EXCEPT !.measured[x] = @ + l]
  PROVE  ReportInv'
  <1> DEFINE f == _vctRtLatencyReport
             g == _vctRtLatencyReport'
             m == queried.measured
             n == queried'.measured
  <1>1. f \in [Indices -> Nat] /\ queried \in Queries /\ LatencyToldOnce
    BY DEF ReportInv
  <1>2. m \in [Indices -> Nat] /\ queried.told \in [RankIds -> Nat] /\ queried.returned \in Nat
    BY <1>1 DEF Queries
  <1>3. /\ queried' = [measured |-> n, told |-> queried.told, returned |-> queried.returned]
        /\ n = [m EXCEPT ![x] = @ + l]
    BY <1>1 DEF Queries
  <1>4. /\ g \in [Indices -> Nat] /\ n \in [Indices -> Nat]
        /\ \A y \in Indices : /\ f[y] \in Nat /\ g[y] = IF y = x THEN f[y] + l ELSE f[y]
                              /\ m[y] \in Nat /\ n[y] = IF y = x THEN m[y] + l ELSE m[y]
    BY <1>1, <1>2, <1>3
  <1>5. queried'.told = queried.told /\ queried'.returned = queried.returned
    BY <1>3
  <1>6. queried' \in Queries
    <2>1. /\ queried' = [measured |-> n, told |-> queried.told, returned |-> queried.returned]
          /\ n \in [Indices -> Nat]
      BY <1>3, <1>4
    <2> HIDE DEF m, n
    <2> QED
      BY ONLY <1>2, <2>1 DEF Queries
  <1> HIDE DEF f, g, m, n
  <1>7. ASSUME NEW i \in RankIds
        PROVE  queried.told[i] + Total(g, ToldTo(i)) = Total(n, ToldTo(i))
    <2> DEFINE T == ToldTo(i)
    <2>1. T \subseteq Indices /\ IsFiniteSet(T)
      BY ToldToFacts
    <2>2. queried.told[i] + Total(f, T) = Total(m, T) /\ queried.told[i] \in Nat
      BY <1>1, <1>2 DEF LatencyToldOnce, f, m
    <2> HIDE DEF T
    <2>3. Total(f, T) \in Nat /\ Total(m, T) \in Nat
      BY <1>4, <2>1, TotalType
    <2>4. CASE x \in T
      <3>1. \A y \in T : f[y] \in Nat /\ g[y] = IF y = x THEN f[y] + l ELSE f[y]
        BY <1>4, <2>1
      <3>2. \A y \in T : m[y] \in Nat /\ n[y] = IF y = x THEN m[y] + l ELSE m[y]
        BY <1>4, <2>1
      <3>3. Total(g, T) = Total(f, T) + l
        BY ONLY <2>1, <2>4, <3>1, l \in Nat, TotalGrows
      <3>4. Total(n, T) = Total(m, T) + l
        BY ONLY <2>1, <2>4, <3>2, l \in Nat, TotalGrows
      <3> QED
        BY <2>2, <2>3, <3>3, <3>4 DEF T
    <2>5. CASE x \notin T
      <3>1. \A y \in T : f[y] \in Nat /\ g[y] = f[y] /\ m[y] \in Nat /\ n[y] = m[y]
        BY <1>4, <2>1, <2>5
      <3>2. Total(g, T) = Total(f, T) /\ Total(n, T) = Total(m, T)
        BY <2>1, <3>1, TotalSame
      <3> QED
        BY <2>2, <3>2 DEF T
    <2> QED
      BY <2>4, <2>5
  <1>8. ASSUME NEW y \in Indices \ UNION {Visited(i) : i \in RankIds}
        PROVE  g[y] = n[y]
    <2>1. f[y] = m[y]
      BY <1>1 DEF LatencyToldOnce, f, m
    <2> QED
      BY <1>4, <2>1
  <1>9. queried.returned >= Total(queried.told, RankIds)
    BY <1>1 DEF LatencyToldOnce
  <1>10. LatencyToldOnce'
    BY <1>5, <1>7, <1>8, <1>9 DEF LatencyToldOnce, g, n
  <1> QED
    BY <1>4, <1>6, <1>10 DEF ReportInv, g

LEMMA ReturnReadKeeps ==
  ASSUME StatisticsInv, NEW i \in DOMAIN pendingReadTransactions, ReturnRead(i)
  PROVE  StatisticsInv'
  <1> DEFINE place == pendingReadTransactions[i].place
             l == currentClockCycle - pendingReadTransactions[i].timeAdded
             h == ReadServed(history, place)
             t == CountRead(totals, place, l)
             x == SEQUENTIAL(place.rank, place.bank)
  <1>1. /\ ended = FALSE /\ currentClockCycle < MaxCycle /\ l > 0
        /\ EndOfUpdate(t, h)
        /\ pendingReadTransactions' = RemoveAt(pendingReadTransactions, i)
        /\ latencies' = [latencies EXCEPT ![Bin(l)] = @ + 1]
        /\ _vctRtLatencyReport' = [_vctRtLatencyReport EXCEPT ![x] = @ + l]
        /\ queried' = [queried EXCEPT !.measured[x] = @ + l]
    BY DEF ReturnRead, ReadServed
  <1>2. /\ totals \in Counters /\ history \in Histories /\ WithReads(totals)
        /\ RanksClear(totals) /\ AddsUp(history, totals)
        /\ currentClockCycle \in 0 .. MaxCycle - 1
    BY <1>1, StatisticsNumbers DEF StatisticsInv, CountersInv
  <1>3. /\ pendingReadTransactions \in Seq(PendingReads)
        /\ pendingReadTransactions[i].timeAdded \in Nat
    BY DEF StatisticsInv, ReadsInv, AddedBefore
  <1>4. place \in Places
    <2>1. pendingReadTransactions[i] \in PendingReads
      BY <1>3
    <2> QED
      BY <2>1 DEF PendingReads
  <1>5. l \in Nat /\ currentClockCycle # 0
    BY <1>1, <1>2, <1>3, StatisticsNumbers
  <1>6. x \in Indices
    BY <1>4, IndexInRange DEF Places
  <1> HIDE DEF place, l, x, h, t
  <1>7. /\ h \in Histories
        /\ Total(h.served.reads, RankIds) = Total(history.served.reads, RankIds) + 1
        /\ t \in Counters /\ WithReads(t) /\ RanksClear(t) /\ AddsUp(h, t)
    BY <1>2, <1>4, <1>5, ReadCounted DEF h, t
  <1>8. /\ CountersInv' /\ currentClockCycle' = currentClockCycle + 1
        /\ history'.served = h.served
    BY <1>1, <1>2, <1>5, <1>7, EndAddsUp
  <1>9. ReadsInv'
    <2>1. Total(history'.served.reads, RankIds) = Total(history.served.reads, RankIds) + 1
      BY <1>7, <1>8
    <2>2. ReadsInv /\ l = currentClockCycle - pendingReadTransactions[i].timeAdded
      BY DEF StatisticsInv, l
    <2> QED
      BY <1>1, <1>2, <1>8, <2>1, <2>2, ReadTaken
  <1>10. ReportInv'
    <2>1. ReportInv
      BY DEF StatisticsInv
    <2> QED
      BY <1>1, <1>5, <1>6, <2>1, LatencyMeasured
  <1> QED
    BY <1>8, <1>9, <1>10 DEF StatisticsInv

LEMMA AddReadKeeps ==
  ASSUME StatisticsInv, NEW place \in Places, AddRead(place)
  PROVE  StatisticsInv'
  <1> DEFINE r == [place |-> place, timeAdded |-> currentClockCycle]
             s == pendingReadTransactions
  <1>1. /\ s' = Append(s, r)
        /\ UNCHANGED <<currentClockCycle, totals, latencies, _vctRtLatencyReport, ended, bankUsage,
                       history, queried>>
    BY DEF AddRead
  <1>2. s \in Seq(PendingReads) /\ AddedBefore(s, currentClockCycle) /\ currentClockCycle \in Nat
    BY StatisticsNumbers DEF StatisticsInv, ReadsInv, CountersInv
  <1>3. r \in PendingReads /\ r.timeAdded = currentClockCycle
    BY <1>2 DEF PendingReads
  <1> HIDE DEF r
  <1>4. /\ Append(s, r) \in Seq(PendingReads) /\ Len(Append(s, r)) = Len(s) + 1
        /\ \A j \in 1 .. Len(s) : Append(s, r)[j] = s[j]
        /\ Append(s, r)[Len(s) + 1] = r
    BY <1>2, <1>3
  <1>5. AddedBefore(Append(s, r), currentClockCycle)
    BY <1>2, <1>3, <1>4 DEF AddedBefore
  <1>6. ReadsInv'
    BY <1>1, <1>4, <1>5 DEF StatisticsInv, ReadsInv, ReadsInHistogram
  <1>7. CountersInv' /\ ReportInv'
    BY <1>1 DEF StatisticsInv, CountersInv, FirstRankListed, ReportInv, LatencyToldOnce
  <1> QED
    BY <1>6, <1>7 DEF StatisticsInv

LEMMA PrintStatsKeeps ==
  ASSUME StatisticsInv, printStats
  PROVE  StatisticsInv'
  <1> DEFINE u == AddBanksToRanks(totals)
             k == Shown(history, u)
  <1>1. /\ ended = FALSE /\ ended' = TRUE
        /\ UNCHANGED <<currentClockCycle, pendingReadTransactions, latencies,
                       _vctRtLatencyReport, queried>>
        /\ \/ currentClockCycle = 0 /\ UNCHANGED <<totals, history>>
           \/ currentClockCycle # 0 /\ totals' = u /\ history' = k /\ bankUsage' = UsageList(totals)
    BY DEF printStats, StatisticsInv, CountersInv
  <1>2. /\ totals \in Counters /\ history \in Histories /\ WithReads(totals)
        /\ RanksClear(totals) /\ AddsUp(history, totals)
        /\ currentClockCycle = 0 => totals = Cleared
        /\ currentClockCycle \in 0 .. MaxCycle
    BY <1>1 DEF StatisticsInv, CountersInv
  <1>3. /\ u \in Counters /\ WithReads(u)
        /\ k \in Histories /\ AllShown(k) /\ k.served = history.served
        /\ Total(UsageList(totals)[0], BankIds) = u.totalReadsPerRank[0] + u.totalWritesPerRank[0]
    BY <1>2, BanksAdded, ShownFacts, FirstRanksUsage
  <1> HIDE DEF u, k
  <1>4. AllShown(history) \/ currentClockCycle # 0
    <2> SUFFICES ASSUME currentClockCycle = 0
                 PROVE  AllShown(history)
      OBVIOUS
    <2>1. AddsUp(history, Cleared)
      BY <1>2
    <2>2. \A r \in RankIds : history.shown.reads[r] \in Nat /\ history.shown.writes[r] \in Nat
      BY <1>2 DEF Histories, PerRank
    <2>3. history.transactions \in Nat /\ Cleared.totalTransactions = 0
      BY <1>2 DEF Histories, Cleared
    <2> QED
      BY <2>1, <2>2, <2>3, ClearedFacts DEF AddsUp, AllShown
  <1>5. /\ history'.served = history.served /\ AllShown(history')
        /\ history' \in Histories /\ totals' \in Counters /\ WithReads(totals')
        /\ FirstRankListed'
    BY <1>1, <1>2, <1>3, <1>4 DEF FirstRankListed
  <1>6. CountersInv'
    BY <1>1, <1>2, <1>5 DEF CountersInv
  <1>7. ReadsInv'
    <2>1. ReadsInv /\ currentClockCycle \in Nat
      BY <1>2, StatisticsNumbers DEF StatisticsInv
    <2> QED
      BY <1>1, <1>5, <2>1, ReadsStay
  <1>8. ReportInv'
    BY <1>1, <1>5 DEF StatisticsInv, ReportInv, LatencyToldOnce
  <1> QED
    BY <1>6, <1>7, <1>8 DEF StatisticsInv

LEMMA QueryKeeps ==
  ASSUME StatisticsInv, GetLatencyandMarkTimepoint
  PROVE  StatisticsInv'
  <1> DEFINE f == _vctRtLatencyReport
             info == [i \in RankIds |-> perfInfo(i)]
             told == queried.told
             told2 == [i \in RankIds |-> queried.told[i] + perfInfo(i)]
             returned2 == queried.returned + nLatency
  <1>1. /\ ended = FALSE /\ f' = Marked
        /\ UNCHANGED <<currentClockCycle, pendingReadTransactions, totals, latencies, ended,
                       bankUsage, history>>
    BY DEF GetLatencyandMarkTimepoint, StatisticsInv, CountersInv
  <1>2. f \in [Indices -> Nat] /\ queried \in Queries /\ LatencyToldOnce
    BY DEF StatisticsInv, ReportInv
  <1>3. queried' = [measured |-> queried.measured, told |-> told2, returned |-> returned2]
    BY <1>2 DEF GetLatencyandMarkTimepoint, Queries
  <1>4. /\ queried.measured \in [Indices -> Nat] /\ told \in [RankIds -> Nat]
        /\ queried.returned \in Nat
    BY <1>2 DEF Queries
  <1>5. \A i \in RankIds : perfInfo(i) \in Nat
    BY <1>2, PerfInfoFacts
  <1>6. /\ Marked \in [Indices -> Nat] /\ \A i \in RankIds : Total(Marked, ToldTo(i)) = 0
        /\ \A x \in Indices \ UNION {Visited(i) : i \in RankIds} : Marked[x] = f[x]
    BY <1>2, MarkedFacts
  <1>7. nLatency \in Nat /\ nLatency >= Total(info, RankIds)
    BY <1>2, ReturnedHasPerfInfo
  <1>8. /\ told2 \in [RankIds -> Nat]
        /\ \A i \in RankIds : told[i] \in Nat /\ info[i] \in Nat /\ told2[i] = told[i] + info[i]
    BY <1>4, <1>5
  <1>9. queried' \in Queries
    <2>1. returned2 \in Nat
      BY <1>4, <1>7
    <2> HIDE DEF told2, returned2
    <2> QED
      BY <1>3, <1>4, <1>8, <2>1 DEF Queries
  <1>10. /\ queried'.measured = queried.measured /\ queried'.told = told2
         /\ queried'.returned = returned2
    BY <1>3
  <1>11. ASSUME NEW i \in RankIds
         PROVE  told2[i] + Total(Marked, ToldTo(i)) = Total(queried.measured, ToldTo(i))
    <2>1. told[i] + perfInfo(i) = Total(queried.measured, ToldTo(i))
      BY <1>2 DEF LatencyToldOnce, perfInfo
    <2>2. told2[i] = told[i] + perfInfo(i) /\ told2[i] \in Nat /\ Total(Marked, ToldTo(i)) = 0
      BY <1>6, <1>8
    <2> HIDE DEF told2
    <2> QED
      BY <2>1, <2>2
  <1>12. returned2 >= Total(told2, RankIds)
    <2>1. queried.returned >= Total(told, RankIds)
      BY <1>2 DEF LatencyToldOnce
    <2> HIDE DEF told, told2, info
    <2>2. Total(told2, RankIds) = Total(told, RankIds) + Total(info, RankIds)
      BY <1>8, FiniteIds, TotalAdds
    <2>3. Total(told, RankIds) \in Nat /\ Total(info, RankIds) \in Nat
      BY <1>8, FiniteIds, TotalType
    <2> QED
      BY <1>4, <1>7, <2>1, <2>2, <2>3
  <1>13. \A x \in Indices \ UNION {Visited(i) : i \in RankIds} : Marked[x] = queried.measured[x]
    BY <1>2, <1>6 DEF LatencyToldOnce
  <1> HIDE DEF told2, returned2
  <1>14. LatencyToldOnce'
    BY <1>1, <1>10, <1>11, <1>12, <1>13 DEF LatencyToldOnce
  <1>15. ReportInv'
    BY <1>1, <1>6, <1>9, <1>14 DEF ReportInv
  <1>16. CountersInv'
    BY <1>1 DEF StatisticsInv, CountersInv
  <1>17. ReadsInv'
    BY <1>1 DEF StatisticsInv, ReadsInv, ReadsInHistogram
  <1> QED
    BY <1>15, <1>16, <1>17 DEF StatisticsInv

\* At every moment the counters are well formed, what is counted and what was printed
\* make up what was served, and what was told and what is kept what was measured.
THEOREM StatisticsInvariance == StatisticsSpec => []StatisticsInv
  <1>1. ASSUME StatisticsInv, [StatisticsNext]_vars
        PROVE  StatisticsInv'
    <2>1. CASE UNCHANGED vars
      BY <1>1, <2>1 DEF vars, StatisticsInv, CountersInv, ReadsInv, ReportInv, ReadsInHistogram,
                        FirstRankListed, LatencyToldOnce
    <2> QED
      BY <1>1, <2>1, UpdateKeeps, SendWriteDataKeeps, ReturnReadKeeps, AddReadKeeps,
         PrintStatsKeeps, QueryKeeps
      DEF StatisticsNext
  <1> QED
    BY <1>1, StatisticsStart, PTL DEF StatisticsSpec

\* A latency is only counted together with a read of the same bank, by whose number
\* printStats divides it.
THEOREM StatisticsTypeCorrect == StatisticsSpec => []StatisticsTypeOK
  <1>1. StatisticsInv => StatisticsTypeOK
    <2> SUFFICES ASSUME StatisticsInv
                 PROVE  StatisticsTypeOK
      OBVIOUS
    <2>1. ASSUME NEW i \in DOMAIN pendingReadTransactions
          PROVE  pendingReadTransactions[i] \in [place : Places, timeAdded : 0 .. currentClockCycle]
      <3>1. /\ pendingReadTransactions[i] \in PendingReads
            /\ pendingReadTransactions[i].timeAdded <= currentClockCycle
        BY DEF StatisticsInv, ReadsInv, AddedBefore
      <3>2. currentClockCycle \in Nat
        BY StatisticsNumbers DEF StatisticsInv, CountersInv
      <3> QED
        BY <3>1, <3>2 DEF PendingReads
    <2>2. /\ currentClockCycle \in 0 .. MaxCycle /\ totals \in Counters /\ WithReads(totals)
          /\ _vctRtLatencyReport \in [Indices -> Nat]
      BY DEF StatisticsInv, CountersInv, ReportInv
    <2> QED
      BY <2>1, <2>2 DEF StatisticsTypeOK, Counters, WithReads
  <1> QED
    BY <1>1, StatisticsInvariance, PTL

\* No transfer is printed twice or falls between two epochs, in the figures of the
\* ranks and in the total, the histogram has every read, and the bank usage list agrees
\* with the first rank's figures; nothing is said of its other entries.
THEOREM PrintedAlwaysAddsUp == StatisticsSpec => []PrintedAddsUp
  <1>1. StatisticsInv => PrintedAddsUp
    <2> SUFFICES ASSUME StatisticsInv
                 PROVE  PrintedAddsUp
      OBVIOUS
    <2>1. Total(latencies, DOMAIN latencies) = Total(history.served.reads, RankIds)
      BY DEF StatisticsInv, ReadsInv, ReadsInHistogram
    <2>2. CASE ended
      <3>1. AllShown(history) /\ history \in Histories
           /\ FirstRankListed
        BY <2>2 DEF StatisticsInv, CountersInv
      <3>2. history.transactions \in Nat
            /\ \A r \in RankIds : history.shown.reads[r] \in Nat /\ history.shown.writes[r] \in Nat
        BY <3>1 DEF Histories, PerRank
      <3> QED
        BY <2>1, <2>2, <3>1, <3>2 DEF PrintedAddsUp, AllShown, FirstRankListed
    <2>3. CASE ~ended
      <3>1. AddsUp(history, totals)
        BY <2>3 DEF StatisticsInv, CountersInv
      <3> QED
        BY <2>1, <2>3, <3>1 DEF PrintedAddsUp, AddsUp
    <2> QED
      BY <2>2, <2>3
  <1> QED
    BY <1>1, StatisticsInvariance, PTL

\* However the queries fall between the reads, a rank is told what was measured at its
\* indices and nothing of it twice, what lies behind them stays, and the returned total
\* is at least what the ranks are told.
THEOREM LatencyAlwaysToldOnce == StatisticsSpec => []LatencyToldOnce
  <1>1. StatisticsInv => LatencyToldOnce
    BY DEF StatisticsInv, ReportInv
  <1> QED
    BY <1>1, StatisticsInvariance, PTL
=============================================================================
