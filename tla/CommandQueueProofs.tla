------------------------- MODULE CommandQueueProofs -------------------------
(***************************************************************************)
(* What pop() and the dispatch of transactions preserve in the command     *)
(* queue, for every geometry, timing and policy: lemmas for the proofs     *)
(* about the channel.                                                      *)
(***************************************************************************)
EXTENDS MemoryController, FiniteCollectionsProofs

\* The commands the controller queues under its row-buffer policy.
QueuedTypes   == {"ACTIVATE"} \cup {ColumnType(t) : t \in {"DATA_READ", "DATA_WRITE"}}
QueueCommands == {p \in BusPackets : p.busPacketType \in QueuedTypes}

\* Every ACTIVATE stands right in front of its column command.
Paired(q) ==
  \A i \in DOMAIN q : IsAct(q[i]) => /\ i < Len(q)
                                     /\ ~IsAct(q[i+1])
                                     /\ SameAddress(q[i], q[i+1])

QueueSound(q) == q \in Seq(QueueCommands) /\ Len(q) <= CMD_QUEUE_DEPTH /\ Paired(q)

\* The positions of the column commands whose ACTIVATE has gone.
Exposed(q) == {i \in DOMAIN q : ~IsAct(q[i]) /\ (i > 1 => ~IsAct(q[i-1]))}

\* The entry i of the queue q is its first for that row of that bank.
FirstForRow(q, i) == \A j \in 1 .. i - 1 : q[j].bank = q[i].bank => q[j].row # q[i].row

\* The queues as functions of their keys.
QueuesSound(qs) == DOMAIN qs = QueueKeys /\ \A k \in QueueKeys : QueueSound(qs[k])

-----------------------------------------------------------------------------
(* Numbers. *)

\* Walking round in a circle of n, every place is reached from every place, and a
\* place itself after n steps and no sooner.
LEMMA Circle ==
  ASSUME NEW n \in Nat \ {0}, NEW a \in 0 .. n - 1
  PROVE  /\ \A b \in 0 .. n - 1 : \E i \in 0 .. n - 1 : (a + i) % n = b
         /\ \A i \in (0 .. n - 1) \ {0} : (a + i) % n # a
         /\ (a + 0) % n = a /\ (a + n) % n = a
  <1>1. \A x \in 0 .. n - 1 : x % n = x /\ (x + n) % n = x
    <2> TAKE x \in 0 .. n - 1
    <2>1. (0 * n + x) % n = x /\ (1 * n + x) % n = x
      BY Quotient
    <2>2. 0 * n + x = x /\ 1 * n + x = x + n
      OBVIOUS
    <2> QED
      BY <2>1, <2>2
  <1>2. ASSUME NEW b \in 0 .. n - 1
        PROVE  \E i \in 0 .. n - 1 : (a + i) % n = b
    <2>1. CASE a <= b
      <3>1. b - a \in 0 .. n - 1 /\ a + (b - a) = b
        BY <2>1
      <3> QED
        BY <3>1, <1>1
    <2>2. CASE b < a
      <3>1. b + n - a \in 0 .. n - 1 /\ a + (b + n - a) = b + n
        BY <2>2
      <3> QED
        BY <3>1, <1>1
    <2> QED
      BY <2>1, <2>2
  <1>3. ASSUME NEW i \in (0 .. n - 1) \ {0}, (a + i) % n = a
        PROVE  FALSE
    <2>1. CASE a + i < n
      <3>1. a + i \in 0 .. n - 1
        BY <2>1
      <3>2. (a + i) % n = a + i
        BY <1>1, <3>1
      <3> QED
        BY <3>2, <1>3
    <2>2. CASE a + i >= n
      <3>1. a + i - n \in 0 .. n - 1 /\ (a + i - n) + n = a + i /\ a + i - n # a
        BY <2>2
      <3> QED
        BY <3>1, <1>1, <1>3
    <2> QED
      BY <2>1, <2>2
  <1> QED
    BY <1>1, <1>2, <1>3

\* The round robin stays among the ranks and banks.
LEMMA CellAfterType ==
  ASSUME NEW cell \in RANKS \X BANKS, NEW n \in Nat
  PROVE  CellAfter(cell, n) \in RANKS \X BANKS
  <1> USE GeometryAssumption DEF RANKS, BANKS
  <1>1. cell[1] \in Nat /\ cell[2] \in Nat
    OBVIOUS
  <1>2. NUM_RANKS * NUM_BANKS \in Nat \ {0} /\ NUM_RANKS * NUM_BANKS = NUM_BANKS * NUM_RANKS
    OBVIOUS
  <1>3. \A x \in Nat : x % (NUM_RANKS * NUM_BANKS) \in 0 .. NUM_RANKS * NUM_BANKS - 1
    BY <1>2, DivMod
  <1>4. /\ cell[2] * NUM_RANKS + cell[1] + n \in Nat
        /\ cell[1] * NUM_BANKS + cell[2] + n \in Nat
    BY <1>1
  <1> HIDE DEF RANKS, BANKS
  <1>5. CASE schedulingPolicy = "RankThenBankRoundRobin"
    <2> DEFINE at == (cell[2] * NUM_RANKS + cell[1] + n) % (NUM_RANKS * NUM_BANKS)
    <2>1. at \in 0 .. NUM_RANKS * NUM_BANKS - 1
      BY <1>3, <1>4
    <2> HIDE DEF at
    <2>2. at % NUM_RANKS \in RANKS /\ at \div NUM_RANKS \in BANKS
      BY <2>1, DivBound DEF RANKS, BANKS
    <2> QED
      BY <1>5, <2>2 DEF CellAfter, at
  <1>6. CASE schedulingPolicy # "RankThenBankRoundRobin"
    <2> DEFINE at == (cell[1] * NUM_BANKS + cell[2] + n) % (NUM_RANKS * NUM_BANKS)
    <2>1. at \in 0 .. NUM_BANKS * NUM_RANKS - 1
      BY <1>2, <1>3, <1>4
    <2> HIDE DEF at
    <2>2. at % NUM_BANKS \in BANKS /\ at \div NUM_BANKS \in RANKS
      BY <2>1, DivBound DEF RANKS, BANKS
    <2> QED
      BY <1>6, <2>2 DEF CellAfter, at
  <1> QED
    BY <1>5, <1>6

\* Two numbers below n and k make one below n * k.
LEMMA PairBound ==
  ASSUME NEW n \in Nat \ {0}, NEW k \in Nat \ {0}, NEW x \in 0 .. n - 1, NEW y \in 0 .. k - 1
  PROVE  y * n + x \in 0 .. n * k - 1
  <1>1. n * k \in Nat /\ y * n \in Nat
    OBVIOUS
  <1>2. (k - 1 - y) * n >= 0 /\ (k - 1 - y) * n = n * k - n - y * n
    OBVIOUS
  <1> QED
    BY <1>1, <1>2

\* The number that is i steps after the pair <<x, y>> in the order of y * n + x.
Walk(n, k, x, y, i) == (y * n + x + i) % (n * k)

\* Such a walk comes to every pair, and back only after n * k steps.
WalksRound(n, k, x, y) ==
  /\ \A u \in 0 .. n - 1, v \in 0 .. k - 1 :
       \E i \in 0 .. n * k - 1 : Walk(n, k, x, y, i) % n = u /\ Walk(n, k, x, y, i) \div n = v
  /\ \A i \in (0 .. n * k - 1) \ {0} :
       ~(Walk(n, k, x, y, i) % n = x /\ Walk(n, k, x, y, i) \div n = y)
  /\ Walk(n, k, x, y, 0) % n = x /\ Walk(n, k, x, y, 0) \div n = y
  /\ Walk(n, k, x, y, n * k) % n = x /\ Walk(n, k, x, y, n * k) \div n = y

LEMMA CircleOfPairs ==
  ASSUME NEW n \in Nat \ {0}, NEW k \in Nat \ {0}, NEW x \in 0 .. n - 1, NEW y \in 0 .. k - 1
  PROVE  WalksRound(n, k, x, y)
  <1> DEFINE size == n * k
             a    == y * n + x
  <1>1. size \in Nat \ {0} /\ a \in 0 .. size - 1
    BY PairBound
  <1>2. a % n = x /\ a \div n = y
    BY Quotient
  <1>3. \A u \in 0 .. n - 1, v \in 0 .. k - 1 :
          /\ v * n + u \in 0 .. size - 1
          /\ (v * n + u) % n = u /\ (v * n + u) \div n = v
    BY PairBound, Quotient
  <1> HIDE DEF size, a
  <1>4. /\ \A b \in 0 .. size - 1 : \E i \in 0 .. size - 1 : (a + i) % size = b
        /\ \A i \in (0 .. size - 1) \ {0} : (a + i) % size # a
        /\ (a + 0) % size = a /\ (a + size) % size = a
    BY <1>1, Circle
  <1>5. \A u \in 0 .. n - 1, v \in 0 .. k - 1 :
          \E i \in 0 .. size - 1 : ((a + i) % size) % n = u /\ ((a + i) % size) \div n = v
    <2> TAKE u \in 0 .. n - 1, v \in 0 .. k - 1
    <2>1. PICK i \in 0 .. size - 1 : (a + i) % size = v * n + u
      BY <1>3, <1>4
    <2> QED
      BY <1>3, <2>1
  <1>6. ASSUME NEW i \in (0 .. size - 1) \ {0},
               ((a + i) % size) % n = x, ((a + i) % size) \div n = y
        PROVE  FALSE
    <2>1. (a + i) % size \in Nat /\ a \in Nat
      <3>1. a + i \in Nat
        BY <1>1
      <3> QED
        BY <1>1, <3>1, DivMod
    <2>2. (a + i) % size = a
      BY <1>2, <1>6, <2>1, SamePair
    <2> QED
      BY <1>4, <2>2
  <1>7. /\ ((a + 0) % size) % n = x /\ ((a + 0) % size) \div n = y
        /\ ((a + size) % size) % n = x /\ ((a + size) % size) \div n = y
    BY <1>2, <1>4
  <1> QED
    BY <1>5, <1>6, <1>7 DEF size, a, Walk, WalksRound

\* The round robin comes to every rank and bank before it is back where it was.
LEMMA RoundRobin ==
  ASSUME NEW cell \in RANKS \X BANKS
  PROVE  /\ \A c \in RANKS \X BANKS : \E n \in Cells : CellAfter(cell, n) = c
         /\ \A n \in Cells \ {0} : CellAfter(cell, n) # cell
         /\ CellAfter(cell, 0) = cell
         /\ CellAfter(cell, NUM_RANKS * NUM_BANKS) = cell
  <1>1. /\ NUM_RANKS \in Nat \ {0} /\ NUM_BANKS \in Nat \ {0}
        /\ NUM_BANKS * NUM_RANKS = NUM_RANKS * NUM_BANKS
        /\ Cells = 0 .. NUM_RANKS * NUM_BANKS - 1
    BY GeometryAssumption DEF Cells
  <1>2. PICK r \in 0 .. NUM_RANKS - 1, b \in 0 .. NUM_BANKS - 1 : cell = <<r, b>>
    BY DEF RANKS, BANKS
  <1>3. CASE schedulingPolicy = "RankThenBankRoundRobin"
    <2> DEFINE at(n) == Walk(NUM_RANKS, NUM_BANKS, r, b, n)
    <2>1. \A n : CellAfter(cell, n) = <<at(n) % NUM_RANKS, at(n) \div NUM_RANKS>>
      BY <1>1, <1>2, <1>3 DEF CellAfter, Walk
    <2>0. WalksRound(NUM_RANKS, NUM_BANKS, r, b)
      BY <1>1, CircleOfPairs
    <2>2. \A u \in 0 .. NUM_RANKS - 1, v \in 0 .. NUM_BANKS - 1 :
            \E n \in 0 .. NUM_RANKS * NUM_BANKS - 1 : at(n) % NUM_RANKS = u /\ at(n) \div NUM_RANKS = v
      BY <2>0 DEF WalksRound
    <2>3. \A n \in (0 .. NUM_RANKS * NUM_BANKS - 1) \ {0} : ~(at(n) % NUM_RANKS = r /\ at(n) \div NUM_RANKS = b)
      BY <2>0 DEF WalksRound
    <2>4. at(0) % NUM_RANKS = r /\ at(0) \div NUM_RANKS = b
      BY <2>0 DEF WalksRound
    <2>5. at(NUM_RANKS * NUM_BANKS) % NUM_RANKS = r /\ at(NUM_RANKS * NUM_BANKS) \div NUM_RANKS = b
      BY <2>0 DEF WalksRound
    <2> HIDE DEF at
    <2>6. ASSUME NEW c \in RANKS \X BANKS PROVE \E n \in Cells : CellAfter(cell, n) = c
      <3>1. PICK u \in 0 .. NUM_RANKS - 1, v \in 0 .. NUM_BANKS - 1 : c = <<u, v>>
        BY DEF RANKS, BANKS
      <3>2. PICK n \in Cells : at(n) % NUM_RANKS = u /\ at(n) \div NUM_RANKS = v
        BY <1>1, <2>2
      <3> QED
        BY <2>1, <3>1, <3>2
    <2>7. \A n \in Cells \ {0} : CellAfter(cell, n) # cell
      BY <1>1, <1>2, <2>1, <2>3
    <2>8. CellAfter(cell, 0) = cell /\ CellAfter(cell, NUM_RANKS * NUM_BANKS) = cell
      BY <1>1, <1>2, <2>1, <2>4, <2>5
    <2> QED
      BY <2>6, <2>7, <2>8
  <1>4. CASE schedulingPolicy # "RankThenBankRoundRobin"
    <2> DEFINE at(n) == Walk(NUM_BANKS, NUM_RANKS, b, r, n)
    <2>1. \A n : CellAfter(cell, n) = <<at(n) \div NUM_BANKS, at(n) % NUM_BANKS>>
      BY <1>1, <1>2, <1>4 DEF CellAfter, Walk
    <2>0. WalksRound(NUM_BANKS, NUM_RANKS, b, r)
      BY <1>1, CircleOfPairs
    <2>2. \A u \in 0 .. NUM_BANKS - 1, v \in 0 .. NUM_RANKS - 1 :
            \E n \in 0 .. NUM_BANKS * NUM_RANKS - 1 : at(n) % NUM_BANKS = u /\ at(n) \div NUM_BANKS = v
      BY <2>0 DEF WalksRound
    <2>3. \A n \in (0 .. NUM_BANKS * NUM_RANKS - 1) \ {0} : ~(at(n) % NUM_BANKS = b /\ at(n) \div NUM_BANKS = r)
      BY <2>0 DEF WalksRound
    <2>4. at(0) % NUM_BANKS = b /\ at(0) \div NUM_BANKS = r
      BY <2>0 DEF WalksRound
    <2>5. at(NUM_BANKS * NUM_RANKS) % NUM_BANKS = b /\ at(NUM_BANKS * NUM_RANKS) \div NUM_BANKS = r
      BY <2>0 DEF WalksRound
    <2> HIDE DEF at
    <2>6. ASSUME NEW c \in RANKS \X BANKS PROVE \E n \in Cells : CellAfter(cell, n) = c
      <3>1. PICK u \in 0 .. NUM_RANKS - 1, v \in 0 .. NUM_BANKS - 1 : c = <<u, v>>
        BY DEF RANKS, BANKS
      <3>2. PICK n \in Cells : at(n) % NUM_BANKS = v /\ at(n) \div NUM_BANKS = u
        BY <1>1, <2>2
      <3> QED
        BY <2>1, <3>1, <3>2
    <2>7. \A n \in Cells \ {0} : CellAfter(cell, n) # cell
      BY <1>1, <1>2, <2>1, <2>3
    <2>8. CellAfter(cell, 0) = cell /\ CellAfter(cell, NUM_RANKS * NUM_BANKS) = cell
      BY <1>1, <1>2, <2>1, <2>4, <2>5
    <2> QED
      BY <2>6, <2>7, <2>8
  <1> QED
    BY <1>3, <1>4

-----------------------------------------------------------------------------
(* One queue. *)

\* A sequence is one of any set that has all its elements.
LEMMA SeqOfElements ==
  ASSUME NEW S, NEW T, NEW s \in Seq(S), \A i \in 1 .. Len(s) : s[i] \in T
  PROVE  s \in Seq(T)
  <1>1. Len(s) \in Nat /\ s \in [1 .. Len(s) -> T]
    BY LenProperties
  <1> QED
    BY <1>1

\* Without the element i, behind an element that is no ACTIVATE.
LEMMA RemoveOne ==
  ASSUME NEW q, QueueSound(q), NEW i \in 1 .. Len(q), i > 1 => ~IsAct(q[i-1])
  PROVE  QueueSound(RemoveAt(q, i))
  <1> DEFINE new == RemoveAt(q, i)
  <1>1. q \in Seq(QueueCommands) /\ Len(q) \in Nat /\ Len(q) <= CMD_QUEUE_DEPTH /\ Paired(q)
    BY DEF QueueSound
  <1>2. /\ new \in Seq(QueueCommands) /\ Len(new) = Len(q) - 1
        /\ \A j \in 1 .. Len(q) - 1 : new[j] = IF j < i THEN q[j] ELSE q[j+1]
    BY <1>1, RemoveAtFacts
  <1> HIDE DEF new
  <1>3. ASSUME NEW j \in DOMAIN new, IsAct(new[j])
        PROVE  j < Len(new) /\ ~IsAct(new[j+1]) /\ SameAddress(new[j], new[j+1])
    <2>1. j \in 1 .. Len(q) - 1
      BY <1>2
    <2>2. CASE j < i
      <3>1. new[j] = q[j] /\ j \in DOMAIN q /\ j # i - 1
        BY <1>1, <1>2, <1>3, <2>1, <2>2
      <3>2. j < Len(q) - 1 /\ j + 1 < i /\ new[j+1] = q[j+1]
        BY <1>2, <2>1, <2>2, <3>1
      <3> QED
        BY <1>1, <1>2, <1>3, <3>1, <3>2 DEF Paired
    <2>3. CASE j >= i
      <3>1. new[j] = q[j+1] /\ j + 1 \in DOMAIN q
        BY <1>1, <1>2, <2>1, <2>3
      <3>2. j + 1 < Len(q) /\ ~IsAct(q[j+2]) /\ SameAddress(q[j+1], q[j+2])
        BY <1>1, <1>3, <3>1 DEF Paired
      <3>3. new[j+1] = q[j+2]
        BY <1>1, <1>2, <2>1, <2>3, <3>2
      <3> QED
        BY <1>1, <1>2, <2>1, <3>1, <3>2, <3>3
    <2> QED
      BY <2>1, <2>2, <2>3
  <1>4. Len(new) <= CMD_QUEUE_DEPTH
    BY <1>1, <1>2, GeometryAssumption
  <1> QED
    BY <1>2, <1>3, <1>4 DEF QueueSound, Paired, new

\* What is left without two neighbours.
LEMMA RemovedTwo ==
  ASSUME NEW S, NEW q \in Seq(S), NEW i \in 2 .. Len(q)
  PROVE  LET new == RemoveAt(RemoveAt(q, i), i - 1)
         IN  /\ new \in Seq(S) /\ Len(new) = Len(q) - 2
             /\ \A j \in 1 .. Len(q) - 2 : new[j] = IF j < i - 1 THEN q[j] ELSE q[j+2]
  <1> DEFINE one == RemoveAt(q, i)
  <1>1. /\ one \in Seq(S) /\ Len(one) = Len(q) - 1
        /\ \A j \in 1 .. Len(q) - 1 : one[j] = IF j < i THEN q[j] ELSE q[j+1]
    <2>1. i \in 1 .. Len(q)
      BY LenProperties
    <2> QED
      BY <2>1, RemoveAtFacts
  <1> HIDE DEF one
  <1>2. i - 1 \in 1 .. Len(one)
    BY <1>1, LenProperties
  <1>3. /\ RemoveAt(one, i - 1) \in Seq(S)
        /\ Len(RemoveAt(one, i - 1)) = Len(one) - 1
        /\ \A j \in 1 .. Len(one) - 1 :
             RemoveAt(one, i - 1)[j] = IF j < i - 1 THEN one[j] ELSE one[j+1]
    BY <1>1, <1>2, RemoveAtFacts
  <1>4. \A j \in 1 .. Len(q) - 2 : j \in 1 .. Len(one) - 1 /\ j \in 1 .. Len(q) - 1
                                 /\ j + 1 \in 1 .. Len(q) - 1
    BY <1>1, LenProperties
  <1>5. \A j \in 1 .. Len(q) - 2 : RemoveAt(one, i - 1)[j] = IF j < i - 1 THEN q[j] ELSE q[j+2]
    BY <1>1, LenProperties, <1>3, <1>4
  <1> QED
    BY <1>1, LenProperties, <1>3, <1>5 DEF one

\* Without a column command and the ACTIVATE in front of it.
LEMMA RemoveTwo ==
  ASSUME NEW q, QueueSound(q), NEW i \in 2 .. Len(q), IsAct(q[i-1])
  PROVE  QueueSound(RemoveAt(RemoveAt(q, i), i - 1))
  <1> DEFINE new == RemoveAt(RemoveAt(q, i), i - 1)
  <1>1. q \in Seq(QueueCommands) /\ Len(q) \in Nat /\ Len(q) <= CMD_QUEUE_DEPTH /\ Paired(q)
    BY DEF QueueSound
  <1>2. /\ new \in Seq(QueueCommands) /\ Len(new) = Len(q) - 2
        /\ \A j \in 1 .. Len(q) - 2 : new[j] = IF j < i - 1 THEN q[j] ELSE q[j+2]
    BY <1>1, RemovedTwo
  <1> HIDE DEF new
  <1>3. ASSUME NEW j \in DOMAIN new, IsAct(new[j])
        PROVE  j < Len(new) /\ ~IsAct(new[j+1]) /\ SameAddress(new[j], new[j+1])
    <2>1. j \in 1 .. Len(q) - 2
      BY <1>2
    <2>2. CASE j < i - 1
      <3>1. new[j] = q[j] /\ j \in DOMAIN q
        BY <1>1, <1>2, <2>1, <2>2
      <3>2. ~IsAct(q[j+1]) /\ SameAddress(q[j], q[j+1])
        BY <1>1, <1>3, <3>1 DEF Paired
      <3>3. j + 1 < i - 1
        BY <2>1, <2>2, <3>2
      <3>4. j < Len(q) - 2 /\ new[j+1] = q[j+1]
        BY <1>1, <1>2, <2>1, <3>3
      <3> QED
        BY <1>2, <3>1, <3>2, <3>4
    <2>3. CASE j >= i - 1
      <3>1. new[j] = q[j+2] /\ j + 2 \in DOMAIN q
        BY <1>1, <1>2, <2>1, <2>3
      <3>2. j + 2 < Len(q) /\ ~IsAct(q[j+3]) /\ SameAddress(q[j+2], q[j+3])
        BY <1>1, <1>3, <3>1 DEF Paired
      <3>3. new[j+1] = q[j+3]
        BY <1>1, <1>2, <2>1, <2>3, <3>2
      <3> QED
        BY <1>1, <1>2, <2>1, <3>1, <3>2, <3>3
    <2> QED
      BY <2>1, <2>2, <2>3
  <1>4. Len(new) <= CMD_QUEUE_DEPTH
    BY <1>1, <1>2, GeometryAssumption
  <1> QED
    BY <1>2, <1>3, <1>4 DEF QueueSound, Paired, new

\* With a new transaction's two commands behind the others.
LEMMA AppendTwo ==
  ASSUME NEW q, QueueSound(q), CMD_QUEUE_DEPTH - Len(q) >= 2,
         NEW a \in QueueCommands, NEW c \in QueueCommands,
         IsAct(a), ~IsAct(c), SameAddress(a, c)
  PROVE  QueueSound(Append(Append(q, a), c))
  <1> DEFINE new == Append(Append(q, a), c)
  <1>1. q \in Seq(QueueCommands) /\ Len(q) \in Nat /\ Paired(q)
    BY DEF QueueSound
  <1>2. /\ new \in Seq(QueueCommands) /\ Len(new) = Len(q) + 2
        /\ \A j \in 1 .. Len(q) : new[j] = q[j]
        /\ new[Len(q) + 1] = a /\ new[Len(q) + 2] = c
    BY <1>1
  <1> HIDE DEF new
  <1>3. ASSUME NEW j \in DOMAIN new, IsAct(new[j])
        PROVE  j < Len(new) /\ ~IsAct(new[j+1]) /\ SameAddress(new[j], new[j+1])
    <2>1. CASE j \in 1 .. Len(q)
      <3>1. new[j] = q[j] /\ j \in DOMAIN q
        BY <1>1, <1>2, <2>1
      <3>2. j < Len(q) /\ ~IsAct(q[j+1]) /\ SameAddress(q[j], q[j+1])
        BY <1>1, <1>3, <3>1 DEF Paired
      <3> QED
        BY <1>1, <1>2, <2>1, <3>1, <3>2
    <2>2. CASE j = Len(q) + 1
      BY <1>1, <1>2, <2>2
    <2>3. j \in 1 .. Len(q) \/ j = Len(q) + 1
      BY <1>1, <1>2, <1>3
    <2> QED
      BY <2>1, <2>2, <2>3
  <1>4. Len(new) <= CMD_QUEUE_DEPTH
    BY <1>1, <1>2, GeometryAssumption
  <1> QED
    BY <1>2, <1>3, <1>4 DEF QueueSound, Paired, new

\* A command that is sent from its queue may be sent, and leaves the queue sound.
LEMMA SendableFacts ==
  ASSUME NEW q, QueueSound(q), NEW i \in Sendable(q)
  PROVE  /\ i \in 1 .. Len(q) /\ q[i] \in QueueCommands /\ isIssuable(q[i])
         /\ TakesAct(q, i) => ~IsAct(q[i])
         /\ IsAct(q[i]) \/ TakesAct(q, i) \/ i \in Exposed(q)
         /\ QueueSound(Without(q, i))
  <1>1. q \in Seq(QueueCommands) /\ Paired(q)
    BY DEF QueueSound
  <1>2. i \in 1 .. Len(q) /\ isIssuable(q[i])
    BY <1>1, PolicyAssumption
    DEF Sendable, SendablePerRankClose, SendablePerRankOpen, SendablePerBankClose,
        SendablePerBankOpen
  <1>3. i > 1 /\ IsAct(q[i-1]) => ~IsAct(q[i]) /\ SameAddress(q[i-1], q[i])
    <2>1. i > 1 => i - 1 \in DOMAIN q /\ (i - 1) + 1 = i
      BY <1>1, <1>2
    <2> QED
      BY <2>1, <1>1 DEF Paired
  <1>4. CASE TakesAct(q, i)
    <2>1. i \in 2 .. Len(q) /\ IsAct(q[i-1])
      BY <1>2, <1>4 DEF TakesAct
    <2> QED
      BY <1>1, <1>2, <1>3, <1>4, <2>1, RemoveTwo DEF Without
  <1>5. CASE ~TakesAct(q, i)
    <2>1. i > 1 => ~IsAct(q[i-1])
      <3>1. CASE rowBufferPolicy = "OpenPage"
        BY <3>1, <1>5 DEF TakesAct
      <3>2. CASE rowBufferPolicy = "ClosePage" /\ queuingStructure = "PerRank"
        <4>1. i \in SendablePerRankClose(q)
          BY <3>2 DEF Sendable
        <4> QED
          BY <4>1, <1>3 DEF SendablePerRankClose
      <3>3. CASE rowBufferPolicy = "ClosePage" /\ queuingStructure # "PerRank"
        <4>1. i \in SendablePerBankClose(q)
          BY <3>3 DEF Sendable
        <4> QED
          BY <4>1 DEF SendablePerBankClose
      <3> QED
        BY <3>1, <3>2, <3>3, PolicyAssumption
    <2> QED
      BY <1>1, <1>2, <1>5, <2>1, RemoveOne DEF Without, Exposed
  <1> QED
    BY <1>4, <1>5

\* The first column command for an open row, taken out for a refresh, leaves the
\* queue sound, too: its own ACTIVATE would be found before it.
LEMMA WantingColumnFacts ==
  ASSUME NEW b \in BANKS, QueueSound(Queue(cqRefreshRank, b)), NEW j \in WantingColumn(b)
  PROVE  /\ j \in 1 .. Len(Queue(cqRefreshRank, b))
         /\ Queue(cqRefreshRank, b)[j] \in QueueCommands
         /\ j \in Exposed(Queue(cqRefreshRank, b))
         /\ QueueSound(RemoveAt(Queue(cqRefreshRank, b), j))
  <1> DEFINE q == Queue(cqRefreshRank, b)
  <1>1. q \in Seq(QueueCommands) /\ Paired(q)
    BY DEF QueueSound
  <1>2. /\ j \in DOMAIN q
        /\ q[j].row = bankStates[cqRefreshRank][b].openRowAddress
        /\ queuingStructure = "PerRank" => q[j].bank = b
        /\ \A i \in DOMAIN q :
             /\ q[i].row = bankStates[cqRefreshRank][b].openRowAddress
             /\ queuingStructure = "PerRank" => q[i].bank = b
             => j <= i
    BY DEF WantingColumn, ToOpenRow
  <1> HIDE DEF q
  <1>3. j \in 1 .. Len(q) /\ q[j] \in QueueCommands
    BY <1>1, <1>2
  <1>4. ASSUME j > 1, IsAct(q[j-1])
        PROVE  FALSE
    <2>1. j - 1 \in DOMAIN q /\ (j - 1) + 1 = j
      BY <1>1, <1>3, <1>4
    <2>2. SameAddress(q[j-1], q[j])
      BY <1>1, <1>4, <2>1 DEF Paired
    <2>3. j <= j - 1
      BY <1>2, <2>1, <2>2 DEF SameAddress
    <2> QED
      BY <1>3, <2>3
  <1>5. QueueSound(q) /\ (j > 1 => ~IsAct(q[j-1]))
    BY <1>4 DEF q
  <1>6. QueueSound(RemoveAt(q, j))
    BY <1>3, <1>5, RemoveOne
  <1>7. j \in Exposed(q)
    <2>1. ~IsAct(q[j])
      BY DEF WantingColumn, q
    <2> QED
      BY <1>2, <1>5, <2>1 DEF Exposed
  <1> QED
    BY <1>3, <1>6, <1>7 DEF q

LEMMA KeyOfType ==
  ASSUME NEW r \in RANKS, NEW b \in BANKS
  PROVE  KeyOf(r, b) \in QueueKeys
  BY DEF KeyOf, QueueKeys

-----------------------------------------------------------------------------
(* Column commands whose ACTIVATE has gone. *)

\* The entry j of the queue new is the exposed entry e of the queue q, and nothing
\* has come before it.
StillExposed(new, j, q, e) ==
  /\ e \in Exposed(q) /\ new[j] = q[e]
  /\ FirstForRow(q, e) => FirstForRow(new, j)

\* No two of them are the first for the same row.
LEMMA ExposedOnce ==
  ASSUME NEW q, QueueSound(q), NEW i \in DOMAIN q, NEW j \in DOMAIN q,
         q[i].bank = q[j].bank, q[i].row = q[j].row, FirstForRow(q, i), FirstForRow(q, j)
  PROVE  i = j
  <1>1. i \in Nat /\ j \in Nat /\ i >= 1 /\ j >= 1
    BY DEF QueueSound
  <1>2. ~(i < j)
    <2> SUFFICES ASSUME i < j PROVE FALSE
      OBVIOUS
    <2>1. i \in 1 .. j - 1
      BY <1>1
    <2> QED
      BY <2>1 DEF FirstForRow
  <1>3. ~(j < i)
    <2> SUFFICES ASSUME j < i PROVE FALSE
      OBVIOUS
    <2>1. j \in 1 .. i - 1
      BY <1>1
    <2> QED
      BY <2>1 DEF FirstForRow
  <1> QED
    BY <1>1, <1>2, <1>3

\* What stays in a queue stays the first for its row when only its order is kept.
LEMMA FirstStays ==
  ASSUME NEW q, NEW new, NEW j \in Nat, NEW e \in Nat, new[j] = q[e],
         \A l \in 1 .. j - 1 : \E f \in 1 .. e - 1 : new[l] = q[f],
         FirstForRow(q, e)
  PROVE  FirstForRow(new, j)
  BY DEF FirstForRow

\* Without one of them, the others are exposed as before.
LEMMA ExposedRemoved ==
  ASSUME NEW q, QueueSound(q), NEW i \in Exposed(q), NEW j \in Exposed(RemoveAt(q, i))
  PROVE  \E e \in Exposed(q) \ {i} : StillExposed(RemoveAt(q, i), j, q, e)
  <1> DEFINE new == RemoveAt(q, i)
             e   == IF j < i THEN j ELSE j + 1
  <1>1. q \in Seq(QueueCommands) /\ Len(q) \in Nat /\ i \in 1 .. Len(q) /\ ~IsAct(q[i])
    BY DEF QueueSound, Exposed
  <1>2. /\ Len(new) = Len(q) - 1 /\ DOMAIN new = 1 .. Len(q) - 1
        /\ \A l \in 1 .. Len(q) - 1 : new[l] = IF l < i THEN q[l] ELSE q[l+1]
    <2>1. /\ new \in Seq(QueueCommands) /\ Len(new) = Len(q) - 1
          /\ \A l \in 1 .. Len(q) - 1 : new[l] = IF l < i THEN q[l] ELSE q[l+1]
      BY <1>1, RemoveAtFacts
    <2>2. DOMAIN new = 1 .. Len(q) - 1
      BY <2>1, LenProperties
    <2> QED
      BY <2>1, <2>2
  <1>3. j \in DOMAIN new /\ ~IsAct(new[j]) /\ (j > 1 => ~IsAct(new[j-1]))
    BY DEF Exposed
  <1> HIDE DEF new
  <1>4. j \in 1 .. Len(q) - 1 /\ e \in 1 .. Len(q) /\ e # i /\ new[j] = q[e]
    BY <1>1, <1>2, <1>3
  <1>5. e > 1 => ~IsAct(q[e-1])
    <2>1. CASE j < i
      BY <1>1, <1>2, <1>3, <1>4, <2>1
    <2>2. CASE j = i
      BY <1>1, <1>4, <2>2
    <2>3. CASE j > i
      <3>1. j - 1 \in 1 .. Len(q) - 1 /\ ~(j - 1 < i) /\ (j - 1) + 1 = j /\ j > 1
        BY <1>1, <1>4, <2>3
      <3>2. new[j-1] = q[j]
        BY <1>2, <3>1
      <3> QED
        BY <1>1, <1>3, <1>4, <2>3, <3>1, <3>2
    <2> QED
      BY <1>1, <1>4, <2>1, <2>2, <2>3
  <1>6. e \in Exposed(q) \ {i}
    BY <1>1, <1>3, <1>4, <1>5 DEF Exposed
  <1>7. \A l \in 1 .. j - 1 : \E f \in 1 .. e - 1 : new[l] = q[f]
    <2> TAKE l \in 1 .. j - 1
    <2> DEFINE f == IF l < i THEN l ELSE l + 1
    <2>1. f \in 1 .. e - 1 /\ new[l] = q[f]
      BY <1>1, <1>2, <1>4
    <2> QED
      BY <2>1
  <1>8. j \in Nat /\ e \in Nat
    BY <1>1, <1>4
  <1> HIDE DEF e
  <1>9. StillExposed(new, j, q, e)
    BY <1>4, <1>6, <1>7, <1>8, FirstStays DEF StillExposed
  <1> QED
    BY <1>6, <1>9 DEF new

\* Without an ACTIVATE, its column command is exposed in its place.
LEMMA ExposedByAct ==
  ASSUME NEW q, QueueSound(q), NEW i \in DOMAIN q, IsAct(q[i]),
         NEW j \in Exposed(RemoveAt(q, i))
  PROVE  \/ \E e \in Exposed(q) : StillExposed(RemoveAt(q, i), j, q, e)
         \/ /\ j = i /\ SameAddress(q[i], RemoveAt(q, i)[j])
            /\ \A l \in 1 .. i - 1 : RemoveAt(q, i)[l] = q[l]
  <1> DEFINE new == RemoveAt(q, i)
             e   == IF j < i THEN j ELSE j + 1
  <1>1. q \in Seq(QueueCommands) /\ Len(q) \in Nat /\ i \in 1 .. Len(q) /\ Paired(q)
    BY DEF QueueSound
  <1>2. /\ Len(new) = Len(q) - 1 /\ DOMAIN new = 1 .. Len(q) - 1
        /\ \A l \in 1 .. Len(q) - 1 : new[l] = IF l < i THEN q[l] ELSE q[l+1]
    <2>1. /\ new \in Seq(QueueCommands) /\ Len(new) = Len(q) - 1
          /\ \A l \in 1 .. Len(q) - 1 : new[l] = IF l < i THEN q[l] ELSE q[l+1]
      BY <1>1, RemoveAtFacts
    <2>2. DOMAIN new = 1 .. Len(q) - 1
      BY <2>1, LenProperties
    <2> QED
      BY <2>1, <2>2
  <1>3. j \in DOMAIN new /\ ~IsAct(new[j]) /\ (j > 1 => ~IsAct(new[j-1]))
    BY DEF Exposed
  <1> HIDE DEF new
  <1>4. j \in 1 .. Len(q) - 1 /\ e \in 1 .. Len(q) /\ e # i /\ new[j] = q[e]
    BY <1>1, <1>2, <1>3
  <1>5. CASE j = i
    <2>1. SameAddress(q[i], q[i+1]) /\ new[i] = q[i+1]
      BY <1>1, <1>2, <1>4, <1>5 DEF Paired
    <2>2. \A l \in 1 .. i - 1 : new[l] = q[l]
      BY <1>1, <1>2
    <2> QED
      BY <1>5, <2>1, <2>2 DEF new
  <1>6. CASE j # i
    <2>1. e > 1 => ~IsAct(q[e-1])
      <3>1. CASE j < i
        BY <1>1, <1>2, <1>3, <1>4, <3>1
      <3>2. CASE j > i
        <4>1. j - 1 \in 1 .. Len(q) - 1 /\ ~(j - 1 < i) /\ (j - 1) + 1 = j /\ j > 1
          BY <1>1, <1>4, <3>2
        <4>2. new[j-1] = q[j]
          BY <1>2, <4>1
        <4> QED
          BY <1>1, <1>3, <1>4, <3>2, <4>1, <4>2
      <3> QED
        BY <1>1, <1>4, <1>6, <3>1, <3>2
    <2>2. e \in Exposed(q)
      BY <1>1, <1>3, <1>4, <2>1 DEF Exposed
    <2>3. \A l \in 1 .. j - 1 : \E f \in 1 .. e - 1 : new[l] = q[f]
      <3> TAKE l \in 1 .. j - 1
      <3> DEFINE f == IF l < i THEN l ELSE l + 1
      <3>1. f \in 1 .. e - 1 /\ new[l] = q[f]
        BY <1>1, <1>2, <1>4
      <3> QED
        BY <3>1
    <2>4. j \in Nat /\ e \in Nat
      BY <1>1, <1>4
    <2> HIDE DEF e
    <2>5. StillExposed(new, j, q, e)
      BY <1>4, <2>2, <2>3, <2>4, FirstStays DEF StillExposed
    <2> QED
      BY <2>2, <2>5 DEF new
  <1> QED
    BY <1>5, <1>6

\* A column command and its ACTIVATE leave together, and expose nothing.
LEMMA ExposedByTwo ==
  ASSUME NEW q, QueueSound(q), NEW i \in 2 .. Len(q), IsAct(q[i-1]),
         NEW j \in Exposed(RemoveAt(RemoveAt(q, i), i - 1))
  PROVE  \E e \in Exposed(q) : StillExposed(RemoveAt(RemoveAt(q, i), i - 1), j, q, e)
  <1> DEFINE new == RemoveAt(RemoveAt(q, i), i - 1)
             e   == IF j < i - 1 THEN j ELSE j + 2
  <1>1. q \in Seq(QueueCommands) /\ Len(q) \in Nat /\ i \in 2 .. Len(q) /\ Paired(q)
    BY DEF QueueSound
  <1>2. /\ Len(new) = Len(q) - 2 /\ DOMAIN new = 1 .. Len(q) - 2
        /\ \A l \in 1 .. Len(q) - 2 : new[l] = IF l < i - 1 THEN q[l] ELSE q[l+2]
    BY <1>1, RemovedTwo
  <1>3. ~IsAct(q[i])
    BY <1>1 DEF Paired
  <1>4. j \in DOMAIN new /\ ~IsAct(new[j]) /\ (j > 1 => ~IsAct(new[j-1]))
    BY DEF Exposed
  <1> HIDE DEF new
  <1>5. j \in 1 .. Len(q) - 2 /\ e \in 1 .. Len(q) /\ new[j] = q[e]
    BY <1>1, <1>2, <1>4
  <1>6. e > 1 => ~IsAct(q[e-1])
    <2>1. CASE j < i - 1
      BY <1>1, <1>2, <1>4, <1>5, <2>1
    <2>2. CASE j = i - 1
      BY <1>1, <1>3, <1>5, <2>2
    <2>3. CASE j > i - 1
      <3>1. j - 1 \in 1 .. Len(q) - 2 /\ ~(j - 1 < i - 1) /\ (j - 1) + 2 = j + 1 /\ j > 1
        BY <1>1, <1>5, <2>3
      <3>2. new[j-1] = q[j+1]
        BY <1>2, <3>1
      <3> QED
        BY <1>1, <1>4, <1>5, <2>3, <3>1, <3>2
    <2> QED
      BY <1>1, <1>5, <2>1, <2>2, <2>3
  <1>7. e \in Exposed(q)
    BY <1>1, <1>4, <1>5, <1>6 DEF Exposed
  <1>8. \A l \in 1 .. j - 1 : \E f \in 1 .. e - 1 : new[l] = q[f]
    <2> TAKE l \in 1 .. j - 1
    <2> DEFINE f == IF l < i - 1 THEN l ELSE l + 2
    <2>1. f \in 1 .. e - 1 /\ new[l] = q[f]
      BY <1>1, <1>2, <1>5
    <2> QED
      BY <2>1
  <1>9. j \in Nat /\ e \in Nat
    BY <1>1, <1>5
  <1> HIDE DEF e
  <1>10. StillExposed(new, j, q, e)
    BY <1>5, <1>7, <1>8, <1>9, FirstStays DEF StillExposed
  <1> QED
    BY <1>7, <1>10 DEF new

-----------------------------------------------------------------------------
(* The tFAW windows and the round robin. *)

\* The remaining times of at most four windows, the oldest first.
WindowsSound(s) ==
  /\ s \in Seq(1 .. tFAW) /\ Len(s) <= 4
  /\ \A i, j \in DOMAIN s : i < j => s[i] < s[j]

LEMMA TickedFAWFacts ==
  ASSUME NEW r, WindowsSound(tFAWCountdown[r])
  PROVE  WindowsSound(TickedFAW(r)) /\ \A i \in DOMAIN TickedFAW(r) : TickedFAW(r)[i] < tFAW
  <1> DEFINE s    == tFAWCountdown[r]
             left == [j \in DOMAIN s |-> s[j] - 1]
  <1>1. /\ s \in Seq(1 .. tFAW) /\ Len(s) \in Nat /\ Len(s) <= 4 /\ DOMAIN s = 1 .. Len(s)
        /\ \A i, j \in DOMAIN s : i < j => s[i] < s[j]
        /\ tFAW \in Nat
    BY TimingAssumption DEF WindowsSound
  <1>2. TickedFAW(r) = IF left # <<>> /\ left[1] = 0 THEN Tail(left) ELSE left
    BY DEF TickedFAW
  <1> HIDE DEF s
  <1>3. \A j \in 1 .. Len(s) : /\ s[j] \in Nat /\ 1 <= s[j] /\ s[j] <= tFAW
                               /\ left[j] = s[j] - 1 /\ left[j] \in 0 .. tFAW - 1
    <2> TAKE j \in 1 .. Len(s)
    <2>1. s[j] \in 1 .. tFAW
      BY <1>1
    <2> QED
      BY <2>1, <1>1
  <1>4. left \in Seq(0 .. tFAW - 1) /\ Len(left) = Len(s)
    <2>1. left \in [1 .. Len(s) -> 0 .. tFAW - 1]
      BY <1>1, <1>3
    <2> QED
      BY <2>1, <1>1
  <1> HIDE DEF left
  <1>5. \A i, j \in 1 .. Len(s) : i < j => left[i] < left[j]
    <2> TAKE i, j \in 1 .. Len(s)
    <2>1. i < j => s[i] < s[j]
      BY <1>1
    <2>2. /\ s[i] \in Nat /\ left[i] = s[i] - 1
          /\ s[j] \in Nat /\ left[j] = s[j] - 1
      BY <1>3
    <2> QED
      BY <2>1, <2>2
  <1>6. CASE left # <<>> /\ left[1] = 0
    <2> DEFINE rest == Tail(left)
    <2>1. /\ rest \in Seq(0 .. tFAW - 1) /\ Len(rest) = Len(s) - 1
          /\ \A i \in 1 .. Len(s) - 1 : rest[i] = left[i+1]
      BY <1>1, <1>4, <1>6
    <2> HIDE DEF rest
    <2>2. \A i \in 1 .. Len(s) - 1 : rest[i] \in 1 .. tFAW /\ rest[i] < tFAW
      <3> TAKE i \in 1 .. Len(s) - 1
      <3>1. 1 \in 1 .. Len(s) /\ i + 1 \in 1 .. Len(s) /\ 1 < i + 1
        BY <1>1
      <3>2. 0 < left[i+1]
        BY <3>1, <1>5, <1>6
      <3>3. left[i+1] \in 0 .. tFAW - 1 /\ rest[i] = left[i+1]
        BY <3>1, <1>3, <2>1
      <3> QED
        BY <3>2, <3>3, TimingAssumption
    <2>3. rest \in Seq(1 .. tFAW)
      BY <2>1, <2>2, SeqOfElements
    <2>4. \A i, j \in 1 .. Len(s) - 1 : i < j => rest[i] < rest[j]
      <3> TAKE i, j \in 1 .. Len(s) - 1
      <3>1. i + 1 \in 1 .. Len(s) /\ j + 1 \in 1 .. Len(s) /\ (i < j => i + 1 < j + 1)
        BY <1>1
      <3> QED
        BY <3>1, <2>1, <1>5
    <2>5. TickedFAW(r) = rest
      BY <1>2, <1>6 DEF rest
    <2>6. DOMAIN rest = 1 .. Len(s) - 1 /\ Len(rest) <= 4
      BY <1>1, <2>1
    <2> QED
      BY <2>2, <2>3, <2>4, <2>5, <2>6 DEF WindowsSound
  <1>7. CASE ~(left # <<>> /\ left[1] = 0)
    <2>1. \A i \in 1 .. Len(s) : left[i] \in 1 .. tFAW /\ left[i] < tFAW
      <3> TAKE i \in 1 .. Len(s)
      <3>1. 1 \in 1 .. Len(s) /\ left # <<>>
        BY <1>1, <1>4
      <3>2. left[1] \in 0 .. tFAW - 1 /\ left[i] \in 0 .. tFAW - 1
        BY <3>1, <1>3
      <3>3. left[1] # 0
        BY <3>1, <1>7
      <3>4. i = 1 \/ left[1] < left[i]
        BY <3>1, <1>1, <1>5
      <3> QED
        BY <3>2, <3>3, <3>4, TimingAssumption
    <2>2. left \in Seq(1 .. tFAW)
      BY <2>1, <1>4, SeqOfElements
    <2>3. TickedFAW(r) = left
      BY <1>2, <1>7
    <2>4. DOMAIN left = 1 .. Len(s) /\ Len(left) <= 4
      BY <1>1, <1>4
    <2> QED
      BY <2>1, <2>2, <2>3, <2>4, <1>5 DEF WindowsSound
  <1> QED
    BY <1>6, <1>7

\* One more window, when there are less than four.
LEMMA OpenedWindow ==
  ASSUME NEW s, WindowsSound(s), Len(s) < 4, \A i \in DOMAIN s : s[i] < tFAW
  PROVE  WindowsSound(Append(s, tFAW))
  <1>1. /\ s \in Seq(1 .. tFAW) /\ Len(s) \in Nat /\ DOMAIN s = 1 .. Len(s)
        /\ \A i, j \in DOMAIN s : i < j => s[i] < s[j]
        /\ tFAW \in 1 .. tFAW
    BY TimingAssumption DEF WindowsSound
  <1> DEFINE new == Append(s, tFAW)
  <1>2. /\ new \in Seq(1 .. tFAW) /\ Len(new) = Len(s) + 1 /\ DOMAIN new = 1 .. Len(s) + 1
        /\ new[Len(s) + 1] = tFAW /\ \A i \in 1 .. Len(s) : new[i] = s[i]
    BY <1>1
  <1> HIDE DEF new
  <1>3. ASSUME NEW i \in DOMAIN new, NEW j \in DOMAIN new, i < j
        PROVE  new[i] < new[j]
    <2>1. i \in 1 .. Len(s) /\ new[i] = s[i]
      BY <1>1, <1>2, <1>3
    <2>2. CASE j = Len(s) + 1
      BY <1>1, <1>2, <2>1, <2>2
    <2>3. CASE j # Len(s) + 1
      <3>1. j \in 1 .. Len(s) /\ new[j] = s[j]
        BY <1>1, <1>2, <2>3
      <3> QED
        BY <1>1, <1>3, <2>1, <3>1
    <2> QED
      BY <2>2, <2>3
  <1>4. Len(new) <= 4
    BY <1>1, <1>2
  <1> QED
    BY <1>2, <1>3, <1>4 DEF WindowsSound, new

AllWindowsSound ==
  tFAWCountdown \in [RANKS -> Seq(1 .. tFAW)] /\ \A r \in RANKS : WindowsSound(tFAWCountdown[r])

\* Counting an activation that is allowed keeps all windows sound.
LEMMA CountActivationFacts ==
  ASSUME NEW p, AllWindowsSound, CountActivation(p), IsAct(p) => ActivationAllowed(p.rank)
  PROVE  AllWindowsSound'
  <1>1. ASSUME NEW r \in RANKS
        PROVE  WindowsSound(IF IsAct(p) /\ p.rank = r THEN Append(TickedFAW(r), tFAW)
                            ELSE TickedFAW(r))
    <2>1. WindowsSound(TickedFAW(r)) /\ \A i \in DOMAIN TickedFAW(r) : TickedFAW(r)[i] < tFAW
      BY TickedFAWFacts DEF AllWindowsSound
    <2>2. CASE IsAct(p) /\ p.rank = r
      BY <2>1, <2>2, OpenedWindow DEF ActivationAllowed
    <2> QED
      BY <2>1, <2>2
  <1>2. tFAWCountdown' = [r \in RANKS |-> IF IsAct(p) /\ p.rank = r
                                          THEN Append(TickedFAW(r), tFAW) ELSE TickedFAW(r)]
    BY DEF CountActivation
  <1>3. \A r \in RANKS : WindowsSound(tFAWCountdown'[r])
    BY <1>1, <1>2
  <1>4. \A r \in RANKS : tFAWCountdown'[r] \in Seq(1 .. tFAW)
    BY <1>3 DEF WindowsSound
  <1> QED
    BY <1>2, <1>3, <1>4 DEF AllWindowsSound

\* The round robin moves on within the ranks and banks.
LEMMA AdvanceFacts ==
  ASSUME NEW cell \in RANKS \X BANKS, Advance(cell)
  PROVE  nextRank' \in RANKS /\ nextBank' \in BANKS /\ sendAct' \in BOOLEAN
  <1>1. CellAfter(cell, 1) \in RANKS \X BANKS
    BY CellAfterType
  <1> QED
    BY <1>1 DEF Advance

-----------------------------------------------------------------------------
(* The state of the command queue, and what each way of popping does to it. *)

QueueInv ==
  /\ QueuesSound(queues)
  /\ AllWindowsSound
  /\ nextRank \in RANKS /\ nextBank \in BANKS /\ sendAct \in BOOLEAN
  /\ nextRankPRE \in RANKS /\ nextBankPRE \in BANKS
  /\ cqRefreshRank \in RANKS \cup {NoRank} /\ cqRefreshWaiting \in BOOLEAN
  /\ cqRefreshWaiting => cqRefreshRank \in RANKS
  /\ rowAccessCounters \in [RANKS -> [BANKS -> 0 .. TOTAL_ROW_ACCESSES]]

LEMMA QueueInvImpliesType == QueueInv => CommandQueueTypeOK
  <1> SUFFICES ASSUME QueueInv PROVE CommandQueueTypeOK
    OBVIOUS
  <1>1. \A k \in QueueKeys : queues[k] \in Seq(BusPackets) /\ Len(queues[k]) <= CMD_QUEUE_DEPTH
    <2> TAKE k \in QueueKeys
    <2>1. queues[k] \in Seq(QueueCommands) /\ Len(queues[k]) <= CMD_QUEUE_DEPTH
      BY DEF QueueInv, QueuesSound, QueueSound
    <2>2. \A i \in 1 .. Len(queues[k]) : queues[k][i] \in BusPackets
      BY <2>1 DEF QueueCommands
    <2> QED
      BY <2>1, <2>2, SeqOfElements
  <1> QED
    BY <1>1 DEF QueueInv, QueuesSound, AllWindowsSound, CommandQueueTypeOK

LEMMA QueueInit == CommandQueueInit => QueueInv
  <1> SUFFICES ASSUME CommandQueueInit PROVE QueueInv
    OBVIOUS
  <1>1. \A k \in QueueKeys : queues[k] = <<>>
    BY DEF CommandQueueInit
  <1>2. QueueSound(<<>>) /\ WindowsSound(<<>>)
    BY GeometryAssumption, EmptySeq DEF QueueSound, Paired, WindowsSound
  <1>3. QueuesSound(queues)
    BY <1>1, <1>2 DEF QueuesSound, CommandQueueInit
  <1>4. AllWindowsSound
    BY <1>2 DEF AllWindowsSound, CommandQueueInit, WindowsSound
  <1>5. 0 \in RANKS /\ 0 \in BANKS /\ 0 \in 0 .. TOTAL_ROW_ACCESSES
    BY GeometryAssumption DEF RANKS, BANKS
  <1> QED
    BY <1>3, <1>4, <1>5 DEF QueueInv, CommandQueueInit

\* One sound queue in place of another.
LEMMA ReplaceQueue ==
  ASSUME NEW qs, QueuesSound(qs), NEW k \in QueueKeys, NEW q, QueueSound(q)
  PROVE  QueuesSound([qs EXCEPT ![k] = q])
  BY DEF QueuesSound

LEMMA PopRefreshColumnSound ==
  ASSUME QueueInv, NEW p, PopRefreshColumn(p)
  PROVE  QueueInv' /\ p \in QueueCommands /\ ~IsAct(p) /\ isIssuable(p)
  <1>1. PICK b \in BANKS, j \in 1 .. CMD_QUEUE_DEPTH :
          /\ <<b, j>> \in RefreshColumn
          /\ p = Queue(cqRefreshRank, b)[j]
          /\ queues' = [queues EXCEPT ![KeyOf(cqRefreshRank, b)] = RemoveAt(@, j)]
          /\ Advance(<<nextRank, nextBank>>)
          /\ CountActivation(p)
          /\ UNCHANGED <<nextRankPRE, nextBankPRE, cqRefreshRank, cqRefreshWaiting,
                         rowAccessCounters>>
    BY DEF PopRefreshColumn
  <1>2. b \in OpenBlocker /\ j \in WantingColumn(b) /\ isIssuable(p)
    BY <1>1 DEF RefreshColumn
  <1>3. cqRefreshWaiting /\ cqRefreshRank \in RANKS /\ ~IsAct(p)
    BY <1>1, <1>2 DEF OpenBlocker, QueueInv, WantingColumn
  <1>4. KeyOf(cqRefreshRank, b) \in QueueKeys
    BY <1>3, KeyOfType
  <1>5. QueueSound(Queue(cqRefreshRank, b))
    BY <1>4 DEF Queue, QueueInv, QueuesSound
  <1>6. p \in QueueCommands /\ QueueSound(RemoveAt(Queue(cqRefreshRank, b), j))
    BY <1>1, <1>2, <1>5, WantingColumnFacts
  <1>7. QueuesSound(queues')
    <2>1. queues' = [queues EXCEPT ![KeyOf(cqRefreshRank, b)] = RemoveAt(Queue(cqRefreshRank, b), j)]
      BY <1>1 DEF Queue
    <2> QED
      BY <2>1, <1>4, <1>6, ReplaceQueue DEF QueueInv
  <1>8. AllWindowsSound'
    BY <1>1, <1>3, CountActivationFacts DEF QueueInv
  <1>9. nextRank' \in RANKS /\ nextBank' \in BANKS /\ sendAct' \in BOOLEAN
    BY <1>1, AdvanceFacts DEF QueueInv
  <1> QED
    BY <1>1, <1>2, <1>3, <1>6, <1>7, <1>8, <1>9 DEF QueueInv, QueuesSound

LEMMA PopRefreshPrechargeSound ==
  ASSUME QueueInv, NEW p, PopRefreshPrecharge(p)
  PROVE  /\ QueueInv'
         /\ rowBufferPolicy = "OpenPage"
         /\ \E r \in RANKS, b \in BANKS : /\ p = Packet("PRECHARGE", r, b, 0, 0)
                                          /\ bankStates[r][b].currentBankState = "RowActive"
                                          /\ bankStates[r][b].nextPrecharge = 0
  <1>1. PICK b \in RefreshPrecharge :
          /\ p = Packet("PRECHARGE", cqRefreshRank, b, 0, 0)
          /\ rowAccessCounters' = [rowAccessCounters EXCEPT ![cqRefreshRank][b] = 0]
          /\ Advance(<<nextRank, nextBank>>)
          /\ CountActivation(p)
          /\ UNCHANGED <<queues, nextRankPRE, nextBankPRE, cqRefreshRank, cqRefreshWaiting>>
    BY DEF PopRefreshPrecharge
  <1>2. /\ b \in BANKS /\ cqRefreshWaiting /\ rowBufferPolicy = "OpenPage"
        /\ bankStates[cqRefreshRank][b].currentBankState = "RowActive"
        /\ bankStates[cqRefreshRank][b].nextPrecharge = 0
    BY DEF RefreshPrecharge, OpenBlocker
  <1>3. cqRefreshRank \in RANKS /\ ~IsAct(p)
    BY <1>1, <1>2 DEF QueueInv, IsAct, Packet
  <1>4. AllWindowsSound'
    BY <1>1, <1>3, CountActivationFacts DEF QueueInv
  <1>5. nextRank' \in RANKS /\ nextBank' \in BANKS /\ sendAct' \in BOOLEAN
    BY <1>1, AdvanceFacts DEF QueueInv
  <1>6. rowAccessCounters' \in [RANKS -> [BANKS -> 0 .. TOTAL_ROW_ACCESSES]]
    BY <1>1, <1>2, <1>3, GeometryAssumption DEF QueueInv
  <1>7. QueueInv'
    BY <1>1, <1>4, <1>5, <1>6 DEF QueueInv, QueuesSound
  <1> QED
    BY <1>1, <1>2, <1>3, <1>7

LEMMA PopRefreshSound ==
  ASSUME QueueInv, NEW p, PopRefresh(p)
  PROVE  /\ QueueInv'
         /\ \E r \in RANKS : /\ p = Packet("REFRESH", r, 0, 0, 0)
                             /\ \A b \in BANKS :
                                  /\ bankStates[r][b].currentBankState # "RowActive"
                                  /\ bankStates[r][b].nextActivate = 0
                             /\ bankStates[r][0].currentBankState # "PowerDown"
  <1>1. /\ p = Packet("REFRESH", cqRefreshRank, 0, 0, 0)
        /\ cqRefreshRank' = NoRank /\ cqRefreshWaiting' = FALSE
        /\ Advance(<<nextRank, nextBank>>)
        /\ CountActivation(p)
        /\ UNCHANGED <<queues, nextRankPRE, nextBankPRE, rowAccessCounters>>
    BY DEF PopRefresh
  <1>2. /\ cqRefreshWaiting
        /\ \A b \in BANKS : /\ bankStates[cqRefreshRank][b].currentBankState # "RowActive"
                            /\ bankStates[cqRefreshRank][b].nextActivate = 0
        /\ bankStates[cqRefreshRank][0].currentBankState # "PowerDown"
    BY DEF PopRefresh, RefreshReady, Blocking
  <1>3. cqRefreshRank \in RANKS /\ ~IsAct(p)
    BY <1>1, <1>2 DEF QueueInv, IsAct, Packet
  <1>4. AllWindowsSound'
    BY <1>1, <1>3, CountActivationFacts DEF QueueInv
  <1>5. nextRank' \in RANKS /\ nextBank' \in BANKS /\ sendAct' \in BOOLEAN
    BY <1>1, AdvanceFacts DEF QueueInv
  <1>6. QueueInv'
    BY <1>1, <1>4, <1>5 DEF QueueInv, QueuesSound
  <1> QED
    BY <1>1, <1>2, <1>3, <1>6

\* A column command that is sent finds its row with an access left.
LEMMA IssuableColumn ==
  ASSUME NEW p \in QueueCommands, isIssuable(p), ~IsAct(p),
         rowAccessCounters \in [RANKS -> [BANKS -> 0 .. TOTAL_ROW_ACCESSES]]
  PROVE  /\ p.rank \in RANKS /\ p.bank \in BANKS
         /\ rowAccessCounters[p.rank][p.bank] + 1 \in 0 .. TOTAL_ROW_ACCESSES
  <1>1. p.busPacketType \in {"READ", "READ_P", "WRITE", "WRITE_P"}
    BY PolicyAssumption DEF QueueCommands, QueuedTypes, ColumnType, IsAct
  <1>2. rowAccessCounters[p.rank][p.bank] < TOTAL_ROW_ACCESSES
    BY <1>1 DEF isIssuable, IsAct
  <1>3. p.rank \in RANKS /\ p.bank \in BANKS
    BY DEF QueueCommands, BusPackets
  <1>4. rowAccessCounters[p.rank][p.bank] \in 0 .. TOTAL_ROW_ACCESSES
    BY <1>3
  <1> QED
    BY <1>2, <1>3, <1>4, GeometryAssumption

\* The cells the scans visit.
LEMMA ScanCells ==
  ASSUME QueueInv
  PROVE  /\ ScanHits \subseteq Nat /\ \A n \in ScanHits : ScanCell(n) \in RANKS \X BANKS
         /\ PreHits \subseteq Nat /\ \A n \in PreHits : PreCell(n) \in RANKS \X BANKS
         /\ StopCell \in RANKS \X BANKS
  <1>1. RANKS \subseteq Nat /\ Cells \subseteq Nat
    BY GeometryAssumption DEF RANKS, Cells
  <1>2. ScanHits \subseteq Nat /\ PreHits \subseteq Nat
    BY <1>1 DEF ScanHits, PreHits, PreScan
  <1>3. ASSUME NEW n \in ScanHits PROVE ScanCell(n) \in RANKS \X BANKS
    <2>1. n \in Nat /\ <<nextRank, nextBank>> \in RANKS \X BANKS
      BY <1>2 DEF QueueInv
    <2>2. CellAfter(<<nextRank, nextBank>>, n) \in RANKS \X BANKS
      BY <2>1, CellAfterType
    <2>3. (nextRank + n) % NUM_RANKS \in RANKS
      <3>1. nextRank + n \in Nat /\ NUM_RANKS \in Nat \ {0}
        BY <2>1, GeometryAssumption DEF QueueInv, RANKS
      <3> QED
        BY <3>1, DivMod DEF RANKS
    <2> QED
      BY <2>1, <2>2, <2>3 DEF ScanCell
  <1>4. ASSUME NEW n \in PreHits PROVE PreCell(n) \in RANKS \X BANKS
    <2>1. n \in Nat /\ <<nextRankPRE, nextBankPRE>> \in RANKS \X BANKS
      BY <1>2 DEF QueueInv
    <2> QED
      BY <2>1, CellAfterType DEF PreCell
  <1>5. StopCell \in RANKS \X BANKS
    <2>1. nextRankPRE \in RANKS /\ nextBankPRE \in BANKS
      BY DEF QueueInv
    <2>2. /\ (IF nextRankPRE = 0 THEN 0 ELSE 1) \in RANKS
          /\ (IF nextBankPRE = 0 THEN 0 ELSE 1) \in BANKS
      BY <2>1, GeometryAssumption DEF RANKS, BANKS
    <2> QED
      BY <2>1, <2>2 DEF StopCell
  <1> QED
    BY <1>2, <1>3, <1>4, <1>5

LEMMA PopQueuedSound ==
  ASSUME QueueInv, NEW p, PopQueued(p)
  PROVE  QueueInv' /\ p \in QueueCommands /\ isIssuable(p)
  <1> DEFINE n    == Min(ScanHits)
             cell == ScanCell(n)
             key  == KeyOf(cell[1], cell[2])
             q    == queues[key]
             i    == Min(Sendable(q))
  <1>1. /\ ScanHits # {}
        /\ p = q[i]
        /\ queues' = [queues EXCEPT ![key] = Without(q, i)]
        /\ rowAccessCounters' = IF TakesAct(q, i)
                                THEN [rowAccessCounters EXCEPT ![p.rank][p.bank] = @ + 1]
                                ELSE rowAccessCounters
        /\ Advance(cell)
        /\ CountActivation(p)
        /\ UNCHANGED <<nextRankPRE, nextBankPRE, cqRefreshRank, cqRefreshWaiting>>
    BY DEF PopQueued
  <1>2. n \in ScanHits
    BY <1>1, ScanCells, MinFacts
  <1>3. cell \in RANKS \X BANKS /\ key \in QueueKeys /\ Sendable(q) # {}
    BY <1>2, ScanCells, KeyOfType DEF ScanHits, Queue
  <1> HIDE DEF cell, key
  <1>4. QueueSound(q)
    BY <1>3 DEF QueueInv, QueuesSound
  <1>5. i \in Sendable(q)
    <2>1. \A j \in Sendable(q) : j \in 1 .. Len(q)
      BY <1>4, SendableFacts
    <2>2. Len(q) \in Nat
      BY <1>4 DEF QueueSound
    <2>3. Sendable(q) \subseteq Nat
      BY <2>1, <2>2
    <2> QED
      BY <1>3, <2>3, MinFacts
  <1>6. /\ p \in QueueCommands /\ isIssuable(p)
        /\ TakesAct(q, i) => ~IsAct(p)
        /\ QueueSound(Without(q, i))
    BY <1>1, <1>4, <1>5, SendableFacts
  <1> HIDE DEF i, q
  <1>7. QueuesSound(queues')
    BY <1>1, <1>3, <1>6, ReplaceQueue DEF QueueInv
  <1>8. rowAccessCounters' \in [RANKS -> [BANKS -> 0 .. TOTAL_ROW_ACCESSES]]
    <2>1. rowAccessCounters \in [RANKS -> [BANKS -> 0 .. TOTAL_ROW_ACCESSES]]
      BY DEF QueueInv
    <2>2. CASE TakesAct(q, i)
      <3>1. /\ p.rank \in RANKS /\ p.bank \in BANKS
            /\ rowAccessCounters[p.rank][p.bank] + 1 \in 0 .. TOTAL_ROW_ACCESSES
        BY <1>6, <2>1, <2>2, IssuableColumn
      <3> QED
        BY <1>1, <2>1, <2>2, <3>1
    <2>3. CASE ~TakesAct(q, i)
      <3>1. rowAccessCounters' = rowAccessCounters
        BY <1>1, <2>3
      <3> QED
        BY <2>1, <3>1
    <2> QED
      BY <2>2, <2>3
  <1>9. AllWindowsSound'
    <2>1. IsAct(p) => ActivationAllowed(p.rank)
      <3> SUFFICES ASSUME IsAct(p) PROVE ActivationAllowed(p.rank)
        OBVIOUS
      <3>1. p.busPacketType = "ACTIVATE"
        BY DEF IsAct
      <3>2. p.busPacketType \notin {"READ", "READ_P", "WRITE", "WRITE_P"}
        BY <3>1
      <3> QED
        BY <1>6, <3>1, <3>2 DEF isIssuable, IsAct
    <2> QED
      BY <1>1, <2>1, CountActivationFacts DEF QueueInv
  <1>10. nextRank' \in RANKS /\ nextBank' \in BANKS /\ sendAct' \in BOOLEAN
    BY <1>1, <1>3, AdvanceFacts
  <1> QED
    BY <1>1, <1>6, <1>7, <1>8, <1>9, <1>10 DEF QueueInv, QueuesSound

LEMMA PopPrechargeSound ==
  ASSUME QueueInv, NEW p, PopPrecharge(p)
  PROVE  /\ QueueInv'
         /\ rowBufferPolicy = "OpenPage"
         /\ \E r \in RANKS, b \in BANKS : /\ p = Packet("PRECHARGE", r, b, 0, 0)
                                          /\ bankStates[r][b].currentBankState = "RowActive"
                                          /\ bankStates[r][b].nextPrecharge = 0
  <1> DEFINE n    == Min(PreHits)
             cell == PreCell(n)
  <1>1. /\ PreHits # {}
        /\ p = Packet("PRECHARGE", cell[1], cell[2], 0, 0)
        /\ rowAccessCounters' = [rowAccessCounters EXCEPT ![cell[1]][cell[2]] = 0]
        /\ nextRankPRE' = cell[1] /\ nextBankPRE' = cell[2]
        /\ Advance(<<nextRank, nextBank>>)
        /\ CountActivation(p)
        /\ UNCHANGED <<queues, cqRefreshRank, cqRefreshWaiting>>
    BY DEF PopPrecharge
  <1>2. n \in PreHits
    BY <1>1, ScanCells, MinFacts
  <1>3. /\ cell \in RANKS \X BANKS /\ rowBufferPolicy = "OpenPage"
        /\ bankStates[cell[1]][cell[2]].currentBankState = "RowActive"
        /\ bankStates[cell[1]][cell[2]].nextPrecharge = 0
    BY <1>2, ScanCells DEF PreHits, Closable
  <1> HIDE DEF cell
  <1>4. cell[1] \in RANKS /\ cell[2] \in BANKS /\ ~IsAct(p)
    BY <1>1, <1>3 DEF IsAct, Packet
  <1>5. AllWindowsSound'
    BY <1>1, <1>4, CountActivationFacts DEF QueueInv
  <1>6. nextRank' \in RANKS /\ nextBank' \in BANKS /\ sendAct' \in BOOLEAN
    BY <1>1, AdvanceFacts DEF QueueInv
  <1>7. rowAccessCounters' \in [RANKS -> [BANKS -> 0 .. TOTAL_ROW_ACCESSES]]
    BY <1>1, <1>4, GeometryAssumption DEF QueueInv
  <1>8. QueueInv'
    BY <1>1, <1>4, <1>5, <1>6, <1>7 DEF QueueInv, QueuesSound
  <1> QED
    BY <1>1, <1>3, <1>4, <1>8

LEMMA PopNothingSound ==
  ASSUME QueueInv, PopNothing
  PROVE  QueueInv'
  <1>1. AllWindowsSound'
    BY CountActivationFacts DEF QueueInv, PopNothing, IsAct, NoPacket
  <1>2. nextRankPRE' \in RANKS /\ nextBankPRE' \in BANKS
    BY ScanCells DEF QueueInv, PopNothing
  <1> QED
    BY <1>1, <1>2 DEF QueueInv, PopNothing, QueuesSound

-----------------------------------------------------------------------------
(* The scan for rows to close, whose stopping cell is clipped to 0 or 1. *)

\* Every bank is looked at.
ScansEveryBank == \A c \in RANKS \X BANKS : \E n \in PreScan : PreCell(n) = c

\* The do-while comes to the cell at which it stops.
LEMMA ScanReturns ==
  ASSUME QueueInv
  PROVE  \E n \in 1 .. NUM_RANKS * NUM_BANKS : PreCell(n) = StopCell
  <1>1. NUM_RANKS * NUM_BANKS \in Nat \ {0} /\ Cells = 0 .. NUM_RANKS * NUM_BANKS - 1
    BY GeometryAssumption DEF Cells
  <1>2. <<nextRankPRE, nextBankPRE>> \in RANKS \X BANKS /\ StopCell \in RANKS \X BANKS
    BY ScanCells DEF QueueInv
  <1>3. PICK n \in Cells : PreCell(n) = StopCell
    BY <1>2, RoundRobin DEF PreCell
  <1>4. PreCell(0) = PreCell(NUM_RANKS * NUM_BANKS)
    BY <1>2, RoundRobin DEF PreCell
  <1> HIDE DEF Cells
  <1> QED
    BY <1>1, <1>3, <1>4

\* A scan that starts where it will stop looks at every bank.
LEMMA FullScan ==
  ASSUME QueueInv, StopCell = <<nextRankPRE, nextBankPRE>>
  PROVE  ScansEveryBank
  <1>1. <<nextRankPRE, nextBankPRE>> \in RANKS \X BANKS
    BY DEF QueueInv
  <1>2. Cells = 0 .. NUM_RANKS * NUM_BANKS - 1 /\ NUM_RANKS * NUM_BANKS \in Nat \ {0}
    BY GeometryAssumption DEF Cells
  <1>3. \A n \in Cells \ {0} : PreCell(n) # StopCell
    BY <1>1, RoundRobin DEF PreCell
  <1>4. \A n \in Cells : \A i \in 1 .. n : i \in Cells \ {0}
    BY <1>2
  <1>5. PreScan = Cells
    BY <1>3, <1>4 DEF PreScan
  <1> QED
    BY <1>1, <1>5, RoundRobin DEF ScansEveryBank, PreCell

\* A scan that finds nothing ends at a cell that is its own clipped cell.
LEMMA FruitlessScan ==
  ASSUME QueueInv, PopNothing, rowBufferPolicy = "OpenPage"
  PROVE  (StopCell = <<nextRankPRE, nextBankPRE>>)'
  <1>1. nextRankPRE' = StopCell[1] /\ nextBankPRE' = StopCell[2]
    BY DEF PopNothing
  <1>2. CASE queuingStructure = "PerRank"
    BY <1>2 DEF StopCell
  <1>3. CASE queuingStructure # "PerRank"
    BY <1>1, <1>3 DEF StopCell
  <1> QED
    BY <1>2, <1>3

-----------------------------------------------------------------------------
(* What popping exposes. *)

\* Every queued command is in the queue it belongs to.
AllHome == \A k \in QueueKeys : \A i \in DOMAIN queues[k] :
             KeyOf(queues[k][i].rank, queues[k][i].bank) = k

\* The bank of p has the row of p open, for good and with an access left.
OpenFor(p) ==
  LET m == bankStates[p.rank][p.bank]
  IN  /\ m.currentBankState = "RowActive" /\ m.openRowAddress = p.row
      /\ m.stateChangeCountdown = 0
      /\ rowAccessCounters[p.rank][p.bank] < TOTAL_ROW_ACCESSES

ExposedServed ==
  \A k \in QueueKeys : \A i \in Exposed(queues[k]) :
    FirstForRow(queues[k], i) /\ OpenFor(queues[k][i])

SameBank(p, q) == p.rank = q.rank /\ p.bank = q.bank

\* Only an ACTIVATE exposes another column command, and what stays exposed is for
\* other banks than the command p is for.
PopExposes(p) ==
  \A k \in QueueKeys : \A j \in Exposed(queues'[k]) :
    \/ \E e \in Exposed(queues[k]) :
         StillExposed(queues'[k], j, queues[k], e) /\ ~SameBank(p, queues[k][e])
    \/ IsAct(p) /\ SameAddress(p, queues'[k][j]) /\ FirstForRow(queues'[k], j)

QueuesServed == QueuesSound(queues) /\ AllHome /\ ExposedServed

\* At most one exposed column command waits for a bank.
LEMMA OnePerBank ==
  ASSUME QueuesServed, NEW k \in QueueKeys, NEW i \in Exposed(queues[k]),
         NEW l \in QueueKeys, NEW e \in Exposed(queues[l]),
         SameBank(queues[k][i], queues[l][e])
  PROVE  l = k /\ e = i
  <1>1. i \in DOMAIN queues[k] /\ e \in DOMAIN queues[l]
    BY DEF Exposed
  <1>2. l = k
    BY <1>1 DEF QueuesServed, AllHome, SameBank
  <1>3. /\ QueueSound(queues[k])
        /\ FirstForRow(queues[k], i) /\ FirstForRow(queues[k], e)
        /\ queues[k][i].row = queues[k][e].row
    BY <1>2 DEF QueuesServed, QueuesSound, ExposedServed, OpenFor, SameBank
  <1>4. queues[k][i].bank = queues[k][e].bank
    BY <1>2 DEF SameBank
  <1> QED
    BY <1>1, <1>2, <1>3, <1>4, ExposedOnce

\* The other queues of a pop.
LEMMA OtherQueues ==
  ASSUME QueuesServed, NEW k \in QueueKeys, NEW i \in DOMAIN queues[k], NEW new,
         queues' = [queues EXCEPT ![k] = new],
         \A j \in Exposed(new) :
           \/ \E e \in Exposed(queues[k]) :
                StillExposed(new, j, queues[k], e) /\ ~SameBank(queues[k][i], queues[k][e])
           \/ /\ IsAct(queues[k][i]) /\ SameAddress(queues[k][i], new[j])
              /\ FirstForRow(new, j)
  PROVE  PopExposes(queues[k][i])
  <1> DEFINE p == queues[k][i]
  <1> SUFFICES ASSUME NEW l \in QueueKeys, NEW j \in Exposed(queues'[l])
               PROVE  \/ \E e \in Exposed(queues[l]) :
                           StillExposed(queues'[l], j, queues[l], e) /\ ~SameBank(p, queues[l][e])
                      \/ IsAct(p) /\ SameAddress(p, queues'[l][j]) /\ FirstForRow(queues'[l], j)
    BY DEF PopExposes
  <1>1. CASE l = k
    <2>1. queues'[l] = new
      BY <1>1 DEF QueuesServed, QueuesSound
    <2> QED
      BY <1>1, <2>1
  <1>2. CASE l # k
    <2>1. queues'[l] = queues[l]
      BY <1>2 DEF QueuesServed, QueuesSound
    <2>2. j \in Exposed(queues[l]) /\ StillExposed(queues'[l], j, queues[l], j)
      BY <2>1 DEF StillExposed
    <2>3. KeyOf(p.rank, p.bank) = k /\ KeyOf(queues[l][j].rank, queues[l][j].bank) = l
      BY <2>2 DEF QueuesServed, AllHome, Exposed
    <2>4. ~SameBank(p, queues[l][j])
      <3> HIDE DEF p
      <3> QED
        BY <1>2, <2>3 DEF SameBank
    <2> QED
      BY <2>2, <2>4
  <1> QED
    BY <1>1, <1>2

\* An exposed column command leaves nothing exposed for its bank.
LEMMA ExposedPopped ==
  ASSUME QueuesServed, NEW k \in QueueKeys, NEW i \in Exposed(queues[k]),
         queues' = [queues EXCEPT ![k] = RemoveAt(queues[k], i)]
  PROVE  PopExposes(queues[k][i])
  <1> DEFINE q   == queues[k]
             new == RemoveAt(q, i)
  <1>1. QueueSound(q) /\ i \in DOMAIN q
    BY DEF QueuesServed, QueuesSound, Exposed
  <1>2. ASSUME NEW j \in Exposed(new)
        PROVE  \E e \in Exposed(q) : StillExposed(new, j, q, e) /\ ~SameBank(q[i], q[e])
    <2>1. PICK e \in Exposed(q) \ {i} : StillExposed(new, j, q, e)
      BY <1>1, <1>2, ExposedRemoved
    <2>2. ~SameBank(q[i], q[e])
      BY <2>1, OnePerBank
    <2> QED
      BY <2>1, <2>2
  <1> HIDE DEF new
  <1>3. queues' = [queues EXCEPT ![k] = new]
    BY DEF new
  <1> QED
    BY <1>1, <1>2, <1>3, OtherQueues

\* Nor does one that takes its ACTIVATE along: it is the first for its row.
LEMMA PairPopped ==
  ASSUME QueuesServed, NEW k \in QueueKeys, NEW i \in Sendable(queues[k]),
         TakesAct(queues[k], i),
         queues' = [queues EXCEPT ![k] = Without(queues[k], i)]
  PROVE  PopExposes(queues[k][i])
  <1> DEFINE q   == queues[k]
             new == Without(q, i)
  <1>1. /\ QueueSound(q) /\ Len(q) \in Nat
        /\ i \in 2 .. Len(q) /\ IsAct(q[i-1]) /\ ~IsAct(q[i]) /\ isIssuable(q[i])
        /\ q[i] \in QueueCommands /\ rowBufferPolicy = "OpenPage"
        /\ new = RemoveAt(RemoveAt(q, i), i - 1)
    <2>1. QueueSound(q)
      BY DEF QueuesServed, QueuesSound
    <2>2. i \in 1 .. Len(q) /\ ~IsAct(q[i]) /\ isIssuable(q[i]) /\ q[i] \in QueueCommands
      BY <2>1, SendableFacts
    <2> QED
      BY <2>1, <2>2 DEF TakesAct, Without, QueueSound
  <1>2. q[i].row = bankStates[q[i].rank][q[i].bank].openRowAddress
    <2>1. q[i].busPacketType \in {"READ", "READ_P", "WRITE", "WRITE_P"}
      BY <1>1, PolicyAssumption DEF QueueCommands, QueuedTypes, ColumnType, IsAct
    <2> QED
      BY <1>1, <2>1 DEF isIssuable, IsAct
  <1>3. ASSUME NEW l \in 1 .. i - 1, q[l].bank = q[i].bank, q[l].row = q[i].row
        PROVE  IsAct(q[l])
    <2>1. i \in SendablePerRankOpen(q) \/ i \in SendablePerBankOpen(q)
      BY <1>1 DEF Sendable
    <2> QED
      BY <1>3, <2>1 DEF SendablePerRankOpen, SendablePerBankOpen
  <1>4. ASSUME NEW j \in Exposed(new)
        PROVE  \E e \in Exposed(q) : StillExposed(new, j, q, e) /\ ~SameBank(q[i], q[e])
    <2>1. PICK e \in Exposed(q) : StillExposed(new, j, q, e)
      BY <1>1, <1>4, ExposedByTwo
    <2>2. ASSUME SameBank(q[i], q[e]) PROVE FALSE
      <3>1. FirstForRow(q, e) /\ OpenFor(q[e]) /\ e \in DOMAIN q /\ ~IsAct(q[e]) /\ e # i
        BY <1>1, <2>1 DEF QueuesServed, ExposedServed, Exposed
      <3>2. q[e].row = q[i].row /\ q[e].bank = q[i].bank
        BY <1>2, <2>2, <3>1 DEF OpenFor, SameBank
      <3>3. e \in 1 .. Len(q)
        BY <1>1, <3>1 DEF QueueSound
      <3>4. CASE e < i
        BY <1>1, <1>3, <3>1, <3>2, <3>3, <3>4
      <3>5. CASE i < e
        <4>1. i \in 1 .. e - 1
          BY <1>1, <3>3, <3>5
        <4> QED
          BY <3>1, <3>2, <4>1 DEF FirstForRow
      <3> QED
        BY <1>1, <3>1, <3>3, <3>4, <3>5
    <2> QED
      BY <2>1, <2>2
  <1> HIDE DEF new
  <1>5. queues' = [queues EXCEPT ![k] = new] /\ i \in DOMAIN q
    BY <1>1 DEF new, QueueSound
  <1> QED
    BY <1>4, <1>5, OtherQueues

\* When an ACTIVATE is sent, nothing before it in the queue is for its row.
LEMMA SentActivateIsFirst ==
  ASSUME QueuesServed, NEW k \in QueueKeys, Sendable(queues[k]) # {},
         IsAct(queues[k][Min(Sendable(queues[k]))])
  PROVE  FirstForRow(queues[k], Min(Sendable(queues[k])))
  <1> DEFINE q == queues[k]
             i == Min(Sendable(q))
  <1>1. QueueSound(q) /\ q \in Seq(QueueCommands) /\ Len(q) \in Nat /\ Paired(q)
    BY DEF QueuesServed, QueuesSound, QueueSound
  <1>2. i \in Sendable(q) /\ i \in 1 .. Len(q) /\ isIssuable(q[i])
        /\ \A m \in Sendable(q) : i <= m
    <2>1. \A j \in Sendable(q) : j \in 1 .. Len(q)
      BY <1>1, SendableFacts
    <2>2. Sendable(q) \subseteq Nat
      BY <1>1, <2>1
    <2> QED
      BY <1>1, <2>2, MinFacts, SendableFacts
  <1>3. IsAct(q[i])
    OBVIOUS
  <1> HIDE DEF i
  <1>4. SUFFICES ASSUME NEW l \in 1 .. i - 1, q[l].bank = q[i].bank, q[l].row = q[i].row
                 PROVE  FALSE
    BY DEF FirstForRow, i
  <1>5. l \in DOMAIN q /\ i \in DOMAIN q /\ l < i /\ l + 1 <= i
    BY <1>1, <1>2
  <1>6. CASE rowBufferPolicy = "OpenPage"
    <2>1. i \in SendablePerRankOpen(q) \/ i \in SendablePerBankOpen(q)
      BY <1>2, <1>6 DEF Sendable
    <2>2. \A m \in 1 .. i - 1 : q[m].bank = q[i].bank /\ q[m].row = q[i].row => IsAct(q[m])
      BY <2>1 DEF SendablePerRankOpen, SendablePerBankOpen
    <2>3. IsAct(q[l])
      BY <1>4, <2>2
    <2>4. ~IsAct(q[l+1]) /\ SameAddress(q[l], q[l+1])
      BY <1>1, <1>5, <2>3 DEF Paired
    <2>5. l + 1 # i
      BY <1>3, <2>4
    <2>6. l + 1 \in 1 .. i - 1
      BY <1>2, <1>5, <2>5, <1>1
    <2> QED
      BY <1>4, <2>2, <2>4, <2>6 DEF SameAddress
  <1>7. CASE rowBufferPolicy = "ClosePage" /\ queuingStructure = "PerRank"
    <2>1. Sendable(q) = SendablePerRankClose(q)
      BY <1>7 DEF Sendable
    <2>2. q[l].rank = q[i].rank
      <3>1. KeyOf(q[l].rank, q[l].bank) = KeyOf(q[i].rank, q[i].bank)
        BY <1>5 DEF QueuesServed, AllHome
      <3> QED
        BY <1>7, <3>1 DEF KeyOf
    <2>3. /\ bankStates[q[i].rank][q[i].bank].currentBankState \in {"Idle", "Refreshing"}
          /\ bankStates[q[i].rank][q[i].bank].nextActivate = 0
          /\ ActivationAllowed(q[i].rank)
      <3>1. q[i].busPacketType = "ACTIVATE" /\ q[i].busPacketType \notin {"READ", "READ_P", "WRITE", "WRITE_P"}
        BY <1>3 DEF IsAct
      <3> QED
        BY <1>2, <1>3, <3>1 DEF isIssuable
    <2>4. ASSUME NEW m \in 1 .. i - 1, IsAct(q[m]), q[m].rank = q[i].rank, q[m].bank = q[i].bank
          PROVE  FALSE
      <3>1. isIssuable(q[m])
        <4>1. q[m].busPacketType \notin {"READ", "READ_P", "WRITE", "WRITE_P"}
          BY <2>4 DEF IsAct
        <4> QED
          BY <2>3, <2>4, <4>1 DEF isIssuable
      <3>2. m \in DOMAIN q /\ m < i /\ ~(i <= m)
        BY <1>1, <1>2
      <3>3. ~(m > 1 /\ IsAct(q[m-1]) /\ SameAddress(q[m-1], q[m]))
        <4> SUFFICES ASSUME m > 1, IsAct(q[m-1]) PROVE FALSE
          OBVIOUS
        <4>1. m - 1 \in DOMAIN q /\ (m - 1) + 1 = m
          BY <1>1, <1>2
        <4> QED
          BY <1>1, <2>4, <4>1 DEF Paired
      <3>4. m \in Sendable(q)
        BY <2>1, <3>1, <3>2, <3>3 DEF SendablePerRankClose
      <3> QED
        BY <1>2, <3>2, <3>4
    <2>5. ~IsAct(q[l])
      BY <1>4, <2>2, <2>4
    <2>6. CASE l > 1 /\ IsAct(q[l-1])
      <3>1. l - 1 \in DOMAIN q /\ (l - 1) + 1 = l /\ l - 1 \in 1 .. i - 1
        BY <1>1, <1>2, <2>6
      <3>2. SameAddress(q[l-1], q[l])
        BY <1>1, <2>6, <3>1 DEF Paired
      <3> QED
        BY <1>4, <2>2, <2>4, <2>6, <3>1, <3>2 DEF SameAddress
    <2>7. CASE ~(l > 1 /\ IsAct(q[l-1]))
      <3>1. l \in Exposed(q)
        BY <1>5, <2>5, <2>7 DEF Exposed
      <3>2. bankStates[q[l].rank][q[l].bank].currentBankState = "RowActive"
        BY <3>1 DEF QueuesServed, ExposedServed, OpenFor
      <3> QED
        BY <1>4, <2>2, <2>3, <3>2
    <2> QED
      BY <2>6, <2>7
  <1>8. CASE rowBufferPolicy = "ClosePage" /\ queuingStructure # "PerRank"
    <2>1. i \in SendablePerBankClose(q)
      BY <1>2, <1>8 DEF Sendable
    <2> QED
      BY <1>5, <2>1, <1>4 DEF SendablePerBankClose
  <1> QED
    BY <1>6, <1>7, <1>8, PolicyAssumption

\* An ACTIVATE exposes its own column command, whose row nothing before it wants.
LEMMA ActivatePopped ==
  ASSUME QueuesServed, NEW k \in QueueKeys, Sendable(queues[k]) # {},
         NEW i, i = Min(Sendable(queues[k])), IsAct(queues[k][i]),
         queues' = [queues EXCEPT ![k] = Without(queues[k], i)]
  PROVE  PopExposes(queues[k][i])
  <1> DEFINE q   == queues[k]
             new == Without(q, i)
  <1>1. QueueSound(q) /\ Len(q) \in Nat
    BY DEF QueuesServed, QueuesSound, QueueSound
  <1>2. i \in Sendable(q)
    <2>1. \A j \in Sendable(q) : j \in 1 .. Len(q)
      BY <1>1, SendableFacts
    <2>2. Sendable(q) \subseteq Nat
      BY <1>1, <2>1
    <2> QED
      BY <2>2, MinFacts
  <1>3. i \in 1 .. Len(q) /\ isIssuable(q[i]) /\ ~TakesAct(q, i) /\ new = RemoveAt(q, i)
    BY <1>1, <1>2, SendableFacts DEF Without
  <1>4. bankStates[q[i].rank][q[i].bank].currentBankState \in {"Idle", "Refreshing"}
    <2>1. q[i].busPacketType = "ACTIVATE" /\ q[i].busPacketType \notin {"READ", "READ_P", "WRITE", "WRITE_P"}
      BY DEF IsAct
    <2> QED
      BY <1>3, <2>1 DEF isIssuable
  <1>5. FirstForRow(q, i)
    BY SentActivateIsFirst
  <1>6. i \in DOMAIN q
    BY <1>1, <1>3 DEF QueueSound
  <1>7. ASSUME NEW j \in Exposed(new)
        PROVE  \/ \E e \in Exposed(q) : StillExposed(new, j, q, e) /\ ~SameBank(q[i], q[e])
               \/ IsAct(q[i]) /\ SameAddress(q[i], new[j]) /\ FirstForRow(new, j)
    <2>1. CASE \E e \in Exposed(q) : StillExposed(new, j, q, e)
      <3>1. PICK e \in Exposed(q) : StillExposed(new, j, q, e)
        BY <2>1
      <3>2. bankStates[q[e].rank][q[e].bank].currentBankState = "RowActive"
        BY <3>1 DEF QueuesServed, ExposedServed, OpenFor
      <3> QED
        BY <1>4, <3>1, <3>2 DEF SameBank
    <2>2. CASE /\ j = i /\ SameAddress(q[i], new[j]) /\ \A l \in 1 .. i - 1 : new[l] = q[l]
      <3>1. FirstForRow(new, j)
        BY <1>5, <2>2 DEF FirstForRow, SameAddress
      <3> QED
        BY <2>2, <3>1
    <2> QED
      BY <1>1, <1>3, <1>6, <1>7, <2>1, <2>2, ExposedByAct
  <1> HIDE DEF new
  <1>8. queues' = [queues EXCEPT ![k] = new]
    BY DEF new
  <1> QED
    BY <1>6, <1>7, <1>8, OtherQueues

\* What a pop does to the access counters.
PopCounts(p) ==
  \/ rowAccessCounters' = rowAccessCounters /\ p.busPacketType # "PRECHARGE"
  \/ /\ rowBufferPolicy = "OpenPage" /\ ~IsAct(p)
     /\ \E n : /\ rowAccessCounters' = [rowAccessCounters EXCEPT ![p.rank][p.bank] = n]
               /\ \/ n = 0
                  \/ /\ p.busPacketType \in ColumnTypes
                     /\ bankStates[p.rank][p.bank].currentBankState = "RowActive"

LEMMA PopQueuedExposes ==
  ASSUME QueueInv, QueuesServed, NEW p, PopQueued(p)
  PROVE  PopExposes(p) /\ PopCounts(p)
  <1> DEFINE n    == Min(ScanHits)
             cell == ScanCell(n)
             key  == KeyOf(cell[1], cell[2])
             q    == queues[key]
             i    == Min(Sendable(q))
  <1>1. /\ ScanHits # {}
        /\ p = q[i]
        /\ queues' = [queues EXCEPT ![key] = Without(q, i)]
        /\ rowAccessCounters' = IF TakesAct(q, i)
                                THEN [rowAccessCounters EXCEPT ![p.rank][p.bank] = rowAccessCounters[p.rank][p.bank] + 1]
                                ELSE rowAccessCounters
    BY DEF PopQueued
  <1>2. n \in ScanHits
    BY <1>1, ScanCells, MinFacts
  <1>3. key \in QueueKeys /\ Sendable(q) # {}
    BY <1>2, ScanCells, KeyOfType DEF ScanHits, Queue
  <1> HIDE DEF cell, key
  <1>4. QueueSound(q) /\ Len(q) \in Nat
    BY <1>3 DEF QueueInv, QueuesSound, QueueSound
  <1>5. i \in Sendable(q)
    <2>1. \A j \in Sendable(q) : j \in 1 .. Len(q)
      BY <1>4, SendableFacts
    <2>2. Sendable(q) \subseteq Nat
      BY <1>4, <2>1
    <2> QED
      BY <1>3, <2>2, MinFacts
  <1>6. /\ p \in QueueCommands /\ isIssuable(p)
        /\ TakesAct(q, i) => ~IsAct(p)
        /\ IsAct(p) \/ TakesAct(q, i) \/ i \in Exposed(q)
    BY <1>1, <1>4, <1>5, SendableFacts
  <1>7. i = Min(Sendable(q))
    OBVIOUS
  <1> HIDE DEF i
  <1>8. PopExposes(p)
    <2>1. CASE IsAct(p)
      BY <1>1, <1>3, <1>7, <2>1, ActivatePopped DEF q
    <2>2. CASE TakesAct(q, i)
      BY <1>1, <1>3, <1>5, <2>2, PairPopped DEF q
    <2>3. CASE ~IsAct(p) /\ ~TakesAct(q, i)
      BY <1>1, <1>3, <1>6, <2>3, ExposedPopped DEF q, Without
    <2> QED
      BY <2>1, <2>2, <2>3
  <1>9. p.busPacketType \in {"ACTIVATE"} \cup ColumnTypes
    BY <1>6, PolicyAssumption DEF QueueCommands, QueuedTypes, ColumnType, ColumnTypes
  <1>10. PopCounts(p)
    <2>1. CASE TakesAct(q, i)
      <3>1. p.busPacketType \in ColumnTypes /\ ~IsAct(p) /\ rowBufferPolicy = "OpenPage"
        BY <1>6, <1>9, <2>1 DEF IsAct, TakesAct
      <3>2. bankStates[p.rank][p.bank].currentBankState = "RowActive"
        BY <1>6, <3>1 DEF isIssuable, ColumnTypes
      <3> QED
        BY <1>1, <2>1, <3>1, <3>2 DEF PopCounts
    <2>2. CASE ~TakesAct(q, i)
      <3>1. rowAccessCounters' = rowAccessCounters
        BY <1>1, <2>2
      <3>2. p.busPacketType # "PRECHARGE"
        BY <1>9 DEF ColumnTypes
      <3> QED
        BY <3>1, <3>2 DEF PopCounts
    <2> QED
      BY <2>1, <2>2
  <1> QED
    BY <1>8, <1>10

LEMMA PopRefreshColumnExposes ==
  ASSUME QueueInv, QueuesServed, NEW p, PopRefreshColumn(p)
  PROVE  PopExposes(p) /\ PopCounts(p)
  <1>1. PICK b \in BANKS, j \in 1 .. CMD_QUEUE_DEPTH :
          /\ <<b, j>> \in RefreshColumn
          /\ p = Queue(cqRefreshRank, b)[j]
          /\ queues' = [queues EXCEPT ![KeyOf(cqRefreshRank, b)] = RemoveAt(Queue(cqRefreshRank, b), j)]
          /\ rowAccessCounters' = rowAccessCounters
    BY DEF PopRefreshColumn, Queue
  <1>2. b \in OpenBlocker /\ j \in WantingColumn(b)
    BY <1>1 DEF RefreshColumn
  <1>3. cqRefreshRank \in RANKS
    BY <1>1, <1>2 DEF OpenBlocker, QueueInv
  <1> DEFINE k == KeyOf(cqRefreshRank, b)
  <1>4. k \in QueueKeys /\ Queue(cqRefreshRank, b) = queues[k]
    BY <1>3, KeyOfType DEF Queue
  <1>5. QueueSound(Queue(cqRefreshRank, b))
    BY <1>4 DEF QueueInv, QueuesSound
  <1>6. p \in QueueCommands /\ j \in Exposed(Queue(cqRefreshRank, b))
    BY <1>1, <1>2, <1>5, WantingColumnFacts
  <1> HIDE DEF k
  <1>7. PopExposes(p)
    BY <1>1, <1>4, <1>6, ExposedPopped DEF k
  <1>8. p.busPacketType # "PRECHARGE"
    BY <1>6, PolicyAssumption DEF QueueCommands, QueuedTypes, ColumnType
  <1> QED
    BY <1>1, <1>7, <1>8 DEF PopCounts

\* A command of its own, sent while no exposed column command is for its bank.
LEMMA NothingExposed ==
  ASSUME QueuesServed, NEW p, queues' = queues,
         \A k \in QueueKeys : \A e \in Exposed(queues[k]) : ~SameBank(p, queues[k][e])
  PROVE  PopExposes(p)
  BY DEF PopExposes, StillExposed

\* An exposed column command is in the queue of its bank, for its open row.
LEMMA ExposedWanted ==
  ASSUME QueuesServed, NEW k \in QueueKeys, NEW e \in Exposed(queues[k])
  PROVE  LET p == queues[k][e]
         IN  /\ queues[k] = Queue(p.rank, p.bank)
             /\ e \in ToOpenRow(p.rank, p.bank)
             /\ \A j \in ToOpenRow(p.rank, p.bank) : e <= j
             /\ rowAccessCounters[p.rank][p.bank] < TOTAL_ROW_ACCESSES
             /\ bankStates[p.rank][p.bank].currentBankState = "RowActive"
  <1> DEFINE p == queues[k][e]
  <1>1. e \in DOMAIN queues[k] /\ KeyOf(p.rank, p.bank) = k
    BY DEF QueuesServed, AllHome, Exposed
  <1>2. FirstForRow(queues[k], e) /\ OpenFor(p)
    BY DEF QueuesServed, ExposedServed
  <1>3. queues[k] = Queue(p.rank, p.bank)
    BY <1>1 DEF Queue
  <1>4. e \in ToOpenRow(p.rank, p.bank)
    BY <1>1, <1>2, <1>3 DEF ToOpenRow, OpenFor
  <1>5. ASSUME NEW j \in ToOpenRow(p.rank, p.bank), ~(e <= j) PROVE FALSE
    <2>1. /\ j \in DOMAIN queues[k] /\ queues[k][j].row = p.row
          /\ queuingStructure = "PerRank" => queues[k][j].bank = p.bank
      BY <1>2, <1>3, <1>5 DEF ToOpenRow, OpenFor
    <2>2. queuingStructure # "PerRank" => queues[k][j].bank = p.bank
      <3>1. KeyOf(queues[k][j].rank, queues[k][j].bank) = k
        BY <2>1 DEF QueuesServed, AllHome
      <3> HIDE DEF p
      <3> QED
        BY <1>1, <3>1 DEF KeyOf
    <2>3. e \in Nat /\ j \in Nat /\ j >= 1
      BY <1>1, <2>1 DEF QueuesServed, QueuesSound, QueueSound
    <2>4. j \in 1 .. e - 1
      BY <1>5, <2>3
    <2> QED
      BY <1>2, <2>1, <2>2, <2>4, PolicyAssumption DEF FirstForRow
  <1> QED
    BY <1>2, <1>3, <1>4, <1>5 DEF OpenFor

LEMMA PopRefreshPrechargeExposes ==
  ASSUME QueueInv, QueuesServed, NEW p, PopRefreshPrecharge(p)
  PROVE  PopExposes(p) /\ PopCounts(p)
  <1>1. PICK b \in RefreshPrecharge :
          /\ p = Packet("PRECHARGE", cqRefreshRank, b, 0, 0)
          /\ rowAccessCounters' = [rowAccessCounters EXCEPT ![cqRefreshRank][b] = 0]
          /\ queues' = queues
    BY DEF PopRefreshPrecharge
  <1>2. rowBufferPolicy = "OpenPage" /\ WantingColumn(b) = {}
    BY DEF RefreshPrecharge
  <1>3. p.busPacketType = "PRECHARGE" /\ p.rank = cqRefreshRank /\ p.bank = b
    BY <1>1 DEF Packet
  <1>4. ASSUME NEW k \in QueueKeys, NEW e \in Exposed(queues[k]), SameBank(p, queues[k][e])
        PROVE  FALSE
    <2>1. /\ queues[k] = Queue(cqRefreshRank, b) /\ e \in ToOpenRow(cqRefreshRank, b)
          /\ \A j \in ToOpenRow(cqRefreshRank, b) : e <= j
      BY <1>3, <1>4, ExposedWanted DEF SameBank
    <2>2. ~IsAct(queues[k][e])
      BY DEF Exposed
    <2> QED
      BY <1>2, <2>1, <2>2 DEF WantingColumn
  <1>5. PopExposes(p)
    BY <1>1, <1>4, NothingExposed
  <1> QED
    BY <1>1, <1>2, <1>3, <1>5 DEF PopCounts, IsAct

LEMMA PopPrechargeExposes ==
  ASSUME QueueInv, QueuesServed, NEW p, PopPrecharge(p)
  PROVE  PopExposes(p) /\ PopCounts(p)
  <1> DEFINE cell == PreCell(Min(PreHits))
  <1>1. /\ PreHits # {}
        /\ p = Packet("PRECHARGE", cell[1], cell[2], 0, 0)
        /\ rowAccessCounters' = [rowAccessCounters EXCEPT ![cell[1]][cell[2]] = 0]
        /\ queues' = queues
    BY DEF PopPrecharge
  <1>2. rowBufferPolicy = "OpenPage" /\ Closable(cell)
    <2>1. Min(PreHits) \in PreHits
      BY <1>1, ScanCells, MinFacts
    <2> QED
      BY <2>1 DEF PreHits
  <1> HIDE DEF cell
  <1>3. p.busPacketType = "PRECHARGE" /\ p.rank = cell[1] /\ p.bank = cell[2]
    BY <1>1 DEF Packet
  <1>4. ASSUME NEW k \in QueueKeys, NEW e \in Exposed(queues[k]), SameBank(p, queues[k][e])
        PROVE  FALSE
    <2>1. /\ e \in ToOpenRow(cell[1], cell[2])
          /\ rowAccessCounters[cell[1]][cell[2]] < TOTAL_ROW_ACCESSES
      BY <1>3, <1>4, ExposedWanted DEF SameBank
    <2>2. TOTAL_ROW_ACCESSES \in Nat
      BY GeometryAssumption
    <2> QED
      BY <1>2, <2>1, <2>2 DEF Closable
  <1>5. PopExposes(p)
    BY <1>1, <1>4, NothingExposed
  <1> QED
    BY <1>1, <1>2, <1>3, <1>5 DEF PopCounts, IsAct

\* A rank that is refreshed has no exposed column command at all.
LEMMA PopRefreshExposes ==
  ASSUME QueueInv, QueuesServed, NEW p, PopRefresh(p)
  PROVE  /\ PopExposes(p) /\ PopCounts(p)
         /\ \A k \in QueueKeys : \A e \in Exposed(queues[k]) : queues[k][e].rank # p.rank
  <1>1. /\ p = Packet("REFRESH", cqRefreshRank, 0, 0, 0)
        /\ queues' = queues /\ rowAccessCounters' = rowAccessCounters
        /\ \A b \in BANKS : bankStates[cqRefreshRank][b].currentBankState # "RowActive"
    BY DEF PopRefresh, RefreshReady, Blocking
  <1>2. p.busPacketType = "REFRESH" /\ p.rank = cqRefreshRank
    BY <1>1 DEF Packet
  <1>3. ASSUME NEW k \in QueueKeys, NEW e \in Exposed(queues[k]), queues[k][e].rank = p.rank
        PROVE  FALSE
    <2>1. bankStates[p.rank][queues[k][e].bank].currentBankState = "RowActive"
      BY <1>3, ExposedWanted
    <2>2. queues[k] \in Seq(QueueCommands) /\ e \in DOMAIN queues[k]
      BY DEF QueuesServed, QueuesSound, QueueSound, Exposed
    <2>3. queues[k][e].bank \in BANKS
      BY <2>2 DEF QueueCommands, BusPackets
    <2> QED
      BY <1>1, <1>2, <2>1, <2>3
  <1>4. PopExposes(p)
    BY <1>1, <1>3, NothingExposed DEF SameBank
  <1> QED
    BY <1>1, <1>2, <1>3, <1>4 DEF PopCounts

-----------------------------------------------------------------------------
(* Commands for one address leave in the order of their queue. *)

\* Column commands for one row.
ForOneRow(S) == \A p, c \in S : ~IsAct(p) /\ p.bank = c.bank /\ p.row = c.row

\* Of the queue q, new has all elements of S, or all but the first.
TakesFirst(new, q, S) ==
  \/ Selected(new, S) = Selected(q, S)
  \/ Selected(q, S) # <<>> /\ Selected(new, S) = Tail(Selected(q, S))

PopTakesFirst(S) == \A k \in QueueKeys : TakesFirst(queues'[k], queues[k], S)

LEMMA OneTaken ==
  ASSUME NEW T, NEW q \in Seq(T), NEW i \in 1 .. Len(q), NEW S,
         q[i] \in S => \A j \in 1 .. i - 1 : q[j] \notin S
  PROVE  TakesFirst(RemoveAt(q, i), q, S)
  <1>1. CASE q[i] \in S
    BY <1>1, SelectedTail DEF TakesFirst
  <1>2. CASE q[i] \notin S
    BY <1>2, SelectedWithout DEF TakesFirst
  <1> QED
    BY <1>1, <1>2

\* An exposed column command is the first for its row.
LEMMA ExposedTaken ==
  ASSUME QueuesServed, NEW S, ForOneRow(S), NEW k \in QueueKeys, NEW i \in Exposed(queues[k])
  PROVE  TakesFirst(RemoveAt(queues[k], i), queues[k], S)
  <1>1. PICK q : q = queues[k]
    OBVIOUS
  <1>2. q \in Seq(QueueCommands) /\ i \in 1 .. Len(q) /\ FirstForRow(q, i)
    BY <1>1, LenProperties DEF QueuesServed, QueuesSound, QueueSound, ExposedServed, Exposed
  <1>3. q[i] \in S => \A j \in 1 .. i - 1 : q[j] \notin S
    BY <1>2 DEF FirstForRow, ForOneRow
  <1> QED
    BY <1>1, <1>2, <1>3, OneTaken

\* So is a column command that is taken with its ACTIVATE: those before it for its row
\* are ACTIVATEs.
LEMMA PairTaken ==
  ASSUME NEW q, QueueSound(q), NEW S, ForOneRow(S), NEW i \in Sendable(q), TakesAct(q, i)
  PROVE  TakesFirst(Without(q, i), q, S)
  <1>1. /\ q \in Seq(QueueCommands) /\ i \in 1 .. Len(q) /\ i > 1 /\ IsAct(q[i-1])
        /\ rowBufferPolicy = "OpenPage" /\ Without(q, i) = RemoveAt(RemoveAt(q, i), i - 1)
    BY SendableFacts DEF TakesAct, Without, QueueSound
  <1>2. ASSUME NEW l \in 1 .. i - 1, q[l].bank = q[i].bank, q[l].row = q[i].row
        PROVE  IsAct(q[l])
    <2>1. i \in SendablePerRankOpen(q) \/ i \in SendablePerBankOpen(q)
      BY <1>1 DEF Sendable
    <2> QED
      BY <1>2, <2>1 DEF SendablePerRankOpen, SendablePerBankOpen
  <1>3. q[i] \in S => \A j \in 1 .. i - 1 : q[j] \notin S
    BY <1>2 DEF ForOneRow
  <1>4. TakesFirst(RemoveAt(q, i), q, S)
    BY <1>1, <1>3, OneTaken
  <1>5. PICK r : r = RemoveAt(q, i)
    OBVIOUS
  <1>6. /\ r \in Seq(QueueCommands) /\ Len(r) = Len(q) - 1 /\ i - 1 \in 1 .. Len(q) - 1
        /\ \A j \in 1 .. Len(q) - 1 : r[j] = IF j < i THEN q[j] ELSE q[j+1]
    <2>1. i - 1 \in 1 .. Len(q) - 1
      BY <1>1, LenProperties
    <2> QED
      BY <1>1, <1>5, <2>1, RemoveAtFacts
  <1>7. r[i-1] \notin S
    <2>1. r[i-1] = q[i-1]
      BY <1>1, <1>6
    <2> QED
      BY <1>1, <2>1 DEF ForOneRow
  <1>8. Selected(RemoveAt(r, i - 1), S) = Selected(r, S)
    BY <1>6, <1>7, SelectedWithout
  <1> QED
    BY <1>1, <1>4, <1>5, <1>8 DEF TakesFirst

LEMMA OneQueueTakesFirst ==
  ASSUME NEW S, NEW k \in QueueKeys, NEW new, queues' = [queues EXCEPT ![k] = new],
         QueuesSound(queues), TakesFirst(new, queues[k], S)
  PROVE  PopTakesFirst(S)
  BY DEF PopTakesFirst, TakesFirst, QueuesSound

LEMMA PopQueuedTakesFirst ==
  ASSUME QueueInv, QueuesServed, NEW p, PopQueued(p), NEW S, ForOneRow(S)
  PROVE  PopTakesFirst(S)
  <1> DEFINE n    == Min(ScanHits)
             cell == ScanCell(n)
             key  == KeyOf(cell[1], cell[2])
             q    == queues[key]
             i    == Min(Sendable(q))
  <1>1. ScanHits # {} /\ queues' = [queues EXCEPT ![key] = Without(q, i)]
    BY DEF PopQueued
  <1>2. n \in ScanHits
    BY <1>1, ScanCells, MinFacts
  <1>3. key \in QueueKeys /\ Sendable(q) # {}
    BY <1>2, ScanCells, KeyOfType DEF ScanHits, Queue
  <1> HIDE DEF cell, key
  <1>4. QueueSound(q) /\ q \in Seq(QueueCommands) /\ QueuesSound(queues)
    BY <1>3 DEF QueueInv, QueuesSound, QueueSound
  <1>5. i \in Sendable(q)
    <2>1. \A j \in Sendable(q) : j \in 1 .. Len(q)
      BY <1>4, SendableFacts
    <2>2. Sendable(q) \subseteq Nat
      BY <1>4, <2>1
    <2> QED
      BY <1>3, <2>2, MinFacts
  <1> HIDE DEF i
  <1>6. /\ i \in 1 .. Len(q)
        /\ IsAct(q[i]) \/ TakesAct(q, i) \/ i \in Exposed(q)
    BY <1>4, <1>5, SendableFacts
  <1>7. TakesFirst(Without(q, i), q, S)
    <2>1. CASE TakesAct(q, i)
      BY <1>4, <1>5, <2>1, PairTaken
    <2>2. CASE ~TakesAct(q, i) /\ IsAct(q[i])
      <3>1. q[i] \notin S
        BY <2>2 DEF ForOneRow
      <3>2. TakesFirst(RemoveAt(q, i), q, S)
        BY <1>4, <1>6, <3>1, OneTaken
      <3> QED
        BY <2>2, <3>2 DEF Without
    <2>3. CASE ~TakesAct(q, i) /\ i \in Exposed(q)
      <3>1. TakesFirst(RemoveAt(q, i), q, S)
        BY <1>3, <2>3, ExposedTaken DEF q
      <3> QED
        BY <2>3, <3>1 DEF Without
    <2> QED
      BY <1>6, <2>1, <2>2, <2>3
  <1> QED
    BY <1>1, <1>3, <1>4, <1>7, OneQueueTakesFirst DEF q

LEMMA PopRefreshColumnTakesFirst ==
  ASSUME QueueInv, QueuesServed, NEW p, PopRefreshColumn(p), NEW S, ForOneRow(S)
  PROVE  PopTakesFirst(S)
  <1>1. PICK b \in BANKS, j \in 1 .. CMD_QUEUE_DEPTH :
          /\ <<b, j>> \in RefreshColumn
          /\ queues' = [queues EXCEPT ![KeyOf(cqRefreshRank, b)] = RemoveAt(Queue(cqRefreshRank, b), j)]
    BY DEF PopRefreshColumn, Queue
  <1>2. b \in OpenBlocker /\ j \in WantingColumn(b)
    BY <1>1 DEF RefreshColumn
  <1>3. cqRefreshRank \in RANKS
    BY <1>1, <1>2 DEF OpenBlocker, QueueInv
  <1>4. PICK k \in QueueKeys : k = KeyOf(cqRefreshRank, b)
    BY <1>3, KeyOfType
  <1>5. Queue(cqRefreshRank, b) = queues[k] /\ QueueSound(queues[k]) /\ QueuesSound(queues)
    BY <1>4 DEF Queue, QueueInv, QueuesSound
  <1>6. j \in Exposed(queues[k])
    BY <1>2, <1>5, WantingColumnFacts
  <1>7. TakesFirst(RemoveAt(queues[k], j), queues[k], S)
    BY <1>6, ExposedTaken
  <1> QED
    BY <1>1, <1>4, <1>5, <1>7, OneQueueTakesFirst

LEMMA NothingTaken ==
  ASSUME NEW S, queues' = queues
  PROVE  PopTakesFirst(S)
  BY DEF PopTakesFirst, TakesFirst

-----------------------------------------------------------------------------
(* Dispatching transactions. *)

DispatchStart == [transactions |-> transactionQueue, queues |-> queues, pending |-> pendingReads]

\* The recursive function is defined: there is one for every number of iterations.
LEMMA DispatchingExists ==
  ASSUME NEW n \in Nat
  PROVE  \E f : f = [i \in 0 .. n |-> IF i = 0 THEN DispatchStart ELSE DispatchAt(f[i-1], i)]
  <1> DEFINE Good(m) == \E f : f = [i \in 0 .. m |-> IF i = 0 THEN DispatchStart
                                                     ELSE DispatchAt(f[i-1], i)]
             Bad == {m \in Nat : ~Good(m)}
  <1>1. SUFFICES ASSUME Bad # {} PROVE FALSE
    OBVIOUS
  <1>2. PICK m \in Bad : \A k \in Bad : m <= k
    BY <1>1, LeastNumber
  <1>3. CASE m = 0
    <2> DEFINE f == [i \in 0 .. 0 |-> DispatchStart]
    <2>1. f = [i \in 0 .. 0 |-> IF i = 0 THEN DispatchStart ELSE DispatchAt(f[i-1], i)]
      BY \A i \in 0 .. 0 : i = 0
    <2> HIDE DEF f
    <2> QED
      BY <1>2, <1>3, <2>1
  <1>4. CASE m # 0
    <2>1. m \in Nat /\ m - 1 \in Nat /\ m - 1 \notin Bad
      BY <1>2, <1>4
    <2>2. PICK f : f = [i \in 0 .. m - 1 |-> IF i = 0 THEN DispatchStart
                                             ELSE DispatchAt(f[i-1], i)]
      BY <2>1
    <2> DEFINE g == [i \in 0 .. m |-> IF i = m THEN DispatchAt(f[m-1], m) ELSE f[i]]
    <2>3. \A i \in 0 .. m - 1 : g[i] = f[i]
      BY <2>1
    <2>4. ASSUME NEW i \in 0 .. m
          PROVE  g[i] = IF i = 0 THEN DispatchStart ELSE DispatchAt(g[i-1], i)
      <3>1. CASE i = m
        <4>1. g[i-1] = f[i-1]
          BY <1>4, <2>1, <2>3, <3>1
        <4> QED
          BY <1>4, <3>1, <4>1
      <3>2. CASE i # m
        <4>1. i \in 0 .. m - 1 /\ g[i] = f[i]
          BY <2>1, <2>3, <3>2
        <4>2. f[i] = IF i = 0 THEN DispatchStart ELSE DispatchAt(f[i-1], i)
          BY <2>2, <4>1
        <4>3. i # 0 => g[i-1] = f[i-1]
          BY <2>1, <2>3, <4>1
        <4> QED
          BY <4>1, <4>2, <4>3
      <3> QED
        BY <3>1, <3>2
    <2>5. g = [i \in 0 .. m |-> g[i]]
      OBVIOUS
    <2> HIDE DEF g
    <2>6. g = [i \in 0 .. m |-> IF i = 0 THEN DispatchStart ELSE DispatchAt(g[i-1], i)]
      BY <2>4, <2>5
    <2> QED
      BY <1>2, <2>6
  <1> QED
    BY <1>3, <1>4

LEMMA DispatchingDef ==
  ASSUME transactionQueue \in Seq(AllTransactions)
  PROVE  Dispatching = [i \in 0 .. Len(transactionQueue) |->
                          IF i = 0 THEN DispatchStart ELSE DispatchAt(Dispatching[i-1], i)]
  <1>1. \E f : f = [i \in 0 .. Len(transactionQueue) |->
                      IF i = 0 THEN DispatchStart ELSE DispatchAt(f[i-1], i)]
    BY DispatchingExists, LenProperties
  <1> QED
    BY <1>1, Zenon DEF Dispatching, DispatchStart

\* A transaction's two commands join the same queue.
WithTwo(qs, k, a, c) == [qs EXCEPT ![k] = Append(Append(qs[k], a), c)]

LEMMA EnqueueTwo ==
  ASSUME NEW qs, DOMAIN qs = QueueKeys, NEW k \in QueueKeys,
         NEW a, NEW c, KeyOf(a.rank, a.bank) = k, KeyOf(c.rank, c.bank) = k
  PROVE  Enqueue(Enqueue(qs, a), c) = WithTwo(qs, k, a, c)
  <1> DEFINE aa == Append(qs[k], a)
             cc == Append(aa, c)
  <1>1. Enqueue(qs, a) = [qs EXCEPT ![k] = aa]
    BY DEF Enqueue
  <1> HIDE DEF aa
  <1>2. Enqueue(qs, a)[k] = aa
    BY <1>1
  <1>3. Enqueue(Enqueue(qs, a), c) = [Enqueue(qs, a) EXCEPT ![k] = cc]
    BY <1>2 DEF Enqueue
  <1> HIDE DEF cc
  <1>4. [[qs EXCEPT ![k] = aa] EXCEPT ![k] = cc] = [qs EXCEPT ![k] = cc]
    OBVIOUS
  <1> QED
    BY <1>1, <1>3, <1>4 DEF aa, cc, WithTwo

\* What holds after every iteration.
DispatchSound(s) ==
  /\ s.transactions \in Seq(AllTransactions)
  /\ Len(s.transactions) <= Len(transactionQueue)
  /\ QueuesSound(s.queues)
  /\ s.pending \in Seq(AllTransactions)

LEMMA DispatchAtSound ==
  ASSUME NEW s, DispatchSound(s), transactionQueue \in Seq(AllTransactions),
         NEW i \in Nat \ {0}
  PROVE  DispatchSound(DispatchAt(s, i))
  <1>1. CASE i > Len(s.transactions)
    BY <1>1 DEF DispatchAt
  <1>2. CASE ~(i > Len(s.transactions))
    <2> DEFINE t == s.transactions[i]
               k == KeyOf(t.rank, t.bank)
               a == CommandFor(t, "ACTIVATE")
               c == CommandFor(t, ColumnType(t.transactionType))
               q == s.queues[k]
    <2>1. i \in 1 .. Len(s.transactions) /\ t \in AllTransactions
      BY <1>2 DEF DispatchSound
    <2>2. CASE ~HasRoomFor(2, s.queues, t.rank, t.bank)
      BY <1>2, <2>2 DEF DispatchAt
    <2>3. CASE HasRoomFor(2, s.queues, t.rank, t.bank)
      <3>1. DispatchAt(s, i) = [transactions |-> RemoveAt(s.transactions, i),
                                queues |-> Enqueue(Enqueue(s.queues, a), c),
                                pending |-> IF t.transactionType = "DATA_READ"
                                            THEN Append(s.pending, t) ELSE s.pending]
        BY <1>2, <2>3 DEF DispatchAt
      <3>2. k \in QueueKeys /\ QueueSound(q) /\ CMD_QUEUE_DEPTH - Len(q) >= 2
        BY <2>1, <2>3, KeyOfType DEF HasRoomFor, DispatchSound, QueuesSound, AllTransactions
      <3>3. /\ a.rank = t.rank /\ a.bank = t.bank /\ a.row = t.row /\ a.column = t.column
            /\ c.rank = t.rank /\ c.bank = t.bank /\ c.row = t.row /\ c.column = t.column
            /\ IsAct(a) /\ ~IsAct(c) /\ SameAddress(a, c)
            /\ a \in QueueCommands /\ c \in QueueCommands
        <4>1. /\ t.transactionType \in {"DATA_READ", "DATA_WRITE"} /\ t.rank \in RANKS
              /\ t.bank \in BANKS /\ t.row \in ROWS /\ t.column \in COLS
          BY <2>1 DEF AllTransactions
        <4>2. /\ ColumnType(t.transactionType) \in {"READ", "READ_P", "WRITE", "WRITE_P"}
              /\ ColumnType(t.transactionType) \in QueuedTypes
          BY <4>1, PolicyAssumption DEF ColumnType, QueuedTypes
        <4> HIDE DEF t
        <4> QED
          BY <4>1, <4>2 DEF CommandFor, Packet, IsAct, SameAddress, QueueCommands, BusPackets,
                            CommandTypes, ColumnTypes, QueuedTypes
      <3>4. QueueSound(Append(Append(q, a), c))
        BY <3>2, <3>3, AppendTwo
      <3>5. Enqueue(Enqueue(s.queues, a), c) = [s.queues EXCEPT ![k] = Append(Append(q, a), c)]
        <4>1. KeyOf(a.rank, a.bank) = k /\ KeyOf(c.rank, c.bank) = k
          BY <3>3
        <4>2. DOMAIN s.queues = QueueKeys
          BY DEF DispatchSound, QueuesSound
        <4>3. k \in QueueKeys
          BY <3>2
        <4> HIDE DEF a, c, k
        <4>4. Enqueue(Enqueue(s.queues, a), c) = WithTwo(s.queues, k, a, c)
          BY <4>1, <4>2, <4>3, EnqueueTwo
        <4> QED
          BY <4>4 DEF WithTwo
      <3>6. QueuesSound(Enqueue(Enqueue(s.queues, a), c))
        <4>1. QueuesSound(s.queues)
          BY DEF DispatchSound
        <4> DEFINE new == Append(Append(q, a), c)
        <4>2. QueueSound(new)
          BY <3>4
        <4> HIDE DEF k, new
        <4>3. QueuesSound([s.queues EXCEPT ![k] = new])
          BY <3>2, <4>1, <4>2, ReplaceQueue
        <4> QED
          BY <3>5, <4>3 DEF new
      <3>7. /\ RemoveAt(s.transactions, i) \in Seq(AllTransactions)
            /\ Len(RemoveAt(s.transactions, i)) = Len(s.transactions) - 1
        BY <2>1, RemoveAtFacts DEF DispatchSound
      <3>8. (IF t.transactionType = "DATA_READ" THEN Append(s.pending, t) ELSE s.pending)
              \in Seq(AllTransactions)
        BY <2>1 DEF DispatchSound
      <3>9. Len(RemoveAt(s.transactions, i)) <= Len(transactionQueue)
        BY <3>7, LenProperties DEF DispatchSound
      <3> HIDE DEF t, a, c, k, q
      <3> QED
        BY <3>1, <3>6, <3>7, <3>8, <3>9 DEF DispatchSound
    <2> QED
      BY <2>2, <2>3
  <1> QED
    BY <1>1, <1>2

\* Dispatch keeps the queues sound: no queue is ever overrun.
LEMMA DispatchedSound ==
  ASSUME transactionQueue \in Seq(AllTransactions), pendingReads \in Seq(AllTransactions),
         QueuesSound(queues)
  PROVE  DispatchSound(Dispatched)
  <1> DEFINE n   == Len(transactionQueue)
             Bad == {i \in 0 .. n : ~DispatchSound(Dispatching[i])}
  <1>1. n \in Nat
    BY LenProperties
  <1>2. /\ Dispatching[0] = DispatchStart
        /\ \A i \in 1 .. n : Dispatching[i] = DispatchAt(Dispatching[i-1], i)
    BY <1>1, DispatchingDef
  <1>3. SUFFICES ASSUME Bad # {} PROVE FALSE
    BY <1>1 DEF Dispatched
  <1>4. PICK m \in Bad : \A k \in Bad : m <= k
    <2>1. Bad \subseteq Nat
      BY <1>1
    <2> QED
      BY <2>1, <1>3, LeastNumber
  <1>5. CASE m = 0
    BY <1>2, <1>4, <1>5, <1>1 DEF DispatchSound, DispatchStart
  <1>6. CASE m # 0
    <2>1. m \in 1 .. n /\ m - 1 \in 0 .. n /\ m - 1 \notin Bad
      BY <1>1, <1>4, <1>6
    <2>2. DispatchSound(Dispatching[m-1])
      BY <2>1
    <2>3. DispatchSound(Dispatching[m])
      BY <1>1, <1>2, <2>1, <2>2, DispatchAtSound
    <2> QED
      BY <1>4, <2>3
  <1> QED
    BY <1>5, <1>6

\* The queues' part of it: an ACTIVATE and its column command join one queue.
LEMMA DispatchAtQueues ==
  ASSUME NEW s, DispatchSound(s), NEW i \in Nat \ {0}
  PROVE  \/ DispatchAt(s, i).queues = s.queues
         \/ \E k \in QueueKeys : \E a, c \in QueueCommands :
              /\ IsAct(a) /\ ~IsAct(c)
              /\ DispatchAt(s, i).queues = WithTwo(s.queues, k, a, c)
  <1> DEFINE t == s.transactions[i]
             k == KeyOf(t.rank, t.bank)
             a == CommandFor(t, "ACTIVATE")
             c == CommandFor(t, ColumnType(t.transactionType))
  <1>1. SUFFICES ASSUME DispatchAt(s, i) # s
                 PROVE  \E l \in QueueKeys : \E x, y \in QueueCommands :
                          /\ IsAct(x) /\ ~IsAct(y)
                          /\ DispatchAt(s, i).queues = WithTwo(s.queues, l, x, y)
    BY Zenon
  <1>2. /\ ~(i > Len(s.transactions))
        /\ DispatchAt(s, i).queues = Enqueue(Enqueue(s.queues, a), c)
    BY <1>1 DEF DispatchAt
  <1>3. i \in 1 .. Len(s.transactions) /\ t \in AllTransactions
    BY <1>2 DEF DispatchSound
  <1>4. k \in QueueKeys
    BY <1>3, KeyOfType DEF AllTransactions
  <1>5. /\ KeyOf(a.rank, a.bank) = k /\ KeyOf(c.rank, c.bank) = k
        /\ IsAct(a) /\ ~IsAct(c) /\ a \in QueueCommands /\ c \in QueueCommands
    <2>1. /\ t.transactionType \in {"DATA_READ", "DATA_WRITE"} /\ t.rank \in RANKS
          /\ t.bank \in BANKS /\ t.row \in ROWS /\ t.column \in COLS
      BY <1>3 DEF AllTransactions
    <2>2. /\ ColumnType(t.transactionType) \in {"READ", "READ_P", "WRITE", "WRITE_P"}
          /\ ColumnType(t.transactionType) \in QueuedTypes
      BY <2>1, PolicyAssumption DEF ColumnType, QueuedTypes
    <2> HIDE DEF t
    <2> QED
      BY <2>1, <2>2 DEF CommandFor, Packet, IsAct, QueueCommands, BusPackets,
                        CommandTypes, ColumnTypes, QueuedTypes
  <1>6. DOMAIN s.queues = QueueKeys
    BY DEF DispatchSound, QueuesSound
  <1> HIDE DEF a, c, k
  <1>7. Enqueue(Enqueue(s.queues, a), c) = WithTwo(s.queues, k, a, c)
    BY <1>4, <1>5, <1>6, EnqueueTwo
  <1> QED
    BY <1>2, <1>4, <1>5, <1>7

\* A new pair at the end exposes nothing.
LEMMA ExposedAppended ==
  ASSUME NEW q \in Seq(QueueCommands), NEW a \in QueueCommands, NEW c \in QueueCommands,
         IsAct(a), ~IsAct(c), NEW new, new = Append(Append(q, a), c), NEW j \in Exposed(new)
  PROVE  j \in Exposed(q) /\ \A l \in 1 .. j : new[l] = q[l]
  <1>1. Len(q) \in Nat /\ DOMAIN q = 1 .. Len(q)
    BY LenProperties
  <1>2. /\ DOMAIN new = 1 .. Len(q) + 2
        /\ \A l \in 1 .. Len(q) : new[l] = q[l]
        /\ new[Len(q) + 1] = a /\ new[Len(q) + 2] = c
    BY <1>1
  <1>3. j \in DOMAIN new /\ ~IsAct(new[j]) /\ (j > 1 => ~IsAct(new[j-1]))
    BY DEF Exposed
  <1>4. j # Len(q) + 1
    BY <1>2, <1>3
  <1>5. j # Len(q) + 2
    <2> SUFFICES ASSUME j = Len(q) + 2 PROVE FALSE
      OBVIOUS
    <2>1. j > 1 /\ j - 1 = Len(q) + 1
      BY <1>1
    <2> QED
      BY <1>2, <1>3, <2>1
  <1>6. j \in 1 .. Len(q)
    BY <1>1, <1>2, <1>3, <1>4, <1>5
  <1>7. \A l \in 1 .. j : new[l] = q[l]
    BY <1>1, <1>2, <1>6
  <1>8. ~IsAct(q[j]) /\ (j > 1 => ~IsAct(q[j-1]))
    BY <1>1, <1>3, <1>6, <1>7
  <1> QED
    BY <1>1, <1>6, <1>7, <1>8 DEF Exposed

\* So dispatch leaves the exposed column commands as they are.
DispatchExposes(s) ==
  \A k \in QueueKeys : \A j \in Exposed(s.queues[k]) :
    j \in Exposed(queues[k]) /\ \A l \in 1 .. j : s.queues[k][l] = queues[k][l]

LEMMA DispatchAtExposes ==
  ASSUME NEW s, DispatchSound(s), DispatchExposes(s), NEW i \in Nat \ {0}
  PROVE  DispatchExposes(DispatchAt(s, i))
  <1>1. CASE DispatchAt(s, i).queues = s.queues
    BY <1>1 DEF DispatchExposes
  <1>2. ASSUME NEW k \in QueueKeys, NEW a \in QueueCommands, NEW c \in QueueCommands,
               IsAct(a), ~IsAct(c), DispatchAt(s, i).queues = WithTwo(s.queues, k, a, c)
        PROVE  DispatchExposes(DispatchAt(s, i))
    <2> DEFINE q   == s.queues[k]
               new == Append(Append(q, a), c)
    <2>1. DOMAIN s.queues = QueueKeys /\ q \in Seq(QueueCommands)
      BY DEF DispatchSound, QueuesSound, QueueSound
    <2>2. ASSUME NEW j \in Exposed(new)
          PROVE  j \in Exposed(queues[k]) /\ \A l \in 1 .. j : new[l] = queues[k][l]
      <3>1. j \in Exposed(q) /\ \A l \in 1 .. j : new[l] = q[l]
        <4>1. new = Append(Append(q, a), c)
          OBVIOUS
        <4> HIDE DEF q, new
        <4> QED
          BY <1>2, <2>1, <2>2, <4>1, ExposedAppended
      <3> QED
        BY <3>1 DEF DispatchExposes
    <2> HIDE DEF new
    <2>3. DispatchAt(s, i).queues = [s.queues EXCEPT ![k] = new]
      BY <1>2 DEF WithTwo, new
    <2> QED
      BY <2>1, <2>2, <2>3 DEF DispatchExposes
  <1> QED
    BY <1>1, <1>2, DispatchAtQueues

LEMMA DispatchedExposes ==
  ASSUME transactionQueue \in Seq(AllTransactions), pendingReads \in Seq(AllTransactions),
         QueuesSound(queues)
  PROVE  DispatchExposes(Dispatched)
  <1> DEFINE n   == Len(transactionQueue)
             Good(s) == DispatchSound(s) /\ DispatchExposes(s)
             Bad == {i \in 0 .. n : ~Good(Dispatching[i])}
  <1>1. n \in Nat
    BY LenProperties
  <1>2. /\ Dispatching[0] = DispatchStart
        /\ \A i \in 1 .. n : Dispatching[i] = DispatchAt(Dispatching[i-1], i)
    BY <1>1, DispatchingDef
  <1>3. SUFFICES ASSUME Bad # {} PROVE FALSE
    BY <1>1 DEF Dispatched
  <1>4. PICK m \in Bad : \A k \in Bad : m <= k
    <2>1. Bad \subseteq Nat
      BY <1>1
    <2> QED
      BY <2>1, <1>3, LeastNumber
  <1>5. CASE m = 0
    <2>1. DispatchSound(DispatchStart)
      BY <1>1 DEF DispatchSound, DispatchStart
    <2>2. DispatchExposes(DispatchStart)
      BY DEF DispatchExposes, DispatchStart
    <2> QED
      BY <1>2, <1>4, <1>5, <2>1, <2>2
  <1>6. CASE m # 0
    <2>1. m \in 1 .. n /\ m \in Nat \ {0} /\ m - 1 \in 0 .. n /\ m - 1 \notin Bad
      BY <1>1, <1>4, <1>6
    <2>2. Good(Dispatching[m-1])
      BY <2>1
    <2>3. Good(DispatchAt(Dispatching[m-1], m))
      BY <2>1, <2>2, DispatchAtSound, DispatchAtExposes
    <2> QED
      BY <1>2, <1>4, <2>1, <2>3
  <1> QED
    BY <1>5, <1>6

\* The exit in enqueue() is never taken.
LEMMA NoOverrun ==
  ASSUME NEW qs, QueuesSound(qs)
  PROVE  ~QueueOverrun(qs)
  <1>1. \A k \in QueueKeys : Len(qs[k]) \in Nat /\ Len(qs[k]) <= CMD_QUEUE_DEPTH
    BY DEF QueuesSound, QueueSound
  <1> QED
    BY <1>1, GeometryAssumption DEF QueueOverrun
=============================================================================
