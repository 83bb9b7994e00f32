------------------------ MODULE PhysicalMemoryProofs ------------------------
(***************************************************************************)
(* Why the lists of the banks are a memory, for every configuration, every *)
(* storage and every set of data.                                          *)
(*                                                                         *)
(* The address mapping takes a number apart: field by field, what is left  *)
(* and what is taken off determine what was there (SamePair), and nothing  *)
(* is left of an address of the storage (NothingRemains), so that its      *)
(* fields determine it.  A field's value is one of its units when these    *)
(* are as many as its bits can tell apart (FieldInRange).                  *)
(*                                                                         *)
(* A list holds at most one node per row, so that the search of a row      *)
(* finds the node that the last write to it left (AfterWrite).  A write    *)
(* changes one list at one row, and that is the place of one transaction   *)
(* of the storage only.                                                    *)
(*                                                                         *)
(* The constructor's globals are, after n lines, those of the last line    *)
(* for each key among the first n (ValueFrom).                             *)
(***************************************************************************)
EXTENDS PhysicalMemory, FiniteCollectionsProofs

IsList(list) == \E S : list \in Seq(S)

RowsDiffer(list) == \A i, j \in DOMAIN list : list[i].row = list[j].row => i = j

\* What a packet for the row reads from the list.
Lookup(list, row) ==
  IF searchForRow(row, list) = {} THEN Tracer ELSE list[Found(row, list)].data

StorageInv ==
  /\ \A c \in DOMAIN rowEntries : IsList(rowEntries[c]) /\ RowsDiffer(rowEntries[c])
  /\ Built => DOMAIN rowEntries = Lists

-----------------------------------------------------------------------------
(* Powers of two and their logarithms. *)

LEMMA PowerOfTwoDef ==
  \A n \in Nat : PowerOfTwo[n] = IF n = 0 THEN 1 ELSE 2 * PowerOfTwo[n - 1]
  <1> DEFINE below == [n \in Nat |-> IF n = 0 THEN 0 ELSE n - 1]
             double == [x \in Nat |-> 2 * x]
  <1>1. /\ below \in [Nat -> Nat] /\ double \in [Nat -> Nat]
        /\ \A n \in Nat : n >= 1 => below[n] < n /\ below[n] = n - 1
        /\ \A x \in Nat : double[x] = 2 * x
    <2>1. \A n \in Nat : (IF n = 0 THEN 0 ELSE n - 1) \in Nat
      OBVIOUS
    <2>2. \A x \in Nat : 2 * x \in Nat
      OBVIOUS
    <2>3. below \in [Nat -> Nat] /\ double \in [Nat -> Nat]
      BY <2>1, <2>2, Zenon
    <2>4. \A n \in Nat : below[n] = IF n = 0 THEN 0 ELSE n - 1
      BY Zenon
    <2>5. \A x \in Nat : double[x] = 2 * x
      BY Zenon
    <2> HIDE DEF below, double
    <2>6. ASSUME NEW n \in Nat, n >= 1
          PROVE  below[n] < n /\ below[n] = n - 1
      BY <2>4, <2>6
    <2> QED
      BY <2>3, <2>5, <2>6
  <1> HIDE DEF below, double
  <1>2. PICK f \in [Nat -> Nat] :
          \A n \in Nat : f[n] = IF n < 1 THEN 1 ELSE double[f[below[n]]]
    <2>1. /\ below \in [Nat -> Nat] /\ double \in [Nat -> Nat]
          /\ 1 \in Nat \ {0} /\ 1 \in Nat
          /\ \A n \in Nat : n >= 1 => below[n] < n
      BY <1>1
    <2>2. \A b \in Nat \ {0}, c \in Nat :
            (\A n \in Nat : n >= b => below[n] < n) =>
              \E f \in [Nat -> Nat] :
                \A n \in Nat : f[n] = IF n < b THEN c ELSE double[f[below[n]]]
      BY <2>1, RecursionDown
    <2> QED
      BY <2>1, <2>2
  <1>3. \A n \in Nat : f[n] = IF n = 0 THEN 1 ELSE 2 * f[n - 1]
    <2> SUFFICES ASSUME NEW n \in Nat
                 PROVE  f[n] = IF n = 0 THEN 1 ELSE 2 * f[n - 1]
      OBVIOUS
    <2>1. CASE n = 0
      BY <2>1, <1>2
    <2>2. CASE n # 0
      <3>1. n >= 1 /\ n - 1 \in Nat
        BY <2>2
      <3> QED
        BY <3>1, <1>1, <1>2
    <2> QED
      BY <2>1, <2>2
  <1>4. f = [n \in Nat |-> IF n = 0 THEN 1 ELSE 2 * f[n - 1]]
    BY <1>2, <1>3
  <1>5. PowerOfTwo = [n \in Nat |-> IF n = 0 THEN 1 ELSE 2 * PowerOfTwo[n - 1]]
    BY <1>4, Zenon DEF PowerOfTwo
  <1> QED
    BY <1>5

LEMMA PowerIsPositive ==
  ASSUME NEW n \in Nat
  PROVE  PowerOfTwo[n] \in Nat \ {0}
  <1> DEFINE Bad == {m \in Nat : PowerOfTwo[m] \notin Nat \ {0}}
  <1> SUFFICES ASSUME Bad # {}
               PROVE  FALSE
    OBVIOUS
  <1>1. PICK m \in Bad : \A i \in Bad : m <= i
    <2>1. Bad \in SUBSET Nat
      OBVIOUS
    <2> HIDE DEF Bad
    <2> QED
      BY <2>1, LeastNumber
  <1>2. m \in Nat /\ PowerOfTwo[m] \notin Nat \ {0}
    BY <1>1
  <1>3. m # 0
    BY <1>2, PowerOfTwoDef
  <1>4. PowerOfTwo[m - 1] \in Nat \ {0}
    BY <1>1, <1>2, <1>3
  <1>5. PowerOfTwo[m] = 2 * PowerOfTwo[m - 1]
    BY <1>2, <1>3, PowerOfTwoDef
  <1> QED
    BY <1>2, <1>4, <1>5

LEMMA PowerOfSum ==
  ASSUME NEW m \in Nat, NEW n \in Nat
  PROVE  PowerOfTwo[m + n] = PowerOfTwo[m] * PowerOfTwo[n]
  <1> DEFINE Bad == {k \in Nat : PowerOfTwo[m + k] # PowerOfTwo[m] * PowerOfTwo[k]}
  <1> SUFFICES ASSUME Bad # {}
               PROVE  FALSE
    OBVIOUS
  <1>1. PICK k \in Bad : \A i \in Bad : k <= i
    <2>1. Bad \in SUBSET Nat
      OBVIOUS
    <2> HIDE DEF Bad
    <2> QED
      BY <2>1, LeastNumber
  <1>2. k \in Nat /\ PowerOfTwo[m + k] # PowerOfTwo[m] * PowerOfTwo[k]
    BY <1>1
  <1>3. PowerOfTwo[m] \in Nat
    BY PowerIsPositive
  <1>4. k # 0
    BY <1>2, <1>3, PowerOfTwoDef
  <1>5. k - 1 \in Nat /\ PowerOfTwo[m + (k - 1)] = PowerOfTwo[m] * PowerOfTwo[k - 1]
    BY <1>1, <1>2, <1>4
  <1>6. PowerOfTwo[k] = 2 * PowerOfTwo[k - 1] /\ PowerOfTwo[k - 1] \in Nat
    BY <1>2, <1>4, <1>5, PowerOfTwoDef, PowerIsPositive
  <1>7. PowerOfTwo[m + k] = 2 * PowerOfTwo[m + (k - 1)]
    <2>1. m + k \in Nat /\ m + k # 0 /\ (m + k) - 1 = m + (k - 1)
      BY <1>2, <1>4
    <2> QED
      BY <2>1, PowerOfTwoDef
  <1> QED
    BY <1>2, <1>3, <1>5, <1>6, <1>7

LEMMA Log2Def ==
  \A n \in Nat : dramsim_log2[n] = IF n < 2 THEN 0 ELSE dramsim_log2[(n + 1) \div 2] + 1
  <1> DEFINE below == [n \in Nat |-> (n + 1) \div 2]
             next  == [x \in Nat |-> x + 1]
  <1>1. /\ below \in [Nat -> Nat] /\ next \in [Nat -> Nat]
        /\ \A n \in Nat : n >= 2 => below[n] < n
        /\ \A n \in Nat : below[n] = (n + 1) \div 2
        /\ \A x \in Nat : next[x] = x + 1
    <2>1. \A n \in Nat : (n + 1) \div 2 \in Nat /\ (n >= 2 => (n + 1) \div 2 < n)
      OBVIOUS
    <2>2. \A x \in Nat : x + 1 \in Nat
      OBVIOUS
    <2>3. below \in [Nat -> Nat] /\ next \in [Nat -> Nat]
      BY <2>1, <2>2, Zenon
    <2>4. \A n \in Nat : below[n] = (n + 1) \div 2
      BY Zenon
    <2>5. \A x \in Nat : next[x] = x + 1
      BY Zenon
    <2> HIDE DEF below, next
    <2>6. ASSUME NEW n \in Nat, n >= 2
          PROVE  below[n] < n
      BY <2>1, <2>4, <2>6
    <2> QED
      BY <2>3, <2>4, <2>5, <2>6
  <1> HIDE DEF below, next
  <1>2. PICK f \in [Nat -> Nat] :
          \A n \in Nat : f[n] = IF n < 2 THEN 0 ELSE next[f[below[n]]]
    <2>1. /\ below \in [Nat -> Nat] /\ next \in [Nat -> Nat]
          /\ 2 \in Nat \ {0} /\ 0 \in Nat
          /\ \A n \in Nat : n >= 2 => below[n] < n
      BY <1>1
    <2>2. \A b \in Nat \ {0}, c \in Nat :
            (\A n \in Nat : n >= b => below[n] < n) =>
              \E f \in [Nat -> Nat] :
                \A n \in Nat : f[n] = IF n < b THEN c ELSE next[f[below[n]]]
      BY <2>1, RecursionDown
    <2> QED
      BY <2>1, <2>2
  <1>3. \A n \in Nat : f[n] = IF n < 2 THEN 0 ELSE f[(n + 1) \div 2] + 1
    BY <1>1, <1>2
  <1>4. f = [n \in Nat |-> IF n < 2 THEN 0 ELSE f[(n + 1) \div 2] + 1]
    BY <1>2, <1>3
  <1>5. dramsim_log2 = [n \in Nat |-> IF n < 2 THEN 0 ELSE dramsim_log2[(n + 1) \div 2] + 1]
    BY <1>4, Zenon DEF dramsim_log2
  <1> QED
    BY <1>5

\* As many bits as needed: at least as many values, but fewer than twice as many.
LEMMA Log2Enough ==
  ASSUME NEW value \in Nat
  PROVE  dramsim_log2[value] \in Nat /\ PowerOfTwo[dramsim_log2[value]] >= value
  <1> DEFINE Good(n) == dramsim_log2[n] \in Nat /\ PowerOfTwo[dramsim_log2[n]] >= n
             Bad == {n \in Nat : ~Good(n)}
  <1> SUFFICES ASSUME Bad # {}
               PROVE  FALSE
    OBVIOUS
  <1>1. PICK n \in Bad : \A i \in Bad : n <= i
    <2>1. Bad \in SUBSET Nat
      OBVIOUS
    <2> HIDE DEF Bad
    <2> QED
      BY <2>1, LeastNumber
  <1>2. n \in Nat /\ ~Good(n)
    BY <1>1
  <1>3. n >= 2
    BY <1>2, Log2Def, PowerOfTwoDef
  <1> DEFINE half == (n + 1) \div 2
  <1>4. half \in Nat /\ half < n /\ 2 * half >= n
    BY <1>2, <1>3
  <1>5. dramsim_log2[n] = dramsim_log2[half] + 1
    BY <1>2, <1>3, Log2Def
  <1> HIDE DEF half
  <1>6. Good(half)
    BY <1>1, <1>2, <1>4
  <1>7. PowerOfTwo[dramsim_log2[n]] = 2 * PowerOfTwo[dramsim_log2[half]]
    <2>1. dramsim_log2[n] \in Nat /\ dramsim_log2[n] # 0 /\ dramsim_log2[n] - 1 = dramsim_log2[half]
      BY <1>5, <1>6
    <2> QED
      BY <2>1, PowerOfTwoDef
  <1>8. PowerOfTwo[dramsim_log2[half]] \in Nat
    BY <1>6, PowerIsPositive
  <1> QED
    BY <1>2, <1>4, <1>5, <1>6, <1>7, <1>8

\* Of a power of two it is the exponent.
LEMMA Log2OfPower ==
  ASSUME NEW n \in Nat
  PROVE  dramsim_log2[PowerOfTwo[n]] = n
  <1> DEFINE Bad == {k \in Nat : dramsim_log2[PowerOfTwo[k]] # k}
  <1> SUFFICES ASSUME Bad # {}
               PROVE  FALSE
    OBVIOUS
  <1>1. PICK k \in Bad : \A i \in Bad : k <= i
    <2>1. Bad \in SUBSET Nat
      OBVIOUS
    <2> HIDE DEF Bad
    <2> QED
      BY <2>1, LeastNumber
  <1>2. k \in Nat /\ dramsim_log2[PowerOfTwo[k]] # k
    BY <1>1
  <1>3. k # 0
    BY <1>2, PowerOfTwoDef, Log2Def
  <1>4. k - 1 \in Nat /\ dramsim_log2[PowerOfTwo[k - 1]] = k - 1
    BY <1>1, <1>2, <1>3
  <1> DEFINE half == PowerOfTwo[k - 1]
  <1>5. half \in Nat \ {0} /\ PowerOfTwo[k] = 2 * half
    BY <1>2, <1>3, <1>4, PowerOfTwoDef, PowerIsPositive
  <1> HIDE DEF half
  <1>6. 2 * half \in Nat /\ 2 * half >= 2 /\ (2 * half + 1) \div 2 = half
    BY <1>5
  <1>7. dramsim_log2[2 * half] = dramsim_log2[half] + 1
    BY <1>6, Log2Def
  <1> QED
    BY <1>2, <1>4, <1>5, <1>7 DEF half

LEMMA Log2Grows ==
  ASSUME NEW v \in Nat, NEW w \in Nat, v <= w
  PROVE  dramsim_log2[v] <= dramsim_log2[w]
  <1> DEFINE Good(n) == \A m \in Nat : n <= m => dramsim_log2[n] <= dramsim_log2[m]
             Bad == {n \in Nat : ~Good(n)}
  <1> SUFFICES ASSUME Bad # {}
               PROVE  FALSE
    OBVIOUS
  <1>1. PICK n \in Bad : \A i \in Bad : n <= i
    <2>1. Bad \in SUBSET Nat
      OBVIOUS
    <2> HIDE DEF Bad
    <2> QED
      BY <2>1, LeastNumber
  <1>2. PICK m \in Nat : n \in Nat /\ n <= m /\ ~(dramsim_log2[n] <= dramsim_log2[m])
    BY <1>1
  <1>3. \A x \in Nat : dramsim_log2[x] \in Nat
    BY Log2Enough
  <1>4. n >= 2
    BY <1>2, <1>3, Log2Def
  <1> DEFINE p == (n + 1) \div 2
             q == (m + 1) \div 2
  <1>5. p \in Nat /\ q \in Nat /\ p < n /\ p <= q
    BY <1>2, <1>4
  <1>6. dramsim_log2[n] = dramsim_log2[p] + 1 /\ dramsim_log2[m] = dramsim_log2[q] + 1
    BY <1>2, <1>4, Log2Def
  <1> HIDE DEF p, q
  <1>7. Good(p)
    BY <1>1, <1>2, <1>5
  <1> QED
    BY <1>2, <1>3, <1>5, <1>6, <1>7

IsPowerOfTwo(value) == \E n \in Nat : value = PowerOfTwo[n]

LEMMA RoundedUpEnough ==
  ASSUME NEW value \in Nat
  PROVE  RoundedUp(value) \in Nat \ {0} /\ RoundedUp(value) >= value
  BY Log2Enough, PowerIsPositive DEF RoundedUp

LEMMA RoundedUpPower ==
  ASSUME NEW value, IsPowerOfTwo(value)
  PROVE  RoundedUp(value) = value /\ value \in Nat \ {0}
  BY Log2OfPower, PowerIsPositive DEF RoundedUp, IsPowerOfTwo

\* Of two powers of two, the lesser divides the greater.
LEMMA RoundedUpDivides ==
  ASSUME NEW v \in Nat, NEW w \in Nat, v <= w
  PROVE  \E q \in Nat \ {0} : RoundedUp(w) = q * RoundedUp(v)
  <1> DEFINE m == dramsim_log2[v]
             n == dramsim_log2[w] - dramsim_log2[v]
  <1>1. m \in Nat /\ n \in Nat /\ m + n = dramsim_log2[w]
    BY Log2Enough, Log2Grows
  <1>2. RoundedUp(v) = PowerOfTwo[m] /\ RoundedUp(w) = PowerOfTwo[m + n]
    BY <1>1 DEF RoundedUp
  <1> HIDE DEF m, n
  <1>3. PowerOfTwo[m + n] = PowerOfTwo[m] * PowerOfTwo[n]
    BY <1>1, PowerOfSum
  <1>4. PowerOfTwo[m] \in Nat \ {0} /\ PowerOfTwo[n] \in Nat \ {0}
    BY <1>1, PowerIsPositive
  <1>5. RoundedUp(w) = PowerOfTwo[n] * RoundedUp(v)
    BY <1>2, <1>3, <1>4
  <1> QED
    BY <1>4, <1>5

-----------------------------------------------------------------------------
(* The address mapping. *)

LEMMA QuotientBound ==
  ASSUME NEW a \in Nat, NEW n \in Nat \ {0}, NEW k \in Nat, a < n * k
  PROVE  a \div n \in Nat /\ a \div n < k
  <1>1. k # 0
    BY SMT
  <1>2. n * k \in Nat
    OBVIOUS
  <1>3. a \in 0 .. n * k - 1
    BY <1>2
  <1>4. a \div n \in 0 .. k - 1
    BY <1>1, <1>3, DivBound
  <1> QED
    BY <1>4

LEMMA ProductGrows ==
  ASSUME NEW u \in Nat, NEW s \in Nat, NEW v \in Nat, NEW t \in Nat, u <= s, v <= t
  PROVE  u * v \in Nat /\ s * t \in Nat /\ u * v <= s * t
  <1>1. u * v \in Nat /\ u * t \in Nat /\ s * t \in Nat
    OBVIOUS
  <1>2. u * v <= u * t
    BY SMT
  <1>3. u * t <= s * t
    BY SMT
  <1> QED
    BY <1>1, <1>2, <1>3

Fields  == {"rank", "bank", "row", "column"}
Schemes == {"Scheme1", "Scheme2", "Scheme3", "Scheme4", "Scheme5", "Scheme6"}

\* The field that scheme s takes as its k-th from below.
Field(s, k) == FieldOrder[s][k]

\* Every scheme takes each field once.
LEMMA EveryFieldOnce ==
  ASSUME NEW s \in Schemes
  PROVE  /\ \A k \in 1 .. 4 : Field(s, k) \in Fields
         /\ \A j, k \in 1 .. 4 : Field(s, j) = Field(s, k) => j = k
         /\ \A f \in Fields : \E k \in 1 .. 4 : Field(s, k) = f
  <1> DEFINE Once(order) ==
               /\ \A k \in 1 .. 4 : order[k] \in Fields
               /\ \A j, k \in 1 .. 4 : order[j] = order[k] => j = k
               /\ \A f \in Fields : \E k \in 1 .. 4 : order[k] = f
  <1>1. ASSUME NEW order, order[1] \in Fields, order[2] \in Fields, order[3] \in Fields,
               order[4] \in Fields, order[1] # order[2], order[1] # order[3],
               order[1] # order[4], order[2] # order[3], order[2] # order[4], order[3] # order[4]
        PROVE  Once(order)
    <2>1. \A k : k \in 1 .. 4 <=> k = 1 \/ k = 2 \/ k = 3 \/ k = 4
      OBVIOUS
    <2>2. \A k \in 1 .. 4 : order[k] \in Fields
      BY <1>1, <2>1
    <2>3. \A j, k \in 1 .. 4 : order[j] = order[k] => j = k
      BY <1>1, <2>1
    <2>4. \A f \in Fields : f = order[1] \/ f = order[2] \/ f = order[3] \/ f = order[4]
      BY <1>1 DEF Fields
    <2> QED
      BY <2>1, <2>2, <2>3, <2>4
  <1>2. Once(FieldOrder["Scheme1"])
    BY <1>1 DEF FieldOrder, Fields
  <1>3. Once(FieldOrder["Scheme2"])
    BY <1>1 DEF FieldOrder, Fields
  <1>4. Once(FieldOrder["Scheme3"])
    BY <1>1 DEF FieldOrder, Fields
  <1>5. Once(FieldOrder["Scheme4"])
    BY <1>1 DEF FieldOrder, Fields
  <1>6. Once(FieldOrder["Scheme5"])
    BY <1>1 DEF FieldOrder, Fields
  <1>7. Once(FieldOrder["Scheme6"])
    BY <1>1 DEF FieldOrder, Fields
  <1>8. Once(FieldOrder[s])
    <2> HIDE DEF Once
    <2> QED
      BY <1>2, <1>3, <1>4, <1>5, <1>6, <1>7 DEF Schemes
  <1> QED
    BY <1>8 DEF Field

\* The global variables that the mapping depends on.
WellFormed(g) ==
  /\ g.addressMappingScheme \in Schemes
  /\ g.JEDEC_DATA_BUS_BITS \in Nat /\ g.BL \in Nat
  /\ \A f \in Fields : g[UnitsOf[f]] \in Nat

Units(g, k)  == g[UnitsOf[Field(g.addressMappingScheme, k)]]
SizeAt(g, k) == Size(g, Field(g.addressMappingScheme, k))

LEMMA SizeEnough ==
  ASSUME NEW g, WellFormed(g), NEW f \in Fields
  PROVE  /\ g[UnitsOf[f]] \in Nat
         /\ Size(g, f) \in Nat \ {0} /\ g[UnitsOf[f]] <= Size(g, f)
  BY RoundedUpEnough DEF WellFormed, Size

LEMMA SizeAtEnough ==
  ASSUME NEW g, WellFormed(g), NEW k \in 1 .. 4
  PROVE  /\ Units(g, k) \in Nat
         /\ SizeAt(g, k) \in Nat \ {0} /\ Units(g, k) <= SizeAt(g, k)
  <1>1. Field(g.addressMappingScheme, k) \in Fields
    BY EveryFieldOnce DEF WellFormed
  <1> QED
    BY <1>1, SizeEnough DEF Units, SizeAt

LEMMA BusBytesNat ==
  ASSUME NEW g, WellFormed(g)
  PROVE  /\ BusBytes(g) \in Nat
         /\ RoundedUp(BusBytes(g)) \in Nat \ {0} /\ BusBytes(g) <= RoundedUp(BusBytes(g))
  <1>1. BusBytes(g) \in Nat
    BY DEF WellFormed, BusBytes
  <1> QED
    BY <1>1, RoundedUpEnough

\* The loop over the fields: the recursive function is defined.
LEMMA RemainingDef ==
  ASSUME NEW g, NEW a
  PROVE  /\ Remaining(g, a, 0) = a \div RoundedUp(BusBytes(g))
         /\ \A k \in 1 .. 4 : Remaining(g, a, k) = Remaining(g, a, k - 1) \div SizeAt(g, k)
  <1> DEFINE word == a \div RoundedUp(BusBytes(g))
             order == FieldOrder[g.addressMappingScheme]
             Rest(r) == [k \in 0 .. 4 |-> IF k = 0 THEN word ELSE r[k - 1] \div Size(g, order[k])]
             r1 == word \div Size(g, order[1])
             r2 == r1 \div Size(g, order[2])
             r3 == r2 \div Size(g, order[3])
             r4 == r3 \div Size(g, order[4])
             r == [k \in 0 .. 4 |-> CASE k = 0 -> word [] k = 1 -> r1 [] k = 2 -> r2
                                        [] k = 3 -> r3 [] k = 4 -> r4]
             rest == CHOOSE x : x = Rest(x)
  <1>1. r = Rest(r)
    <2>1. /\ r[0] = word /\ r[1] = r1 /\ r[2] = r2 /\ r[3] = r3 /\ r[4] = r4
          /\ r = [k \in 0 .. 4 |-> r[k]]
      OBVIOUS
    <2>2. r1 = r[0] \div Size(g, order[1])
      BY <2>1
    <2>3. r2 = r[1] \div Size(g, order[2])
      BY <2>1
    <2>4. r3 = r[2] \div Size(g, order[3])
      BY <2>1
    <2>5. r4 = r[3] \div Size(g, order[4])
      BY <2>1
    <2> HIDE DEF r, r1, r2, r3, r4, word, order
    <2>6. ASSUME NEW k \in 0 .. 4
          PROVE  r[k] = IF k = 0 THEN word ELSE r[k - 1] \div Size(g, order[k])
      BY <2>1, <2>2, <2>3, <2>4, <2>5
    <2> QED
      BY <2>1, <2>6
  <1>2. rest = Rest(rest)
    <2> HIDE DEF Rest, r
    <2> QED
      BY <1>1
  <1>3. \A i : Remaining(g, a, i) = rest[i]
    BY DEF Remaining
  <1> HIDE DEF rest
  <1>4. rest[0] = word
    BY <1>2
  <1>5. ASSUME NEW k \in 1 .. 4
        PROVE  rest[k] = rest[k - 1] \div Size(g, order[k])
    <2>1. k \in 0 .. 4 /\ k # 0
      OBVIOUS
    <2> HIDE DEF word, order
    <2> QED
      BY <1>2, <2>1
  <1> QED
    BY <1>3, <1>4, <1>5 DEF SizeAt, Field

LEMMA RemainingNat ==
  ASSUME NEW g, WellFormed(g), NEW a \in Nat
  PROVE  \A k \in 0 .. 4 : Remaining(g, a, k) \in Nat
  <1>0. \A x \in Nat, n \in Nat \ {0} : x \div n \in Nat
    OBVIOUS
  <1>1. Remaining(g, a, 0) \in Nat
    BY <1>0, RemainingDef, BusBytesNat
  <1>2. ASSUME NEW k \in 1 .. 4, Remaining(g, a, k - 1) \in Nat
        PROVE  Remaining(g, a, k) \in Nat
    BY <1>0, <1>2, RemainingDef, SizeAtEnough
  <1>3. Remaining(g, a, 1) \in Nat
    BY <1>1, <1>2
  <1>4. Remaining(g, a, 2) \in Nat
    BY <1>3, <1>2
  <1>5. Remaining(g, a, 3) \in Nat
    BY <1>4, <1>2
  <1>6. Remaining(g, a, 4) \in Nat
    BY <1>5, <1>2
  <1> QED
    BY <1>1, <1>3, <1>4, <1>5, <1>6

\* A field is what is left, without what is left above it.
LEMMA FieldAt ==
  ASSUME NEW g, WellFormed(g), NEW a, NEW k \in 1 .. 4
  PROVE  addressMapping(g, a)[Field(g.addressMappingScheme, k)]
           = Remaining(g, a, k - 1) % SizeAt(g, k)
  <1> DEFINE s == g.addressMappingScheme
             f == Field(s, k)
  <1>1. f \in Fields /\ \A j \in 1 .. 4 : Field(s, j) = f => j = k
    BY EveryFieldOnce DEF WellFormed
  <1>2. DOMAIN UnitsOf = Fields
    BY DEF UnitsOf, Fields
  <1>3. (CHOOSE j \in 1 .. 4 : FieldOrder[s][j] = f) = k
    BY <1>1 DEF Field
  <1>4. addressMapping(g, a)[f]
          = Remaining(g, a, (CHOOSE j \in 1 .. 4 : FieldOrder[s][j] = f) - 1) % Size(g, f)
    BY <1>1, <1>2 DEF addressMapping
  <1> QED
    BY <1>3, <1>4 DEF SizeAt

\* Where the units of a field fill its bits, the field says which unit.
LEMMA FieldInRange ==
  ASSUME NEW g, WellFormed(g), NEW a \in Nat, NEW f \in Fields, IsPowerOfTwo(g[UnitsOf[f]])
  PROVE  addressMapping(g, a)[f] \in 0 .. g[UnitsOf[f]] - 1
  <1>1. PICK k \in 1 .. 4 : Field(g.addressMappingScheme, k) = f
    BY EveryFieldOnce DEF WellFormed
  <1>2. SizeAt(g, k) = g[UnitsOf[f]] /\ SizeAt(g, k) \in Nat \ {0}
    BY <1>1, RoundedUpPower DEF SizeAt, Size
  <1>3. k - 1 \in 0 .. 4
    OBVIOUS
  <1>4. Remaining(g, a, k - 1) \in Nat
    BY <1>3, RemainingNat
  <1>5. Remaining(g, a, k - 1) % SizeAt(g, k) \in 0 .. SizeAt(g, k) - 1
    BY <1>2, <1>4, DivMod
  <1> QED
    BY <1>1, <1>2, <1>5, FieldAt

\* The capacity, whatever the order of the fields.
LEMMA CapacityInOrder ==
  ASSUME NEW g, WellFormed(g)
  PROVE  Capacity(g) = BusBytes(g) * (Units(g, 1) * (Units(g, 2) * (Units(g, 3) * Units(g, 4))))
  <1> DEFINE s == g.addressMappingScheme
  <1>0. /\ g.NUM_RANKS \in Nat /\ g.NUM_BANKS \in Nat /\ g.NUM_ROWS \in Nat /\ g.NUM_COLS \in Nat
        /\ BusBytes(g) \in Nat
        /\ g[UnitsOf["rank"]] = g.NUM_RANKS /\ g[UnitsOf["bank"]] = g.NUM_BANKS
        /\ g[UnitsOf["row"]] = g.NUM_ROWS /\ g[UnitsOf["column"]] = g.NUM_COLS
    BY BusBytesNat DEF WellFormed, UnitsOf, Fields
  <1>1. ASSUME NEW r \in Nat, NEW b \in Nat, NEW w \in Nat, NEW c \in Nat, NEW y \in Nat
        PROVE  /\ r * b * w * c * y = y * (b * (c * (w * r)))
               /\ r * b * w * c * y = y * (r * (b * (c * w)))
               /\ r * b * w * c * y = y * (w * (c * (b * r)))
               /\ r * b * w * c * y = y * (c * (w * (b * r)))
               /\ r * b * w * c * y = y * (b * (r * (c * w)))
               /\ r * b * w * c * y = y * (c * (r * (b * w)))
    BY SMT
  <1>2. CASE s = "Scheme1"
    BY <1>0, <1>1, <1>2 DEF Capacity, Units, Field, FieldOrder
  <1>3. CASE s = "Scheme2"
    BY <1>0, <1>1, <1>3 DEF Capacity, Units, Field, FieldOrder
  <1>4. CASE s = "Scheme3"
    BY <1>0, <1>1, <1>4 DEF Capacity, Units, Field, FieldOrder
  <1>5. CASE s = "Scheme4"
    BY <1>0, <1>1, <1>5 DEF Capacity, Units, Field, FieldOrder
  <1>6. CASE s = "Scheme5"
    BY <1>0, <1>1, <1>6 DEF Capacity, Units, Field, FieldOrder
  <1>7. CASE s = "Scheme6"
    BY <1>0, <1>1, <1>7 DEF Capacity, Units, Field, FieldOrder
  <1> QED
    BY <1>2, <1>3, <1>4, <1>5, <1>6, <1>7 DEF WellFormed, Schemes

\* The fields take all of an address of the storage.
LEMMA NothingRemains ==
  ASSUME NEW g, WellFormed(g), NEW a \in Nat, a < Capacity(g)
  PROVE  Remaining(g, a, 4) = 0
  <1> DEFINE y == BusBytes(g)     z == RoundedUp(BusBytes(g))
             u1 == Units(g, 1)    s1 == SizeAt(g, 1)
             u2 == Units(g, 2)    s2 == SizeAt(g, 2)
             u3 == Units(g, 3)    s3 == SizeAt(g, 3)
             u4 == Units(g, 4)    s4 == SizeAt(g, 4)
  <1>1. /\ y \in Nat /\ z \in Nat \ {0} /\ y <= z
        /\ u1 \in Nat /\ s1 \in Nat \ {0} /\ u1 <= s1
        /\ u2 \in Nat /\ s2 \in Nat \ {0} /\ u2 <= s2
        /\ u3 \in Nat /\ s3 \in Nat \ {0} /\ u3 <= s3
        /\ u4 \in Nat /\ s4 \in Nat \ {0} /\ u4 <= s4
    BY BusBytesNat, SizeAtEnough
  <1>2. a < y * (u1 * (u2 * (u3 * u4)))
    BY CapacityInOrder
  <1>3. /\ Remaining(g, a, 0) = a \div z
        /\ Remaining(g, a, 1) = Remaining(g, a, 0) \div s1
        /\ Remaining(g, a, 2) = Remaining(g, a, 1) \div s2
        /\ Remaining(g, a, 3) = Remaining(g, a, 2) \div s3
        /\ Remaining(g, a, 4) = Remaining(g, a, 3) \div s4
    <2>1. \A k \in 1 .. 4 : Remaining(g, a, k) = Remaining(g, a, k - 1) \div SizeAt(g, k)
      BY RemainingDef
    <2> QED
      BY <2>1, RemainingDef
  <1> HIDE DEF y, z, u1, u2, u3, u4, s1, s2, s3, s4
  <1>4. u3 * u4 \in Nat /\ s3 * s4 \in Nat /\ u3 * u4 <= s3 * s4
    BY <1>1, ProductGrows
  <1>5. u2 * (u3 * u4) \in Nat /\ s2 * (s3 * s4) \in Nat /\ u2 * (u3 * u4) <= s2 * (s3 * s4)
    BY <1>1, <1>4, ProductGrows
  <1>6. /\ u1 * (u2 * (u3 * u4)) \in Nat /\ s1 * (s2 * (s3 * s4)) \in Nat
        /\ u1 * (u2 * (u3 * u4)) <= s1 * (s2 * (s3 * s4))
    BY <1>1, <1>5, ProductGrows
  <1>7. y * (u1 * (u2 * (u3 * u4))) <= z * (s1 * (s2 * (s3 * s4)))
        /\ y * (u1 * (u2 * (u3 * u4))) \in Nat /\ z * (s1 * (s2 * (s3 * s4))) \in Nat
    BY <1>1, <1>6, ProductGrows
  <1>8. a < z * (s1 * (s2 * (s3 * s4)))
    BY <1>2, <1>7
  <1>9. Remaining(g, a, 0) \in Nat /\ Remaining(g, a, 0) < s1 * (s2 * (s3 * s4))
    BY <1>1, <1>3, <1>6, <1>8, QuotientBound
  <1>10. Remaining(g, a, 1) \in Nat /\ Remaining(g, a, 1) < s2 * (s3 * s4)
    BY <1>1, <1>3, <1>5, <1>9, QuotientBound
  <1>11. Remaining(g, a, 2) \in Nat /\ Remaining(g, a, 2) < s3 * s4
    BY <1>1, <1>3, <1>4, <1>10, QuotientBound
  <1>12. Remaining(g, a, 3) \in Nat /\ Remaining(g, a, 3) < s4 * 1
    <2>1. Remaining(g, a, 3) \in Nat /\ Remaining(g, a, 3) < s4
      BY <1>1, <1>3, <1>11, QuotientBound
    <2> QED
      BY <1>1, <2>1
  <1>13. Remaining(g, a, 4) \in Nat /\ Remaining(g, a, 4) < 1
    BY <1>1, <1>3, <1>12, QuotientBound
  <1> QED
    BY <1>13

\* An aligned address is a multiple of the bytes of the bus.
LEMMA AlignedToBus ==
  ASSUME NEW g, WellFormed(g), g.BL # 0, NEW a \in Nat, a = alignTransactionAddress(g, a)
  PROVE  a % RoundedUp(BusBytes(g)) = 0
  <1> DEFINE y == BusBytes(g)
             t == transactionSize(g)
             z == RoundedUp(y)
             d == a \div RoundedUp(t)
  <1>1. y \in Nat /\ t \in Nat /\ y <= t
    <2>1. y \in Nat /\ g.BL \in Nat \ {0} /\ t = y * g.BL
      BY BusBytesNat DEF WellFormed, transactionSize
    <2> HIDE DEF y, t
    <2>2. y * g.BL \in Nat /\ y * 1 <= y * g.BL
      BY <2>1, ProductGrows
    <2> QED
      BY <2>1, <2>2
  <1>2. z \in Nat \ {0} /\ RoundedUp(t) \in Nat \ {0}
    BY <1>1, RoundedUpEnough
  <1> HIDE DEF t, y
  <1>3. PICK q \in Nat \ {0} : RoundedUp(t) = q * z
    BY <1>1, RoundedUpDivides
  <1>4. d \in Nat
    BY <1>2, DivMod
  <1>5. a = d * RoundedUp(t)
    BY DEF alignTransactionAddress, t
  <1> HIDE DEF d, z
  <1>6. a = (d * q) * z + 0 /\ d * q \in Nat
    BY <1>2, <1>3, <1>4, <1>5
  <1>7. 0 \in 0 .. z - 1
    BY <1>2
  <1>8. ((d * q) * z + 0) % z = 0
    BY <1>2, <1>6, <1>7, Quotient
  <1> QED
    BY <1>6, <1>8 DEF z, y

\* Two transactions of the storage with the same fields are the same.
LEMMA SameFieldsSameAddress ==
  ASSUME NEW g, WellFormed(g), g.BL # 0, NEW a \in Nat, NEW b \in Nat,
         InStorage(g, a), InStorage(g, b), addressMapping(g, a) = addressMapping(g, b)
  PROVE  a = b
  <1>1. Remaining(g, a, 4) = Remaining(g, b, 4)
    BY NothingRemains DEF InStorage
  <1>2. ASSUME NEW k \in 1 .. 4, Remaining(g, a, k) = Remaining(g, b, k)
        PROVE  Remaining(g, a, k - 1) = Remaining(g, b, k - 1)
    <2>1. k - 1 \in 0 .. 4
      OBVIOUS
    <2>2. Remaining(g, a, k - 1) \in Nat /\ Remaining(g, b, k - 1) \in Nat
      BY <2>1, RemainingNat
    <2>3. Remaining(g, a, k - 1) % SizeAt(g, k) = Remaining(g, b, k - 1) % SizeAt(g, k)
      BY FieldAt
    <2>4. Remaining(g, a, k - 1) \div SizeAt(g, k) = Remaining(g, b, k - 1) \div SizeAt(g, k)
      BY <1>2, RemainingDef
    <2> QED
      BY <2>2, <2>3, <2>4, SizeAtEnough, SamePair
  <1>3. Remaining(g, a, 3) = Remaining(g, b, 3)
    BY <1>1, <1>2
  <1>4. Remaining(g, a, 2) = Remaining(g, b, 2)
    BY <1>3, <1>2
  <1>5. Remaining(g, a, 1) = Remaining(g, b, 1)
    BY <1>4, <1>2
  <1>6. Remaining(g, a, 0) = Remaining(g, b, 0)
    BY <1>5, <1>2
  <1> DEFINE z == RoundedUp(BusBytes(g))
  <1>7. a \div z = b \div z
    BY <1>6, RemainingDef
  <1>8. a % z = 0 /\ b % z = 0
    BY AlignedToBus DEF InStorage
  <1> QED
    BY <1>7, <1>8, BusBytesNat, SamePair

\* Bursts, rows and words are powers of two, and a burst is no longer than a row.
BurstsFillRows(g) ==
  /\ IsPowerOfTwo(BusBytes(g)) /\ IsPowerOfTwo(g.BL) /\ IsPowerOfTwo(g.NUM_COLS)
  /\ g.BL <= g.NUM_COLS

\* The word that an aligned address begins is the first of a burst.
LEMMA FirstWord ==
  ASSUME NEW g, WellFormed(g), BurstsFillRows(g), NEW a \in Nat, a = alignTransactionAddress(g, a)
  PROVE  /\ transactionSize(g) = BusBytes(g) * g.BL
         /\ \E k \in Nat : /\ a = k * transactionSize(g)
                          /\ Remaining(g, a, 0) = k * g.BL
                          /\ Remaining(g, a + transactionSize(g), 0) = (k + 1) * g.BL
  <1> DEFINE y == BusBytes(g)
             l == g.BL
             t == transactionSize(g)
             k == a \div RoundedUp(t)
  <1>1. y \in Nat \ {0} /\ l \in Nat \ {0} /\ t = y * l /\ RoundedUp(y) = y
    BY RoundedUpPower DEF BurstsFillRows, transactionSize
  <1>2. IsPowerOfTwo(t)
    <2>1. PICK m \in Nat : y = PowerOfTwo[m]
      BY DEF BurstsFillRows, IsPowerOfTwo
    <2>2. PICK n \in Nat : l = PowerOfTwo[n]
      BY DEF BurstsFillRows, IsPowerOfTwo
    <2>3. m + n \in Nat /\ t = PowerOfTwo[m + n]
      BY <1>1, <2>1, <2>2, PowerOfSum
    <2> QED
      BY <2>3 DEF IsPowerOfTwo
  <1>3. RoundedUp(t) = t /\ t \in Nat \ {0}
    BY <1>2, RoundedUpPower
  <1>4. a = k * t /\ k \in Nat
    <2>1. a = k * RoundedUp(t)
      BY DEF alignTransactionAddress
    <2>2. k \in Nat
      BY <1>3, DivMod
    <2> QED
      BY <1>3, <2>1, <2>2
  <1>5. /\ Remaining(g, a, 0) = a \div y
        /\ Remaining(g, a + t, 0) = (a + t) \div y
    BY <1>1, RemainingDef
  <1> HIDE DEF k, t, y, l
  <1>6. k * l \in Nat /\ (k + 1) * l \in Nat /\ 0 \in 0 .. y - 1
    BY <1>1, <1>4
  <1>7. a = (k * l) * y + 0 /\ a + t = ((k + 1) * l) * y + 0
    BY <1>1, <1>4, SMT
  <1>8. a \div y = k * l /\ (a + t) \div y = (k + 1) * l
    BY <1>1, <1>6, <1>7, Quotient
  <1>9. a = k * t /\ Remaining(g, a, 0) = k * l /\ Remaining(g, a + t, 0) = (k + 1) * l
    BY <1>4, <1>5, <1>8
  <1> QED
    BY <1>1, <1>4, <1>9 DEF y, l, t

\* The next burst is the next of the row, or the first of another.
LEMMA NextBurst ==
  ASSUME NEW l \in Nat \ {0}, NEW c \in Nat \ {0}, NEW m \in Nat \ {0}, c = m * l, NEW k \in Nat
  PROVE  \/ ((k + 1) * l) \div c = (k * l) \div c
         \/ ((k * l) % c) + l = c /\ ((k + 1) * l) % c = 0
  <1> DEFINE q == k \div m
             t == k % m
  <1>1. q \in Nat /\ t \in 0 .. m - 1 /\ k = m * q + t
    BY DivMod, DivModExact
  <1> HIDE DEF q, t
  <1>2. /\ k * l = q * c + t * l
        /\ (k + 1) * l = q * c + (t + 1) * l
    BY <1>1, SMT
  <1>3. t * l \in Nat /\ (t + 1) * l \in Nat /\ (t + 1) * l = t * l + l
    BY <1>1, SMT
  <1>4. (t + 1) * l <= c
    <2>1. t + 1 \in Nat /\ t + 1 <= m /\ l <= l
      BY <1>1
    <2>2. (t + 1) * l <= m * l
      BY <2>1, ProductGrows
    <2> QED
      BY <2>2
  <1>5. t * l \in 0 .. c - 1
    BY <1>3, <1>4
  <1>6. (k * l) \div c = q /\ (k * l) % c = t * l
    <2>1. (q * c + t * l) \div c = q /\ (q * c + t * l) % c = t * l
      BY <1>1, <1>5, Quotient
    <2> QED
      BY <1>2, <2>1
  <1>7. CASE (t + 1) * l < c
    <2>1. (t + 1) * l \in 0 .. c - 1
      BY <1>3, <1>7
    <2>2. ((k + 1) * l) \div c = q
      <3>1. (q * c + (t + 1) * l) \div c = q
        BY <1>1, <2>1, Quotient
      <3> QED
        BY <1>2, <3>1
    <2> QED
      BY <1>6, <2>2
  <1>8. CASE (t + 1) * l = c
    <2>1. (k + 1) * l = (q + 1) * c + 0
      BY <1>1, <1>2, <1>8, SMT
    <2>2. q + 1 \in Nat /\ 0 \in 0 .. c - 1
      BY <1>1
    <2>3. ((q + 1) * c + 0) % c = 0
      BY <2>2, Quotient
    <2> QED
      BY <1>3, <1>6, <1>8, <2>1, <2>3
  <1> QED
    BY <1>3, <1>4, <1>7, <1>8

LEMMA NextTransaction ==
  ASSUME NEW g, WellFormed(g), BurstsFillRows(g), g.addressMappingScheme \in {"Scheme4", "Scheme6"},
         NEW a \in Nat, InStorage(g, a)
  PROVE  LET next == a + transactionSize(g)
         IN  \/ \A f \in {"rank", "bank", "row"} :
                   addressMapping(g, next)[f] = addressMapping(g, a)[f]
             \/ /\ addressMapping(g, a).column + g.BL = g.NUM_COLS
                /\ addressMapping(g, next).column = 0
  <1> DEFINE next == a + transactionSize(g)
             s == g.addressMappingScheme
             l == g.BL
             c == g.NUM_COLS
  <1>1. Field(s, 1) = "column" /\ s \in Schemes
    BY DEF Field, FieldOrder, WellFormed
  <1>2. /\ l \in Nat \ {0} /\ c \in Nat \ {0} /\ l <= c
        /\ RoundedUp(l) = l /\ RoundedUp(c) = c
    BY RoundedUpPower DEF BurstsFillRows
  <1>3. SizeAt(g, 1) = c
    BY <1>1, <1>2 DEF SizeAt, Size, UnitsOf
  <1>4. PICK k \in Nat : Remaining(g, a, 0) = k * l /\ Remaining(g, next, 0) = (k + 1) * l
    BY FirstWord DEF InStorage
  <1>5. PICK m \in Nat \ {0} : c = m * l
    <2> HIDE DEF l, c
    <2>1. l \in Nat /\ c \in Nat
      BY <1>2
    <2>2. \E m \in Nat \ {0} : RoundedUp(c) = m * RoundedUp(l)
      BY <1>2, <2>1, RoundedUpDivides
    <2> QED
      BY <1>2, <2>2
  <1>6. 1 \in 1 .. 4 /\ 1 - 1 = 0
    OBVIOUS
  <1>7. /\ addressMapping(g, a).column = (k * l) % c
        /\ addressMapping(g, next).column = ((k + 1) * l) % c
        /\ Remaining(g, a, 1) = (k * l) \div c
        /\ Remaining(g, next, 1) = ((k + 1) * l) \div c
    <2>1. \A x : addressMapping(g, x)["column"] = Remaining(g, x, 0) % c
      BY <1>1, <1>3, <1>6, FieldAt
    <2>2. \A x : Remaining(g, x, 1) = Remaining(g, x, 0) \div c
      BY <1>3, <1>6, RemainingDef
    <2> HIDE DEF next, l, c
    <2> QED
      BY <1>4, <2>1, <2>2
  <1> HIDE DEF l, c, next
  <1>8. CASE ((k * l) % c) + l = c /\ ((k + 1) * l) % c = 0
    BY <1>7, <1>8 DEF l, c, next
  <1>9. CASE ((k + 1) * l) \div c = (k * l) \div c
    <2>1. Remaining(g, next, 1) = Remaining(g, a, 1)
      BY <1>7, <1>9
    <2>2. Remaining(g, next, 2) = Remaining(g, a, 2)
      <3>1. \A x : Remaining(g, x, 2) = Remaining(g, x, 1) \div SizeAt(g, 2)
        BY RemainingDef
      <3> QED
        BY <2>1, <3>1
    <2>3. Remaining(g, next, 3) = Remaining(g, a, 3)
      <3>1. \A x : Remaining(g, x, 3) = Remaining(g, x, 2) \div SizeAt(g, 3)
        BY RemainingDef
      <3> QED
        BY <2>2, <3>1
    <2>4. ASSUME NEW f \in {"rank", "bank", "row"}
          PROVE  addressMapping(g, next)[f] = addressMapping(g, a)[f]
      <3>1. PICK j \in 1 .. 4 : Field(s, j) = f
        BY <1>1, EveryFieldOnce DEF Fields
      <3>2. j # 1
        BY <1>1, <3>1
      <3>3. j - 1 = 1 \/ j - 1 = 2 \/ j - 1 = 3
        BY <3>2
      <3>4. Remaining(g, next, j - 1) = Remaining(g, a, j - 1)
        BY <2>1, <2>2, <2>3, <3>3
      <3>5. \A x : addressMapping(g, x)[f] = Remaining(g, x, j - 1) % SizeAt(g, j)
        BY <3>1, FieldAt
      <3> QED
        BY <3>4, <3>5
    <2> QED
      BY <2>4 DEF next
  <1>10. \/ ((k + 1) * l) \div c = (k * l) \div c
         \/ ((k * l) % c) + l = c /\ ((k + 1) * l) % c = 0
    BY <1>2, <1>5, NextBurst
  <1> QED
    BY <1>8, <1>9, <1>10

-----------------------------------------------------------------------------
(* The configuration. *)

\* How many of the lines have been read.
LinesRead == CASE phase = "deviceIni" -> lineNumber
               [] phase = "systemIni" -> Len(deviceIni) + lineNumber
               [] OTHER               -> Len(deviceIni) + Len(systemIni)

Given(key, n) == {i \in 1 .. n : Lines[i].key = key}

\* The last of the first n lines for a key gives the value.
ValueFrom(key, n) ==
  IF Given(key, n) = {} THEN ~wasSet[key]
  ELSE globals[key] = Parsed(Lines[Max(Given(key, n))])

FilesChosen == deviceIni \in DeviceFiles /\ systemIni \in SystemFiles /\ megsOfMemory \in Sizes

ConfigInv ==
  /\ ConfigTypeOK
  /\ DOMAIN globals = Keys \cup DOMAIN Computed
  /\ FilesChosen
  /\ phase = "deviceIni" => lineNumber <= Len(deviceIni)
  /\ phase = "systemIni" => lineNumber <= Len(systemIni)
  /\ phase # "abort" => \A key \in Keys : ValueFrom(key, LinesRead)
  /\ phase \in {"enums", "check", "built"} => RanksFitSize
  /\ Built => NumbersSet

LEMMA KeysAre ==
  /\ Keys = {"NUM_BANKS", "NUM_ROWS", "NUM_COLS", "DEVICE_WIDTH", "BL", "JEDEC_DATA_BUS_BITS",
             "USE_LOW_POWER", "ADDRESS_MAPPING_SCHEME"}
  /\ Numbers = {"NUM_BANKS", "NUM_ROWS", "NUM_COLS", "DEVICE_WIDTH", "BL", "JEDEC_DATA_BUS_BITS"}
  /\ variableType["USE_LOW_POWER"] = "BOOL"
  /\ DOMAIN Computed = {"NUM_RANKS", "addressMappingScheme"}
  /\ Keys \cap DOMAIN Computed = {}
  <1>1. Keys = {"NUM_BANKS", "NUM_ROWS", "NUM_COLS", "DEVICE_WIDTH", "BL", "JEDEC_DATA_BUS_BITS",
                "USE_LOW_POWER", "ADDRESS_MAPPING_SCHEME"}
    BY DEF Keys, variableType
  <1>2. Numbers = {"NUM_BANKS", "NUM_ROWS", "NUM_COLS", "DEVICE_WIDTH", "BL", "JEDEC_DATA_BUS_BITS"}
    BY <1>1 DEF Numbers, variableType
  <1> QED
    BY <1>1, <1>2 DEF variableType, Computed

LEMMA LinesAre ==
  ASSUME FilesChosen
  PROVE  /\ Len(deviceIni) \in Nat /\ Len(systemIni) \in Nat
         /\ DOMAIN Lines = 1 .. Len(deviceIni) + Len(systemIni)
         /\ \A i \in 1 .. Len(deviceIni) : Lines[i] = deviceIni[i]
         /\ \A i \in 1 .. Len(systemIni) : Lines[Len(deviceIni) + i] = systemIni[i]
         /\ \A i \in DOMAIN Lines :
              IsAssignment(Lines[i]) /\ "number" \in DOMAIN Lines[i] => Lines[i].number \in Nat
  <1> DEFINE D == Range(deviceIni) \cup Range(systemIni)
  <1>1. deviceIni \in Seq(Range(deviceIni)) /\ systemIni \in Seq(Range(systemIni))
    BY FilesAssumption DEF FilesChosen
  <1>2. deviceIni \in Seq(D) /\ systemIni \in Seq(D)
    BY <1>1
  <1>3. \A line \in D : IsAssignment(line) /\ "number" \in DOMAIN line => line.number \in Nat
    BY FilesAssumption DEF FilesChosen
  <1> HIDE DEF D
  <1>4. Lines \in Seq(D)
    BY <1>2 DEF Lines
  <1>5. /\ Len(deviceIni) \in Nat /\ Len(systemIni) \in Nat
        /\ DOMAIN Lines = 1 .. Len(deviceIni) + Len(systemIni)
        /\ \A i \in 1 .. Len(deviceIni) : Lines[i] = deviceIni[i]
    BY <1>2 DEF Lines
  <1>6. ASSUME NEW i \in 1 .. Len(systemIni)
        PROVE  Lines[Len(deviceIni) + i] = systemIni[i]
    BY <1>2, <1>5 DEF Lines
  <1>7. \A i \in DOMAIN Lines : Lines[i] \in D
    BY <1>4
  <1> QED
    BY <1>3, <1>5, <1>6, <1>7

\* What a line's value becomes suits the variable.
LEMMA ParsedType ==
  ASSUME NEW line, line.key \in Keys, IsAssignment(line),
         "number" \in DOMAIN line => line.number \in Nat
  PROVE  /\ variableType[line.key] = "UINT" => Parsed(line) \in Nat
         /\ variableType[line.key] = "BOOL" => Parsed(line) \in BOOLEAN
  <1>1. CASE variableType[line.key] = "UINT"
    BY <1>1 DEF Parsed
  <1>2. CASE variableType[line.key] = "BOOL"
    BY <1>2 DEF Parsed
  <1> QED
    BY <1>1, <1>2

\* The last line for a key is the one just read, or the one that it was.
LEMMA GivenNext ==
  ASSUME NEW n \in Nat, NEW key
  PROVE  /\ Lines[n + 1].key = key =>
              Given(key, n + 1) # {} /\ Max(Given(key, n + 1)) = n + 1
         /\ Lines[n + 1].key # key => Given(key, n + 1) = Given(key, n)
  <1>1. 1 .. n + 1 = (1 .. n) \cup {n + 1}
    OBVIOUS
  <1>2. ASSUME Lines[n + 1].key = key
        PROVE  Given(key, n + 1) # {} /\ Max(Given(key, n + 1)) = n + 1
    <2> DEFINE S == Given(key, n + 1)
    <2>1. n + 1 \in S /\ \A i \in S : i \in Nat /\ n + 1 >= i
      BY <1>2 DEF Given
    <2> HIDE DEF S
    <2>2. \A x \in S : (\A y \in S : x >= y) => x = n + 1
      BY <2>1
    <2>3. Max(S) = n + 1
      BY <2>1, <2>2 DEF Max
    <2> QED
      BY <2>1, <2>3 DEF S
  <1>3. ASSUME Lines[n + 1].key # key
        PROVE  Given(key, n + 1) = Given(key, n)
    BY <1>1, <1>3 DEF Given
  <1> QED
    BY <1>2, <1>3

LEMMA ConfigInit0 == ConfigInit => ConfigInv
  <1> SUFFICES ASSUME ConfigInit
               PROVE  ConfigInv
    OBVIOUS
  <1>1. globals = [name \in Keys \cup DOMAIN Computed |->
                     IF name \in Keys THEN Unset(name) ELSE Computed[name]]
    BY DEF ConfigInit
  <1>2. "NUM_RANKS" \in DOMAIN Computed \ Keys /\ "addressMappingScheme" \in DOMAIN Computed \ Keys
    BY KeysAre
  <1>3. /\ DOMAIN globals = Keys \cup DOMAIN Computed
        /\ \A key \in Keys : globals[key] = Unset(key)
        /\ globals.NUM_RANKS = 0 /\ globals.addressMappingScheme = "Scheme1"
    <2>1. DOMAIN globals = Keys \cup DOMAIN Computed
      BY <1>1
    <2>2. \A key \in Keys : globals[key] = Unset(key)
      BY <1>1
    <2>3. globals.NUM_RANKS = Computed.NUM_RANKS
          /\ globals.addressMappingScheme = Computed.addressMappingScheme
      BY <1>1, <1>2
    <2>4. Computed.NUM_RANKS = 0 /\ Computed.addressMappingScheme = "Scheme1"
      BY DEF Computed
    <2> QED
      BY <2>1, <2>2, <2>3, <2>4
  <1>4. "Scheme1" \in Range(SchemeNames)
    BY DEF Range, SchemeNames
  <1>5. /\ \A key \in Numbers : globals[key] \in Nat
        /\ globals.USE_LOW_POWER \in BOOLEAN
    <2>1. \A key \in Numbers : key \in Keys /\ variableType[key] = "UINT"
      BY DEF Numbers
    <2>2. \A key \in Numbers : Unset(key) = 0
      BY <2>1 DEF Unset
    <2>3. Unset("USE_LOW_POWER") = FALSE
      BY KeysAre, Zenon DEF Unset
    <2>4. \A key \in Numbers : globals[key] = 0
      BY <1>3, <2>1, <2>2
    <2>5. globals["USE_LOW_POWER"] = FALSE
      BY <1>3, <2>3, KeysAre
    <2>6. \A key \in Numbers : globals[key] \in Nat
      BY <2>4
    <2>7. globals.USE_LOW_POWER \in BOOLEAN
      BY <2>5, Zenon
    <2> QED
      BY <2>6, <2>7
  <1>6. ConfigTypeOK
    BY <1>3, <1>4, <1>5 DEF ConfigTypeOK, ConfigInit
  <1>7. FilesChosen /\ phase = "deviceIni" /\ lineNumber = 0 /\ ~Built
    BY DEF FilesChosen, ConfigInit, Built
  <1>8. \A key \in Keys : ValueFrom(key, 0)
    <2>1. \A key : Given(key, 0) = {}
      BY DEF Given
    <2> QED
      BY <2>1 DEF ValueFrom, ConfigInit
  <1> QED
    BY <1>3, <1>6, <1>7, <1>8, LinesAre DEF ConfigInv, LinesRead

LEMMA GlobalNames ==
  ASSUME ConfigInv
  PROVE  /\ DOMAIN globals = Keys \cup DOMAIN Computed
         /\ \A key \in Keys : key \in DOMAIN globals
         /\ \A key \in Numbers : key \in DOMAIN globals
         /\ "USE_LOW_POWER" \in DOMAIN globals
         /\ "NUM_RANKS" \in DOMAIN globals /\ "addressMappingScheme" \in DOMAIN globals
         /\ \A key \in Keys : key # "NUM_RANKS" /\ key # "addressMappingScheme"
  <1>1. DOMAIN globals = Keys \cup DOMAIN Computed
    BY DEF ConfigInv
  <1>2. \A key \in Numbers : key \in Keys
    BY DEF Numbers
  <1> QED
    BY <1>1, <1>2, KeysAre

\* Reading a line for a key sets its variable and no other.
LEMMA SetKeyChanges ==
  ASSUME ConfigInv, NEW line, SetKey(line)
  PROVE  /\ DOMAIN globals' = DOMAIN globals
         /\ \A name \in DOMAIN globals : name # line.key => globals'[name] = globals[name]
         /\ wasSet' \in [Keys -> BOOLEAN]
         /\ \A key \in Keys : key # line.key => wasSet'[key] = wasSet[key]
         /\ line.key \in Keys => globals'[line.key] = Parsed(line)
  <1>0. wasSet \in [Keys -> BOOLEAN] /\ DOMAIN globals = Keys \cup DOMAIN Computed
    BY DEF ConfigInv, ConfigTypeOK
  <1>1. CASE line.key \in Keys
    <2>1. /\ globals' = [globals EXCEPT ![line.key] = Parsed(line)]
          /\ wasSet' = [wasSet EXCEPT ![line.key] = TRUE]
      BY <1>1 DEF SetKey
    <2>2. wasSet' \in [Keys -> BOOLEAN]
      BY <1>0, <2>1
    <2> QED
      BY <1>0, <1>1, <2>1, <2>2
  <1>2. CASE line.key \notin Keys
    BY <1>0, <1>2 DEF SetKey
  <1> QED
    BY <1>1, <1>2

LEMMA LineTyped ==
  ASSUME ConfigInv, NEW line, SetKey(line), IsAssignment(line),
         "number" \in DOMAIN line => line.number \in Nat
  PROVE  /\ \A key \in Numbers : globals'[key] \in Nat
         /\ globals'.USE_LOW_POWER \in BOOLEAN
         /\ globals'.NUM_RANKS = globals.NUM_RANKS
         /\ globals'.addressMappingScheme = globals.addressMappingScheme
  <1>1. ASSUME NEW key \in Numbers
        PROVE  globals'[key] \in Nat
    <2>1. globals[key] \in Nat /\ key \in Keys /\ variableType[key] = "UINT"
      BY DEF ConfigInv, ConfigTypeOK, Numbers
    <2>2. CASE key = line.key
      <3>1. globals'[key] = Parsed(line)
        BY <2>1, <2>2, SetKeyChanges
      <3>2. Parsed(line) \in Nat
        BY <2>1, <2>2, ParsedType
      <3> QED
        BY <3>1, <3>2
    <2>3. CASE key # line.key
      BY <2>1, <2>3, SetKeyChanges, GlobalNames
    <2> QED
      BY <2>2, <2>3
  <1>2. globals'.USE_LOW_POWER \in BOOLEAN
    <2>1. globals.USE_LOW_POWER \in BOOLEAN
      BY DEF ConfigInv, ConfigTypeOK
    <2>2. CASE line.key = "USE_LOW_POWER"
      <3>1. line.key \in Keys /\ variableType[line.key] = "BOOL"
        BY <2>2, KeysAre
      <3>2. Parsed(line) \in BOOLEAN
        BY <3>1, ParsedType
      <3>3. globals'["USE_LOW_POWER"] = Parsed(line)
        BY <2>2, <3>1, SetKeyChanges
      <3> QED
        BY <3>2, <3>3, Zenon
    <2>3. CASE line.key # "USE_LOW_POWER"
      <3>1. globals'["USE_LOW_POWER"] = globals["USE_LOW_POWER"]
        BY <2>3, SetKeyChanges, GlobalNames
      <3> QED
        BY <2>1, <3>1, Zenon
    <2> QED
      BY <2>2, <2>3
  <1>3. globals'.NUM_RANKS = globals.NUM_RANKS
        /\ globals'.addressMappingScheme = globals.addressMappingScheme
    <2>1. CASE line.key \in Keys
      <3>1. line.key # "NUM_RANKS" /\ line.key # "addressMappingScheme"
        BY <2>1, KeysAre
      <3> QED
        BY <3>1, SetKeyChanges, GlobalNames
    <2>2. CASE line.key \notin Keys
      BY <2>2 DEF SetKey
    <2> QED
      BY <2>1, <2>2
  <1> QED
    BY <1>1, <1>2, <1>3

\* After a line has been read, the values are those of one line more.
LEMMA LineRead ==
  ASSUME ConfigInv, ReadLine
  PROVE  ConfigInv'
  <1> DEFINE line == File[lineNumber + 1]
  <1>0. PICK n : n = LinesRead
    OBVIOUS
  <1>1. /\ phase \in {"deviceIni", "systemIni"} /\ lineNumber \in Nat
        /\ lineNumber < Len(File) /\ lineNumber' = lineNumber + 1
        /\ UNCHANGED commandLine
        /\ IF IsAssignment(line) THEN SetKey(line) /\ phase' = phase
           ELSE phase' = "abort" /\ globals' = globals /\ wasSet' = wasSet
    BY DEF ReadLine, ConfigInv, ConfigTypeOK
  <1>2. FilesChosen /\ FilesChosen' /\ Lines' = Lines
    BY <1>1 DEF ConfigInv, FilesChosen, commandLine, Lines
  <1>3. /\ n \in Nat /\ n + 1 \in DOMAIN Lines /\ line = Lines[n + 1]
        /\ phase' = phase => LinesRead' = n + 1
    <2>1. CASE phase = "deviceIni"
      BY <1>0, <1>1, <1>2, <2>1, LinesAre DEF File, LinesRead
    <2>2. CASE phase = "systemIni"
      <3>1. /\ n = Len(deviceIni) + lineNumber
            /\ Len(deviceIni) \in Nat /\ Len(systemIni) \in Nat
            /\ lineNumber + 1 \in 1 .. Len(systemIni)
        BY <1>0, <1>1, <1>2, <2>2, LinesAre DEF File, LinesRead
      <3>2. line = Lines[Len(deviceIni) + (lineNumber + 1)]
        BY <1>2, <2>2, <3>1, LinesAre DEF File
      <3>3. n + 1 = Len(deviceIni) + (lineNumber + 1) /\ n + 1 \in 1 .. Len(deviceIni) + Len(systemIni)
        BY <1>1, <3>1
      <3>4. phase' = phase => LinesRead' = Len(deviceIni) + (lineNumber + 1)
        BY <1>1, <2>2 DEF LinesRead, commandLine
      <3> QED
        BY <1>1, <1>2, <3>1, <3>2, <3>3, <3>4, LinesAre
    <2> QED
      BY <1>1, <2>1, <2>2
  <1>4. /\ phase' \notin {"enums", "check", "built"} /\ ~Built'
        /\ phase' \in {"deviceIni", "systemIni", "abort"}
        /\ phase' = "deviceIni" => lineNumber' <= Len(deviceIni)'
        /\ phase' = "systemIni" => lineNumber' <= Len(systemIni)'
    BY <1>1, <1>2, LinesAre DEF File, Built, commandLine
  <1>5. CASE ~IsAssignment(line)
    <2>1. phase' = "abort" /\ globals' = globals /\ wasSet' = wasSet
      BY <1>1, <1>5
    <2>2. ConfigTypeOK'
      BY <1>1, <2>1 DEF ConfigInv, ConfigTypeOK
    <2> QED
      BY <1>2, <1>4, <2>1, <2>2 DEF ConfigInv
  <1>6. CASE IsAssignment(line)
    <2>1. SetKey(line) /\ phase' = phase
      BY <1>1, <1>6
    <2>2. "number" \in DOMAIN line => line.number \in Nat
      BY <1>2, <1>3, <1>6, LinesAre
    <2> HIDE DEF line
    <2>3. /\ \A key \in Numbers : globals'[key] \in Nat
          /\ globals'.USE_LOW_POWER \in BOOLEAN
          /\ globals'.NUM_RANKS = globals.NUM_RANKS
          /\ globals'.addressMappingScheme = globals.addressMappingScheme
      BY <1>6, <2>1, <2>2, LineTyped
    <2>4. /\ DOMAIN globals' = Keys \cup DOMAIN Computed
          /\ \A name \in DOMAIN globals : name # line.key => globals'[name] = globals[name]
          /\ wasSet' \in [Keys -> BOOLEAN]
          /\ \A key \in Keys : key # line.key => wasSet'[key] = wasSet[key]
          /\ line.key \in Keys => globals'[line.key] = Parsed(line)
      BY <2>1, SetKeyChanges DEF ConfigInv
    <2>5. ConfigTypeOK'
      BY <1>1, <2>1, <2>3, <2>4 DEF ConfigInv, ConfigTypeOK
    <2>6. phase # "abort" /\ LinesRead' = n + 1
      BY <1>1, <1>3, <2>1
    <2>7. ASSUME NEW key \in Keys
          PROVE  ValueFrom(key, n + 1)'
      <3>1. ValueFrom(key, n)
        BY <1>0, <2>6 DEF ConfigInv
      <3>2. /\ line.key = key => Given(key, n + 1) # {} /\ Max(Given(key, n + 1)) = n + 1
            /\ line.key # key => Given(key, n + 1) = Given(key, n)
        BY <1>3, GivenNext
      <3>3. Given(key, n + 1)' = Given(key, n + 1)
        BY <1>2 DEF Given
      <3>4. CASE line.key = key
        <4>1. globals'[key] = Parsed(Lines[n + 1])
          BY <1>3, <2>4, <3>4
        <4> QED
          BY <1>2, <3>2, <3>3, <3>4, <4>1 DEF ValueFrom
      <3>5. CASE line.key # key
        <4>1. globals'[key] = globals[key] /\ wasSet'[key] = wasSet[key]
          BY <2>4, <3>5, GlobalNames
        <4> QED
          BY <1>2, <3>1, <3>2, <3>3, <3>5, <4>1 DEF ValueFrom
      <3> QED
        BY <3>4, <3>5
    <2>8. \A key \in Keys : ValueFrom(key, LinesRead)'
      BY <2>6, <2>7 DEF ValueFrom, Given
    <2> QED
      BY <1>2, <1>4, <2>4, <2>5, <2>8 DEF ConfigInv
  <1> QED
    BY <1>5, <1>6

LEMMA ValuesKept ==
  ASSUME UNCHANGED <<commandLine, wasSet>>, \A key \in Keys : globals'[key] = globals[key],
         LinesRead' = LinesRead, NEW key \in Keys, ValueFrom(key, LinesRead)
  PROVE  ValueFrom(key, LinesRead)'
  <1>1. PICK n : n = LinesRead
    OBVIOUS
  <1>2. Lines' = Lines /\ wasSet' = wasSet
    BY DEF Lines, commandLine
  <1>3. Given(key, n)' = Given(key, n)
    BY <1>2 DEF Given
  <1>4. ValueFrom(key, n)'
    BY <1>1, <1>2, <1>3 DEF ValueFrom
  <1>5. LinesRead' = n
    BY <1>1
  <1> QED
    BY <1>4, <1>5 DEF ValueFrom, Given

LEMMA StorageKept ==
  ASSUME \A key \in Keys : globals'[key] = globals[key]
  PROVE  megsOfStoragePerRank' = megsOfStoragePerRank
  BY KeysAre DEF megsOfStoragePerRank

LEMMA FileEnds ==
  ASSUME ConfigInv, EndOfFile
  PROVE  ConfigInv'
  <1>1. /\ phase \in {"deviceIni", "systemIni"} /\ lineNumber \in Nat
        /\ lineNumber = Len(File) /\ lineNumber' = 0
        /\ phase' = IF phase = "deviceIni" THEN "systemIni" ELSE "storage"
        /\ UNCHANGED <<commandLine, globals, wasSet>>
    BY DEF EndOfFile, ConfigInv, ConfigTypeOK
  <1>2. FilesChosen /\ FilesChosen'
    BY <1>1 DEF ConfigInv, FilesChosen, commandLine
  <1>3. Len(deviceIni) \in Nat /\ Len(systemIni) \in Nat
    BY <1>2, LinesAre
  <1>4. LinesRead' = LinesRead
    <2>1. deviceIni' = deviceIni /\ systemIni' = systemIni
      BY <1>1 DEF commandLine
    <2>2. CASE phase = "deviceIni"
      BY <1>1, <1>3, <2>1, <2>2 DEF LinesRead, File
    <2>3. CASE phase = "systemIni"
      BY <1>1, <1>3, <2>1, <2>3 DEF LinesRead, File
    <2> QED
      BY <1>1, <2>2, <2>3
  <1>5. \A key \in Keys : ValueFrom(key, LinesRead)'
    BY <1>1, <1>4, ValuesKept DEF ConfigInv
  <1>6. /\ phase' \notin {"enums", "check", "built", "deviceIni"} /\ ~Built'
        /\ phase' \in {"systemIni", "storage"}
        /\ phase' = "systemIni" => lineNumber' <= Len(systemIni)'
    BY <1>1, <1>3 DEF Built, commandLine
  <1>7. ConfigTypeOK'
    BY <1>1, <1>6 DEF ConfigInv, ConfigTypeOK
  <1>8. DOMAIN globals' = Keys \cup DOMAIN Computed
    BY <1>1 DEF ConfigInv
  <1> QED
    BY <1>2, <1>5, <1>6, <1>7, <1>8 DEF ConfigInv

LEMMA StorageOfARank ==
  ASSUME ConfigTypeOK, globals.DEVICE_WIDTH # 0
  PROVE  megsOfStoragePerRank \in Nat
  <1>1. /\ globals.NUM_ROWS \in Nat /\ globals.NUM_COLS \in Nat /\ globals.NUM_BANKS \in Nat
        /\ globals.DEVICE_WIDTH \in Nat \ {0} /\ globals.JEDEC_DATA_BUS_BITS \in Nat
        /\ Megabyte \in Nat \ {0}
    BY KeysAre, FilesAssumption DEF ConfigTypeOK
  <1>2. globals.JEDEC_DATA_BUS_BITS \div globals.DEVICE_WIDTH \in Nat
    BY <1>1, DivMod
  <1>3. ASSUME NEW r \in Nat, NEW c \in Nat, NEW w \in Nat, NEW b \in Nat, NEW d \in Nat
        PROVE  r * (c * w) * b * d \in Nat
    OBVIOUS
  <1>4. ASSUME NEW x \in Nat
        PROVE  (x \div 8) \div Megabyte \in Nat
    <2>1. x \div 8 \in Nat
      BY <1>4
    <2> QED
      BY <1>1, <2>1, DivMod
  <1> QED
    BY <1>1, <1>2, <1>3, <1>4 DEF megsOfStoragePerRank

LEMMA MaxWithOne ==
  ASSUME NEW x \in Nat
  PROVE  Max({1, x}) = 1 \/ Max({1, x}) = x
  <1>1. \E y \in {1, x} : \A z \in {1, x} : y >= z
    BY x >= 1 \/ 1 >= x
  <1>2. Max({1, x}) \in {1, x}
    BY <1>1 DEF Max
  <1> QED
    BY <1>2

LEMMA RanksComputed ==
  ASSUME ConfigTypeOK, FilesChosen, ~DivisionByZero
  PROVE  /\ Ranks \in Nat
         /\ megsOfMemory = 0 \/ Ranks = 1 \/ Ranks * megsOfStoragePerRank <= megsOfMemory
  <1> DEFINE p == megsOfStoragePerRank
             x == megsOfMemory \div p
  <1>1. p \in Nat /\ megsOfMemory \in Nat /\ (megsOfMemory # 0 => p # 0)
    BY StorageOfARank, FilesAssumption DEF DivisionByZero, FilesChosen
  <1>2. CASE megsOfMemory = 0
    BY <1>2 DEF Ranks, ConfigTypeOK
  <1>3. CASE megsOfMemory # 0
    <2>1. x \in Nat /\ p * x <= megsOfMemory
      BY <1>1, <1>3, DivMod
    <2>2. Ranks = Max({1, x})
      BY <1>3 DEF Ranks
    <2> HIDE DEF x, p
    <2>3. Ranks = 1 \/ Ranks = x
      BY <2>1, <2>2, MaxWithOne
    <2>4. x * p <= megsOfMemory
      BY <1>1, <2>1
    <2> QED
      BY <2>1, <2>3, <2>4 DEF p
  <1> QED
    BY <1>2, <1>3

LEMMA StorageComputed ==
  ASSUME ConfigInv, ComputeStorage
  PROVE  ConfigInv'
  <1>1. /\ phase = "storage" /\ UNCHANGED <<commandLine, lineNumber, wasSet>>
        /\ IF DivisionByZero THEN phase' = "crash" /\ globals' = globals
           ELSE phase' = "enums" /\ globals' = [globals EXCEPT !.NUM_RANKS = Ranks]
    BY DEF ComputeStorage
  <1>2. FilesChosen /\ FilesChosen'
    BY <1>1 DEF ConfigInv, FilesChosen, commandLine
  <1>3. /\ phase' \in {"crash", "enums"} /\ ~Built'
        /\ LinesRead' = LinesRead
    BY <1>1 DEF Built, LinesRead, commandLine
  <1>4. /\ DOMAIN globals' = Keys \cup DOMAIN Computed
        /\ \A name \in Keys \cup DOMAIN Computed :
             name # "NUM_RANKS" => globals'[name] = globals[name]
    <2>1. DOMAIN globals = Keys \cup DOMAIN Computed
      BY DEF ConfigInv
    <2> QED
      BY <1>1, <2>1
  <1>5. \A key \in Keys : globals'[key] = globals[key]
    BY <1>4, KeysAre
  <1>6. \A key \in Keys : ValueFrom(key, LinesRead)'
    BY <1>1, <1>3, <1>5, ValuesKept DEF ConfigInv
  <1>7. /\ \A key \in Numbers : globals'[key] \in Nat
        /\ globals'.USE_LOW_POWER \in BOOLEAN
        /\ globals'.addressMappingScheme \in Range(SchemeNames)
    <2>1. \A key \in Numbers : key \in Keys
      BY DEF Numbers
    <2>2. \A key \in Numbers : globals'[key] \in Nat
      BY <1>5, <2>1 DEF ConfigInv, ConfigTypeOK
    <2>3. globals'.USE_LOW_POWER = globals.USE_LOW_POWER
          /\ globals'.addressMappingScheme = globals.addressMappingScheme
      BY <1>4, GlobalNames
    <2>4. globals'.USE_LOW_POWER \in BOOLEAN
      BY <2>3, Zenon DEF ConfigInv, ConfigTypeOK
    <2> QED
      BY <2>2, <2>3, <2>4 DEF ConfigInv, ConfigTypeOK
  <1>8. CASE DivisionByZero
    <2>1. phase' = "crash" /\ globals' = globals
      BY <1>1, <1>8
    <2>2. ConfigTypeOK'
      BY <1>1, <2>1 DEF ConfigInv, ConfigTypeOK
    <2> QED
      BY <1>2, <1>3, <1>4, <1>6, <2>1, <2>2 DEF ConfigInv
  <1>9. CASE ~DivisionByZero
    <2>1. phase' = "enums" /\ globals'.NUM_RANKS = Ranks
      <3>1. phase' = "enums" /\ globals' = [globals EXCEPT !.NUM_RANKS = Ranks]
        BY <1>1, <1>9
      <3>2. "NUM_RANKS" \in DOMAIN globals
        BY KeysAre DEF ConfigInv
      <3> QED
        BY <3>1, <3>2
    <2>2. /\ Ranks \in Nat
          /\ megsOfMemory = 0 \/ Ranks = 1 \/ Ranks * megsOfStoragePerRank <= megsOfMemory
      BY <1>2, <1>9, RanksComputed DEF ConfigInv
    <2>3. ConfigTypeOK'
      BY <1>1, <1>7, <2>1, <2>2 DEF ConfigInv, ConfigTypeOK
    <2>4. megsOfStoragePerRank' = megsOfStoragePerRank /\ megsOfMemory' = megsOfMemory
      BY <1>1, <1>5, StorageKept DEF commandLine
    <2>5. RanksFitSize'
      BY <2>1, <2>2, <2>4 DEF RanksFitSize
    <2> QED
      BY <1>2, <1>3, <1>4, <1>6, <2>1, <2>3, <2>5 DEF ConfigInv
  <1> QED
    BY <1>8, <1>9

LEMMA EnumsInitialised ==
  ASSUME ConfigInv, InitEnumsFromStrings
  PROVE  ConfigInv'
  <1> DEFINE scheme == IF globals.ADDRESS_MAPPING_SCHEME \in DOMAIN SchemeNames
                       THEN SchemeNames[globals.ADDRESS_MAPPING_SCHEME] ELSE "Scheme1"
  <1>1. /\ phase = "enums" /\ phase' = "check" /\ UNCHANGED <<commandLine, lineNumber, wasSet>>
        /\ globals' = [globals EXCEPT !.addressMappingScheme = scheme]
    BY DEF InitEnumsFromStrings
  <1>2. scheme \in Range(SchemeNames)
    <2>1. "Scheme1" \in Range(SchemeNames)
      BY DEF Range, SchemeNames
    <2>2. \A x \in DOMAIN SchemeNames : SchemeNames[x] \in Range(SchemeNames)
      BY DEF Range
    <2> QED
      BY <2>1, <2>2
  <1> HIDE DEF scheme
  <1>3. /\ DOMAIN globals' = Keys \cup DOMAIN Computed
        /\ \A name \in Keys \cup DOMAIN Computed :
             name # "addressMappingScheme" => globals'[name] = globals[name]
        /\ globals'.addressMappingScheme = scheme
    <2>1. /\ "addressMappingScheme" \in DOMAIN globals
          /\ DOMAIN globals = Keys \cup DOMAIN Computed
      BY KeysAre DEF ConfigInv
    <2> QED
      BY <1>1, <2>1
  <1>4. \A key \in Keys : globals'[key] = globals[key]
    BY <1>3, KeysAre
  <1>5. FilesChosen' /\ ~Built' /\ LinesRead' = LinesRead
    BY <1>1 DEF ConfigInv, FilesChosen, commandLine, Built, LinesRead
  <1>6. \A key \in Keys : ValueFrom(key, LinesRead)'
    BY <1>1, <1>4, <1>5, ValuesKept DEF ConfigInv
  <1>7. globals'.NUM_RANKS = globals.NUM_RANKS /\ globals'.USE_LOW_POWER = globals.USE_LOW_POWER
    BY <1>3, GlobalNames
  <1>8. ConfigTypeOK'
    <2>1. \A key \in Numbers : key \in Keys
      BY DEF Numbers
    <2>2. \A key \in Numbers : globals'[key] \in Nat
      BY <1>4, <2>1 DEF ConfigInv, ConfigTypeOK
    <2>3. globals'.USE_LOW_POWER \in BOOLEAN
      BY <1>7, Zenon DEF ConfigInv, ConfigTypeOK
    <2> QED
      BY <1>1, <1>2, <1>3, <1>7, <2>2, <2>3 DEF ConfigInv, ConfigTypeOK
  <1>9. RanksFitSize'
    <2>1. megsOfStoragePerRank' = megsOfStoragePerRank /\ megsOfMemory' = megsOfMemory
      BY <1>1, <1>4, StorageKept DEF commandLine
    <2> QED
      BY <1>1, <1>7, <2>1 DEF ConfigInv, RanksFitSize
  <1> QED
    BY <1>1, <1>3, <1>5, <1>6, <1>8, <1>9 DEF ConfigInv

LEMMA AllChecked ==
  ASSUME ConfigInv, CheckIfAllSet
  PROVE  ConfigInv'
  <1>1. /\ phase = "check" /\ phase' = IF NumbersSet THEN "built" ELSE "exit"
        /\ UNCHANGED <<commandLine, lineNumber, globals, wasSet>>
    BY DEF CheckIfAllSet
  <1>2. FilesChosen' /\ LinesRead' = LinesRead /\ phase' \in {"built", "exit"}
    BY <1>1 DEF ConfigInv, FilesChosen, commandLine, LinesRead
  <1>3. \A key \in Keys : ValueFrom(key, LinesRead)'
    BY <1>1, <1>2, ValuesKept DEF ConfigInv
  <1>4. ConfigTypeOK' /\ DOMAIN globals' = Keys \cup DOMAIN Computed
    BY <1>1, <1>2 DEF ConfigInv, ConfigTypeOK
  <1>5. RanksFitSize'
    BY <1>1 DEF ConfigInv, RanksFitSize, megsOfStoragePerRank, commandLine
  <1>6. Built' => NumbersSet'
    BY <1>1 DEF Built, NumbersSet
  <1> QED
    BY <1>2, <1>3, <1>4, <1>5, <1>6 DEF ConfigInv

LEMMA ConfigStep == ConfigInv /\ [ConfigNext]_configVars => ConfigInv'
  <1> SUFFICES ASSUME ConfigInv, [ConfigNext]_configVars
               PROVE  ConfigInv'
    OBVIOUS
  <1>1. CASE UNCHANGED configVars
    <2>1. /\ UNCHANGED <<commandLine, phase, lineNumber, globals, wasSet>>
          /\ UNCHANGED <<deviceIni, systemIni, megsOfMemory>>
      BY <1>1 DEF configVars, commandLine
    <2>2. \A key \in Keys : ValueFrom(key, LinesRead)' = ValueFrom(key, LinesRead)
      BY <2>1 DEF ValueFrom, Given, Lines, LinesRead
    <2>3. ConfigTypeOK' /\ FilesChosen' /\ (RanksFitSize' <=> RanksFitSize)
          /\ (NumbersSet' <=> NumbersSet) /\ (Built' <=> Built)
      BY <2>1 DEF ConfigInv, ConfigTypeOK, FilesChosen, RanksFitSize, NumbersSet, Built,
                  megsOfStoragePerRank
    <2> QED
      BY <2>1, <2>2, <2>3 DEF ConfigInv
  <1> QED
    BY <1>1, LineRead, FileEnds, StorageComputed, EnumsInitialised, AllChecked DEF ConfigNext

\* The storage does not change the configuration.
LEMMA MemoryStepConfigures == MemoryNext => [ConfigNext]_configVars
  <1>1. ASSUME NEW a, Access(a)
        PROVE  UNCHANGED configVars
    BY <1>1 DEF Access
  <1> QED
    BY <1>1 DEF MemoryNext, Constructing, CreateRanks, ConfigNext, Read, Write

LEMMA ConfigInvariance == MemorySpec => []ConfigInv
  <1>1. MemoryInit => ConfigInv
    BY ConfigInit0 DEF MemoryInit
  <1>2. ConfigInv /\ [MemoryNext]_memoryVars => ConfigInv'
    <2>1. UNCHANGED memoryVars => UNCHANGED configVars
      BY DEF memoryVars
    <2> QED
      BY <2>1, ConfigStep, MemoryStepConfigures
  <1> QED
    BY <1>1, <1>2, PTL DEF MemorySpec

\* Whatever files are given and in whichever order they set the parameters, a memory
\* system that is built has the values of the last lines, every number among them, and
\* no more ranks than the size asks for.
THEOREM BuiltAsTheFilesSay == MemorySpec => []BuiltFromFiles
  <1>1. ConfigInv => BuiltFromFiles
    <2> SUFFICES ASSUME ConfigInv, phase = "built"
                 PROVE  ValuesFromFiles /\ RanksFitSize
      BY DEF BuiltFromFiles
    <2>1. RanksFitSize /\ NumbersSet
      BY DEF ConfigInv, Built
    <2>2. DOMAIN Lines = 1 .. LinesRead
      BY LinesAre DEF ConfigInv, LinesRead
    <2>3. ASSUME NEW key \in Keys
          PROVE  LET given == {n \in DOMAIN Lines : Lines[n].key = key}
                 IN  IF given = {} THEN key \notin Numbers
                     ELSE globals[key] = Parsed(Lines[Max(given)])
      <3>1. ValueFrom(key, LinesRead)
        BY DEF ConfigInv
      <3>2. {n \in DOMAIN Lines : Lines[n].key = key} = Given(key, LinesRead)
        BY <2>2 DEF Given
      <3> QED
        BY <2>1, <3>1, <3>2 DEF ValueFrom, NumbersSet
    <2> QED
      BY <2>1, <2>3 DEF ValuesFromFiles
  <1> QED
    BY <1>1, ConfigInvariance, PTL

-----------------------------------------------------------------------------
(* The lists. *)

LEMMA SearchFinds ==
  ASSUME NEW S, NEW list \in Seq(S), RowsDiffer(list), NEW i \in DOMAIN list
  PROVE  /\ searchForRow(list[i].row, list) = {i}
         /\ Found(list[i].row, list) = i
         /\ Lookup(list, list[i].row) = list[i].data
  <1>1. DOMAIN list = 1 .. Len(list) /\ Len(list) \in Nat
    OBVIOUS
  <1>2. \A j \in 1 .. i - 1 : j \in DOMAIN list /\ j # i
    BY <1>1
  <1>3. searchForRow(list[i].row, list) = {i}
    BY <1>2 DEF searchForRow, RowsDiffer
  <1> QED
    BY <1>3 DEF Found, Lookup

LEMMA SearchFails ==
  ASSUME NEW list, NEW row, \A i \in DOMAIN list : list[i].row # row
  PROVE  searchForRow(row, list) = {} /\ Lookup(list, row) = Tracer
  BY DEF searchForRow, Lookup

LEMMA SearchResult ==
  ASSUME NEW list, NEW row, searchForRow(row, list) # {}
  PROVE  Found(row, list) \in DOMAIN list /\ list[Found(row, list)].row = row
  BY DEF searchForRow, Found

\* After a write the list still has one node per row, the row has the data, and the
\* other rows have what they had.
LEMMA AfterWrite ==
  ASSUME NEW S, NEW list \in Seq(S), RowsDiffer(list), NEW row, NEW data
  PROVE  /\ IsList(ListAfterWrite(list, row, data))
         /\ RowsDiffer(ListAfterWrite(list, row, data))
         /\ Lookup(ListAfterWrite(list, row, data), row) = data
         /\ \A r : r # row => Lookup(ListAfterWrite(list, row, data), r) = Lookup(list, r)
  <1> DEFINE node == Node(row, data)
             T    == S \cup {node}
             new  == ListAfterWrite(list, row, data)
  <1>0. node.row = row /\ node.data = data
    BY DEF Node
  <1>1. CASE searchForRow(row, list) = {}
    <2>1. new = <<node>> \o list
      BY <1>1 DEF ListAfterWrite
    <2>2. /\ new \in Seq(T)
          /\ DOMAIN list = 1 .. Len(list) /\ Len(list) \in Nat
          /\ DOMAIN new = 1 .. Len(list) + 1
          /\ new[1] = node
          /\ \A i \in DOMAIN list : new[i + 1] = list[i]
      <3>1. <<node>> \in Seq(T) /\ list \in Seq(T)
        OBVIOUS
      <3> HIDE DEF node, T, new
      <3> QED
        BY <3>1, <2>1
    <2>3. \A i \in DOMAIN new : i = 1 \/ (i - 1 \in DOMAIN list /\ new[i] = list[i - 1])
      <3> SUFFICES ASSUME NEW i \in DOMAIN new, i # 1
                   PROVE  i - 1 \in DOMAIN list /\ new[i] = list[i - 1]
        OBVIOUS
      <3>1. i - 1 \in DOMAIN list /\ i = (i - 1) + 1
        BY <2>2
      <3> QED
        BY <3>1, <2>2
    <2>4. \A i \in DOMAIN list : list[i].row # row
      <3> SUFFICES ASSUME NEW i \in DOMAIN list, list[i].row = row
                   PROVE  FALSE
        OBVIOUS
      <3> QED
        BY SearchFinds, <1>1
    <2>5. RowsDiffer(new)
      <3> SUFFICES ASSUME NEW i \in DOMAIN new, NEW j \in DOMAIN new, new[i].row = new[j].row
                   PROVE  i = j
        BY DEF RowsDiffer
      <3>1. CASE i = 1 /\ j # 1
        BY <3>1, <2>2, <2>3, <2>4, <1>0
      <3>2. CASE j = 1 /\ i # 1
        BY <3>2, <2>2, <2>3, <2>4, <1>0
      <3>3. CASE i # 1 /\ j # 1
        <4>1. i - 1 = j - 1
          BY <3>3, <2>3 DEF RowsDiffer
        <4> QED
          BY <4>1, <2>2
      <3> QED
        BY <3>1, <3>2, <3>3
    <2>6. Lookup(new, row) = data
      BY SearchFinds, <2>2, <2>5, <1>0
    <2>7. ASSUME NEW r, r # row
          PROVE  Lookup(new, r) = Lookup(list, r)
      <3>1. CASE \E i \in DOMAIN list : list[i].row = r
        <4>1. PICK i \in DOMAIN list : list[i].row = r
          BY <3>1
        <4>2. i + 1 \in DOMAIN new /\ new[i + 1] = list[i]
          BY <2>2
        <4>3. Lookup(list, r) = list[i].data
          BY <4>1, SearchFinds
        <4>4. Lookup(new, r) = new[i + 1].data
          BY <4>1, <4>2, <2>2, <2>5, SearchFinds
        <4> QED
          BY <4>2, <4>3, <4>4
      <3>2. CASE \A i \in DOMAIN list : list[i].row # r
        <4>1. \A i \in DOMAIN new : new[i].row # r
          BY <3>2, <2>2, <2>3, <2>7, <1>0
        <4> QED
          BY <3>2, <4>1, SearchFails
      <3> QED
        BY <3>1, <3>2
    <2> QED
      BY <2>2, <2>5, <2>6, <2>7 DEF IsList
  <1>2. CASE searchForRow(row, list) # {}
    <2> DEFINE k == Found(row, list)
    <2>1. k \in DOMAIN list /\ list[k].row = row
      BY <1>2, SearchResult
    <2>2. new = [list EXCEPT ![k] = node]
      BY <1>2 DEF ListAfterWrite
    <2> HIDE DEF k
    <2>3. /\ new \in Seq(T)
          /\ DOMAIN new = DOMAIN list
          /\ new[k] = node
          /\ \A i \in DOMAIN list : i # k => new[i] = list[i]
      <3>1. list \in Seq(T) /\ node \in T
        OBVIOUS
      <3> HIDE DEF node, T, new
      <3>2. DOMAIN new = DOMAIN list /\ new[k] = node
            /\ \A i \in DOMAIN list : i # k => new[i] = list[i]
        BY <2>1, <2>2
      <3>3. new \in Seq(T)
        BY <3>1, <2>1, <2>2
      <3> QED
        BY <3>2, <3>3
    <2>4. \A i \in DOMAIN list : new[i].row = list[i].row
      BY <2>1, <2>3, <1>0
    <2>5. RowsDiffer(new)
      BY <2>3, <2>4 DEF RowsDiffer
    <2>6. Lookup(new, row) = data
      BY SearchFinds, <2>1, <2>3, <2>5, <1>0
    <2>7. ASSUME NEW r, r # row
          PROVE  Lookup(new, r) = Lookup(list, r)
      <3>1. CASE \E i \in DOMAIN list : list[i].row = r
        <4>1. PICK i \in DOMAIN list : list[i].row = r
          BY <3>1
        <4>2. i # k /\ new[i] = list[i] /\ i \in DOMAIN new
          BY <4>1, <2>1, <2>3, <2>7
        <4>3. Lookup(list, r) = list[i].data
          BY <4>1, SearchFinds
        <4>4. Lookup(new, r) = new[i].data
          BY <4>1, <4>2, <2>3, <2>5, SearchFinds
        <4> QED
          BY <4>2, <4>3, <4>4
      <3>2. CASE \A i \in DOMAIN list : list[i].row # r
        <4>1. \A i \in DOMAIN new : new[i].row # r
          BY <3>2, <2>3, <2>4
        <4> QED
          BY <3>2, <4>1, SearchFails
      <3> QED
        BY <3>1, <3>2
    <2> QED
      BY <2>3, <2>5, <2>6, <2>7 DEF IsList
  <1> QED
    BY <1>1, <1>2

-----------------------------------------------------------------------------
(* The invariant. *)

LEMMA DataAtPlace ==
  ASSUME NEW place
  PROVE  DataAt(place) = Lookup(rowEntries[Column(place)], place.row)
  BY DEF DataAt, Lookup

\* What a write to one place does to all lists.
LEMMA WriteChangesOneList ==
  ASSUME StorageInv, NEW place, NEW data,
         rowEntries' = [rowEntries EXCEPT ![Column(place)] = ListAfterWrite(@, place.row, data)]
  PROVE  /\ DOMAIN rowEntries' = DOMAIN rowEntries
         /\ \A c \in DOMAIN rowEntries : IsList(rowEntries'[c]) /\ RowsDiffer(rowEntries'[c])
         /\ Column(place) \in DOMAIN rowEntries =>
              Lookup(rowEntries'[Column(place)], place.row) = data
         /\ \A c \in DOMAIN rowEntries : \A row :
              c # Column(place) \/ row # place.row =>
                Lookup(rowEntries'[c], row) = Lookup(rowEntries[c], row)
  <1> DEFINE here == Column(place)
             new  == ListAfterWrite(rowEntries[here], place.row, data)
  <1>1. /\ DOMAIN rowEntries' = DOMAIN rowEntries
        /\ here \in DOMAIN rowEntries => rowEntries'[here] = new
        /\ \A c \in DOMAIN rowEntries : c # here => rowEntries'[c] = rowEntries[c]
    OBVIOUS
  <1>2. ASSUME here \in DOMAIN rowEntries
        PROVE  /\ IsList(new) /\ RowsDiffer(new)
               /\ Lookup(new, place.row) = data
               /\ \A r : r # place.row => Lookup(new, r) = Lookup(rowEntries[here], r)
    <2>1. PICK S : rowEntries[here] \in Seq(S)
      BY <1>2 DEF StorageInv, IsList
    <2>2. RowsDiffer(rowEntries[here])
      BY <1>2 DEF StorageInv
    <2> QED
      BY <2>1, <2>2, AfterWrite
  <1> HIDE DEF here, new
  <1> QED
    BY <1>1, <1>2 DEF StorageInv, here

LEMMA StorageInvInit == MemoryInit => StorageInv
  <1> SUFFICES ASSUME MemoryInit
               PROVE  StorageInv
    OBVIOUS
  <1>1. DOMAIN rowEntries = {}
    BY DEF MemoryInit
  <1>2. ~Built
    BY DEF MemoryInit, ConfigInit, Built
  <1> QED
    BY <1>1, <1>2 DEF StorageInv

LEMMA ConstructingKeepsStorage ==
  ASSUME Constructing
  PROVE  /\ ~Built /\ ~Built'
         /\ UNCHANGED <<rowEntries, packetData, physicalAddress>>
  <1>1. CASE ReadLine
    BY <1>1 DEF Constructing, ReadLine, Built, storageVars
  <1>2. CASE EndOfFile
    BY <1>2 DEF Constructing, EndOfFile, Built, storageVars
  <1>3. CASE ComputeStorage
    BY <1>3 DEF Constructing, ComputeStorage, Built, storageVars
  <1>4. CASE InitEnumsFromStrings
    BY <1>4 DEF Constructing, InitEnumsFromStrings, Built, storageVars
  <1> QED
    BY <1>1, <1>2, <1>3, <1>4 DEF Constructing

LEMMA AccessKeepsConfiguration ==
  ASSUME NEW a, Access(a)
  PROVE  /\ Built /\ Built'
         /\ globals' = globals /\ Lists' = Lists
         /\ physicalAddress' = a
  BY DEF Access, Built, configVars, Lists

LEMMA StorageInvStep == StorageInv /\ [MemoryNext]_memoryVars => StorageInv'
  <1> SUFFICES ASSUME StorageInv, [MemoryNext]_memoryVars
               PROVE  StorageInv'
    OBVIOUS
  <1>1. CASE Constructing
    BY <1>1, ConstructingKeepsStorage DEF StorageInv
  <1>2. CASE CreateRanks
    <2>1. CASE phase' = "built"
      <3>1. rowEntries' = [c \in Lists' |-> <<>>]
        BY <1>2, <2>1 DEF CreateRanks, CheckIfAllSet, Lists
      <3>2. IsList(<<>>) /\ RowsDiffer(<<>>)
        BY DEF IsList, RowsDiffer
      <3> QED
        BY <3>1, <3>2 DEF StorageInv
    <2>2. CASE phase' # "built"
      BY <1>2, <2>2 DEF CreateRanks, StorageInv, Built
    <2> QED
      BY <2>1, <2>2
  <1>3. ASSUME NEW a \in StorageAddresses, Read(a)
        PROVE  StorageInv'
    BY <1>3, AccessKeepsConfiguration DEF Read, read, StorageInv
  <1>4. ASSUME NEW a \in StorageAddresses, NEW d \in Data, Write(a, d)
        PROVE  StorageInv'
    <2>1. rowEntries' = [rowEntries EXCEPT ![Column(Place(a))] = ListAfterWrite(@, Place(a).row, d)]
      BY <1>4 DEF Write, write
    <2>2. /\ DOMAIN rowEntries' = DOMAIN rowEntries
          /\ \A c \in DOMAIN rowEntries : IsList(rowEntries'[c]) /\ RowsDiffer(rowEntries'[c])
      BY <2>1, WriteChangesOneList
    <2> QED
      BY <1>4, <2>2, AccessKeepsConfiguration DEF Write, StorageInv
  <1>5. CASE UNCHANGED memoryVars
    BY <1>5 DEF memoryVars, configVars, storageVars, StorageInv, Built, Lists
  <1> QED
    BY <1>1, <1>2, <1>3, <1>4, <1>5 DEF MemoryNext

\* Whatever is written, and however often, a row has one node in the list of a column:
\* Bank::write finds the node that is there.
THEOREM OneNodePerRowHolds == MemorySpec => []OneNodePerRow
  <1>1. StorageInv => OneNodePerRow
    BY DEF StorageInv, RowsDiffer, OneNodePerRow
  <1> QED
    BY <1>1, StorageInvInit, StorageInvStep, PTL DEF MemorySpec

-----------------------------------------------------------------------------
(* The refinement. *)

Flat(a) == IF Built /\ InStorage(globals, a) THEN DataAt(Place(a)) ELSE Tracer

LEMMA FlatAt ==
  ASSUME NEW a \in StorageAddresses, Built
  PROVE  Flat(a) = Lookup(rowEntries[Column(Place(a))], Place(a).row)
  BY DataAtPlace DEF Flat, StorageAddresses

\* A place is its four fields.
LEMMA PlaceIsItsFields ==
  ASSUME NEW a, NEW b, Column(Place(a)) = Column(Place(b)), Place(a).row = Place(b).row
  PROVE  Place(a) = Place(b)
  <1>1. DOMAIN UnitsOf = {"rank", "bank", "row", "column"}
    BY DEF UnitsOf
  <1>2. \A x : Place(x) = [f \in {"rank", "bank", "row", "column"} |-> Place(x)[f]]
    BY <1>1 DEF Place, addressMapping
  <1>3. /\ Place(a).rank = Place(b).rank
        /\ Place(a).bank = Place(b).bank
        /\ Place(a).column = Place(b).column
    BY DEF Column
  <1> QED
    BY <1>2, <1>3

ListsOf(g) == [rank : 0 .. g.NUM_RANKS - 1, bank : 0 .. g.NUM_BANKS - 1,
               column : 0 .. g.NUM_COLS - 1]

LEMMA PlaceHasList ==
  ASSUME NEW g, NEW a,
         \A f \in DOMAIN UnitsOf : addressMapping(g, a)[f] \in 0 .. g[UnitsOf[f]] - 1
  PROVE  Column(addressMapping(g, a)) \in ListsOf(g)
  <1>1. /\ addressMapping(g, a).rank \in 0 .. g.NUM_RANKS - 1
        /\ addressMapping(g, a).bank \in 0 .. g.NUM_BANKS - 1
        /\ addressMapping(g, a).column \in 0 .. g.NUM_COLS - 1
    BY DEF UnitsOf
  <1> QED
    BY <1>1 DEF Column, ListsOf

\* Two transactions of the storage differ in the list or in the row.
LEMMA PlacesDiffer ==
  ASSUME Built, MappedOneToOne, NEW a \in StorageAddresses, NEW b \in StorageAddresses, a # b
  PROVE  Column(Place(b)) # Column(Place(a)) \/ Place(b).row # Place(a).row
  <1> DEFINE place == [x \in StorageAddresses |-> Place(x)]
  <1>1. \A x, y \in StorageAddresses : place[x] = place[y] => x = y
    BY DEF MappedOneToOne, IsInjective
  <1>2. Place(b) # Place(a)
    BY <1>1
  <1> QED
    BY <1>2, PlaceIsItsFields

LEMMA FlatInitHolds == MemoryInit => FlatMemoryOfStorage!FlatInit
  <1> SUFFICES ASSUME MemoryInit
               PROVE  FlatMemoryOfStorage!FlatInit
    OBVIOUS
  <1>1. ~Built
    BY DEF MemoryInit, ConfigInit, Built
  <1>2. physicalAddress \in Addresses /\ packetData = Tracer
    BY AddressAssumption DEF MemoryInit
  <1> QED
    BY <1>1, <1>2 DEF FlatMemoryOfStorage!FlatInit

LEMMA FlatStep ==
  ASSUME StorageInv, MappedInRange, MappedOneToOne, MappedInRange', StorageInv',
         [MemoryNext]_memoryVars
  PROVE  [FlatMemoryOfStorage!FlatNext]_(FlatMemoryOfStorage!flatVars)
  <1> DEFINE mem == [a \in Addresses |-> Flat(a)]
  <1>0. /\ mem = [a \in Addresses |->
                   IF Built /\ InStorage(globals, a) THEN DataAt(Place(a)) ELSE Tracer]
        /\ mem' = [a \in Addresses |->
                   IF Built /\ InStorage(globals, a) THEN DataAt(Place(a)) ELSE Tracer]'
    BY DEF Flat
  <1>1. ASSUME UNCHANGED <<packetData, physicalAddress>>, mem' = mem
        PROVE  UNCHANGED FlatMemoryOfStorage!flatVars
    BY <1>0, <1>1 DEF FlatMemoryOfStorage!flatVars
  <1>2. CASE Constructing
    <2>1. \A a \in Addresses : Flat(a)' = Flat(a)
      BY <1>2, ConstructingKeepsStorage DEF Flat
    <2> QED
      BY <1>1, <1>2, <2>1, ConstructingKeepsStorage
  <1>3. CASE CreateRanks
    <2>1. ~Built /\ UNCHANGED <<packetData, physicalAddress>>
      BY <1>3 DEF CreateRanks, CheckIfAllSet, Built
    <2>2. ASSUME NEW a \in Addresses
          PROVE  Flat(a)' = Tracer
      <3>1. CASE Built' /\ InStorage(globals, a)'
        <4>1. rowEntries' = [c \in Lists' |-> <<>>]
          BY <1>3, <3>1 DEF CreateRanks, CheckIfAllSet, Lists, Built
        <4>2. Column(Place(a))' \in Lists'
          <5>1. a \in StorageAddresses'
            BY <3>1 DEF StorageAddresses
          <5>2. \A f \in DOMAIN UnitsOf :
                  addressMapping(globals', a)[f] \in 0 .. globals'[UnitsOf[f]] - 1
            BY <3>1, <5>1 DEF MappedInRange, Place
          <5>3. Column(addressMapping(globals', a)) \in ListsOf(globals')
            BY <5>2, PlaceHasList
          <5> QED
            BY <5>3 DEF Place, Lists, ListsOf
        <4>3. Lookup(<<>>, Place(a)'.row) = Tracer
          BY SearchFails
        <4> QED
          BY <3>1, <4>1, <4>2, <4>3 DEF Flat, DataAt, Lookup
      <3>2. CASE ~(Built' /\ InStorage(globals, a)')
        BY <3>2 DEF Flat
      <3> QED
        BY <3>1, <3>2
    <2>3. \A a \in Addresses : Flat(a)' = Flat(a)
      BY <2>1, <2>2 DEF Flat
    <2> QED
      BY <1>1, <2>1, <2>3
  <1>4. ASSUME NEW a \in StorageAddresses, Read(a)
        PROVE  FlatMemoryOfStorage!FlatRead(a)
    <2>1. \A b \in Addresses : Flat(b)' = Flat(b)
      BY <1>4, AccessKeepsConfiguration DEF Read, read, Flat, Place, DataAt
    <2>2. /\ a \in Addresses /\ physicalAddress' = a
          /\ packetData' = Flat(a)
      BY <1>4, AccessKeepsConfiguration DEF Read, read, Flat, StorageAddresses
    <2>3. packetData' = mem[a] /\ mem' = mem
      BY <2>1, <2>2
    <2> HIDE DEF mem
    <2> QED
      BY <1>0, <2>2, <2>3 DEF FlatMemoryOfStorage!FlatRead, FlatMemoryOfStorage!Accessed
  <1>5. ASSUME NEW a \in StorageAddresses, NEW d \in Data, Write(a, d)
        PROVE  FlatMemoryOfStorage!FlatWrite(a, d)
    <2>1. /\ Built /\ Built' /\ globals' = globals
          /\ physicalAddress' = a /\ packetData' = d /\ a \in Addresses
          /\ rowEntries' = [rowEntries EXCEPT ![Column(Place(a))] = ListAfterWrite(@, Place(a).row, d)]
      BY <1>5, AccessKeepsConfiguration DEF Write, write, StorageAddresses
    <2>2. \A b \in Addresses :
            b \in StorageAddresses => Column(Place(b)) \in DOMAIN rowEntries
      <3> SUFFICES ASSUME NEW b \in StorageAddresses
                   PROVE  Column(Place(b)) \in DOMAIN rowEntries
        OBVIOUS
      <3>1. \A f \in DOMAIN UnitsOf : addressMapping(globals, b)[f] \in 0 .. globals[UnitsOf[f]] - 1
        BY <2>1 DEF MappedInRange, Place
      <3>2. Column(addressMapping(globals, b)) \in ListsOf(globals)
        BY <3>1, PlaceHasList
      <3> QED
        BY <2>1, <3>2 DEF StorageInv, Place, Lists, ListsOf
    <2>3. \A b \in Addresses :
            Flat(b)' = IF b \in StorageAddresses
                       THEN Lookup(rowEntries'[Column(Place(b))], Place(b).row) ELSE Tracer
      BY <2>1 DEF Flat, StorageAddresses, Place, DataAt, Lookup
    <2>4. \A b \in Addresses :
            Flat(b) = IF b \in StorageAddresses
                      THEN Lookup(rowEntries[Column(Place(b))], Place(b).row) ELSE Tracer
      BY <2>1 DEF Flat, StorageAddresses, DataAt, Lookup
    <2>5. /\ Column(Place(a)) \in DOMAIN rowEntries =>
               Lookup(rowEntries'[Column(Place(a))], Place(a).row) = d
          /\ \A c \in DOMAIN rowEntries : \A row :
               c # Column(Place(a)) \/ row # Place(a).row =>
                 Lookup(rowEntries'[c], row) = Lookup(rowEntries[c], row)
      BY <2>1, WriteChangesOneList
    <2>6. Flat(a)' = d
      BY <2>1, <2>2, <2>3, <2>5
    <2>7. ASSUME NEW b \in Addresses \ {a}
          PROVE  Flat(b)' = Flat(b)
      <3>1. CASE b \in StorageAddresses
        <4>1. Column(Place(b)) # Column(Place(a)) \/ Place(b).row # Place(a).row
          BY <2>1, <2>7, <3>1, PlacesDiffer
        <4>2. Lookup(rowEntries'[Column(Place(b))], Place(b).row)
                = Lookup(rowEntries[Column(Place(b))], Place(b).row)
          BY <2>2, <2>7, <3>1, <4>1, <2>5
        <4> QED
          BY <2>3, <2>4, <3>1, <4>2
      <3>2. CASE b \notin StorageAddresses
        BY <2>3, <2>4, <3>2
      <3> QED
        BY <3>1, <3>2
    <2>8. /\ mem' = [b \in Addresses |-> mem'[b]] /\ mem = [b \in Addresses |-> mem[b]]
          /\ mem'[a] = d /\ \A b \in Addresses \ {a} : mem'[b] = mem[b]
      BY <2>1, <2>6, <2>7
    <2> HIDE DEF mem
    <2>9. mem' = [mem EXCEPT ![a] = d]
      BY <2>1, <2>8
    <2> QED
      BY <1>0, <2>1, <2>9 DEF FlatMemoryOfStorage!FlatWrite, FlatMemoryOfStorage!Accessed
  <1>6. CASE UNCHANGED memoryVars
    <2>1. /\ UNCHANGED <<packetData, physicalAddress>>
          /\ \A a \in Addresses : Flat(a)' = Flat(a)
      BY <1>6 DEF memoryVars, configVars, storageVars, Flat, Built, Place, DataAt
    <2> QED
      BY <1>1, <2>1
  <1>7. \A a \in StorageAddresses : a \in Addresses
    BY DEF StorageAddresses
  <1> HIDE DEF mem
  <1> QED
    BY <1>2, <1>3, <1>4, <1>5, <1>6, <1>7 DEF MemoryNext, FlatMemoryOfStorage!FlatNext

-----------------------------------------------------------------------------
(* The places of the storage. *)

UnitsArePowersOfTwo == \A f \in DOMAIN UnitsOf : IsPowerOfTwo(globals[UnitsOf[f]])

LEMMA GlobalsWellFormed ==
  ASSUME ConfigInv
  PROVE  WellFormed(globals)
  <1>1. Range(SchemeNames) \subseteq Schemes
    BY DEF Range, SchemeNames, Schemes
  <1>2. globals.addressMappingScheme \in Schemes
    BY <1>1 DEF ConfigInv, ConfigTypeOK
  <1>3. /\ globals.JEDEC_DATA_BUS_BITS \in Nat /\ globals.BL \in Nat
        /\ globals.NUM_BANKS \in Nat /\ globals.NUM_ROWS \in Nat /\ globals.NUM_COLS \in Nat
        /\ globals.NUM_RANKS \in Nat
    BY KeysAre DEF ConfigInv, ConfigTypeOK
  <1>4. \A f \in Fields : globals[UnitsOf[f]] \in Nat
    BY <1>3 DEF Fields, UnitsOf
  <1> QED
    BY <1>2, <1>3, <1>4 DEF WellFormed

LEMMA StorageAddress ==
  ASSUME NEW a \in StorageAddresses
  PROVE  a \in Nat /\ InStorage(globals, a)
  BY AddressAssumption DEF StorageAddresses

\* For every geometry of powers of two: the controller indexes its bank states and its
\* ranks with numbers in range, whatever the scheme.
LEMMA InRange ==
  ASSUME ConfigInv, UnitsArePowersOfTwo
  PROVE  MappedInRange
  <1>1. DOMAIN UnitsOf = Fields
    BY DEF UnitsOf, Fields
  <1>2. ASSUME NEW a \in StorageAddresses, NEW f \in DOMAIN UnitsOf
        PROVE  Place(a)[f] \in 0 .. globals[UnitsOf[f]] - 1
    BY <1>1, GlobalsWellFormed, StorageAddress, FieldInRange DEF UnitsArePowersOfTwo, Place
  <1> QED
    BY <1>2 DEF MappedInRange

LEMMA OneToOne ==
  ASSUME ConfigInv, globals.BL # 0
  PROVE  MappedOneToOne
  <1> DEFINE place == [a \in StorageAddresses |-> Place(a)]
  <1>1. ASSUME NEW a \in StorageAddresses, NEW b \in StorageAddresses, Place(a) = Place(b)
        PROVE  a = b
    BY <1>1, GlobalsWellFormed, StorageAddress, SameFieldsSameAddress DEF Place
  <1>2. \A a, b \in StorageAddresses : place[a] = place[b] => a = b
    BY <1>1
  <1> QED
    BY <1>2 DEF MappedOneToOne, IsInjective

\* For every geometry of powers of two, under each of the six schemes, the rank, the
\* bank, the row and the column that an address of the storage is mapped to exist.
THEOREM PlacesExist == MemorySpec => [](UnitsArePowersOfTwo => MappedInRange)
  <1>1. ConfigInv => (UnitsArePowersOfTwo => MappedInRange)
    BY InRange
  <1> QED
    BY <1>1, ConfigInvariance, PTL

\* For every geometry, powers of two or not, under each of the six schemes, no two
\* transactions of the storage are mapped to the same place.
THEOREM PlacesDifferAlways == MemorySpec => [](globals.BL # 0 => MappedOneToOne)
  <1>1. ConfigInv => (globals.BL # 0 => MappedOneToOne)
    BY OneToOne
  <1> QED
    BY <1>1, ConfigInvariance, PTL

\* For every word, burst and row that are powers of two, a burst no longer than a row,
\* the transactions of Schemes 4 and 6 fill a row before they leave it.
THEOREM RowsAreFilledFirst == MemorySpec => [](BurstsFillRows(globals) => RowFilledFirst)
  <1>1. ASSUME ConfigInv, BurstsFillRows(globals)
        PROVE  RowFilledFirst
    <2>1. ASSUME NEW a \in StorageAddresses, globals.addressMappingScheme \in {"Scheme4", "Scheme6"}
          PROVE  LET next == a + transactionSize(globals)
                 IN  \/ next \notin StorageAddresses
                     \/ \A f \in {"rank", "bank", "row"} : Place(next)[f] = Place(a)[f]
                     \/ Place(a).column + globals.BL = globals.NUM_COLS /\ Place(next).column = 0
      BY <1>1, <2>1, GlobalsWellFormed, StorageAddress, NextTransaction DEF Place
    <2> QED
      BY <2>1 DEF RowFilledFirst
  <1> QED
    BY <1>1, ConfigInvariance, PTL

-----------------------------------------------------------------------------
(* The types of the lists. *)

NodesOf(g) == [row : 0 .. g.NUM_ROWS - 1, data : Data]

TypedInv ==
  /\ physicalAddress \in Addresses
  /\ ~Built => DOMAIN rowEntries = {} /\ packetData = Tracer
  /\ Built /\ UnitsArePowersOfTwo =>
       /\ packetData \in Data \cup {Tracer}
       /\ \A c \in DOMAIN rowEntries : rowEntries[c] \in Seq(NodesOf(globals))

LEMMA ListTyped ==
  ASSUME NEW T, NEW list \in Seq(T), NEW row, NEW data, Node(row, data) \in T
  PROVE  ListAfterWrite(list, row, data) \in Seq(T)
  <1> DEFINE node == Node(row, data)
             k    == Found(row, list)
  <1> node \in T
    OBVIOUS
  <1> HIDE DEF node
  <1>1. CASE searchForRow(row, list) = {}
    <2>1. ListAfterWrite(list, row, data) = <<node>> \o list
      BY <1>1 DEF ListAfterWrite, node
    <2> QED
      BY <2>1
  <1>2. CASE searchForRow(row, list) # {}
    <2>1. ListAfterWrite(list, row, data) = [list EXCEPT ![k] = node]
      BY <1>2 DEF ListAfterWrite, node
    <2>2. k \in DOMAIN list
      BY <1>2, SearchResult
    <2> HIDE DEF k
    <2> QED
      BY <2>1, <2>2
  <1> QED
    BY <1>1, <1>2

\* Where a transaction of the storage lies in a built system of powers of two.
LEMMA PlaceTyped ==
  ASSUME ConfigInv, StorageInv, Built, UnitsArePowersOfTwo, NEW a \in StorageAddresses
  PROVE  /\ Column(Place(a)) \in DOMAIN rowEntries
         /\ Place(a).row \in 0 .. globals.NUM_ROWS - 1
  <1>1. \A f \in DOMAIN UnitsOf : addressMapping(globals, a)[f] \in 0 .. globals[UnitsOf[f]] - 1
    BY InRange DEF MappedInRange, Place
  <1>2. Column(addressMapping(globals, a)) \in ListsOf(globals)
    BY <1>1, PlaceHasList
  <1>3. DOMAIN rowEntries = ListsOf(globals)
    BY DEF StorageInv, Lists, ListsOf
  <1>4. "row" \in DOMAIN UnitsOf /\ UnitsOf["row"] = "NUM_ROWS"
    BY DEF UnitsOf
  <1> QED
    BY <1>1, <1>2, <1>3, <1>4 DEF Place

LEMMA TypedStep ==
  ASSUME ConfigInv, StorageInv, TypedInv, [MemoryNext]_memoryVars
  PROVE  TypedInv'
  <1>1. CASE Constructing
    BY <1>1, ConstructingKeepsStorage DEF TypedInv
  <1>2. CASE CreateRanks
    <2>1. /\ ~Built /\ UNCHANGED <<packetData, physicalAddress>>
          /\ rowEntries' = IF phase' = "built" THEN [c \in Lists |-> <<>>] ELSE rowEntries
      BY <1>2 DEF CreateRanks, CheckIfAllSet, Built
    <2>2. /\ physicalAddress' \in Addresses
          /\ DOMAIN rowEntries = {} /\ packetData' = Tracer
      BY <2>1 DEF TypedInv
    <2>3. CASE phase' = "built"
      <3>1. \A c \in DOMAIN rowEntries' : rowEntries'[c] = <<>>
        BY <2>1, <2>3
      <3>2. \A T : <<>> \in Seq(T)
        OBVIOUS
      <3> QED
        BY <2>2, <2>3, <3>1, <3>2 DEF TypedInv, Built
    <2>4. CASE phase' # "built"
      BY <2>1, <2>2, <2>4 DEF TypedInv, Built
    <2> QED
      BY <2>3, <2>4
  <1>3. ASSUME NEW a \in StorageAddresses, Access(a),
               UnitsArePowersOfTwo =>
                 /\ packetData' \in Data \cup {Tracer}
                 /\ \A c \in DOMAIN rowEntries' : rowEntries'[c] \in Seq(NodesOf(globals))
        PROVE  TypedInv'
    <2>1. Built' /\ globals' = globals /\ physicalAddress' = a
      BY <1>3, AccessKeepsConfiguration
    <2>2. a \in Addresses
      BY DEF StorageAddresses
    <2>3. (UnitsArePowersOfTwo' <=> UnitsArePowersOfTwo) /\ NodesOf(globals)' = NodesOf(globals)
      BY <2>1 DEF UnitsArePowersOfTwo, NodesOf
    <2> QED
      BY <1>3, <2>1, <2>2, <2>3 DEF TypedInv
  <1>4. ASSUME NEW a \in StorageAddresses, Read(a)
        PROVE  TypedInv'
    <2>1. /\ Access(a) /\ Built /\ rowEntries' = rowEntries
          /\ packetData' = Lookup(rowEntries[Column(Place(a))], Place(a).row)
      BY <1>4, AccessKeepsConfiguration, DataAtPlace DEF Read, read
    <2>2. ASSUME UnitsArePowersOfTwo
          PROVE  packetData' \in Data \cup {Tracer}
      <3> DEFINE list == rowEntries[Column(Place(a))]
                 row  == Place(a).row
      <3>1. list \in Seq(NodesOf(globals))
        BY <2>1, <2>2, PlaceTyped DEF TypedInv
      <3> HIDE DEF list, row
      <3>2. CASE searchForRow(row, list) = {}
        BY <2>1, <3>2 DEF Lookup, list, row
      <3>3. CASE searchForRow(row, list) # {}
        <4>1. Found(row, list) \in DOMAIN list
          BY <3>3, SearchResult
        <4>2. list[Found(row, list)] \in NodesOf(globals)
          BY <3>1, <4>1
        <4>3. list[Found(row, list)].data \in Data
          BY <4>2 DEF NodesOf
        <4> QED
          BY <2>1, <3>3, <4>3 DEF Lookup, list, row
      <3> QED
        BY <3>2, <3>3
    <2>3. UnitsArePowersOfTwo =>
            \A c \in DOMAIN rowEntries' : rowEntries'[c] \in Seq(NodesOf(globals))
      BY <2>1 DEF TypedInv
    <2> QED
      BY <1>3, <2>1, <2>2, <2>3
  <1>5. ASSUME NEW a \in StorageAddresses, NEW d \in Data, Write(a, d)
        PROVE  TypedInv'
    <2> DEFINE here == Column(Place(a))
               row  == Place(a).row
    <2>1. /\ Access(a) /\ Built /\ packetData' = d
          /\ rowEntries' = [rowEntries EXCEPT ![here] = ListAfterWrite(@, row, d)]
      BY <1>5, AccessKeepsConfiguration DEF Write, write
    <2>2. ASSUME UnitsArePowersOfTwo
          PROVE  \A c \in DOMAIN rowEntries' : rowEntries'[c] \in Seq(NodesOf(globals))
      <3>1. here \in DOMAIN rowEntries /\ row \in 0 .. globals.NUM_ROWS - 1
        BY <2>1, <2>2, PlaceTyped
      <3>2. \A c \in DOMAIN rowEntries : rowEntries[c] \in Seq(NodesOf(globals))
        BY <2>1, <2>2 DEF TypedInv
      <3> HIDE DEF here, row
      <3>3. Node(row, d) \in NodesOf(globals)
        BY <3>1 DEF Node, NodesOf
      <3>4. ListAfterWrite(rowEntries[here], row, d) \in Seq(NodesOf(globals))
        BY <3>1, <3>2, <3>3, ListTyped
      <3>5. /\ DOMAIN rowEntries' = DOMAIN rowEntries
            /\ rowEntries'[here] = ListAfterWrite(rowEntries[here], row, d)
            /\ \A c \in DOMAIN rowEntries : c # here => rowEntries'[c] = rowEntries[c]
        BY <2>1, <3>1
      <3> QED
        BY <3>2, <3>4, <3>5
    <2> QED
      BY <1>3, <2>1, <2>2
  <1>6. CASE UNCHANGED memoryVars
    <2>1. UNCHANGED <<physicalAddress, rowEntries, packetData, phase, globals>>
      BY <1>6 DEF memoryVars, configVars, storageVars
    <2> QED
      BY <2>1 DEF TypedInv, Built, UnitsArePowersOfTwo
  <1> QED
    BY <1>1, <1>2, <1>4, <1>5, <1>6 DEF MemoryNext

\* The lists of a memory of powers of two hold rows of its banks and data that were
\* written, and a read brings such data or the tracer value.
THEOREM MemoryTyped == MemorySpec => [](UnitsArePowersOfTwo => MemoryTypeOK)
  <1>1. MemoryInit => TypedInv
    BY AddressAssumption DEF MemoryInit, ConfigInit, TypedInv, Built
  <1>2. ConfigInv /\ StorageInv /\ TypedInv /\ [MemoryNext]_memoryVars => TypedInv'
    BY TypedStep
  <1>3. ASSUME ConfigInv, TypedInv, UnitsArePowersOfTwo
        PROVE  MemoryTypeOK
    <2>1. ConfigTypeOK
      BY <1>3 DEF ConfigInv
    <2> QED
      BY <1>3, <2>1 DEF TypedInv, MemoryTypeOK, NodesOf
  <1> QED
    BY <1>1, <1>2, <1>3, ConfigInvariance, StorageInvInit, StorageInvStep, PTL DEF MemorySpec

-----------------------------------------------------------------------------
(* The memory. *)

\* A system that is built has units that fill their bits, and bursts.
Addressable == Built => UnitsArePowersOfTwo /\ globals.BL # 0

\* For every geometry of powers of two and each scheme the lists are a memory: a read
\* returns what was last written to its address, whatever was written elsewhere.
THEOREM StorageImplementsMemory == MemorySpec /\ []Addressable => ImplementsFlatMemory
  <1>1. ConfigInv /\ Addressable => MappedInRange /\ MappedOneToOne
    <2>1. ConfigInv /\ Addressable /\ Built => MappedInRange /\ MappedOneToOne
      BY InRange, OneToOne DEF Addressable
    <2>2. ~Built => MappedInRange /\ MappedOneToOne
      BY DEF MappedInRange, MappedOneToOne
    <2> QED
      BY <2>1, <2>2
  <1>2. StorageInv /\ MappedInRange /\ MappedOneToOne /\ MappedInRange' /\ StorageInv'
          /\ [MemoryNext]_memoryVars
            => [FlatMemoryOfStorage!FlatNext]_(FlatMemoryOfStorage!flatVars)
    BY FlatStep
  <1> QED
    BY <1>1, <1>2, FlatInitHolds, StorageInvInit, StorageInvStep, ConfigInvariance, PTL
    DEF MemorySpec, ImplementsFlatMemory, FlatMemoryOfStorage!FlatSpec
=============================================================================
