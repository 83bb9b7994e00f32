------------------------ MODULE FiniteCollectionsProofs ------------------------
(***************************************************************************)
(* Facts about numbers and recursion over them, about sums over finite     *)
(* sets, and about how often elements stand in a sequence: lemmas for the  *)
(* other proofs.                                                           *)
(***************************************************************************)
EXTENDS FiniteCollections, FiniteSetTheorems, SequenceTheorems, WellFoundedInduction, TLAPS

(* Numbers. *)

\* A nonempty set of natural numbers has a least element.
LEMMA LeastNumber ==
  ASSUME NEW S \in SUBSET Nat, S # {}
  PROVE  \E n \in S : \A m \in S : n <= m
  <1> DEFINE less == OpToRel(<, Nat)
  <1>1. less = {p \in Nat \X Nat : p[1] < p[2]}
    BY DEF OpToRel
  <1>2. IsWellFoundedOn(less, Nat)
    BY NatLessThanWellFounded
  <1> HIDE DEF less
  <1>3. PICK n \in S : \A m \in S : ~(<<m, n>> \in less)
    BY <1>2, WFMin
  <1>4. \A m \in S : ~(m < n)
    BY <1>1, <1>3
  <1> QED
    BY <1>4

LEMMA DivMod ==
  ASSUME NEW a \in Nat, NEW n \in Nat \ {0}
  PROVE  /\ a % n \in 0 .. n - 1
         /\ a \div n \in Nat /\ n * (a \div n) <= a
  BY SMT

LEMMA DivBound ==
  ASSUME NEW n \in Nat \ {0}, NEW k \in Nat \ {0}, NEW a \in 0 .. n * k - 1
  PROVE  a % n \in 0 .. n - 1 /\ a \div n \in 0 .. k - 1
  <1> DEFINE d == a \div n
  <1>1. n * k \in Nat
    OBVIOUS
  <1>2. a \in Nat /\ a < n * k
    BY <1>1
  <1>3. d \in Nat /\ n * d <= a /\ a % n \in 0 .. n - 1
    BY <1>2, DivMod
  <1> HIDE DEF d
  <1>4. ASSUME d >= k PROVE FALSE
    <2>1. n * d >= n * k
      BY <1>3, <1>4
    <2> QED
      BY <2>1, <1>1, <1>2, <1>3
  <1> QED
    BY <1>3, <1>4 DEF d

LEMMA DivModExact ==
  ASSUME NEW a \in Nat, NEW n \in Nat \ {0}
  PROVE  a = n * (a \div n) + (a % n)
  BY SMT

\* A number is taken apart in one way only.
LEMMA Quotient ==
  ASSUME NEW n \in Nat \ {0}, NEW q \in Nat, NEW r \in 0 .. n - 1
  PROVE  (q * n + r) % n = r /\ (q * n + r) \div n = q
  <1> DEFINE a == q * n + r
             d == a \div n
             m == a % n
  <1>1. a \in Nat /\ q * n \in Nat
    OBVIOUS
  <1>2. d \in Nat /\ m \in 0 .. n - 1 /\ a = d * n + m
    <2>1. a = n * d + m /\ d \in Nat /\ m \in 0 .. n - 1
      BY <1>1, DivMod, DivModExact
    <2> HIDE DEF d, m
    <2>2. n * d = d * n
      BY <2>1
    <2> QED
      BY <2>1, <2>2
  <1> HIDE DEF d, m
  <1>3. a = q * n + r
    OBVIOUS
  <1> HIDE DEF a
  <1>4. ASSUME d < q PROVE FALSE
    <2>1. (d + 1) * n <= q * n /\ (d + 1) * n = d * n + n
      BY <1>2, <1>4, SMT
    <2> QED
      BY <2>1, <1>1, <1>2, <1>3
  <1>5. ASSUME q < d PROVE FALSE
    <2>1. (q + 1) * n <= d * n /\ (q + 1) * n = q * n + n
      BY <1>2, <1>5, SMT
    <2> QED
      BY <2>1, <1>1, <1>2, <1>3
  <1>6. d = q /\ m = r
    BY <1>2, <1>3, <1>4, <1>5
  <1> QED
    BY <1>6 DEF a, d, m

\* and two numbers with the same parts are the same.
LEMMA SamePair ==
  ASSUME NEW n \in Nat \ {0}, NEW a \in Nat, NEW b \in Nat,
         a % n = b % n, a \div n = b \div n
  PROVE  a = b
  BY DivModExact

\* A function may be defined by recursion to smaller numbers.
LEMMA RecursionDown ==
  ASSUME NEW below \in [Nat -> Nat], NEW step \in [Nat -> Nat], NEW b \in Nat \ {0}, NEW c \in Nat,
         \A n \in Nat : n >= b => below[n] < n
  PROVE  \E f \in [Nat -> Nat] :
           \A n \in Nat : f[n] = IF n < b THEN c ELSE step[f[below[n]]]
  <1> DEFINE Value(f, n) == IF n < b THEN c ELSE step[f[below[n]]]
             UpTo(m, f)  == f \in [0 .. m -> Nat] /\ \A n \in 0 .. m : f[n] = Value(f, n)
  <1>1. ASSUME NEW n \in Nat, n >= b
        PROVE  below[n] \in 0 .. n - 1
    BY <1>1
  <1>2. ASSUME NEW m \in Nat, NEW k \in Nat, NEW f, NEW g, UpTo(m, f), UpTo(k, g), m <= k
        PROVE  \A n \in 0 .. m : f[n] = g[n]
    <2> DEFINE Bad == {n \in 0 .. m : f[n] # g[n]}
    <2> SUFFICES ASSUME Bad # {}
                 PROVE  FALSE
      OBVIOUS
    <2>1. Bad \in SUBSET Nat
      OBVIOUS
    <2>2. PICK n \in Bad : \A i \in Bad : n <= i
      <3> HIDE DEF Bad
      <3> QED
        BY <2>1, LeastNumber
    <2>3. n \in 0 .. m /\ n \in 0 .. k /\ n \in Nat /\ f[n] # g[n]
      BY <2>2, <1>2
    <2>4. n >= b
      BY <2>3, <1>2
    <2>5. below[n] \in 0 .. n - 1
      BY <2>3, <2>4, <1>1
    <2>6. f[below[n]] = g[below[n]]
      BY <2>2, <2>3, <2>5
    <2> QED
      BY <2>3, <2>6, <1>2
  <1>3. ASSUME NEW m \in Nat
        PROVE  \E f : UpTo(m, f)
    <2> DEFINE Bad == {k \in Nat : ~\E f : UpTo(k, f)}
    <2> SUFFICES ASSUME Bad # {}
                 PROVE  FALSE
      BY <1>3
    <2>1. PICK k \in Bad : \A i \in Bad : k <= i
      <3> HIDE DEF UpTo
      <3>1. Bad \in SUBSET Nat
        OBVIOUS
      <3> HIDE DEF Bad
      <3> QED
        BY <3>1, LeastNumber
    <2>2. k \in Nat /\ ~\E f : UpTo(k, f)
      BY <2>1
    <2>3. k # 0
      <3> DEFINE f == [n \in 0 .. 0 |-> c]
      <3>1. f \in [0 .. 0 -> Nat] /\ \A n \in 0 .. 0 : f[n] = Value(f, n)
        OBVIOUS
      <3> HIDE DEF f
      <3> QED
        BY <3>1, <2>2
    <2>4. k - 1 \in Nat /\ k - 1 \notin Bad
      <3> HIDE DEF Bad
      <3> QED
        BY <2>1, <2>2, <2>3
    <2>5. PICK f : UpTo(k - 1, f)
      BY <2>4
    <2> DEFINE g == [n \in 0 .. k |-> IF n = k THEN Value(f, k) ELSE f[n]]
    <2> HIDE DEF Bad
    <2>6. \A n \in 0 .. k - 1 : n \in Nat /\ n \in 0 .. k /\ n # k
      BY <2>2
    <2>7. \A n \in 0 .. k - 1 : f[n] \in Nat /\ f[n] = Value(f, n)
      BY <2>5
    <2>8. /\ DOMAIN g = 0 .. k /\ g = [n \in 0 .. k |-> g[n]]
          /\ g[k] = Value(f, k)
          /\ \A n \in 0 .. k - 1 : g[n] = f[n]
      <3> HIDE DEF Value
      <3> QED
        BY <2>2, <2>6
    <2> HIDE DEF g
    <2>9. ASSUME NEW n \in 0 .. k
          PROVE  Value(f, n) \in Nat /\ Value(g, n) = Value(f, n)
      <3>0. n \in Nat /\ n <= k
        BY <2>2
      <3>1. CASE n < b
        BY <3>1
      <3>2. CASE ~(n < b)
        <4>1. below[n] \in 0 .. n - 1
          BY <3>0, <3>2, <1>1
        <4>2. below[n] \in 0 .. k - 1
          BY <2>2, <3>0, <4>1
        <4>3. g[below[n]] = f[below[n]] /\ f[below[n]] \in Nat
          BY <4>2, <2>7, <2>8
        <4> QED
          BY <3>2, <4>3
      <3> QED
        BY <3>1, <3>2
    <2> HIDE DEF Value
    <2>10. ASSUME NEW n \in 0 .. k
           PROVE  g[n] \in Nat /\ g[n] = Value(g, n)
      <3>1. CASE n = k
        BY <3>1, <2>8, <2>9
      <3>2. CASE n # k
        <4>1. n \in 0 .. k - 1
          BY <3>2, <2>2
        <4> QED
          BY <4>1, <2>7, <2>8, <2>9
      <3> QED
        BY <3>1, <3>2
    <2>11. g \in [0 .. k -> Nat]
      BY <2>8, <2>10
    <2> QED
      BY <2>2, <2>10, <2>11
  <1> DEFINE part(n) == CHOOSE f : UpTo(n, f)
             F == [n \in Nat |-> part(n)[n]]
  <1>4. \A n \in Nat : UpTo(n, part(n))
    <2> HIDE DEF UpTo
    <2> QED
      BY <1>3
  <1>5. \A n \in Nat : F[n] = part(n)[n]
    OBVIOUS
  <1> HIDE DEF part
  <1>6. F \in [Nat -> Nat]
    BY <1>4
  <1> HIDE DEF F
  <1>7. ASSUME NEW n \in Nat
        PROVE  F[n] = Value(F, n)
    <2>1. UpTo(n, part(n)) /\ F[n] = part(n)[n]
      BY <1>4, <1>5
    <2>2. F[n] = Value(part(n), n)
      BY <2>1
    <2>3. CASE n >= b
      <3>1. below[n] \in Nat /\ below[n] \in 0 .. n /\ below[n] <= n
        BY <2>3, <1>1
      <3>2. UpTo(below[n], part(below[n])) /\ F[below[n]] = part(below[n])[below[n]]
        BY <3>1, <1>4, <1>5
      <3>3. PICK m, f, g :
                /\ m \in Nat /\ m = below[n] /\ f = part(m) /\ g = part(n)
                /\ UpTo(m, f) /\ UpTo(n, g) /\ m <= n
        <4> HIDE DEF UpTo
        <4> QED
          BY <3>1, <3>2, <2>1, Zenon
      <3>4. part(below[n])[below[n]] = part(n)[below[n]]
        <4>1. \A i \in 0 .. m : f[i] = g[i]
          <5> HIDE DEF UpTo
          <5> QED
            BY <3>3, <1>2
        <4>2. m \in 0 .. m
          BY <3>3
        <4> QED
          BY <4>1, <4>2, <3>3
      <3> QED
        BY <2>2, <3>2, <3>4
    <2>4. CASE n < b
      BY <2>2, <2>4
    <2> QED
      BY <2>3, <2>4
  <1> QED
    BY <1>6, <1>7

\* Min returns it.
LEMMA MinFacts ==
  ASSUME NEW S \in SUBSET Nat, S # {}
  PROVE  Min(S) \in S /\ \A m \in S : Min(S) <= m
  BY LeastNumber DEF Min

-----------------------------------------------------------------------------
(* What Total is, for every function and every finite set: any element can be *)
(* taken out, equal summands have equal sums, parts add up.  The library       *)
(* defines the sum by a recursion along chosen elements.  Each fact is proved  *)
(* by descent: among the subsets for which it failed there would be a smallest.*)

Choice(s) == CHOOSE x \in s : TRUE

SumsUp(g, f, S) ==
  g = [s \in SUBSET S |-> IF s = {} THEN 0 ELSE f[Choice(s)] + g[s \ {Choice(s)}]]

LEMMA TotalDefinition ==
  ASSUME NEW f, NEW S
  PROVE  Total(f, S) = (CHOOSE g : SumsUp(g, f, S))[S]
  BY DEF Total, MapThenSumSet, MapThenFoldSet, SumsUp, Choice

LEMMA SmallestSet ==
  ASSUME NEW S, IsFiniteSet(S), NEW B \in SUBSET SUBSET S, B # {}
  PROVE  \E T \in B : \A U \in SUBSET T : U \in B => U = T
  <1>1. B \subseteq FiniteSubsetsOf(S)
    BY FS_Subset DEF FiniteSubsetsOf
  <1>2. PICK T \in B : \A U \in B : ~(<<U, T>> \in StrictSubsetOrdering(S))
    BY <1>1, FS_StrictSubsetOrderingWellFounded, WFMin
  <1>3. \A U \in SUBSET T : U \in B /\ U # T => <<U, T>> \in StrictSubsetOrdering(S)
    BY DEF StrictSubsetOrdering
  <1> SUFFICES ASSUME NEW U \in SUBSET T, U \in B, U # T
               PROVE  FALSE
    OBVIOUS
  <1> QED
    BY <1>2, <1>3

\* A recursion along the same elements has one solution.
LEMMA SumsUpUnique ==
  ASSUME NEW f, NEW S, IsFiniteSet(S), NEW T, IsFiniteSet(T), NEW g, NEW h,
         SumsUp(g, f, S), SumsUp(h, f, T),
         NEW u \in SUBSET (S \cap T)
  PROVE  g[u] = h[u]
  <1> DEFINE B == {s \in SUBSET (S \cap T) : g[s] # h[s]}
  <1> SUFFICES ASSUME B # {}
               PROVE  FALSE
    OBVIOUS
  <1>1. IsFiniteSet(S \cap T)
    BY FS_Subset
  <1>2. PICK s \in B : \A v \in SUBSET s : v \in B => v = s
    <2>1. B \in SUBSET SUBSET (S \cap T)
      OBVIOUS
    <2> HIDE DEF B
    <2> QED
      BY <1>1, <2>1, SmallestSet
  <1>3. /\ s \in SUBSET S /\ s \in SUBSET T
        /\ g[s] = IF s = {} THEN 0 ELSE f[Choice(s)] + g[s \ {Choice(s)}]
        /\ h[s] = IF s = {} THEN 0 ELSE f[Choice(s)] + h[s \ {Choice(s)}]
    BY DEF SumsUp
  <1>4. s # {} /\ Choice(s) \in s
    BY <1>3 DEF Choice
  <1>5. s \ {Choice(s)} \in SUBSET (S \cap T) /\ s \ {Choice(s)} # s
    BY <1>3, <1>4
  <1>6. g[s \ {Choice(s)}] = h[s \ {Choice(s)}]
    BY <1>2, <1>5
  <1> QED
    BY <1>3, <1>4, <1>6

\* What is summed up for a subset is the subset's own sum.
LEMMA TotalOfSubset ==
  ASSUME NEW f, NEW S, IsFiniteSet(S), NEW g, SumsUp(g, f, S),
         NEW T \in SUBSET S, \E h : SumsUp(h, f, T)
  PROVE  Total(f, T) = g[T]
  <1> DEFINE h == CHOOSE k : SumsUp(k, f, T)
  <1>1. SumsUp(h, f, T)
    OBVIOUS
  <1>2. IsFiniteSet(T)
    BY FS_Subset
  <1>3. T \in SUBSET (T \cap S)
    OBVIOUS
  <1>4. Total(f, T) = h[T]
    BY TotalDefinition
  <1> HIDE DEF h
  <1> QED
    BY <1>1, <1>2, <1>3, <1>4, SumsUpUnique

LEMMA SumsUpExists ==
  ASSUME NEW f, NEW S, IsFiniteSet(S)
  PROVE  \E g : SumsUp(g, f, S)
  <1> DEFINE B == {T \in SUBSET S : ~ \E g : SumsUp(g, f, T)}
  <1> SUFFICES ASSUME B # {}
               PROVE  FALSE
    OBVIOUS
  <1>1. PICK T \in B : \A U \in SUBSET T : U \in B => U = T
    <2>1. B \in SUBSET SUBSET S
      OBVIOUS
    <2> HIDE DEF B
    <2> QED
      BY <2>1, SmallestSet
  <1>2. \A U \in SUBSET T : U # T => \E g : SumsUp(g, f, U)
    BY <1>1
  <1> DEFINE g == [s \in SUBSET T |-> IF s = {} THEN 0 ELSE f[Choice(s)] + Total(f, s \ {Choice(s)})]
  <1>3. ASSUME NEW s \in SUBSET T, s # {}
        PROVE  g[s \ {Choice(s)}] = Total(f, s \ {Choice(s)})
    <2> DEFINE u == s \ {Choice(s)}
    <2>1. Choice(s) \in s
      BY <1>3 DEF Choice
    <2>2. u \in SUBSET T /\ u # T
      BY <2>1
    <2>3. PICK h : SumsUp(h, f, u)
      BY <1>2, <2>2
    <2>4. IsFiniteSet(u)
      BY <2>2, FS_Subset
    <2>5. Total(f, u) = h[u]
      BY <2>3, <2>4, TotalOfSubset
    <2>6. h[u] = IF u = {} THEN 0 ELSE f[Choice(u)] + h[u \ {Choice(u)}]
      BY <2>3 DEF SumsUp
    <2>7. ASSUME u # {}
          PROVE  Total(f, u \ {Choice(u)}) = h[u \ {Choice(u)}]
      <3>1. u \ {Choice(u)} \in SUBSET u /\ u \ {Choice(u)} \in SUBSET T /\ u \ {Choice(u)} # T
        BY <2>2
      <3>2. \E k : SumsUp(k, f, u \ {Choice(u)})
        BY <1>2, <3>1
      <3> QED
        BY <2>3, <2>4, <3>1, <3>2, TotalOfSubset
    <2>8. g[u] = IF u = {} THEN 0 ELSE f[Choice(u)] + Total(f, u \ {Choice(u)})
      BY <2>2
    <2> HIDE DEF u, g
    <2>9. g[u] = Total(f, u)
      BY <2>5, <2>6, <2>7, <2>8
    <2> QED
      BY <2>9 DEF u
  <1>4. g = [s \in SUBSET T |-> IF s = {} THEN 0 ELSE f[Choice(s)] + g[s \ {Choice(s)}]]
    <2> DEFINE e == [s \in SUBSET T |-> IF s = {} THEN 0 ELSE f[Choice(s)] + g[s \ {Choice(s)}]]
    <2>1. ASSUME NEW s \in SUBSET T
          PROVE  g[s] = IF s = {} THEN 0 ELSE f[Choice(s)] + g[s \ {Choice(s)}]
      <3>1. g[s] = IF s = {} THEN 0 ELSE f[Choice(s)] + Total(f, s \ {Choice(s)})
        OBVIOUS
      <3> HIDE DEF g
      <3> QED
        BY <1>3, <3>1
    <2>2. g = [s \in SUBSET T |-> g[s]]
      OBVIOUS
    <2> HIDE DEF g
    <2> QED
      BY <2>1, <2>2
  <1> HIDE DEF g
  <1>5. SumsUp(g, f, T)
    BY <1>4 DEF SumsUp
  <1> QED
    BY <1>5

LEMMA TotalStep ==
  ASSUME NEW f, NEW S, IsFiniteSet(S)
  PROVE  Total(f, S) = IF S = {} THEN 0 ELSE f[Choice(S)] + Total(f, S \ {Choice(S)})
  <1>1. PICK g : SumsUp(g, f, S)
    BY SumsUpExists
  <1>2. g[S] = IF S = {} THEN 0 ELSE f[Choice(S)] + g[S \ {Choice(S)}]
    BY <1>1 DEF SumsUp
  <1>3. ASSUME NEW T \in SUBSET S
        PROVE  Total(f, T) = g[T]
    <2>1. \E h : SumsUp(h, f, T)
      BY FS_Subset, SumsUpExists
    <2> QED
      BY <1>1, <2>1, TotalOfSubset
  <1>4. Total(f, S) = g[S] /\ Total(f, S \ {Choice(S)}) = g[S \ {Choice(S)}]
    BY <1>3
  <1> QED
    BY <1>2, <1>4

LEMMA TotalType ==
  ASSUME NEW S, IsFiniteSet(S), NEW f, \A x \in S : f[x] \in Nat
  PROVE  Total(f, S) \in Nat
  <1> DEFINE B == {T \in SUBSET S : Total(f, T) \notin Nat}
  <1> SUFFICES ASSUME B # {}
               PROVE  FALSE
    OBVIOUS
  <1>1. PICK T \in B : \A U \in SUBSET T : U \in B => U = T
    <2>1. B \in SUBSET SUBSET S
      OBVIOUS
    <2> HIDE DEF B
    <2> QED
      BY <2>1, SmallestSet
  <1>2. Total(f, T) = IF T = {} THEN 0 ELSE f[Choice(T)] + Total(f, T \ {Choice(T)})
    BY FS_Subset, TotalStep
  <1>3. T # {} => Choice(T) \in T
    BY DEF Choice
  <1>4. T # {} => Total(f, T \ {Choice(T)}) \in Nat
    BY <1>1, <1>3
  <1> QED
    BY <1>2, <1>3, <1>4

\* Any element can be taken out of a sum.
LEMMA TotalTakeOut ==
  ASSUME NEW S, IsFiniteSet(S), NEW f, \A x \in S : f[x] \in Nat, NEW x \in S
  PROVE  Total(f, S) = f[x] + Total(f, S \ {x})
  <1> DEFINE B == {T \in SUBSET S : \E y \in T : Total(f, T) # f[y] + Total(f, T \ {y})}
  <1> SUFFICES ASSUME B # {}
               PROVE  FALSE
    OBVIOUS
  <1>1. PICK T \in B : \A U \in SUBSET T : U \in B => U = T
    <2>1. B \in SUBSET SUBSET S
      OBVIOUS
    <2> HIDE DEF B
    <2> QED
      BY <2>1, SmallestSet
  <1>2. \A U \in SUBSET T : U # T => \A y \in U : Total(f, U) = f[y] + Total(f, U \ {y})
    BY <1>1
  <1>3. PICK y \in T : Total(f, T) # f[y] + Total(f, T \ {y})
    OBVIOUS
  <1> DEFINE c == Choice(T)
  <1>4. c \in T /\ T \in SUBSET S
    BY <1>3 DEF Choice
  <1>5. IsFiniteSet(T) /\ IsFiniteSet((T \ {y}) \ {c})
    BY FS_Subset
  <1>6. Total(f, T) = f[c] + Total(f, T \ {c})
    BY <1>3, <1>5, TotalStep
  <1> HIDE DEF B, c
  <1>7. c # y
    BY <1>3, <1>6
  <1>8. Total(f, T \ {c}) = f[y] + Total(f, (T \ {c}) \ {y})
    <2>1. T \ {c} \in SUBSET T /\ T \ {c} # T /\ y \in T \ {c}
      BY <1>4, <1>7
    <2> QED
      BY <1>2, <2>1
  <1>9. Total(f, T \ {y}) = f[c] + Total(f, (T \ {y}) \ {c})
    <2>1. T \ {y} \in SUBSET T /\ T \ {y} # T /\ c \in T \ {y}
      BY <1>4, <1>7
    <2> QED
      BY <1>2, <2>1
  <1>10. (T \ {c}) \ {y} = (T \ {y}) \ {c}
    OBVIOUS
  <1>11. f[c] \in Nat /\ f[y] \in Nat /\ Total(f, (T \ {y}) \ {c}) \in Nat
    <2>1. \A z \in (T \ {y}) \ {c} : f[z] \in Nat
      BY <1>4
    <2> QED
      BY <1>4, <1>5, <2>1, TotalType
  <1>12. f[c] + (f[y] + Total(f, (T \ {y}) \ {c})) = f[y] + (f[c] + Total(f, (T \ {y}) \ {c}))
    BY <1>11
  <1> QED
    BY <1>3, <1>6, <1>8, <1>9, <1>10, <1>12

LEMMA TotalEmpty ==
  ASSUME NEW f
  PROVE  Total(f, {}) = 0
  BY FS_EmptySet, TotalStep

\* Sums are added pointwise.
LEMMA TotalAdds ==
  ASSUME NEW S, IsFiniteSet(S), NEW f, NEW g, NEW h,
         \A x \in S : f[x] \in Nat /\ g[x] \in Nat /\ h[x] = f[x] + g[x]
  PROVE  Total(h, S) = Total(f, S) + Total(g, S)
  <1> DEFINE B == {T \in SUBSET S : Total(h, T) # Total(f, T) + Total(g, T)}
  <1> SUFFICES ASSUME B # {}
               PROVE  FALSE
    OBVIOUS
  <1>1. PICK T \in B : \A U \in SUBSET T : U \in B => U = T
    <2>1. B \in SUBSET SUBSET S
      OBVIOUS
    <2> HIDE DEF B
    <2> QED
      BY <2>1, SmallestSet
  <1>2. T # {}
    <2>1. Total(h, {}) = Total(f, {}) + Total(g, {})
      <3>1. Total(h, {}) = 0 /\ Total(f, {}) = 0 /\ Total(g, {}) = 0
        BY TotalEmpty
      <3> QED
        BY <3>1
    <2>2. Total(h, T) # Total(f, T) + Total(g, T)
      OBVIOUS
    <2> HIDE DEF B
    <2> QED
      BY <2>1, <2>2
  <1>3. PICK x \in T : TRUE
    BY <1>2
  <1>4. IsFiniteSet(T) /\ IsFiniteSet(T \ {x})
    BY FS_Subset
  <1>5. f[x] \in Nat /\ g[x] \in Nat /\ h[x] = f[x] + g[x]
    OBVIOUS
  <1>6. \A y \in T : f[y] \in Nat /\ g[y] \in Nat /\ h[y] \in Nat
    OBVIOUS
  <1>7. Total(h, T \ {x}) = Total(f, T \ {x}) + Total(g, T \ {x})
    BY <1>1
  <1>8. Total(f, T \ {x}) \in Nat /\ Total(g, T \ {x}) \in Nat
    BY <1>4, <1>6, TotalType
  <1>9. /\ Total(f, T) = f[x] + Total(f, T \ {x}) /\ Total(g, T) = g[x] + Total(g, T \ {x})
        /\ Total(h, T) = h[x] + Total(h, T \ {x})
    BY <1>4, <1>6, TotalTakeOut
  <1> HIDE DEF B
  <1>10. Total(h, T) = Total(f, T) + Total(g, T)
    BY <1>5, <1>7, <1>8, <1>9
  <1> QED
    BY <1>10 DEF B

LEMMA TotalOfZeros ==
  ASSUME NEW S, IsFiniteSet(S), NEW f, \A x \in S : f[x] = 0
  PROVE  Total(f, S) = 0
  <1>1. Total(f, S) = Total(f, S) + Total(f, S)
    BY TotalAdds
  <1>2. Total(f, S) \in Nat
    BY TotalType
  <1>3. \A n \in Nat : n = n + n => n = 0
    OBVIOUS
  <1> QED
    BY <1>1, <1>2, <1>3

\* A sum depends on what is summed up only.
LEMMA TotalSame ==
  ASSUME NEW S, IsFiniteSet(S), NEW f, NEW g, \A x \in S : f[x] \in Nat /\ g[x] = f[x]
  PROVE  Total(g, S) = Total(f, S)
  <1> DEFINE z == [x \in S |-> 0]
  <1>1. Total(g, S) = Total(f, S) + Total(z, S)
    BY TotalAdds
  <1>2. Total(z, S) = 0
    BY TotalOfZeros
  <1>3. Total(f, S) \in Nat
    BY TotalType
  <1> QED
    BY <1>1, <1>2, <1>3

\* One summand grows.
LEMMA TotalGrows ==
  ASSUME NEW S, IsFiniteSet(S), NEW f, NEW g, NEW x \in S, NEW n \in Nat,
         \A y \in S : f[y] \in Nat /\ g[y] = IF y = x THEN f[y] + n ELSE f[y]
  PROVE  Total(g, S) = Total(f, S) + n
  <1>1. IsFiniteSet(S \ {x})
    BY FS_Subset
  <1>2. Total(g, S) = g[x] + Total(g, S \ {x}) /\ Total(f, S) = f[x] + Total(f, S \ {x})
    BY TotalTakeOut
  <1>3. Total(g, S \ {x}) = Total(f, S \ {x}) /\ Total(f, S \ {x}) \in Nat
    BY <1>1, TotalSame, TotalType
  <1>4. g[x] = f[x] + n /\ f[x] \in Nat
    OBVIOUS
  <1> QED
    BY <1>2, <1>3, <1>4

\* Smaller summands, smaller sum.
LEMMA TotalAtMost ==
  ASSUME NEW S, IsFiniteSet(S), NEW f, NEW g,
         \A x \in S : f[x] \in Nat /\ g[x] \in Nat /\ f[x] <= g[x]
  PROVE  Total(f, S) <= Total(g, S)
  <1> DEFINE d == [x \in S |-> g[x] - f[x]]
  <1>1. \A x \in S : f[x] \in Nat /\ d[x] \in Nat /\ g[x] = f[x] + d[x]
    OBVIOUS
  <1> HIDE DEF d
  <1>2. Total(g, S) = Total(f, S) + Total(d, S)
    BY <1>1, TotalAdds
  <1>3. Total(f, S) \in Nat /\ Total(d, S) \in Nat
    BY <1>1, TotalType
  <1> QED
    BY <1>2, <1>3

\* Summing up two parts.
LEMMA TotalUnion ==
  ASSUME NEW S, IsFiniteSet(S), NEW T, IsFiniteSet(T), S \cap T = {}, NEW f,
         \A x \in S \cup T : f[x] \in Nat
  PROVE  Total(f, S \cup T) = Total(f, S) + Total(f, T)
  <1> DEFINE B == {U \in SUBSET S : Total(f, U \cup T) # Total(f, U) + Total(f, T)}
  <1> SUFFICES ASSUME B # {}
               PROVE  FALSE
    OBVIOUS
  <1>1. PICK U \in B : \A V \in SUBSET U : V \in B => V = U
    <2>1. B \in SUBSET SUBSET S
      OBVIOUS
    <2> HIDE DEF B
    <2> QED
      BY <2>1, SmallestSet
  <1>2. Total(f, T) \in Nat
    BY TotalType
  <1>3. U # {}
    <2>1. {} \cup T = T
      OBVIOUS
    <2> QED
      BY <1>2, <2>1, TotalEmpty
  <1>4. PICK x \in U : TRUE
    BY <1>3
  <1>5. IsFiniteSet(U) /\ IsFiniteSet(U \ {x}) /\ IsFiniteSet(U \cup T)
    BY FS_Subset, FS_Union
  <1>6. Total(f, (U \ {x}) \cup T) = Total(f, U \ {x}) + Total(f, T)
    BY <1>1
  <1>7. (U \cup T) \ {x} = (U \ {x}) \cup T /\ x \in U \cup T
    OBVIOUS
  <1>8. Total(f, U \ {x}) \in Nat /\ f[x] \in Nat
    BY <1>5, TotalType
  <1>9. Total(f, U) = f[x] + Total(f, U \ {x})
    BY <1>5, TotalTakeOut
  <1>10. Total(f, U \cup T) = f[x] + Total(f, (U \ {x}) \cup T)
    BY <1>5, <1>7, TotalTakeOut
  <1> HIDE DEF B
  <1>11. Total(f, U \cup T) = Total(f, U) + Total(f, T)
    BY <1>2, <1>6, <1>8, <1>9, <1>10
  <1> QED
    BY <1>11 DEF B

\* Summing up part by part.
LEMMA TotalOfParts ==
  ASSUME NEW I, IsFiniteSet(I), NEW S, IsFiniteSet(S), NEW A \in [I -> SUBSET S],
         \A i, j \in I : i # j => A[i] \cap A[j] = {},
         NEW f, \A x \in S : f[x] \in Nat,
         NEW g, \A i \in I : g[i] = Total(f, A[i])
  PROVE  Total(g, I) = Total(f, UNION {A[i] : i \in I})
  <1> DEFINE Part(J) == UNION {A[i] : i \in J}
             B == {J \in SUBSET I : Total(g, J) # Total(f, Part(J))}
  <1> SUFFICES ASSUME B # {}
               PROVE  FALSE
    OBVIOUS
  <1>1. PICK J \in B : \A U \in SUBSET J : U \in B => U = J
    <2>1. B \in SUBSET SUBSET I
      OBVIOUS
    <2> HIDE DEF B
    <2> QED
      BY <2>1, SmallestSet
  <1>2. Total(g, J) # Total(f, Part(J)) /\ J \in SUBSET I
    OBVIOUS
  <1>3. \A U \in SUBSET J : U # J => Total(g, U) = Total(f, Part(U))
    BY <1>1
  <1> HIDE DEF B
  <1>4. J # {}
    <2>1. Part({}) = {}
      OBVIOUS
    <2>2. Total(g, {}) = 0 /\ Total(f, {}) = 0
      BY TotalEmpty
    <2> HIDE DEF Part
    <2> QED
      BY <1>2, <2>1, <2>2
  <1>5. PICK i \in J : TRUE
    BY <1>4
  <1>6. IsFiniteSet(J) /\ IsFiniteSet(A[i]) /\ IsFiniteSet(Part(J \ {i})) /\ Part(J \ {i}) \in SUBSET S
    <2>1. Part(J \ {i}) \in SUBSET S /\ A[i] \in SUBSET S
      BY <1>2
    <2> HIDE DEF Part
    <2> QED
      BY <1>2, <2>1, FS_Subset
  <1>7. \A j \in J : g[j] \in Nat
    <2> SUFFICES ASSUME NEW j \in J
                 PROVE  Total(f, A[j]) \in Nat
      BY <1>2
    <2>1. IsFiniteSet(A[j]) /\ \A x \in A[j] : f[x] \in Nat
      BY <1>2, FS_Subset
    <2> QED
      BY <2>1, TotalType
  <1>8. Total(g, J) = g[i] + Total(g, J \ {i})
    BY <1>6, <1>7, TotalTakeOut
  <1>9. Total(g, J \ {i}) = Total(f, Part(J \ {i}))
    <2>1. J \ {i} \in SUBSET J /\ J \ {i} # J
      OBVIOUS
    <2> HIDE DEF Part
    <2> QED
      BY <1>3, <2>1
  <1>10. Part(J) = A[i] \cup Part(J \ {i}) /\ A[i] \cap Part(J \ {i}) = {}
    BY <1>2
  <1>11. \A x \in A[i] \cup Part(J \ {i}) : f[x] \in Nat
    BY <1>2, <1>6
  <1> HIDE DEF Part
  <1>12. Total(f, A[i] \cup Part(J \ {i})) = Total(f, A[i]) + Total(f, Part(J \ {i}))
    <2> DEFINE X == A[i]
               Y == Part(J \ {i})
    <2>1. IsFiniteSet(X) /\ IsFiniteSet(Y) /\ X \cap Y = {}
      BY <1>6, <1>10
    <2>2. \A x \in X \cup Y : f[x] \in Nat
      BY <1>11
    <2> HIDE DEF X, Y
    <2>3. Total(f, X \cup Y) = Total(f, X) + Total(f, Y)
      BY <2>1, <2>2, TotalUnion
    <2> QED
      BY <2>3 DEF X, Y
  <1>13. g[i] = Total(f, A[i])
    BY <1>2
  <1> QED
    BY <1>2, <1>8, <1>9, <1>10, <1>12, <1>13

\* A sum does not depend on what its summands are called.
LEMMA TotalRenamed ==
  ASSUME NEW I, IsFiniteSet(I), NEW S, IsFiniteSet(S), NEW e \in [I -> S],
         \A i, j \in I : i # j => e[i] # e[j], \A x \in S : \E i \in I : e[i] = x,
         NEW f, \A x \in S : f[x] \in Nat, NEW g, \A i \in I : g[i] = f[e[i]]
  PROVE  Total(g, I) = Total(f, S)
  <1> DEFINE A == [i \in I |-> {e[i]}]
  <1>1. A \in [I -> SUBSET S] /\ \A i, j \in I : i # j => A[i] \cap A[j] = {}
    OBVIOUS
  <1>2. UNION {A[i] : i \in I} = S
    OBVIOUS
  <1>3. ASSUME NEW i \in I PROVE g[i] = Total(f, A[i])
    <2>1. A[i] = {e[i]} /\ {e[i]} \ {e[i]} = {}
      OBVIOUS
    <2> HIDE DEF A
    <2>2. IsFiniteSet({e[i]}) /\ f[e[i]] \in Nat
      BY FS_Singleton
    <2>3. Total(f, {e[i]}) = f[e[i]] + Total(f, {e[i]} \ {e[i]})
      <3>1. \A x \in {e[i]} : f[x] \in Nat
        BY <2>2
      <3>2. e[i] \in {e[i]}
        OBVIOUS
      <3> QED
        BY ONLY <2>2, <3>1, <3>2, TotalTakeOut
    <2>4. Total(f, {}) = 0
      BY TotalEmpty
    <2> QED
      BY <2>1, <2>2, <2>3, <2>4
  <1> HIDE DEF A
  <1> QED
    BY <1>1, <1>2, <1>3, TotalOfParts

\* Summands that are not 0 add up to at least their number.
LEMMA TotalAtLeast ==
  ASSUME NEW S, IsFiniteSet(S), NEW f, \A x \in S : f[x] \in Nat \ {0}
  PROVE  Total(f, S) >= Cardinality(S)
  <1> DEFINE B == {T \in SUBSET S : ~(Total(f, T) >= Cardinality(T))}
  <1> SUFFICES ASSUME B # {}
               PROVE  FALSE
    OBVIOUS
  <1>1. PICK T \in B : \A U \in SUBSET T : U \in B => U = T
    <2>1. B \in SUBSET SUBSET S
      OBVIOUS
    <2> HIDE DEF B
    <2> QED
      BY <2>1, SmallestSet
  <1>2. T # {}
    <2>1. Total(f, {}) = 0 /\ Cardinality({}) = 0
      BY TotalEmpty, FS_EmptySet
    <2> QED
      BY <2>1
  <1>3. PICK x \in T : TRUE
    BY <1>2
  <1>4. IsFiniteSet(T) /\ IsFiniteSet(T \ {x})
    BY FS_Subset
  <1>5. Total(f, T \ {x}) >= Cardinality(T \ {x})
    BY <1>1
  <1>6. ~(Total(f, T) >= Cardinality(T)) /\ T \in SUBSET S
    OBVIOUS
  <1> HIDE DEF B
  <1>7. Total(f, T) = f[x] + Total(f, T \ {x}) /\ Total(f, T \ {x}) \in Nat
    BY <1>4, <1>6, TotalTakeOut, TotalType
  <1>8. Cardinality(T \ {x}) = Cardinality(T) - 1 /\ Cardinality(T) \in Nat
    BY <1>4, FS_RemoveElement, FS_CardinalityType
  <1>9. f[x] \in Nat \ {0}
    BY <1>6
  <1> QED
    BY <1>5, <1>6, <1>7, <1>8, <1>9

\* A part of a sum.
LEMMA TotalOfPart ==
  ASSUME NEW S, IsFiniteSet(S), NEW f, \A x \in S : f[x] \in Nat, NEW T \in SUBSET S
  PROVE  Total(f, T) <= Total(f, S)
  <1>1. IsFiniteSet(T) /\ IsFiniteSet(S \ T) /\ T \cap (S \ T) = {} /\ T \cup (S \ T) = S
    BY FS_Subset
  <1>2. Total(f, S) = Total(f, T) + Total(f, S \ T)
    BY <1>1, TotalUnion
  <1>3. Total(f, T) \in Nat /\ Total(f, S \ T) \in Nat
    BY <1>1, TotalType
  <1> QED
    BY <1>2, <1>3

-----------------------------------------------------------------------------
(* Elements taken out of a sequence. *)

\* Removing an element moves those behind it one place to the front.
LEMMA RemoveAtFacts ==
  ASSUME NEW S, NEW q \in Seq(S), NEW i \in 1 .. Len(q)
  PROVE  /\ RemoveAt(q, i) \in Seq(S)
         /\ Len(RemoveAt(q, i)) = Len(q) - 1
         /\ \A j \in 1 .. Len(q) - 1 : RemoveAt(q, i)[j] = IF j < i THEN q[j] ELSE q[j+1]
  <1> DEFINE front == SubSeq(q, 1, i - 1)
             back  == SubSeq(q, i + 1, Len(q))
  <1>1. /\ front \in Seq(S) /\ Len(front) = i - 1
        /\ \A j \in 1 .. i - 1 : front[j] = q[j]
    BY SubSeqProperties
  <1>2. /\ back \in Seq(S) /\ Len(back) = Len(q) - i
        /\ \A j \in 1 .. Len(q) - i : back[j] = q[i+j]
    BY SubSeqProperties
  <1>3. RemoveAt(q, i) = front \o back
    BY DEF RemoveAt
  <1> HIDE DEF front, back
  <1>4. /\ front \o back \in Seq(S) /\ Len(front \o back) = Len(front) + Len(back)
        /\ \A j \in 1 .. Len(front) + Len(back) :
             (front \o back)[j] = IF j <= Len(front) THEN front[j] ELSE back[j - Len(front)]
    BY <1>1, <1>2, ConcatProperties
  <1>5. Len(q) \in Nat /\ i \in Nat /\ Len(front) + Len(back) = Len(q) - 1
    BY <1>1, <1>2
  <1>6. ASSUME NEW j \in 1 .. Len(q) - 1
        PROVE  (front \o back)[j] = IF j < i THEN q[j] ELSE q[j+1]
    <2>1. CASE j < i
      BY <1>1, <1>4, <1>5, <2>1
    <2>2. CASE j >= i
      <3>1. j - (i - 1) \in 1 .. Len(q) - i /\ i + (j - (i - 1)) = j + 1
        BY <1>5, <2>2
      <3>2. back[j - (i - 1)] = q[i + (j - (i - 1))]
        BY <1>2, <3>1
      <3>3. (front \o back)[j] = back[j - (i - 1)]
        BY <1>1, <1>4, <1>5, <2>2
      <3> QED
        BY <2>2, <3>1, <3>2, <3>3
    <2> QED
      BY <1>5, <2>1, <2>2
  <1> QED
    BY <1>3, <1>4, <1>5, <1>6

-----------------------------------------------------------------------------
(* Counting in sequences. *)

Positions(s, S) == {i \in DOMAIN s : s[i] \in S}

\* How many of s are in S.
Tally(s, S) == Cardinality(Positions(s, S))

LEMMA OneType == ASSUME NEW c PROVE One(c) \in {0, 1}
  BY DEF One

LEMMA TallyType ==
  ASSUME NEW T, NEW s \in Seq(T), NEW S
  PROVE  IsFiniteSet(Positions(s, S)) /\ Tally(s, S) \in Nat
  <1>1. Len(s) \in Nat /\ DOMAIN s = 1 .. Len(s)
    BY LenProperties
  <1>2. IsFiniteSet(1 .. Len(s))
    BY <1>1, FS_Interval
  <1>3. Positions(s, S) \in SUBSET (1 .. Len(s))
    BY <1>1 DEF Positions
  <1>4. IsFiniteSet(Positions(s, S))
    BY <1>2, <1>3, FS_Subset
  <1> QED
    BY <1>4, FS_CardinalityType DEF Tally

LEMMA TallyEmpty == ASSUME NEW S PROVE Tally(<<>>, S) = 0
  <1>1. Positions(<<>>, S) = {}
    BY DEF Positions
  <1> QED
    BY <1>1, FS_EmptySet DEF Tally

LEMMA TallyAppend ==
  ASSUME NEW T, NEW s \in Seq(T), NEW e \in T, NEW S
  PROVE  Tally(Append(s, e), S) = Tally(s, S) + One(e \in S)
  <1> DEFINE r == Append(s, e)
  <1>1. /\ Len(s) \in Nat /\ DOMAIN s = 1 .. Len(s) /\ DOMAIN r = 1 .. Len(s) + 1
        /\ \A i \in 1 .. Len(s) : r[i] = s[i]
        /\ r[Len(s) + 1] = e
    BY AppendProperties, LenProperties
  <1> HIDE DEF r
  <1>2. IsFiniteSet(Positions(s, S)) /\ Tally(s, S) \in Nat
    BY TallyType
  <1>3. Len(s) + 1 \notin Positions(s, S)
    BY <1>1 DEF Positions
  <1>4. CASE e \in S
    <2>1. Positions(r, S) = Positions(s, S) \cup {Len(s) + 1}
      BY <1>1, <1>4 DEF Positions
    <2>2. Cardinality(Positions(s, S) \cup {Len(s) + 1}) = Cardinality(Positions(s, S)) + 1
      BY <1>2, <1>3, FS_AddElement
    <2> QED
      BY <1>4, <2>1, <2>2 DEF Tally, One, r
  <1>5. CASE e \notin S
    <2>1. Positions(r, S) = Positions(s, S)
      BY <1>1, <1>5 DEF Positions
    <2> QED
      BY <1>2, <1>5, <2>1 DEF Tally, One, r
  <1> QED
    BY <1>4, <1>5

\* r is s without its element i.
IsWithout(r, s, i) ==
  /\ Len(r) = Len(s) - 1
  /\ \A j \in 1 .. Len(s) - 1 : r[j] = IF j < i THEN s[j] ELSE s[j+1]

LEMMA TallyWithout ==
  ASSUME NEW T, NEW s \in Seq(T), NEW i \in 1 .. Len(s), NEW r \in Seq(T),
         IsWithout(r, s, i), NEW S
  PROVE  Tally(s, S) = Tally(r, S) + One(s[i] \in S)
  <1> DEFINE others == Positions(s, S) \ {i}
             f      == [j \in Positions(r, S) |-> IF j < i THEN j ELSE j + 1]
  <1>1. Len(s) \in Nat /\ DOMAIN s = 1 .. Len(s) /\ DOMAIN r = 1 .. Len(s) - 1
        /\ \A j \in 1 .. Len(s) - 1 : r[j] = IF j < i THEN s[j] ELSE s[j+1]
    BY LenProperties DEF IsWithout
  <1>2. IsFiniteSet(Positions(s, S)) /\ IsFiniteSet(Positions(r, S))
        /\ Tally(s, S) \in Nat /\ Tally(r, S) \in Nat
    BY TallyType
  <1>3. f \in Bijection(Positions(r, S), others)
    <2>1. f \in [Positions(r, S) -> others]
      BY <1>1 DEF Positions
    <2>2. \A a, b \in Positions(r, S) : f[a] = f[b] => a = b
      BY <1>1 DEF Positions
    <2>3. ASSUME NEW k \in others PROVE \E j \in Positions(r, S) : f[j] = k
      <3>1. k \in 1 .. Len(s) /\ k # i /\ s[k] \in S
        BY <1>1 DEF Positions
      <3>2. CASE k < i
        <4>1. k \in 1 .. Len(s) - 1 /\ r[k] = s[k]
          BY <1>1, <3>1, <3>2
        <4>2. k \in Positions(r, S) /\ f[k] = k
          BY <1>1, <3>1, <3>2, <4>1 DEF Positions
        <4> QED
          BY <4>2
      <3>3. CASE k > i
        <4>1. k - 1 \in 1 .. Len(s) - 1 /\ r[k-1] = s[k]
          BY <1>1, <3>1, <3>3
        <4>2. k - 1 \in Positions(r, S) /\ f[k-1] = k
          BY <1>1, <3>1, <3>3, <4>1 DEF Positions
        <4> QED
          BY <4>2
      <3> QED
        BY <1>1, <3>1, <3>2, <3>3
    <2> HIDE DEF f, others
    <2> QED
      BY <2>1, <2>2, <2>3 DEF Bijection, Injection, Surjection, IsInjective
  <1> HIDE DEF f
  <1>4. Cardinality(others) = Cardinality(Positions(r, S))
    BY <1>2, <1>3, FS_Bijection DEF ExistsBijection
  <1>5. Cardinality(others) = IF s[i] \in S THEN Cardinality(Positions(s, S)) - 1
                              ELSE Cardinality(Positions(s, S))
    <2>1. i \in Positions(s, S) <=> s[i] \in S
      BY <1>1 DEF Positions
    <2> QED
      BY <1>2, <2>1, FS_RemoveElement
  <1> HIDE DEF others
  <1> QED
    BY <1>2, <1>4, <1>5 DEF Tally, One

LEMMA TallyRemoveAt ==
  ASSUME NEW T, NEW s \in Seq(T), NEW i \in 1 .. Len(s), NEW S
  PROVE  Tally(s, S) = Tally(RemoveAt(s, i), S) + One(s[i] \in S)
  <1>1. RemoveAt(s, i) \in Seq(T) /\ IsWithout(RemoveAt(s, i), s, i)
    BY RemoveAtFacts DEF IsWithout
  <1> QED
    BY <1>1, TallyWithout

LEMMA TallyTail ==
  ASSUME NEW T, NEW s \in Seq(T), s # <<>>, NEW S
  PROVE  Tally(s, S) = Tally(Tail(s), S) + One(Head(s) \in S)
  <1>1. /\ Len(s) \in Nat \ {0} /\ Tail(s) \in Seq(T) /\ Head(s) = s[1]
        /\ Len(Tail(s)) = Len(s) - 1
        /\ \A j \in 1 .. Len(s) - 1 : Tail(s)[j] = s[j+1]
    BY HeadTailProperties, EmptySeq, LenProperties
  <1>2. 1 \in 1 .. Len(s) /\ \A j \in 1 .. Len(s) - 1 : ~(j < 1)
    BY <1>1
  <1>3. IsWithout(Tail(s), s, 1)
    BY <1>1, <1>2 DEF IsWithout
  <1>4. Tally(s, S) = Tally(Tail(s), S) + One(s[1] \in S)
    <2>1. 1 \in 1 .. Len(s) /\ Tail(s) \in Seq(T)
      BY <1>1, <1>2
    <2> QED
      BY <2>1, <1>3, TallyWithout, Zenon
  <1> QED
    BY <1>1, <1>4

\* What is in S is counted.
LEMMA TallySome ==
  ASSUME NEW T, NEW s \in Seq(T), NEW i \in 1 .. Len(s), NEW S, s[i] \in S
  PROVE  Tally(s, S) > 0
  <1>1. i \in Positions(s, S)
    BY LenProperties DEF Positions
  <1>2. IsFiniteSet(Positions(s, S)) /\ Tally(s, S) \in Nat
    BY TallyType
  <1>3. Tally(s, S) # 0
    BY <1>1, <1>2, FS_EmptySet DEF Tally
  <1> QED
    BY <1>2, <1>3

LEMMA TallyNone ==
  ASSUME NEW T, NEW s \in Seq(T), NEW S, \A i \in 1 .. Len(s) : s[i] \notin S
  PROVE  Tally(s, S) = 0
  <1>1. Positions(s, S) = {}
    BY LenProperties DEF Positions
  <1> QED
    BY <1>1, FS_EmptySet DEF Tally

\* Sequences that have the same elements of S at the same places.
LEMMA TallySame ==
  ASSUME NEW s, NEW r, NEW S, DOMAIN r = DOMAIN s,
         \A i \in DOMAIN s : r[i] \in S <=> s[i] \in S
  PROVE  Tally(r, S) = Tally(s, S)
  <1>1. Positions(r, S) = Positions(s, S)
    BY DEF Positions
  <1> QED
    BY <1>1 DEF Tally

-----------------------------------------------------------------------------
(* Sets of numbers in order. *)

\* The numbers in S in increasing order, n of them.
Enumerates(e, n, S) ==
  /\ e \in [1 .. n -> S]
  /\ \A i, j \in 1 .. n : i < j => e[i] < e[j]

EnumeratesAll(e, n, S) == Enumerates(e, n, S) /\ \A x \in S : \E i \in 1 .. n : e[i] = x

\* Numbers from 1 to n that increase n times are 1 to n.
LEMMA IncreasingIsIdentity ==
  ASSUME NEW n \in Nat, NEW g, Enumerates(g, n, 1 .. n)
  PROVE  \A i \in 1 .. n : g[i] = i
  <1> DEFINE Low  == {i \in 1 .. n : g[i] < i}
             High == {k \in 0 .. n - 1 : g[n-k] > n - k}
  <1>1. /\ \A i \in 1 .. n : g[i] \in 1 .. n
        /\ \A i, j \in 1 .. n : i < j => g[i] < g[j]
    BY DEF Enumerates
  <1>2. Low = {}
    <2> SUFFICES ASSUME Low # {}
                 PROVE  FALSE
      OBVIOUS
    <2>1. PICK i \in Low : \A j \in Low : i <= j
      <3>1. 1 .. n \subseteq Nat /\ Low \subseteq 1 .. n
        OBVIOUS
      <3> HIDE DEF Low
      <3> QED
        BY <3>1, LeastNumber
    <2>2. i \in 1 .. n /\ g[i] < i /\ g[i] \in 1 .. n
      BY <1>1
    <2>3. i - 1 \in 1 .. n /\ i - 1 < i
      BY <2>2
    <2>4. g[i-1] < g[i] /\ g[i-1] \in 1 .. n
      BY <1>1, <2>2, <2>3
    <2>5. i - 1 \in Low
      BY <2>2, <2>3, <2>4
    <2> QED
      BY <2>1, <2>3, <2>5
  <1>3. High = {}
    <2> SUFFICES ASSUME High # {}
                 PROVE  FALSE
      OBVIOUS
    <2>1. PICK k \in High : \A j \in High : k <= j
      <3>1. 0 .. n - 1 \subseteq Nat /\ High \subseteq 0 .. n - 1
        OBVIOUS
      <3> HIDE DEF High
      <3> QED
        BY <3>1, LeastNumber
    <2>2. k \in 0 .. n - 1 /\ n - k \in 1 .. n /\ g[n-k] > n - k /\ g[n-k] \in 1 .. n
      BY <1>1
    <2>3. k - 1 \in 0 .. n - 1 /\ n - (k - 1) \in 1 .. n /\ n - k < n - (k - 1)
      BY <2>2
    <2>4. g[n-k] < g[n-(k-1)] /\ g[n-(k-1)] \in 1 .. n /\ g[n-k] \in 1 .. n
      BY <1>1, <2>2, <2>3
    <2>5. k - 1 \in High
      BY <2>2, <2>3, <2>4
    <2> QED
      BY <2>1, <2>2, <2>5
  <1>4. ASSUME NEW i \in 1 .. n
        PROVE  g[i] = i
    <2>1. ~(g[i] < i)
      BY <1>2
    <2>2. n - i \in 0 .. n - 1 /\ n - (n - i) = i
      OBVIOUS
    <2>3. ~(g[n-(n-i)] > n - (n - i))
      BY <1>3, <2>2
    <2>4. g[i] \in 1 .. n
      BY <1>1
    <2> QED
      BY <2>1, <2>2, <2>3, <2>4
  <1> QED
    BY <1>4

\* There is one way to put numbers in order.
LEMMA OneOrder ==
  ASSUME NEW S \in SUBSET Nat, NEW n \in Nat, NEW e, EnumeratesAll(e, n, S),
         NEW f, Enumerates(f, n, S)
  PROVE  f = e
  <1> DEFINE g == [i \in 1 .. n |-> CHOOSE j \in 1 .. n : e[j] = f[i]]
  <1>1. /\ e \in [1 .. n -> S] /\ f \in [1 .. n -> S]
        /\ \A i, j \in 1 .. n : i < j => e[i] < e[j]
        /\ \A i, j \in 1 .. n : i < j => f[i] < f[j]
        /\ \A x \in S : \E i \in 1 .. n : e[i] = x
    BY DEF EnumeratesAll, Enumerates
  <1>2. \A i \in 1 .. n : g[i] \in 1 .. n /\ e[g[i]] = f[i]
    <2> SUFFICES ASSUME NEW i \in 1 .. n
                 PROVE  g[i] \in 1 .. n /\ e[g[i]] = f[i]
      OBVIOUS
    <2>1. \E j \in 1 .. n : e[j] = f[i]
      BY <1>1
    <2> QED
      BY <2>1
  <1>3. g \in [1 .. n -> 1 .. n]
    BY <1>2
  <1> HIDE DEF g
  <1>4. ASSUME NEW i \in 1 .. n, NEW j \in 1 .. n, i < j
        PROVE  g[i] < g[j]
    <2>1. f[i] < f[j] /\ f[i] \in Nat /\ f[j] \in Nat
      BY <1>1, <1>4
    <2>2. g[i] \in 1 .. n /\ g[j] \in 1 .. n /\ e[g[i]] = f[i] /\ e[g[j]] = f[j]
      BY <1>2
    <2>3. g[j] < g[i] => e[g[j]] < e[g[i]]
      BY <1>1, <2>2
    <2>4. g[i] # g[j]
      BY <2>1, <2>2
    <2> QED
      BY <2>1, <2>2, <2>3, <2>4
  <1>5. \A i \in 1 .. n : g[i] = i
    BY <1>3, <1>4, IncreasingIsIdentity DEF Enumerates
  <1>6. \A i \in 1 .. n : f[i] = e[i]
    BY <1>2, <1>5
  <1> QED
    BY <1>1, <1>6

LEMMA InOrderFacts ==
  ASSUME NEW S \in SUBSET Nat, NEW n \in Nat, NEW e, EnumeratesAll(e, n, S)
  PROVE  IsFiniteSet(S) /\ Cardinality(S) = n /\ InOrder(S) = e
  <1>1. /\ e \in [1 .. n -> S] /\ Enumerates(e, n, S)
        /\ \A i, j \in 1 .. n : i < j => e[i] < e[j]
        /\ \A x \in S : \E i \in 1 .. n : e[i] = x
    BY DEF EnumeratesAll, Enumerates
  <1>2. e \in Bijection(1 .. n, S)
    <2>1. ASSUME NEW i \in 1 .. n, NEW j \in 1 .. n, e[i] = e[j]
          PROVE  i = j
      <3>1. e[i] \in Nat
        BY <1>1
      <3>2. ~(e[i] < e[j]) /\ ~(e[j] < e[i])
        BY <2>1, <3>1
      <3> QED
        BY <1>1, <3>2
    <2> QED
      BY <1>1, <2>1 DEF Bijection, Injection, Surjection, IsInjective
  <1>3. IsFiniteSet(1 .. n) /\ Cardinality(1 .. n) = n
    BY FS_Interval
  <1>4. IsFiniteSet(S) /\ Cardinality(S) = n
    BY <1>2, <1>3, FS_Bijection DEF ExistsBijection
  <1> DEFINE Orders(f) == f \in [1 .. Cardinality(S) -> S] /\ \A i, j \in DOMAIN f : i < j => f[i] < f[j]
  <1>5. \A f : Orders(f) <=> Enumerates(f, n, S)
    BY <1>4 DEF Enumerates
  <1>6. InOrder(S) = CHOOSE f : Orders(f)
    BY DEF InOrder
  <1> HIDE DEF Orders
  <1>7. Orders(InOrder(S))
    BY <1>1, <1>5, <1>6
  <1> QED
    BY <1>4, <1>5, <1>7, OneOrder

\* Finitely many numbers can be put in order: without the smallest, and so on.
LEMMA OrderExists ==
  ASSUME NEW S, S \subseteq Nat, IsFiniteSet(S)
  PROVE  \E n \in Nat : \E e : EnumeratesAll(e, n, S)
  <1> DEFINE Ordered(T) == \E n \in Nat : \E e : EnumeratesAll(e, n, T)
             B == {T \in SUBSET S : ~Ordered(T)}
  <1> SUFFICES ASSUME B # {}
               PROVE  FALSE
    OBVIOUS
  <1>1. PICK T \in B : \A U \in SUBSET T : U \in B => U = T
    <2>1. B \in SUBSET SUBSET S /\ B # {} /\ IsFiniteSet(S)
      OBVIOUS
    <2> HIDE DEF B
    <2> QED
      BY ONLY <2>1, SmallestSet
  <1>2. T \in SUBSET S /\ ~Ordered(T) /\ T \in SUBSET Nat
    OBVIOUS
  <1>3. \A U \in SUBSET T : U # T => Ordered(U)
    BY <1>1
  <1> HIDE DEF B
  <1>4. T # {}
    <2>1. EnumeratesAll(<<>>, 0, {})
      BY DEF EnumeratesAll, Enumerates
    <2>2. Ordered({})
      BY <2>1
    <2> HIDE DEF Ordered
    <2> QED
      BY <1>2, <2>2
  <1>5. PICK m \in T : \A k \in T : m <= k
    BY <1>2, <1>4, LeastNumber
  <1>6. T \ {m} \in SUBSET T /\ T \ {m} # T
    OBVIOUS
  <1>6a. PICK n \in Nat : \E e : EnumeratesAll(e, n, T \ {m})
    BY <1>3, <1>6
  <1>7. PICK e : EnumeratesAll(e, n, T \ {m})
    BY <1>6a
  <1> HIDE DEF Ordered
  <1> DEFINE f == [i \in 1 .. n + 1 |-> IF i = 1 THEN m ELSE e[i-1]]
  <1>8. /\ e \in [1 .. n -> T \ {m}]
        /\ \A i, j \in 1 .. n : i < j => e[i] < e[j]
        /\ \A x \in T \ {m} : \E i \in 1 .. n : e[i] = x
    BY <1>7 DEF EnumeratesAll, Enumerates
  <1>9. \A i \in 2 .. n + 1 : i - 1 \in 1 .. n /\ e[i-1] \in T /\ e[i-1] # m
    BY <1>8
  <1>10. f \in [1 .. n + 1 -> T]
    BY <1>9
  <1>f. f[1] = m /\ \A i \in 2 .. n + 1 : f[i] = e[i-1]
    OBVIOUS
  <1>m. m \in Nat /\ \A i \in 2 .. n + 1 : e[i-1] \in Nat
    BY <1>2, <1>9
  <1> HIDE DEF f
  <1>11. ASSUME NEW i \in 1 .. n + 1, NEW j \in 1 .. n + 1, i < j
         PROVE  f[i] < f[j]
    <2>0. j \in 2 .. n + 1
      BY <1>11
    <2>1. f[j] = e[j-1] /\ m \in Nat /\ e[j-1] \in Nat
      BY <1>f, <1>m, <2>0
    <2>2. CASE i = 1
      <3>1. e[j-1] \in T /\ e[j-1] # m
        BY <1>9, <2>0
      <3>2. m <= e[j-1]
        BY <1>5, <3>1
      <3> QED
        BY <1>f, <2>1, <2>2, <3>1, <3>2
    <2>3. CASE i # 1
      <3>1. i \in 2 .. n + 1 /\ i - 1 < j - 1
        BY <1>11, <2>3
      <3>2. i - 1 \in 1 .. n /\ j - 1 \in 1 .. n
        BY <1>9, <2>0, <3>1
      <3>3. e[i-1] < e[j-1]
        BY <1>8, <3>1, <3>2
      <3> QED
        BY <1>f, <2>1, <3>1, <3>3
    <2> QED
      BY <2>2, <2>3
  <1>12. ASSUME NEW x \in T
         PROVE  \E i \in 1 .. n + 1 : f[i] = x
    <2>1. CASE x = m
      BY <1>f, <2>1
    <2>2. CASE x # m
      <3>1. PICK i \in 1 .. n : e[i] = x
        BY <1>8, <2>2
      <3>2. i + 1 \in 2 .. n + 1 /\ (i + 1) - 1 = i
        BY <3>1
      <3>3. i + 1 \in 1 .. n + 1 /\ f[i+1] = x
        BY <1>f, <3>1, <3>2
      <3> QED
        BY <3>3
    <2> QED
      BY <2>1, <2>2
  <1>13. EnumeratesAll(f, n + 1, T)
    BY <1>10, <1>11, <1>12 DEF EnumeratesAll, Enumerates
  <1> QED
    BY <1>2, <1>13 DEF Ordered

-----------------------------------------------------------------------------
(* What is left of a sequence when elements have been taken out. *)

\* r is what s keeps without the positions in L.
Kept(r, s, L) ==
  /\ L \subseteq 1 .. Len(s)
  /\ \E e : /\ EnumeratesAll(e, Len(r), (1 .. Len(s)) \ L)
            /\ \A i \in 1 .. Len(r) : r[i] = s[e[i]]

LEMMA KeptAll ==
  ASSUME NEW T, NEW s \in Seq(T)
  PROVE  Kept(s, s, {})
  <1> DEFINE e == [i \in 1 .. Len(s) |-> i]
  <1>1. Len(s) \in Nat
    BY LenProperties
  <1>2. EnumeratesAll(e, Len(s), (1 .. Len(s)) \ {})
    BY <1>1 DEF EnumeratesAll, Enumerates
  <1>3. \A i \in 1 .. Len(s) : s[i] = s[e[i]]
    OBVIOUS
  <1> HIDE DEF e
  <1> QED
    BY <1>2, <1>3 DEF Kept

LEMMA KeptRemove ==
  ASSUME NEW T, NEW s \in Seq(T), NEW r \in Seq(T), NEW L, Kept(r, s, L),
         NEW i \in 1 .. Len(r)
  PROVE  \E M : Kept(RemoveAt(r, i), s, M)
  <1>1. PICK e : /\ EnumeratesAll(e, Len(r), (1 .. Len(s)) \ L)
                 /\ \A j \in 1 .. Len(r) : r[j] = s[e[j]]
    BY DEF Kept
  <1> DEFINE n   == Len(r) - 1
             new == RemoveAt(r, i)
             S   == (1 .. Len(s)) \ L
             M   == L \cup {e[i]}
             f   == [j \in 1 .. n |-> IF j < i THEN e[j] ELSE e[j+1]]
  <1>2. /\ Len(r) \in Nat /\ Len(s) \in Nat /\ n \in Nat /\ L \subseteq 1 .. Len(s)
        /\ i \in 1 .. n + 1 /\ Len(r) = n + 1
    BY LenProperties DEF Kept
  <1>3. /\ e \in [1 .. n + 1 -> S]
        /\ \A j, k \in 1 .. n + 1 : j < k => e[j] < e[k]
        /\ \A x \in S : \E j \in 1 .. n + 1 : e[j] = x
    BY <1>1, <1>2 DEF EnumeratesAll, Enumerates
  <1>4. Len(new) = n /\ \A j \in 1 .. n : new[j] = IF j < i THEN r[j] ELSE r[j+1]
    BY RemoveAtFacts
  <1>5. \A j \in 1 .. n + 1 : e[j] \in S /\ e[j] \in Nat /\ r[j] = s[e[j]]
    BY <1>1, <1>2, <1>3
  <1> HIDE DEF new, n
  <1>6. \A j \in 1 .. n + 1 : j # i => e[j] # e[i]
    <2> SUFFICES ASSUME NEW j \in 1 .. n + 1, j # i
                 PROVE  e[j] # e[i]
      OBVIOUS
    <2>1. j < i \/ i < j
      BY <1>2
    <2> QED
      BY <1>2, <1>3, <1>5, <2>1
  <1>7. \A j \in 1 .. n : /\ j \in 1 .. n + 1 /\ j + 1 \in 1 .. n + 1
                          /\ f[j] = IF j < i THEN e[j] ELSE e[j+1]
    BY <1>2
  <1>8. M \subseteq 1 .. Len(s)
    BY <1>2, <1>3
  <1>9. f \in [1 .. n -> (1 .. Len(s)) \ M]
    <2> SUFFICES ASSUME NEW j \in 1 .. n
                 PROVE  f[j] \in S /\ f[j] # e[i]
      OBVIOUS
    <2> QED
      BY <1>2, <1>5, <1>6, <1>7
  <1> HIDE DEF f
  <1>10. ASSUME NEW j \in 1 .. n, NEW k \in 1 .. n, j < k
         PROVE  f[j] < f[k]
    <2>1. CASE k < i
      BY <1>2, <1>3, <1>7, <1>10, <2>1
    <2>2. CASE k >= i /\ j < i
      <3>1. j < k + 1
        BY <1>10
      <3> QED
        BY <1>2, <1>3, <1>7, <2>2, <3>1
    <2>3. CASE k >= i /\ j >= i
      <3>1. j + 1 < k + 1
        BY <1>10
      <3> QED
        BY <1>2, <1>3, <1>7, <2>3, <3>1
    <2> QED
      BY <1>2, <2>1, <2>2, <2>3
  <1>11. ASSUME NEW x \in (1 .. Len(s)) \ M
         PROVE  \E j \in 1 .. n : f[j] = x
    <2>1. PICK j \in 1 .. n + 1 : e[j] = x
      BY <1>3
    <2>2. j # i
      BY <2>1
    <2>3. CASE j < i
      <3>1. j \in 1 .. n
        BY <1>2, <2>3
      <3> QED
        BY <1>7, <2>1, <2>3, <3>1
    <2>4. CASE j > i
      <3>1. j - 1 \in 1 .. n /\ ~(j - 1 < i) /\ (j - 1) + 1 = j
        BY <1>2, <2>4
      <3>2. f[j-1] = e[j]
        BY <1>7, <3>1
      <3> QED
        BY <2>1, <3>1, <3>2
    <2> QED
      BY <1>2, <2>2, <2>3, <2>4
  <1>12. ASSUME NEW j \in 1 .. n
         PROVE  new[j] = s[f[j]]
    <2>1. /\ j \in 1 .. n + 1 /\ j + 1 \in 1 .. n + 1
          /\ f[j] = IF j < i THEN e[j] ELSE e[j+1]
          /\ new[j] = IF j < i THEN r[j] ELSE r[j+1]
      BY <1>4, <1>7
    <2>2. r[j] = s[e[j]] /\ r[j+1] = s[e[j+1]]
      BY <1>5, <2>1
    <2> QED
      BY <2>1, <2>2, Zenon
  <1>13. EnumeratesAll(f, n, (1 .. Len(s)) \ M)
    BY <1>9, <1>10, <1>11 DEF EnumeratesAll, Enumerates
  <1> HIDE DEF M
  <1>14. Kept(new, s, M)
    BY <1>4, <1>8, <1>12, <1>13 DEF Kept
  <1> QED
    BY <1>14 DEF new

\* What is kept is told by the positions that are left.
LEMMA KeptInOrder ==
  ASSUME NEW T, NEW s \in Seq(T), NEW r \in Seq(T), NEW L, Kept(r, s, L)
  PROVE  LET stays == InOrder(DOMAIN s \ L)
         IN  L \subseteq DOMAIN s /\ r = [i \in DOMAIN stays |-> s[stays[i]]]
  <1> DEFINE S == (1 .. Len(s)) \ L
  <1>1. PICK e : EnumeratesAll(e, Len(r), S) /\ \A j \in 1 .. Len(r) : r[j] = s[e[j]]
    BY DEF Kept
  <1>2. /\ Len(r) \in Nat /\ Len(s) \in Nat /\ DOMAIN s = 1 .. Len(s)
        /\ r = [i \in 1 .. Len(r) |-> r[i]] /\ L \subseteq 1 .. Len(s)
    BY LenProperties DEF Kept
  <1>3. InOrder(S) = e
    <2>1. S \in SUBSET Nat
      BY <1>2
    <2> HIDE DEF S
    <2> QED
      BY <1>1, <1>2, <2>1, InOrderFacts
  <1>4. DOMAIN e = 1 .. Len(r)
    BY <1>1 DEF EnumeratesAll, Enumerates
  <1> QED
    BY <1>1, <1>2, <1>3, <1>4

LEMMA FirstNumbers ==
  ASSUME NEW n \in Nat
  PROVE  IsFiniteSet(1 .. n) /\ Cardinality(1 .. n) = n
  BY FS_Interval

\* The positions that stay are told by those that leave.
LEMMA StaysKept ==
  ASSUME NEW T, NEW s \in Seq(T), NEW L \in SUBSET DOMAIN s,
         NEW stays, stays = InOrder(DOMAIN s \ L),
         NEW r, r = [i \in DOMAIN stays |-> s[stays[i]]]
  PROVE  r \in Seq(T) /\ Kept(r, s, L)
  <1> DEFINE S == (1 .. Len(s)) \ L
  <1>1. /\ Len(s) \in Nat /\ DOMAIN s = 1 .. Len(s) /\ S = DOMAIN s \ L
        /\ L \subseteq 1 .. Len(s) /\ \A i \in 1 .. Len(s) : s[i] \in T
    BY LenProperties
  <1>2. /\ IsFiniteSet(1 .. Len(s)) /\ Cardinality(1 .. Len(s)) = Len(s)
    BY <1>1, FirstNumbers
  <1>3. IsFiniteSet(S) /\ IsFiniteSet(L) /\ S \in SUBSET Nat
    BY <1>1, <1>2, FS_Subset
  <1>3a. PICK n \in Nat : \E e : EnumeratesAll(e, n, S)
    BY <1>3, OrderExists
  <1>4. PICK e : EnumeratesAll(e, n, S)
    BY <1>3a
  <1>5. Cardinality(S) = n /\ stays = e
    BY <1>1, <1>3, <1>4, InOrderFacts
  <1>6. e \in [1 .. n -> S] /\ DOMAIN e = 1 .. n
    BY <1>4 DEF EnumeratesAll, Enumerates
  <1>7. \A i \in 1 .. n : e[i] \in 1 .. Len(s) /\ s[e[i]] \in T
    BY <1>1, <1>6
  <1>8. r = [i \in 1 .. n |-> s[e[i]]]
    BY <1>5, <1>6
  <1>9. r \in Seq(T) /\ Len(r) = n
    <2>1. r \in [1 .. n -> T] /\ n \in Nat
      BY <1>7, <1>8
    <2> QED
      BY ONLY <2>1
  <1>10. \A i \in 1 .. Len(r) : r[i] = s[e[i]]
    BY <1>8, <1>9
  <1> HIDE DEF S
  <1>11. Kept(r, s, L)
    BY <1>1, <1>4, <1>9, <1>10 DEF Kept, S
  <1> QED
    BY <1>9, <1>11

\* Every element was kept or taken out.
Splits(r, s, L, X) == Tally(s, X) = Tally(r, X) + Cardinality(L \cap Positions(s, X))

LEMMA KeptTally ==
  ASSUME NEW T, NEW s \in Seq(T), NEW r \in Seq(T), NEW L, Kept(r, s, L), NEW X
  PROVE  Splits(r, s, L, X)
  <1> USE DEF Splits
  <1> DEFINE out  == L \cap Positions(s, X)
             left == {i \in (1 .. Len(s)) \ L : s[i] \in X}
  <1>1. PICK e : /\ EnumeratesAll(e, Len(r), (1 .. Len(s)) \ L)
                 /\ \A j \in 1 .. Len(r) : r[j] = s[e[j]]
    BY DEF Kept
  <1>2. /\ Len(r) \in Nat /\ Len(s) \in Nat /\ DOMAIN s = 1 .. Len(s) /\ DOMAIN r = 1 .. Len(r)
        /\ L \subseteq 1 .. Len(s)
    BY LenProperties DEF Kept
  <1>3. /\ e \in [1 .. Len(r) -> (1 .. Len(s)) \ L]
        /\ \A i, j \in 1 .. Len(r) : i < j => e[i] < e[j]
        /\ \A y \in (1 .. Len(s)) \ L : \E i \in 1 .. Len(r) : e[i] = y
    BY <1>1 DEF EnumeratesAll, Enumerates
  <1> DEFINE f == [j \in Positions(r, X) |-> e[j]]
  <1>4. f \in Bijection(Positions(r, X), left)
    <2>1. \A j \in Positions(r, X) : j \in 1 .. Len(r) /\ e[j] \in left /\ f[j] = e[j]
      BY <1>1, <1>2, <1>3 DEF Positions
    <2>2. f \in [Positions(r, X) -> left]
      BY <2>1
    <2>3. ASSUME NEW i \in Positions(r, X), NEW j \in Positions(r, X), f[i] = f[j]
          PROVE  i = j
      <3>1. i \in 1 .. Len(r) /\ j \in 1 .. Len(r) /\ e[i] = e[j]
        BY <2>1, <2>3
      <3>2. e[i] \in Nat
        BY <1>2, <1>3, <3>1
      <3>3. ~(e[i] < e[j]) /\ ~(e[j] < e[i])
        BY <3>1, <3>2
      <3>4. ~(i < j) /\ ~(j < i)
        BY <1>3, <3>1, <3>3
      <3> QED
        BY <3>1, <3>4
    <2>4. ASSUME NEW y \in left
          PROVE  \E i \in Positions(r, X) : f[i] = y
      <3>1. PICK i \in 1 .. Len(r) : e[i] = y
        BY <1>3
      <3>2. i \in Positions(r, X)
        BY <1>1, <1>2, <3>1 DEF Positions
      <3> QED
        BY <2>1, <3>1, <3>2
    <2> HIDE DEF f, left
    <2> QED
      BY <2>2, <2>3, <2>4 DEF Bijection, Injection, Surjection, IsInjective
  <1>5. IsFiniteSet(Positions(r, X)) /\ IsFiniteSet(Positions(s, X))
    BY TallyType
  <1>6. IsFiniteSet(left) /\ Cardinality(left) = Tally(r, X)
    <2> HIDE DEF f, left
    <2> QED
      BY <1>4, <1>5, FS_Bijection DEF ExistsBijection, Tally
  <1>7. Positions(s, X) = left \cup out /\ left \cap out = {}
    BY <1>2 DEF Positions
  <1>8. IsFiniteSet(out)
    <2>1. out \subseteq Positions(s, X)
      BY <1>7
    <2> HIDE DEF out
    <2> QED
      BY <1>5, <2>1, FS_Subset
  <1> HIDE DEF left, out
  <1>9. Cardinality(left \cup out) = Cardinality(left) + Cardinality(out)
    <2>1. Cardinality(left \cap out) = 0
      BY <1>7, FS_EmptySet
    <2>2. Cardinality(left) \in Nat /\ Cardinality(out) \in Nat
      BY <1>6, <1>8, FS_CardinalityType
    <2>3. Cardinality(left \cup out) = Cardinality(left) + Cardinality(out) - Cardinality(left \cap out)
      BY <1>6, <1>8, FS_Union
    <2> QED
      BY <2>1, <2>2, <2>3
  <1> QED
    BY <1>6, <1>7, <1>9 DEF Tally, out

-----------------------------------------------------------------------------
(* The elements of a sequence, counted one by one. *)

LEMMA TotalOfOnes ==
  ASSUME NEW S, IsFiniteSet(S), NEW f, \A x \in S : f[x] = 1
  PROVE  Total(f, S) = Cardinality(S)
  <1> DEFINE B == {T \in SUBSET S : Total(f, T) # Cardinality(T)}
  <1> SUFFICES ASSUME B # {}
               PROVE  FALSE
    OBVIOUS
  <1>1. PICK T \in B : \A U \in SUBSET T : U \in B => U = T
    <2>1. B \in SUBSET SUBSET S
      OBVIOUS
    <2> HIDE DEF B
    <2> QED
      BY <2>1, SmallestSet
  <1>2. T \in SUBSET S /\ Total(f, T) # Cardinality(T)
    OBVIOUS
  <1>3. \A U \in SUBSET T : U # T => Total(f, U) = Cardinality(U)
    BY <1>1
  <1> HIDE DEF B
  <1>4. T # {}
    BY <1>2, TotalEmpty, FS_EmptySet
  <1>5. PICK x \in T : TRUE
    BY <1>4
  <1>6. IsFiniteSet(T) /\ \A y \in T : f[y] \in Nat
    BY <1>2, FS_Subset
  <1>7. Total(f, T) = f[x] + Total(f, T \ {x})
    BY <1>6, TotalTakeOut
  <1>8. T \ {x} \in SUBSET T /\ T \ {x} # T
    OBVIOUS
  <1>9. Total(f, T \ {x}) = Cardinality(T \ {x})
    BY <1>3, <1>8
  <1>10. Cardinality(T \ {x}) = Cardinality(T) - 1 /\ Cardinality(T) \in Nat
    BY <1>6, FS_RemoveElement, FS_CardinalityType
  <1>11. f[x] = 1
    BY <1>2
  <1> QED
    BY <1>2, <1>7, <1>9, <1>10, <1>11

LEMMA TallyAll ==
  ASSUME NEW T, NEW s \in Seq(T)
  PROVE  Positions(s, T) = DOMAIN s /\ Tally(s, T) = Len(s)
  <1>1. Len(s) \in Nat /\ DOMAIN s = 1 .. Len(s) /\ \A i \in 1 .. Len(s) : s[i] \in T
    BY LenProperties
  <1>2. Positions(s, T) = 1 .. Len(s)
    BY <1>1 DEF Positions
  <1> QED
    BY <1>1, <1>2, FirstNumbers DEF Tally

\* Counting one by one, and together.
LEMMA TotalOfCounts ==
  ASSUME NEW S, IsFiniteSet(S), NEW s, NEW L, IsFiniteSet(L),
         NEW g, \A x \in S : g[x] = Cardinality(L \cap Positions(s, {x}))
  PROVE  Total(g, S) = Cardinality(L \cap Positions(s, S))
  <1> DEFINE A    == [x \in S |-> L \cap Positions(s, {x})]
             ones == [i \in L |-> 1]
  <1>1. A \in [S -> SUBSET L] /\ \A x, y \in S : x # y => A[x] \cap A[y] = {}
    BY DEF Positions
  <1>2. UNION {A[x] : x \in S} = L \cap Positions(s, S)
    BY DEF Positions
  <1>3. \A i \in L : ones[i] = 1
    OBVIOUS
  <1>4. ASSUME NEW x \in S
        PROVE  g[x] = Total(ones, A[x])
    <2>1. A[x] = L \cap Positions(s, {x}) /\ A[x] \subseteq L
      BY <1>1
    <2> HIDE DEF A, ones
    <2>2. IsFiniteSet(A[x])
      BY <2>1, FS_Subset
    <2>3. Total(ones, A[x]) = Cardinality(A[x])
      BY <1>3, <2>1, <2>2, TotalOfOnes
    <2> QED
      BY <2>1, <2>3
  <1> DEFINE U == L \cap Positions(s, S)
  <1>5. U \subseteq L
    OBVIOUS
  <1> HIDE DEF A, ones, U
  <1>6. Total(g, S) = Total(ones, UNION {A[x] : x \in S})
    <2>1. \A i \in L : ones[i] \in Nat
      BY <1>3
    <2> QED
      BY <1>1, <1>4, <2>1, TotalOfParts
  <1>7. Total(ones, U) = Cardinality(U)
    <2>1. IsFiniteSet(U)
      BY <1>5, FS_Subset
    <2> QED
      BY <1>3, <1>5, <2>1, TotalOfOnes
  <1> QED
    BY <1>2, <1>6, <1>7 DEF U

LEMMA TotalOfTallies ==
  ASSUME NEW S, IsFiniteSet(S), NEW s \in Seq(S),
         NEW g, \A x \in S : g[x] = Tally(s, {x})
  PROVE  Total(g, S) = Len(s)
  <1> DEFINE D == 1 .. Len(s)
  <1>1. Len(s) \in Nat /\ DOMAIN s = D /\ \A i \in D : s[i] \in S
    BY LenProperties
  <1>2. IsFiniteSet(D) /\ Cardinality(D) = Len(s)
    BY <1>1, FirstNumbers
  <1>3. /\ \A x : D \cap Positions(s, {x}) = Positions(s, {x})
        /\ D \cap Positions(s, S) = D
    BY <1>1 DEF Positions
  <1> HIDE DEF D
  <1>4. \A x \in S : g[x] = Cardinality(D \cap Positions(s, {x}))
    BY <1>3 DEF Tally
  <1>5. Total(g, S) = Cardinality(D \cap Positions(s, S))
    BY <1>2, <1>4, TotalOfCounts
  <1> QED
    BY <1>2, <1>3, <1>5

-----------------------------------------------------------------------------
(* The elements of a sequence that are in a set, in order. *)

Selected(s, S) ==
  LET at == InOrder(Positions(s, S))
  IN  [n \in DOMAIN at |-> s[at[n]]]

LEMMA SelectedIs ==
  ASSUME NEW T, NEW s \in Seq(T), NEW S, NEW n \in Nat, NEW e, EnumeratesAll(e, n, Positions(s, S))
  PROVE  Selected(s, S) = [m \in 1 .. n |-> s[e[m]]]
  <1>1. Positions(s, S) \in SUBSET Nat
    BY LenProperties DEF Positions
  <1>2. InOrder(Positions(s, S)) = e
    BY <1>1, InOrderFacts
  <1>3. DOMAIN e = 1 .. n
    BY DEF EnumeratesAll, Enumerates
  <1> QED
    BY <1>2, <1>3 DEF Selected

\* The positions of the elements can be put in order.
LEMMA PositionsInOrder ==
  ASSUME NEW T, NEW s \in Seq(T), NEW S
  PROVE  \E n \in Nat : \E e : EnumeratesAll(e, n, Positions(s, S))
  <1>1. Len(s) \in Nat /\ Positions(s, S) \subseteq 1 .. Len(s)
    BY LenProperties DEF Positions
  <1>2. IsFiniteSet(1 .. Len(s))
    BY <1>1, FirstNumbers
  <1>3. Positions(s, S) \subseteq Nat /\ IsFiniteSet(Positions(s, S))
    BY <1>1, <1>2, FS_Subset
  <1> QED
    BY <1>3, OrderExists

LEMMA SelectedType ==
  ASSUME NEW T, NEW s \in Seq(T), NEW S
  PROVE  Selected(s, S) \in Seq(T)
  <1>1. PICK n \in Nat : \E e : EnumeratesAll(e, n, Positions(s, S))
    BY PositionsInOrder
  <1>2. PICK e : EnumeratesAll(e, n, Positions(s, S))
    BY <1>1
  <1>3. \A m \in 1 .. n : e[m] \in Positions(s, S)
    BY <1>2 DEF EnumeratesAll, Enumerates
  <1>4. \A m \in 1 .. n : s[e[m]] \in T
    BY <1>3 DEF Positions
  <1>5. Selected(s, S) = [m \in 1 .. n |-> s[e[m]]]
    BY <1>2, SelectedIs
  <1> QED
    BY <1>4, <1>5

\* Where an element of s without the i-th stood in s.
Before(i, j) == IF j < i THEN j ELSE j + 1

\* Without an element, the positions of the others move and keep their order.
LEMMA PositionsRemoved ==
  ASSUME NEW T, NEW s \in Seq(T), NEW i \in 1 .. Len(s), NEW S
  PROVE  LET r == RemoveAt(s, i)
         IN  /\ r \in Seq(T)
             /\ \A j \in Positions(r, S) :
                  /\ j \in Nat /\ Before(i, j) \in Positions(s, S) \ {i}
                  /\ r[j] = s[Before(i, j)]
             /\ \A l \in Positions(s, S) \ {i} : \E j \in Positions(r, S) : Before(i, j) = l
  <1> DEFINE r == RemoveAt(s, i)
  <1>1. /\ r \in Seq(T) /\ Len(r) = Len(s) - 1
        /\ \A j \in 1 .. Len(s) - 1 : r[j] = IF j < i THEN s[j] ELSE s[j+1]
    BY RemoveAtFacts
  <1>2. /\ Len(s) \in Nat /\ DOMAIN s = 1 .. Len(s) /\ DOMAIN r = 1 .. Len(s) - 1
    BY <1>1, LenProperties
  <1> HIDE DEF r
  <1>3. ASSUME NEW j \in Positions(r, S)
        PROVE  /\ j \in Nat /\ Before(i, j) \in Positions(s, S) \ {i}
               /\ r[j] = s[Before(i, j)]
    <2>1. j \in 1 .. Len(s) - 1 /\ r[j] \in S
      BY <1>2 DEF Positions
    <2>2. r[j] = s[Before(i, j)]
      BY <1>1, <2>1 DEF Before
    <2>3. Before(i, j) \in 1 .. Len(s) /\ Before(i, j) # i
      BY <1>2, <2>1 DEF Before
    <2> QED
      BY <1>2, <2>1, <2>2, <2>3 DEF Positions
  <1>4. ASSUME NEW l \in Positions(s, S) \ {i}
        PROVE  \E j \in Positions(r, S) : Before(i, j) = l
    <2>1. l \in 1 .. Len(s) /\ l # i /\ s[l] \in S
      BY <1>2 DEF Positions
    <2>2. CASE l < i
      <3>1. l \in 1 .. Len(s) - 1 /\ Before(i, l) = l
        BY <1>2, <2>1, <2>2 DEF Before
      <3>2. r[l] = s[l]
        BY <1>1, <2>2, <3>1
      <3> QED
        BY <1>2, <2>1, <3>1, <3>2 DEF Positions
    <2>3. CASE l > i
      <3>1. l - 1 \in 1 .. Len(s) - 1 /\ Before(i, l - 1) = l /\ ~(l - 1 < i) /\ (l - 1) + 1 = l
        BY <1>2, <2>1, <2>3 DEF Before
      <3>2. r[l - 1] = s[l]
        BY <1>1, <3>1
      <3> QED
        BY <1>2, <2>1, <3>1, <3>2 DEF Positions
    <2> QED
      BY <1>2, <2>1, <2>2, <2>3
  <1> QED
    BY <1>1, <1>3, <1>4 DEF r

\* The order in which they stood.
LEMMA BeforeIncreases ==
  ASSUME NEW i \in Nat, NEW j \in Nat, NEW l \in Nat, j < l
  PROVE  Before(i, j) < Before(i, l)
  BY DEF Before

\* Removing another element does not change what is selected.
LEMMA SelectedWithout ==
  ASSUME NEW T, NEW s \in Seq(T), NEW i \in 1 .. Len(s), NEW S, s[i] \notin S
  PROVE  Selected(RemoveAt(s, i), S) = Selected(s, S)
  <1>1. PICK r : r = RemoveAt(s, i)
    OBVIOUS
  <1>2. /\ r \in Seq(T)
        /\ \A j \in Positions(r, S) :
             /\ j \in Nat /\ Before(i, j) \in Positions(s, S)
             /\ r[j] = s[Before(i, j)]
        /\ \A l \in Positions(s, S) : \E j \in Positions(r, S) : Before(i, j) = l
    <2>1. i \notin Positions(s, S)
      BY DEF Positions
    <2> QED
      BY <1>1, <2>1, PositionsRemoved
  <1>3. PICK n \in Nat : \E e : EnumeratesAll(e, n, Positions(r, S))
    BY <1>2, PositionsInOrder
  <1>4. PICK e : EnumeratesAll(e, n, Positions(r, S))
    BY <1>3
  <1>5. /\ e \in [1 .. n -> Positions(r, S)]
        /\ \A l, m \in 1 .. n : l < m => e[l] < e[m]
        /\ \A x \in Positions(r, S) : \E m \in 1 .. n : e[m] = x
    BY <1>4 DEF EnumeratesAll, Enumerates
  <1> DEFINE f == [m \in 1 .. n |-> Before(i, e[m])]
  <1>6. f \in [1 .. n -> Positions(s, S)]
    BY <1>2, <1>5
  <1>7. ASSUME NEW l \in 1 .. n, NEW m \in 1 .. n, l < m
        PROVE  f[l] < f[m]
    <2>1. e[l] \in Nat /\ e[m] \in Nat /\ e[l] < e[m] /\ i \in Nat
      BY <1>2, <1>5, <1>7
    <2>2. Before(i, e[l]) < Before(i, e[m])
      BY <2>1, BeforeIncreases
    <2> QED
      BY <2>2
  <1>8. ASSUME NEW x \in Positions(s, S)
        PROVE  \E m \in 1 .. n : f[m] = x
    <2>1. PICK j \in Positions(r, S) : Before(i, j) = x
      BY <1>2
    <2>2. PICK m \in 1 .. n : e[m] = j
      BY <1>5
    <2> QED
      BY <2>1, <2>2
  <1>9. EnumeratesAll(f, n, Positions(s, S))
    BY <1>6, <1>7, <1>8 DEF EnumeratesAll, Enumerates
  <1>10. \A m \in 1 .. n : r[e[m]] = s[f[m]]
    BY <1>2, <1>5
  <1>11. Selected(r, S) = [m \in 1 .. n |-> r[e[m]]]
    BY <1>2, <1>4, SelectedIs
  <1>12. Selected(s, S) = [m \in 1 .. n |-> s[f[m]]]
    BY <1>9, SelectedIs
  <1> HIDE DEF f
  <1> QED
    BY <1>1, <1>10, <1>11, <1>12

\* Removing the first one leaves the others.
LEMMA SelectedTail ==
  ASSUME NEW T, NEW s \in Seq(T), NEW i \in 1 .. Len(s), NEW S, s[i] \in S,
         \A j \in 1 .. i - 1 : s[j] \notin S
  PROVE  /\ Selected(s, S) # <<>>
         /\ Selected(RemoveAt(s, i), S) = Tail(Selected(s, S))
  <1>1. PICK r : r = RemoveAt(s, i)
    OBVIOUS
  <1>2. /\ r \in Seq(T)
        /\ \A j \in Positions(r, S) :
             /\ j \in Nat /\ Before(i, j) \in Positions(s, S) \ {i}
             /\ r[j] = s[Before(i, j)]
        /\ \A l \in Positions(s, S) \ {i} : \E j \in Positions(r, S) : Before(i, j) = l
    BY <1>1, PositionsRemoved
  <1>3. i \in Positions(s, S) /\ \A l \in Positions(s, S) \ {i} : l \in Nat /\ i < l
    <2>1. Len(s) \in Nat /\ DOMAIN s = 1 .. Len(s)
      BY LenProperties
    <2>2. ASSUME NEW l \in Positions(s, S) \ {i}
          PROVE  l \in Nat /\ i < l
      <3>1. l \in 1 .. Len(s) /\ l # i /\ l \notin 1 .. i - 1
        BY <2>1 DEF Positions
      <3> QED
        BY <2>1, <3>1
    <2> QED
      BY <2>1, <2>2 DEF Positions
  <1>4. PICK n \in Nat : \E e : EnumeratesAll(e, n, Positions(r, S))
    BY <1>2, PositionsInOrder
  <1>5. PICK e : EnumeratesAll(e, n, Positions(r, S))
    BY <1>4
  <1>6. /\ e \in [1 .. n -> Positions(r, S)]
        /\ \A l, m \in 1 .. n : l < m => e[l] < e[m]
        /\ \A x \in Positions(r, S) : \E m \in 1 .. n : e[m] = x
    BY <1>5 DEF EnumeratesAll, Enumerates
  <1> DEFINE f == [m \in 1 .. n + 1 |-> IF m = 1 THEN i ELSE Before(i, e[m - 1])]
  <1>7. ASSUME NEW m \in 1 .. n
        PROVE  /\ f[m + 1] = Before(i, e[m]) /\ f[m + 1] \in Positions(s, S) \ {i}
               /\ r[e[m]] = s[f[m + 1]] /\ e[m] \in Nat
    <2>1. m + 1 \in 1 .. n + 1 /\ m + 1 # 1 /\ (m + 1) - 1 = m
      OBVIOUS
    <2>2. f[m + 1] = Before(i, e[m])
      BY <2>1
    <2>3. e[m] \in Positions(r, S)
      BY <1>6
    <2>4. /\ e[m] \in Nat /\ Before(i, e[m]) \in Positions(s, S) \ {i}
          /\ r[e[m]] = s[Before(i, e[m])]
      BY <1>2, <2>3
    <2> HIDE DEF f
    <2> QED
      BY <2>2, <2>4
  <1>8. f[1] = i
    OBVIOUS
  <1>9. \A m \in 1 .. n + 1 : m # 1 => m - 1 \in 1 .. n /\ (m - 1) + 1 = m
    OBVIOUS
  <1>10. DOMAIN f = 1 .. n + 1
    OBVIOUS
  <1>11. f = [m \in 1 .. n + 1 |-> f[m]]
    BY <1>10
  <1> HIDE DEF f
  <1>12. ASSUME NEW m \in 1 .. n + 1
         PROVE  f[m] \in Positions(s, S)
    <2>1. CASE m = 1
      BY <1>3, <1>8, <2>1
    <2>2. CASE m # 1
      <3>1. m - 1 \in 1 .. n /\ (m - 1) + 1 = m
        BY <1>9, <2>2
      <3>2. f[(m - 1) + 1] \in Positions(s, S)
        BY <1>7, <3>1
      <3> QED
        BY <3>1, <3>2
    <2> QED
      BY <2>1, <2>2
  <1>13. ASSUME NEW l \in 1 .. n + 1, NEW m \in 1 .. n + 1, l < m
         PROVE  f[l] < f[m]
    <2>1. m # 1 /\ m - 1 \in 1 .. n /\ (m - 1) + 1 = m
      BY <1>9, <1>13
    <2>2. f[m] = Before(i, e[m - 1]) /\ f[m] \in Positions(s, S) \ {i} /\ e[m - 1] \in Nat
      <3>1. f[(m - 1) + 1] = Before(i, e[m - 1]) /\ f[(m - 1) + 1] \in Positions(s, S) \ {i}
            /\ e[m - 1] \in Nat
        BY <1>7, <2>1
      <3> QED
        BY <2>1, <3>1
    <2>3. CASE l = 1
      BY <1>3, <1>8, <2>2, <2>3
    <2>4. CASE l # 1
      <3>1. l - 1 \in 1 .. n /\ (l - 1) + 1 = l /\ l - 1 < m - 1
        BY <1>9, <1>13, <2>4
      <3>2. f[(l - 1) + 1] = Before(i, e[l - 1]) /\ e[l - 1] \in Nat
        BY <1>7, <3>1
      <3>3. e[l - 1] < e[m - 1] /\ i \in Nat
        BY <1>6, <2>1, <3>1
      <3>4. Before(i, e[l - 1]) < Before(i, e[m - 1])
        BY <2>2, <3>2, <3>3, BeforeIncreases
      <3> QED
        BY <2>2, <3>1, <3>2, <3>4
    <2> QED
      BY <2>3, <2>4
  <1>14. ASSUME NEW x \in Positions(s, S)
         PROVE  \E m \in 1 .. n + 1 : f[m] = x
    <2>1. CASE x = i
      <3>1. 1 \in 1 .. n + 1
        OBVIOUS
      <3> QED
        BY <1>8, <2>1, <3>1
    <2>2. CASE x # i
      <3>1. PICK j \in Positions(r, S) : Before(i, j) = x
        BY <1>2, <2>2
      <3>2. PICK m \in 1 .. n : e[m] = j
        BY <1>6
      <3>3. f[m + 1] = x /\ m + 1 \in 1 .. n + 1
        BY <1>7, <3>1, <3>2
      <3> QED
        BY <3>3
    <2> QED
      BY <2>1, <2>2
  <1>15. EnumeratesAll(f, n + 1, Positions(s, S))
    <2>1. f \in [1 .. n + 1 -> Positions(s, S)]
      BY <1>11, <1>12
    <2> QED
      BY <2>1, <1>13, <1>14 DEF EnumeratesAll, Enumerates
  <1>16. Selected(r, S) = [m \in 1 .. n |-> r[e[m]]]
    BY <1>2, <1>5, SelectedIs
  <1> DEFINE whole == [m \in 1 .. n + 1 |-> s[f[m]]]
  <1>17. Selected(s, S) = whole
    BY <1>15, SelectedIs
  <1>18. /\ \A m \in 1 .. n + 1 : s[f[m]] \in T
        /\ whole \in Seq(T) /\ Len(whole) = n + 1
    <2>1. \A m \in 1 .. n + 1 : s[f[m]] \in T
      BY <1>12 DEF Positions
    <2> QED
      BY <2>1
  <1>19. /\ whole # <<>> /\ Tail(whole) \in Seq(T) /\ Len(Tail(whole)) = n
         /\ \A m \in 1 .. n : Tail(whole)[m] = whole[m + 1]
    <2>1. whole # <<>>
      BY <1>18
    <2> HIDE DEF whole
    <2> QED
      BY <1>18, <2>1, HeadTailProperties
  <1>20. \A m \in 1 .. n : whole[m + 1] = r[e[m]]
    <2>1. \A m \in 1 .. n : whole[m + 1] = s[f[m + 1]]
      OBVIOUS
    <2> QED
      BY <1>7, <2>1
  <1> HIDE DEF whole
  <1>21. Tail(whole) = [m \in 1 .. n |-> r[e[m]]]
    <2>1. PICK rest \in Seq(T) : rest = Tail(whole)
      BY <1>19
    <2>2. DOMAIN rest = 1 .. n /\ rest = [m \in DOMAIN rest |-> rest[m]]
      BY <1>19, <2>1, LenProperties
    <2>3. \A m \in 1 .. n : rest[m] = r[e[m]]
      BY <1>19, <1>20, <2>1
    <2> QED
      BY <2>1, <2>2, <2>3
  <1> QED
    BY <1>1, <1>16, <1>17, <1>19, <1>21
================================================================================
