-------------------------- MODULE DataSignalsProofs --------------------------
(***************************************************************************)
(* The SystemC side, for every set of requests, every depth of the queue   *)
(* and both builds.                                                        *)
(*   - The completion signals tell the truth: the edge at which SCIC takes *)
(*     CA back is the only other writer of CA and DOUT, and at every moment *)
(*     in between the signals stand for the last callback.                 *)
(*   - What the memory has is counted, whatever set of transactions one    *)
(*     asks for (Carried): an edge adds the request on the signals at most *)
(*     and half an update takes away what it calls back.  From this RB     *)
(*     always has something to wait for (InterfaceInv).                    *)
(*   - The same counts, of the reads of one address, never exceed the      *)
(*     users of the address's entries on the score board (BoardInv).       *)
(***************************************************************************)
EXTENDS DataSignals, FiniteCollectionsProofs

SignalsFollow ==
  /\ completions \in Seq(Transactions)
  /\ sgnCompAck <=> completions # <<>>
  /\ sgnCompAck => sgnResponse = Last(completions)

DataFollows ==
  ~aborted /\ sgnDataOut =>
    storage /\ sgnCompAck /\ sgnResponse.transactionType = "DATA_READ"

LEMMA LastOfAppend ==
  ASSUME NEW S, NEW s \in Seq(S), NEW t \in S
  PROVE  Append(s, t) \in Seq(S) /\ Append(s, t) # <<>> /\ Last(Append(s, t)) = t
  BY DEF Last

\* One edge, and what is called back in one half of an update.
LEMMA EdgeClears ==
  ASSUME DataEdge
  PROVE  /\ completions' = <<>> /\ sgnCompAck' = FALSE
         /\ sgnDataOut' = (sgnDataOut /\ ~sgnCompAck)
         /\ UNCHANGED <<storage, aborted>>
  BY DEF DataEdge, ClockEdge, RunSystem, ClearCompAck, ClearDataOut

LEMMA HalfCompletes ==
  ASSUME DataHalf
  PROVE  \/ UNCHANGED <<completions, signals>>
         \/ \E t \in Transactions : /\ completions' = Append(completions, t)
                                    /\ sgnCompAck' = TRUE /\ sgnResponse' = t
  <1>1. \A type, answered : answered \in AtMostOne(type) =>
          answered = {} \/ \E t \in Transactions : answered = {t}
    BY DEF AtMostOne
  <1>2. ASSUME NEW type, NEW answered \in AtMostOne(type), Complete(answered)
        PROVE  \/ UNCHANGED <<completions, signals>>
               \/ \E t \in Transactions : /\ completions' = Append(completions, t)
                                          /\ sgnCompAck' = TRUE /\ sgnResponse' = t
    BY <1>1, <1>2 DEF Complete
  <1>3. CASE WriteHalf
    BY <1>2, <1>3 DEF WriteHalf
  <1>4. CASE ReadHalf
    BY <1>2, <1>4 DEF ReadHalf
  <1> QED
    BY <1>3, <1>4 DEF DataHalf

LEMMA SignalsFollowInit == DataInit => SignalsFollow
  BY DEF DataInit, InterfaceInit, SignalsFollow

LEMMA SignalsFollowStep == SignalsFollow /\ [DataNext]_allVars => SignalsFollow'
  <1> SUFFICES ASSUME SignalsFollow, [DataNext]_allVars
               PROVE  SignalsFollow'
    OBVIOUS
  <1>1. CASE DataEdge
    BY <1>1, EdgeClears DEF SignalsFollow
  <1>2. CASE DataHalf
    <2>1. CASE UNCHANGED <<completions, signals>>
      BY <2>1 DEF SignalsFollow, signals
    <2>2. ASSUME NEW t \in Transactions, completions' = Append(completions, t),
                 sgnCompAck' = TRUE, sgnResponse' = t
          PROVE  SignalsFollow'
      <3>1. completions \in Seq(Transactions)
        BY DEF SignalsFollow
      <3>2. /\ completions' \in Seq(Transactions) /\ completions' # <<>>
            /\ Last(completions)' = t
        BY <2>2, <3>1, LastOfAppend
      <3> QED
        BY <2>2, <3>2 DEF SignalsFollow
    <2> QED
      BY <1>2, <2>1, <2>2, HalfCompletes
  <1>3. CASE UNCHANGED allVars
    BY <1>3 DEF allVars, interfaceVars, signals, SignalsFollow
  <1> QED
    BY <1>1, <1>2, <1>3 DEF DataNext

\* At every edge CA, WO and AO announce the last completion since the edge before, and
\* nothing when there was none: runSystem takes CA back before the update that may
\* raise it again.
THEOREM CompletionSignalledHolds == DataSpec => []CompletionSignalled
  <1>1. SignalsFollow => CompletionSignalled
    BY DEF SignalsFollow, CompletionSignalled
  <1> QED
    BY <1>1, SignalsFollowInit, SignalsFollowStep, PTL DEF DataSpec

-----------------------------------------------------------------------------
LEMMA DataFollowsInit == DataInit => DataFollows
  BY DEF DataInit, InterfaceInit, DataFollows

LEMMA DataFollowsStep ==
  SignalsFollow /\ DataFollows /\ [DataNext]_allVars => DataFollows'
  <1> SUFFICES ASSUME SignalsFollow, DataFollows, [DataNext]_allVars
               PROVE  DataFollows'
    OBVIOUS
  <1>1. CASE DataEdge
    BY <1>1, EdgeClears DEF DataFollows
  <1>2. CASE DataHalf
    <2>1. completions \in Seq(Transactions)
      BY DEF SignalsFollow
    <2>2. ASSUME NEW t \in Transactions, completions' = Append(completions, t),
                 sgnCompAck' = TRUE, sgnResponse' = t
          PROVE  DataFollows'
      <3>1. completions' # completions /\ Last(completions') = t
        <4>1. Len(Append(completions, t)) = Len(completions) + 1 /\ Len(completions) \in Nat
          BY <2>1
        <4> QED
          BY <2>1, <2>2, <4>1, LastOfAppend
      <3>2. Completed(t)
        BY <1>2, <3>1 DEF DataHalf
      <3>3. storage' = storage
        BY <3>2 DEF Completed
      <3>4. CASE t.transactionType = "DATA_WRITE"
        BY <2>2, <3>2, <3>4 DEF Completed, DataFollows
      <3>5. CASE t.transactionType # "DATA_WRITE"
        <4>1. t.transactionType = "DATA_READ"
          BY <3>5, ContractAssumption
        <4>2. ~aborted' /\ sgnDataOut' => storage
          BY <3>2, <3>5 DEF Completed, DataOut
        <4> QED
          BY <2>2, <3>3, <4>1, <4>2 DEF DataFollows
      <3> QED
        BY <3>4, <3>5
    <2>3. CASE UNCHANGED <<completions, signals>>
      BY <1>2, <2>3 DEF DataHalf, dataVars, signals, DataFollows
    <2> QED
      BY <1>2, <2>2, <2>3, HalfCompletes
  <1>3. CASE UNCHANGED allVars
    BY <1>3 DEF allVars, interfaceVars, dataVars, signals, DataFollows
  <1> QED
    BY <1>1, <1>2, <1>3 DEF DataNext

\* The words of a buffer are on DOUT only while CA announces a read, in the build with
\* storage: a write's callback resets it, and so does the edge at which CA is taken back.
THEOREM DataOutOnlyWithReadsHolds == DataSpec => []DataOutOnlyWithReads
  <1>1. DataFollows => DataOutOnlyWithReads
    BY DEF DataFollows, DataOutOnlyWithReads
  <1> QED
    BY <1>1, SignalsFollowInit, SignalsFollowStep, DataFollowsInit, DataFollowsStep, PTL
    DEF DataSpec

-----------------------------------------------------------------------------
(* The contract in numbers.  S is a set of transactions: all of them, or the reads *)
(* of one address.                                                                 *)

\* No transaction, or one that is underway.
AnsweredOf(A, u) ==
  A = {} \/ \E t \in Transactions : A = {t} /\ u[t] > 0

LEMMA AtMostOneIs ==
  ASSUME NEW type, NEW A \in AtMostOne(type)
  PROVE  /\ AnsweredOf(A, underway)
         /\ \A t \in A : t \in Transactions /\ t.transactionType = type
  BY DEF AtMostOne, AnsweredOf

\* The transactions in A are called back.
Answers(A, u, v) ==
  AnsweredOf(A, u) /\ v = [t \in Transactions |-> IF t \in A THEN u[t] - 1 ELSE u[t]]

\* What is answered is one less in the total of the sets it is in.
LessBy(A, u, v, S) ==
  /\ v \in [Transactions -> Nat]
  /\ Total(v, S) \in Nat /\ Total(u, S) \in Nat
  /\ Total(u, S) = Total(v, S) + One(A \cap S # {})

LEMMA AnsweredTotal ==
  ASSUME NEW u \in [Transactions -> Nat], NEW A, NEW v, Answers(A, u, v),
         NEW S \in SUBSET Transactions
  PROVE  LessBy(A, u, v, S)
  <1> USE DEF LessBy
  <1>0. AnsweredOf(A, u) /\ v = [t \in Transactions |-> IF t \in A THEN u[t] - 1 ELSE u[t]]
    BY DEF Answers
  <1>1. \A t \in A : t \in Transactions /\ u[t] > 0
    BY <1>0 DEF AnsweredOf
  <1>2. v \in [Transactions -> Nat]
    <2>1. ASSUME NEW t \in Transactions
          PROVE  (IF t \in A THEN u[t] - 1 ELSE u[t]) \in Nat
      <3>1. u[t] \in Nat /\ (t \in A => u[t] > 0)
        BY <1>1
      <3> QED
        BY <3>1
    <2> QED
      BY <1>0, <2>1
  <1>3. IsFiniteSet(S)
    BY ContractAssumption, FS_Subset
  <1>4. \A t \in S : u[t] \in Nat /\ v[t] \in Nat
    BY <1>2
  <1>5. Total(v, S) \in Nat /\ Total(u, S) \in Nat
    BY <1>3, <1>4, TotalType
  <1>6. CASE A \cap S = {}
    <2>1. \A t \in S : u[t] \in Nat /\ v[t] = u[t]
      BY <1>0, <1>4, <1>6
    <2>2. Total(v, S) = Total(u, S)
      BY ONLY <1>3, <2>1, TotalSame
    <2> QED
      BY <1>2, <1>5, <1>6, <2>2 DEF One
  <1>7. CASE A \cap S # {}
    <2>1. PICK x \in S : A = {x} /\ u[x] > 0
      BY <1>0, <1>7 DEF AnsweredOf
    <2>2. \A t \in S : v[t] \in Nat /\ u[t] = IF t = x THEN v[t] + 1 ELSE v[t]
      <3>1. ASSUME NEW t \in S
            PROVE  u[t] = IF t = x THEN v[t] + 1 ELSE v[t]
        <4>1. u[t] \in Nat /\ v[t] = IF t = x THEN u[t] - 1 ELSE u[t]
          BY <1>0, <2>1
        <4> QED
          BY <4>1
      <3> QED
        BY <1>4, <3>1
    <2>3. Total(u, S) = Total(v, S) + 1
      <3>1. x \in S /\ 1 \in Nat
        OBVIOUS
      <3> QED
        BY ONLY <1>3, <2>2, <3>1, TotalGrows
    <2> QED
      BY <1>2, <1>5, <1>7, <2>3 DEF One
  <1> QED
    BY <1>6, <1>7

\* From the positions L of the queue w, of which r is left, to what is underway.
Dispatches(L, w, r, u, v) ==
  LET stays == InOrder(DOMAIN w \ L)
  IN  /\ r = [i \in DOMAIN stays |-> w[stays[i]]]
      /\ v = [t \in Transactions |-> u[t] + Cardinality({i \in L : w[i] = t})]

\* What that means for the numbers.
MovesOver(L, w, r, u, v, S) ==
  /\ r \in Seq(Transactions) /\ Len(r) + Cardinality(L) = Len(w) /\ Cardinality(L) \in Nat
  /\ v \in [Transactions -> Nat]
  /\ \A t \in Transactions :
       u[t] <= v[t] /\ v[t] = u[t] + Cardinality({i \in L : w[i] = t})
                    /\ Cardinality({i \in L : w[i] = t}) \in Nat
  /\ Tally(w, S) + Total(u, S) = Tally(r, S) + Total(v, S)
  /\ Total(v, S) = Total(u, S) + Cardinality(L \cap Positions(w, S))
  /\ Total(u, S) \in Nat /\ Total(v, S) \in Nat
  /\ Tally(w, S) \in Nat /\ Tally(r, S) \in Nat
  /\ Cardinality(L \cap Positions(w, S)) \in Nat

LEMMA DispatchedTotal ==
  ASSUME NEW w \in Seq(Transactions), NEW L \in SUBSET DOMAIN w,
         NEW r, NEW u \in [Transactions -> Nat], NEW v, Dispatches(L, w, r, u, v),
         NEW S \in SUBSET Transactions
  PROVE  MovesOver(L, w, r, u, v, S)
  <1> DEFINE g == [t \in Transactions |-> Cardinality(L \cap Positions(w, {t}))]
             c == Cardinality(L \cap Positions(w, S))
  <1> PICK stays : stays = InOrder(DOMAIN w \ L)
    OBVIOUS
  <1>0. /\ r = [i \in DOMAIN stays |-> w[stays[i]]]
        /\ v = [t \in Transactions |-> u[t] + Cardinality({i \in L : w[i] = t})]
    BY DEF Dispatches
  <1>1. r \in Seq(Transactions) /\ Kept(r, w, L)
    BY <1>0, StaysKept
  <1>2. IsFiniteSet(L) /\ IsFiniteSet(S)
    <2>1. /\ Len(w) \in Nat /\ DOMAIN w = 1 .. Len(w)
      BY LenProperties
    <2> QED
      BY <2>1, FirstNumbers, ContractAssumption, FS_Subset
  <1>3. ASSUME NEW X
        PROVE  IsFiniteSet(L \cap X) /\ Cardinality(L \cap X) \in Nat
    BY <1>2, FS_Subset, FS_CardinalityType
  <1>4. ASSUME NEW t \in Transactions
        PROVE  /\ g[t] \in Nat /\ v[t] = u[t] + g[t] /\ u[t] \in Nat /\ v[t] \in Nat
               /\ Cardinality({i \in L : w[i] = t}) = g[t]
    <2>1. {i \in L : w[i] = t} = L \cap Positions(w, {t})
      BY DEF Positions
    <2>2. g[t] = Cardinality({i \in L : w[i] = t})
      BY <2>1
    <2>3. g[t] \in Nat
      BY <1>3
    <2> HIDE DEF g
    <2>4. v[t] = u[t] + g[t] /\ u[t] \in Nat
      BY <1>0, <2>2
    <2> QED
      BY <2>2, <2>3, <2>4
  <1> HIDE DEF g, c
  <1>5. v \in [Transactions -> Nat] /\ \A t \in Transactions : u[t] <= v[t]
    <2>1. \A t \in Transactions : v[t] \in Nat
      BY <1>4
    <2>2. v \in [Transactions -> Nat]
      <3>1. v = [t \in Transactions |-> v[t]]
        BY <1>0
      <3> QED
        BY ONLY <2>1, <3>1
    <2>3. ASSUME NEW t \in Transactions
          PROVE  u[t] <= v[t]
      <3>1. g[t] \in Nat /\ v[t] = u[t] + g[t] /\ u[t] \in Nat
        BY <1>4
      <3> QED
        BY <3>1
    <2> QED
      BY <2>2, <2>3
  <1>6. Total(g, S) = c
    <2>1. \A t \in S : g[t] = Cardinality(L \cap Positions(w, {t}))
      BY DEF g
    <2> QED
      BY <1>2, <2>1, TotalOfCounts DEF c
  <1>7. Total(v, S) = Total(u, S) + Total(g, S)
    <2>1. \A t \in S : u[t] \in Nat /\ g[t] \in Nat /\ v[t] = u[t] + g[t]
      BY <1>4
    <2> QED
      BY ONLY <1>2, <2>1, TotalAdds
  <1>8. Splits(r, w, L, S)
    BY <1>1, KeptTally
  <1>9. Tally(w, S) = Tally(r, S) + c
    BY <1>8 DEF Splits, c
  <1>10. Tally(r, S) \in Nat /\ Tally(w, S) \in Nat
    BY <1>1, TallyType
  <1>11. Total(u, S) \in Nat /\ Total(v, S) \in Nat
    <2>1. \A t \in S : u[t] \in Nat /\ v[t] \in Nat
      BY <1>4
    <2> QED
      BY <1>2, <2>1, TotalType
  <1>12. c \in Nat /\ Cardinality(L) \in Nat
    BY <1>2, <1>3, FS_CardinalityType DEF c
  <1>14. Len(r) + Cardinality(L) = Len(w)
    <2>1. Splits(r, w, L, Transactions)
      BY <1>1, KeptTally
    <2>2. /\ Positions(w, Transactions) = DOMAIN w
          /\ Tally(w, Transactions) = Len(w) /\ Tally(r, Transactions) = Len(r)
      BY <1>1, TallyAll
    <2>3. L \cap Positions(w, Transactions) = L
      BY <2>2
    <2>4. Len(r) \in Nat /\ Len(w) \in Nat
      BY <1>1, LenProperties
    <2> QED
      BY <1>12, <2>1, <2>2, <2>3, <2>4 DEF Splits
  <1>13. /\ Total(v, S) = Total(u, S) + c
         /\ Tally(w, S) + Total(u, S) = Tally(r, S) + Total(v, S)
    BY <1>6, <1>7, <1>9, <1>10, <1>11, <1>12
  <1>15. \A t \in Transactions :
           u[t] <= v[t] /\ v[t] = u[t] + Cardinality({i \in L : w[i] = t})
                        /\ Cardinality({i \in L : w[i] = t}) \in Nat
    BY <1>4, <1>5
  <1> QED
    BY <1>1, <1>5, <1>10, <1>11, <1>12, <1>13, <1>14, <1>15 DEF c, MovesOver

\* How many of S the memory has: in its queue, and underway.
Carried(S) == Tally(waiting, S) + Total(underway, S)

ContractTyped ==
  /\ waiting \in Seq(Transactions) /\ Len(waiting) <= QueueDepth
  /\ underway \in [Transactions -> Nat] /\ TotalUnderway <= MaxUnderway
  /\ half \in {"begin", "end"}

LEMMA CarriedType ==
  ASSUME ContractTyped, NEW S \in SUBSET Transactions
  PROVE  Carried(S) \in Nat /\ Tally(waiting, S) \in Nat /\ Total(underway, S) \in Nat
  <1>1. waiting \in Seq(Transactions) /\ underway \in [Transactions -> Nat]
    BY DEF ContractTyped
  <1>2. IsFiniteSet(S)
    BY ContractAssumption, FS_Subset
  <1>3. \A t \in S : underway[t] \in Nat
    BY <1>1
  <1>4. Tally(waiting, S) \in Nat /\ Total(underway, S) \in Nat
    BY <1>1, <1>2, <1>3, TallyType, TotalType
  <1> QED
    BY <1>4 DEF Carried

\* What fits into the queue and the pipelines.
Capacity == QueueDepth + MaxUnderway

LEMMA QueueAndPipesWithin ==
  ASSUME NEW w \in Seq(Transactions), Len(w) <= QueueDepth,
         NEW u \in [Transactions -> Nat], Total(u, Transactions) <= MaxUnderway,
         NEW S \in SUBSET Transactions
  PROVE  Tally(w, S) + Total(u, S) \in Nat /\ Tally(w, S) + Total(u, S) <= Capacity
  <1>1. QueueDepth \in Nat /\ MaxUnderway \in Nat /\ IsFiniteSet(Transactions) /\ IsFiniteSet(S)
    BY ContractAssumption, FS_Subset
  <1>2. \A t \in Transactions : u[t] \in Nat
    OBVIOUS
  <1>3. Len(w) \in Nat /\ DOMAIN w = 1 .. Len(w)
    BY LenProperties
  <1>4. Tally(w, S) \in Nat /\ Tally(w, S) <= Len(w)
    <2>1. IsFiniteSet(DOMAIN w) /\ Cardinality(DOMAIN w) = Len(w)
      BY <1>3, FirstNumbers
    <2>2. Positions(w, S) \in SUBSET DOMAIN w
      BY DEF Positions
    <2>3. Cardinality(Positions(w, S)) <= Cardinality(DOMAIN w)
      BY <2>1, <2>2, FS_Subset
    <2> QED
      BY <2>1, <2>3, TallyType DEF Tally
  <1>5. Total(u, S) \in Nat /\ Total(u, Transactions) \in Nat
    BY <1>1, <1>2, TotalType
  <1>6. Total(u, S) <= Total(u, Transactions)
    BY <1>1, <1>2, TotalOfPart
  <1> QED
    BY <1>1, <1>3, <1>4, <1>5, <1>6 DEF Capacity

LEMMA CarriedWithinNext ==
  ASSUME ContractTyped', NEW S \in SUBSET Transactions
  PROVE  Carried(S)' \in Nat /\ Carried(S)' <= Capacity
  <1> PICK w : w = waiting'
    OBVIOUS
  <1> PICK u : u = underway'
    OBVIOUS
  <1>1. /\ w \in Seq(Transactions) /\ Len(w) <= QueueDepth
        /\ u \in [Transactions -> Nat] /\ Total(u, Transactions) <= MaxUnderway
    BY DEF ContractTyped, TotalUnderway
  <1>2. Carried(S)' = Tally(w, S) + Total(u, S)
    BY DEF Carried
  <1> QED
    BY <1>1, <1>2, QueueAndPipesWithin

LEMMA AcceptNumbers ==
  ASSUME ContractTyped, NEW t \in Transactions, Accept(t)
  PROVE  /\ ContractTyped' /\ half' = half
         /\ \A S \in SUBSET Transactions : Carried(S)' = Carried(S) + One(t \in S)
  <1>1. /\ waiting \in Seq(Transactions) /\ waiting' = Append(waiting, t)
        /\ Len(waiting) < QueueDepth /\ UNCHANGED <<underway, half>>
    BY DEF ContractTyped, Accept, HasRoom
  <1>2. /\ waiting' \in Seq(Transactions) /\ Len(waiting') = Len(waiting) + 1
        /\ Len(waiting) \in Nat
    BY <1>1, LenProperties
  <1>3. ContractTyped'
    <2>1. QueueDepth \in Nat
      BY ContractAssumption
    <2>2. TotalUnderway' = TotalUnderway
      BY <1>1 DEF TotalUnderway
    <2> QED
      BY <1>1, <1>2, <2>1, <2>2 DEF ContractTyped
  <1>4. ASSUME NEW S \in SUBSET Transactions
        PROVE  Carried(S)' = Carried(S) + One(t \in S)
    <2>1. Tally(Append(waiting, t), S) = Tally(waiting, S) + One(t \in S)
      BY <1>1, TallyAppend
    <2>2. Tally(waiting', S) = Tally(waiting, S) + One(t \in S)
      BY <1>1, <2>1
    <2>3. /\ Tally(waiting, S) \in Nat /\ Total(underway, S) \in Nat
          /\ Total(underway', S) = Total(underway, S)
      BY <1>1, CarriedType
    <2>4. One(t \in S) \in {0, 1}
      BY OneType
    <2> QED
      BY <2>2, <2>3, <2>4 DEF Carried
  <1> QED
    BY <1>1, <1>3, <1>4

LEMMA BeginNumbers ==
  ASSUME ContractTyped, NEW type, NEW A \in AtMostOne(type), BeginUpdate(A)
  PROVE  /\ ContractTyped' /\ half' = "end" /\ waiting' = waiting
         /\ \A S \in SUBSET Transactions : Carried(S) = Carried(S)' + One(A \cap S # {})
  <1> PICK u : u = underway
    OBVIOUS
  <1> PICK v : v = underway'
    OBVIOUS
  <1>1. u \in [Transactions -> Nat] /\ Answers(A, u, v)
    BY AtMostOneIs DEF ContractTyped, BeginUpdate, Answers
  <1>2. \A S \in SUBSET Transactions : LessBy(A, u, v, S)
    BY ONLY <1>1, AnsweredTotal
  <1>3. half' = "end" /\ waiting' = waiting
    BY DEF BeginUpdate
  <1>4. TotalUnderway' <= TotalUnderway /\ TotalUnderway \in Nat /\ TotalUnderway' \in Nat
    <2>1. /\ Total(v, Transactions) \in Nat /\ Total(u, Transactions) \in Nat
          /\ Total(u, Transactions) = Total(v, Transactions) + One(A \cap Transactions # {})
      BY <1>2 DEF LessBy
    <2>2. One(A \cap Transactions # {}) \in {0, 1}
      BY OneType
    <2>3. TotalUnderway = Total(u, Transactions) /\ TotalUnderway' = Total(v, Transactions)
      BY DEF TotalUnderway
    <2> QED
      BY <2>1, <2>2, <2>3
  <1>5. ContractTyped'
    <2>1. MaxUnderway \in Nat
      BY ContractAssumption
    <2>2. LessBy(A, u, v, Transactions)
      BY <1>2
    <2>3. underway' \in [Transactions -> Nat]
      BY <2>2 DEF LessBy
    <2> QED
      BY <1>3, <1>4, <2>1, <2>2, <2>3 DEF ContractTyped
  <1>6. ASSUME NEW S \in SUBSET Transactions
        PROVE  Carried(S) = Carried(S)' + One(A \cap S # {})
    <2>1. /\ Total(v, S) \in Nat /\ Total(u, S) \in Nat
          /\ Total(u, S) = Total(v, S) + One(A \cap S # {})
      BY <1>2 DEF LessBy
    <2>2. Tally(waiting, S) \in Nat /\ Tally(waiting', S) = Tally(waiting, S)
      BY <1>3, CarriedType
    <2>3. Carried(S) = Tally(waiting, S) + Total(u, S) /\ Carried(S)' = Tally(waiting', S) + Total(v, S)
      BY DEF Carried
    <2>4. One(A \cap S # {}) \in {0, 1}
      BY OneType
    <2> QED
      BY <2>1, <2>2, <2>3, <2>4
  <1> QED
    BY <1>3, <1>5, <1>6

LEMMA EndNumbers ==
  ASSUME ContractTyped, NEW type, NEW A \in AtMostOne(type), NEW L \in SUBSET DOMAIN waiting,
         EndUpdate(L, A)
  PROVE  /\ ContractTyped' /\ half' = "begin"
         /\ \A S \in SUBSET Transactions : Carried(S) = Carried(S)' + One(A \cap S # {})
  <1> PICK u : u = underway
    OBVIOUS
  <1> PICK w : w = waiting
    OBVIOUS
  <1> PICK r : r = waiting'
    OBVIOUS
  <1> PICK x : x = underway'
    OBVIOUS
  <1> PICK v : v = [t \in Transactions |-> u[t] + Cardinality({i \in L : w[i] = t})]
    OBVIOUS
  <1>1. /\ u \in [Transactions -> Nat] /\ AnsweredOf(A, u)
        /\ w \in Seq(Transactions) /\ L \in SUBSET DOMAIN w
    BY AtMostOneIs DEF ContractTyped
  <1>2. /\ x = [t \in Transactions |->
                  u[t] + Cardinality({i \in L : w[i] = t}) - (IF t \in A THEN 1 ELSE 0)]
        /\ Total(u, Transactions) + Cardinality(L) <= MaxUnderway
        /\ half' = "begin"
    BY DEF EndUpdate, TotalUnderway
  <1>3. Dispatches(L, w, r, u, v)
    BY DEF EndUpdate, Dispatches
  <1>4. \A S \in SUBSET Transactions : MovesOver(L, w, r, u, v, S)
    BY ONLY <1>1, <1>3, DispatchedTotal
  <1>5. /\ r \in Seq(Transactions) /\ Len(r) + Cardinality(L) = Len(w) /\ Cardinality(L) \in Nat
        /\ v \in [Transactions -> Nat]
        /\ \A t \in Transactions :
             u[t] <= v[t] /\ v[t] = u[t] + Cardinality({i \in L : w[i] = t})
                          /\ Cardinality({i \in L : w[i] = t}) \in Nat
    BY <1>4 DEF MovesOver
  <1>6. x = [t \in Transactions |-> IF t \in A THEN v[t] - 1 ELSE v[t]]
    <2>1. ASSUME NEW t \in Transactions
          PROVE  u[t] + Cardinality({i \in L : w[i] = t}) - (IF t \in A THEN 1 ELSE 0)
                   = IF t \in A THEN v[t] - 1 ELSE v[t]
      <3> PICK c : c = Cardinality({i \in L : w[i] = t})
        OBVIOUS
      <3>1. v[t] = u[t] + c /\ v[t] \in Nat /\ u[t] \in Nat /\ c \in Nat
        BY <1>1, <1>5
      <3>2. u[t] + c - (IF t \in A THEN 1 ELSE 0) = IF t \in A THEN v[t] - 1 ELSE v[t]
        BY <3>1
      <3> QED
        BY <3>2
    <2> QED
      BY <1>2, <2>1
  <1>7. AnsweredOf(A, v)
    <2>1. CASE A = {}
      BY <2>1 DEF AnsweredOf
    <2>2. CASE A # {}
      <3>1. PICK t \in Transactions : A = {t} /\ u[t] > 0
        BY <1>1, <2>2 DEF AnsweredOf
      <3>2. u[t] \in Nat /\ v[t] \in Nat /\ u[t] <= v[t]
        BY <1>1, <1>5
      <3> QED
        BY <3>1, <3>2 DEF AnsweredOf
    <2> QED
      BY <2>1, <2>2
  <1>8. \A S \in SUBSET Transactions : LessBy(A, v, x, S)
    <2>1. v \in [Transactions -> Nat] /\ Answers(A, v, x)
      BY <1>5, <1>6, <1>7 DEF Answers
    <2> QED
      BY ONLY <2>1, AnsweredTotal
  <1>9. Total(x, Transactions) <= MaxUnderway
    <2>0. L \cap Positions(w, Transactions) = L
      BY <1>1, TallyAll
    <2>1. MovesOver(L, w, r, u, v, Transactions)
      BY <1>4
    <2>2. /\ Total(v, Transactions) = Total(u, Transactions) + Cardinality(L)
          /\ Total(u, Transactions) \in Nat /\ Total(v, Transactions) \in Nat
      BY <2>0, <2>1 DEF MovesOver
    <2>3. /\ Total(x, Transactions) \in Nat
          /\ Total(v, Transactions) = Total(x, Transactions) + One(A \cap Transactions # {})
      BY <1>8 DEF LessBy
    <2>4. One(A \cap Transactions # {}) \in {0, 1} /\ MaxUnderway \in Nat
      BY OneType, ContractAssumption
    <2> QED
      BY <1>2, <1>5, <2>2, <2>3, <2>4
  <1>10. ContractTyped'
    <2>1. Len(r) <= QueueDepth
      <3>1. Len(w) <= QueueDepth /\ QueueDepth \in Nat
        BY ContractAssumption DEF ContractTyped
      <3>2. Len(r) \in Nat /\ Len(w) \in Nat
        BY <1>1, <1>5, LenProperties
      <3> QED
        BY <1>5, <3>1, <3>2
    <2>2. waiting' \in Seq(Transactions) /\ Len(waiting') <= QueueDepth
      BY <1>5, <2>1
    <2>3. underway' \in [Transactions -> Nat] /\ TotalUnderway' <= MaxUnderway
      BY <1>8, <1>9 DEF TotalUnderway, LessBy
    <2> QED
      BY <1>2, <2>2, <2>3 DEF ContractTyped
  <1>11. ASSUME NEW S \in SUBSET Transactions
         PROVE  Carried(S) = Carried(S)' + One(A \cap S # {})
    <2>1. /\ Tally(w, S) + Total(u, S) = Tally(r, S) + Total(v, S)
          /\ Total(u, S) \in Nat /\ Total(v, S) \in Nat
          /\ Tally(w, S) \in Nat /\ Tally(r, S) \in Nat
      BY <1>4 DEF MovesOver
    <2>2. Total(x, S) \in Nat /\ Total(v, S) = Total(x, S) + One(A \cap S # {})
      BY <1>8 DEF LessBy
    <2>3. Carried(S) = Tally(w, S) + Total(u, S) /\ Carried(S)' = Tally(r, S) + Total(x, S)
      BY DEF Carried
    <2>4. One(A \cap S # {}) \in {0, 1}
      BY OneType
    <2> QED
      BY <2>1, <2>2, <2>3, <2>4
  <1> QED
    BY <1>2, <1>10, <1>11

-----------------------------------------------------------------------------
(* The interface.  A busy signal that is up stands for something the memory has: *)
(* a full queue when it goes up, and what is called back lowers it.              *)

InterfaceInv ==
  /\ ContractTyped
  /\ half = "end" => updating
  /\ sgnDimmEnable \in BOOLEAN /\ sgnRequest \in Requests \cup {Nothing}
  /\ sgnDimmEnable => sgnRequest \in Requests
  /\ sgnBiuBusy \in BOOLEAN /\ (sgnBiuBusy => Carried(Transactions) > 0)
  /\ sgnCompAck \in BOOLEAN /\ sgnResponse \in Transactions \cup {Nothing}
  /\ _bInitialTime \in BOOLEAN /\ updating \in BOOLEAN /\ eof \in BOOLEAN
  /\ lines \in 0 .. MaxLines
  /\ completions \in Seq(Transactions)
  /\ Len(completions) <= IF ~updating THEN 2 ELSE IF half = "begin" THEN 0 ELSE 1

LEMMA InterfaceInvInit == InterfaceInit => InterfaceInv
  <1> SUFFICES ASSUME InterfaceInit PROVE InterfaceInv
    OBVIOUS
  <1>1. /\ waiting = <<>> /\ underway = [t \in Transactions |-> 0] /\ half = "begin"
    BY DEF InterfaceInit, ContractInit
  <1>2. TotalUnderway = 0
    <2>1. \A t \in Transactions : underway[t] = 0
      BY <1>1
    <2>2. Total(underway, Transactions) = 0
      BY <2>1, ContractAssumption, TotalOfZeros
    <2> QED
      BY <2>2 DEF TotalUnderway
  <1>3. ContractTyped
    <2>1. QueueDepth \in Nat /\ MaxUnderway \in Nat
      BY ContractAssumption
    <2>2. waiting \in Seq(Transactions) /\ Len(waiting) = 0
      BY <1>1
    <2>3. underway \in [Transactions -> Nat]
      BY <1>1
    <2> QED
      BY <1>1, <1>2, <2>1, <2>2, <2>3 DEF ContractTyped
  <1>4. completions \in Seq(Transactions) /\ Len(completions) = 0
    BY DEF InterfaceInit
  <1>5. 0 \in 0 .. MaxLines
    BY TraceAssumption
  <1>6. Len(completions) <= IF ~updating THEN 2 ELSE IF half = "begin" THEN 0 ELSE 1
    BY <1>4 DEF InterfaceInit
  <1>7. sgnBiuBusy = FALSE /\ half = "begin"
    BY <1>1 DEF InterfaceInit
  <1> QED
    BY <1>3, <1>4, <1>5, <1>6, <1>7 DEF InterfaceInit, InterfaceInv

\* What the Stimulus leaves on the signals is a request when DE is up.
LEMMA StimulusSends ==
  ASSUME InterfaceInv, StimulusRun
  PROVE  /\ sgnDimmEnable' \in BOOLEAN /\ sgnRequest' \in Requests \cup {Nothing}
         /\ sgnDimmEnable' => sgnRequest' \in Requests
         /\ eof' \in BOOLEAN /\ lines' \in 0 .. MaxLines
  <1>1. lines \in 0 .. MaxLines /\ MaxLines \in Nat
    BY TraceAssumption DEF InterfaceInv
  <1>2. CASE SendLine
    BY <1>1, <1>2 DEF SendLine
  <1>3. CASE SkipLine
    <2>1. eof' \in BOOLEAN /\ lines' \in 0 .. MaxLines
      <3>1. CASE lines < MaxLines /\ lines' = lines + 1 /\ UNCHANGED eof
        BY <1>1, <3>1 DEF InterfaceInv
      <3>2. CASE UNCHANGED lines /\ eof' = TRUE
        BY <1>1, <3>2
      <3> QED
        BY <1>3, <3>1, <3>2 DEF SkipLine
    <2> QED
      BY <1>3, <2>1 DEF SkipLine, InterfaceInv
  <1>4. CASE HoldLine
    BY <1>1, <1>4 DEF HoldLine, trace, InterfaceInv
  <1>5. CASE idleState
    BY <1>1, <1>5 DEF idleState, trace, InterfaceInv
  <1> QED
    BY <1>2, <1>3, <1>4, <1>5 DEF StimulusRun

LEMMA EdgeKeepsInterface ==
  ASSUME InterfaceInv, ClockEdge
  PROVE  InterfaceInv'
  <1>1. /\ ~updating /\ half = "begin"
    BY DEF ClockEdge, InterfaceInv, ContractTyped
  <1>2. /\ sgnCompAck' = FALSE /\ sgnResponse' = sgnResponse
        /\ updating' = ~_bInitialTime /\ _bInitialTime' = FALSE /\ completions' = <<>>
    BY DEF ClockEdge, RunSystem, ClearCompAck
  <1>3. /\ ContractTyped' /\ half' = "begin"
        /\ sgnBiuBusy' \in BOOLEAN /\ (sgnBiuBusy' => Carried(Transactions)' > 0)
    <2>1. Carried(Transactions) \in Nat
      BY CarriedType DEF InterfaceInv
    <2>2. CASE TakeRequest
      <3>1. /\ sgnRequest \in Requests /\ Accept(alignTransactionAddress(sgnRequest))
            /\ sgnBiuBusy' = sgnBiuBusy
        BY <2>2 DEF TakeRequest, InterfaceInv
      <3>2. alignTransactionAddress(sgnRequest) \in Transactions
        BY <3>1, TraceAssumption
      <3> PICK t : t = alignTransactionAddress(sgnRequest)
        OBVIOUS
      <3>3. t \in Transactions /\ Accept(t)
        BY <3>1, <3>2
      <3>4. /\ ContractTyped' /\ half' = half
            /\ Carried(Transactions)' = Carried(Transactions) + One(t \in Transactions)
        BY <3>3, AcceptNumbers DEF InterfaceInv
      <3>5. One(t \in Transactions) \in {0, 1}
        BY OneType
      <3>6. Carried(Transactions) > 0 => Carried(Transactions)' > 0
        BY <2>1, <3>4, <3>5
      <3> QED
        BY <1>1, <3>1, <3>4, <3>6 DEF InterfaceInv
    <2>3. CASE RefuseRequest
      <3>1. ~HasRoom /\ UNCHANGED contractVars /\ sgnBiuBusy' = TRUE
        BY <2>3 DEF RefuseRequest
      <3>2. ContractTyped' /\ half' = half /\ Carried(Transactions)' = Carried(Transactions)
        BY <3>1 DEF contractVars, ContractTyped, TotalUnderway, Carried, InterfaceInv
      <3>3. Carried(Transactions) > 0
        <4>1. waiting \in Seq(Transactions) /\ Len(waiting) \in Nat
          BY LenProperties DEF InterfaceInv, ContractTyped
        <4>2. Len(waiting) > 0
          BY <3>1, <4>1, ContractAssumption DEF HasRoom
        <4>3. Tally(waiting, Transactions) = Len(waiting)
          BY <4>1, TallyAll
        <4>4. Total(underway, Transactions) \in Nat
          BY CarriedType DEF InterfaceInv
        <4> QED
          BY <4>1, <4>2, <4>3, <4>4 DEF Carried
      <3> QED
        BY <1>1, <3>1, <3>2, <3>3
    <2>4. CASE NoRequest
      <3>1. UNCHANGED contractVars /\ sgnBiuBusy' = sgnBiuBusy
        BY <2>4 DEF NoRequest
      <3>2. ContractTyped' /\ half' = half /\ Carried(Transactions)' = Carried(Transactions)
        BY <3>1 DEF contractVars, ContractTyped, TotalUnderway, Carried, InterfaceInv
      <3> QED
        BY <1>1, <3>1, <3>2 DEF InterfaceInv
    <2> QED
      BY <2>2, <2>3, <2>4 DEF ClockEdge, RunSystem
  <1>4. /\ sgnDimmEnable' \in BOOLEAN /\ sgnRequest' \in Requests \cup {Nothing}
        /\ sgnDimmEnable' => sgnRequest' \in Requests
        /\ eof' \in BOOLEAN /\ lines' \in 0 .. MaxLines
    BY StimulusSends DEF ClockEdge
  <1>5. completions' \in Seq(Transactions) /\ Len(completions') = 0
    BY <1>2
  <1>6. sgnCompAck' \in BOOLEAN /\ sgnResponse' \in Transactions \cup {Nothing}
        /\ _bInitialTime' \in BOOLEAN /\ updating' \in BOOLEAN
    BY <1>2 DEF InterfaceInv
  <1> QED
    BY <1>3, <1>4, <1>5, <1>6 DEF InterfaceInv

\* Something was called back: one transaction less, and RB is low.  Or nothing was,
\* and the signals and the number of transactions stay.
LEMMA CompleteKeepsBusy ==
  ASSUME InterfaceInv, NEW type, NEW A \in AtMostOne(type), Complete(A),
         \A S \in SUBSET Transactions : Carried(S) = Carried(S)' + One(A \cap S # {}),
         ContractTyped'
  PROVE  /\ sgnBiuBusy' \in BOOLEAN /\ (sgnBiuBusy' => Carried(Transactions)' > 0)
         /\ sgnCompAck' \in BOOLEAN /\ sgnResponse' \in Transactions \cup {Nothing}
         /\ UNCHANGED <<sgnDimmEnable, sgnRequest>>
         /\ completions' \in Seq(Transactions) /\ Len(completions') <= Len(completions) + 1
         /\ Len(completions) \in Nat /\ Len(completions') \in Nat
  <1>1. completions \in Seq(Transactions) /\ Len(completions) \in Nat
    BY LenProperties DEF InterfaceInv
  <1>2. CASE A = {}
    <2>1. UNCHANGED <<signals, completions>>
      BY <1>2 DEF Complete
    <2>2. Carried(Transactions) = Carried(Transactions)' + 0
      <3>1. ~(A \cap Transactions # {})
        BY <1>2
      <3>2. One(A \cap Transactions # {}) = 0
        BY <3>1 DEF One
      <3> QED
        BY <3>2
    <2>3. Carried(Transactions) \in Nat
      BY CarriedType DEF InterfaceInv
    <2>4. Carried(Transactions)' \in Nat
      BY CarriedWithinNext
    <2>5. Carried(Transactions)' = Carried(Transactions)
      BY <2>2, <2>4
    <2>6. /\ sgnBiuBusy \in BOOLEAN /\ (sgnBiuBusy => Carried(Transactions) > 0)
          /\ sgnCompAck \in BOOLEAN /\ sgnResponse \in Transactions \cup {Nothing}
      BY DEF InterfaceInv
    <2> QED
      BY <1>1, <2>1, <2>5, <2>6 DEF signals
  <1>3. CASE A # {}
    <2>1. PICK t \in A : /\ sgnBiuBusy' = FALSE /\ sgnCompAck' = TRUE /\ sgnResponse' = t
                         /\ completions' = Append(completions, t)
                         /\ UNCHANGED <<sgnDimmEnable, sgnRequest>>
      BY <1>3 DEF Complete
    <2>2. t \in Transactions
      BY AtMostOneIs
    <2>3. completions' \in Seq(Transactions) /\ Len(completions') = Len(completions) + 1
      BY <1>1, <2>1, <2>2, AppendProperties
    <2>4. Len(completions') \in Nat /\ Len(completions') <= Len(completions) + 1
      <3>1. \A m \in Nat : \A n : n = m + 1 => n \in Nat /\ n <= m + 1
        OBVIOUS
      <3> QED
        BY ONLY <1>1, <2>3, <3>1
    <2>5. /\ sgnBiuBusy' = FALSE /\ sgnCompAck' = TRUE
          /\ sgnResponse' \in Transactions \cup {Nothing}
      BY <2>1, <2>2
    <2> QED
      BY ONLY <1>1, <2>1, <2>3, <2>4, <2>5
  <1> QED
    BY <1>2, <1>3

LEMMA HalfKeepsInterface ==
  ASSUME InterfaceInv, WriteHalf \/ ReadHalf
  PROVE  InterfaceInv'
  <1>1. ASSUME WriteHalf PROVE InterfaceInv'
    <2>1. PICK A \in AtMostOne("DATA_WRITE") : BeginUpdate(A) /\ Complete(A)
      BY <1>1 DEF WriteHalf
    <2>2. /\ updating /\ updating' = updating /\ UNCHANGED <<trace, _bInitialTime>>
          /\ half = "begin"
      BY <1>1, <2>1 DEF WriteHalf, BeginUpdate
    <2>3. /\ ContractTyped' /\ half' = "end"
          /\ \A S \in SUBSET Transactions : Carried(S) = Carried(S)' + One(A \cap S # {})
      BY <2>1, BeginNumbers DEF InterfaceInv
    <2>4. /\ sgnBiuBusy' \in BOOLEAN /\ (sgnBiuBusy' => Carried(Transactions)' > 0)
          /\ sgnCompAck' \in BOOLEAN /\ sgnResponse' \in Transactions \cup {Nothing}
          /\ UNCHANGED <<sgnDimmEnable, sgnRequest>>
          /\ completions' \in Seq(Transactions) /\ Len(completions') <= Len(completions) + 1
          /\ Len(completions) \in Nat /\ Len(completions') \in Nat
      BY <2>1, <2>3, CompleteKeepsBusy
    <2>5. Len(completions) <= 0
      BY <2>2 DEF InterfaceInv
    <2>6. Len(completions') <= IF ~updating' THEN 2 ELSE IF half' = "begin" THEN 0 ELSE 1
      BY <2>2, <2>3, <2>4, <2>5
    <2> QED
      BY <2>2, <2>3, <2>4, <2>6 DEF InterfaceInv, trace
  <1>2. ASSUME ReadHalf PROVE InterfaceInv'
    <2>1. PICK L \in SUBSET DOMAIN waiting, A \in AtMostOne("DATA_READ") :
            EndUpdate(L, A) /\ Complete(A)
      BY <1>2 DEF ReadHalf
    <2>2. /\ updating /\ updating' = FALSE /\ UNCHANGED <<trace, _bInitialTime>>
          /\ half = "end"
      BY <1>2, <2>1 DEF ReadHalf, EndUpdate
    <2>3. /\ ContractTyped' /\ half' = "begin"
          /\ \A S \in SUBSET Transactions : Carried(S) = Carried(S)' + One(A \cap S # {})
      BY <2>1, EndNumbers DEF InterfaceInv
    <2>4. /\ sgnBiuBusy' \in BOOLEAN /\ (sgnBiuBusy' => Carried(Transactions)' > 0)
          /\ sgnCompAck' \in BOOLEAN /\ sgnResponse' \in Transactions \cup {Nothing}
          /\ UNCHANGED <<sgnDimmEnable, sgnRequest>>
          /\ completions' \in Seq(Transactions) /\ Len(completions') <= Len(completions) + 1
          /\ Len(completions) \in Nat /\ Len(completions') \in Nat
      BY <2>1, <2>3, CompleteKeepsBusy
    <2>5. Len(completions) <= 1
      BY <2>2 DEF InterfaceInv
    <2>6. Len(completions') <= IF ~updating' THEN 2 ELSE IF half' = "begin" THEN 0 ELSE 1
      BY <2>2, <2>3, <2>4, <2>5
    <2> QED
      BY <2>2, <2>3, <2>4, <2>6 DEF InterfaceInv, trace
  <1> QED
    BY <1>1, <1>2

LEMMA InterfaceInvStep == InterfaceInv /\ [DataNext]_allVars => InterfaceInv'
  <1> SUFFICES ASSUME InterfaceInv, [DataNext]_allVars PROVE InterfaceInv'
    OBVIOUS
  <1>1. CASE DataEdge
    BY <1>1, EdgeKeepsInterface DEF DataEdge
  <1>2. CASE DataHalf
    BY <1>2, HalfKeepsInterface DEF DataHalf
  <1>3. CASE UNCHANGED allVars
    BY <1>3 DEF allVars, interfaceVars, contractVars, signals, trace, InterfaceInv,
                ContractTyped, TotalUnderway, Carried
  <1> QED
    BY <1>1, <1>2, <1>3 DEF DataNext

\* RB never holds the Stimulus back without the memory having something to complete: it
\* goes up over a full queue, and only a callback takes something away, with which it
\* falls.
THEOREM BusyAlwaysMeansPending == DataSpec => []BusyMeansPending
  <1>1. DataInit => InterfaceInv
    BY InterfaceInvInit DEF DataInit
  <1>2. InterfaceInv => BusyMeansPending
    <2> SUFFICES ASSUME InterfaceInv, sgnBiuBusy, waiting = <<>> PROVE TotalUnderway > 0
      BY DEF BusyMeansPending
    <2>1. Tally(waiting, Transactions) = 0
      BY TallyEmpty
    <2>2. Total(underway, Transactions) \in Nat
      BY CarriedType DEF InterfaceInv
    <2> QED
      BY <2>1, <2>2 DEF InterfaceInv, Carried, TotalUnderway
  <1> QED
    BY <1>1, <1>2, InterfaceInvStep, PTL DEF DataSpec

-----------------------------------------------------------------------------
(* The score board. *)

Entry == [_bWrite : Garbage, _nRefCnts : 1 .. MaxRefCnts]

LEMMA BookedType ==
  ASSUME NEW es \in Seq(Entry), NEW es2 \in Booked(es)
  PROVE  es2 \in Seq(Entry)
  <1>0. MaxRefCnts \in Nat /\ MaxRefCnts >= 1
    BY DataAssumption
  <1>1. CASE es # <<>> /\ ~es[1]._bWrite
    <2>1. PICK n \in Increased(es[1]._nRefCnts) : es2 = [es EXCEPT ![1]._nRefCnts = n]
      BY <1>1 DEF Booked
    <2>2. 1 \in 1 .. Len(es) /\ es[1] \in Entry
      BY <1>1, EmptySeq, LenProperties
    <2> PICK c : c = es[1]._nRefCnts
      OBVIOUS
    <2>3. c \in 1 .. MaxRefCnts
      BY <2>2 DEF Entry
    <2>4. n = Min({c + 1, MaxRefCnts})
      BY <2>1 DEF Increased
    <2>5. n \in 1 .. MaxRefCnts
      <3>1. {c + 1, MaxRefCnts} \in SUBSET Nat /\ {c + 1, MaxRefCnts} # {}
        BY <1>0, <2>3
      <3>2. n \in {c + 1, MaxRefCnts} /\ n <= MaxRefCnts
        BY <2>4, <3>1, MinFacts
      <3> QED
        BY <1>0, <2>3, <3>2
    <2>6. [es[1] EXCEPT !._nRefCnts = n] \in Entry
      BY <2>2, <2>5 DEF Entry
    <2> QED
      BY <2>1, <2>2, <2>6
  <1>2. CASE ~(es # <<>> /\ ~es[1]._bWrite)
    <2>1. CASE Len(es) = MaxEntries
      BY <1>2, <2>1 DEF Booked
    <2>2. CASE Len(es) # MaxEntries
      <3>1. PICK b \in Garbage : es2 = Append(es, [_bWrite |-> b, _nRefCnts |-> 1])
        BY <1>2, <2>2 DEF Booked
      <3>2. [_bWrite |-> b, _nRefCnts |-> 1] \in Entry
        BY <1>0 DEF Entry
      <3> QED
        BY <3>1, <3>2, AppendProperties
    <2> QED
      BY <2>1, <2>2
  <1> QED
    BY <1>1, <1>2

\* The entry that a completion stands for is one of them, if there is one.
LEMMA MatchingIs ==
  ASSUME NEW es \in Seq(Entry), NEW b, Matching(es, b) # {}
  PROVE  \E i \in 1 .. Len(es) : Matching(es, b) = {i} /\ Min(Matching(es, b)) = i
  <1>0. Len(es) \in Nat /\ DOMAIN es = 1 .. Len(es)
    BY LenProperties
  <1>1. \E i \in 1 .. Len(es) : Matching(es, b) = {i}
    <2>1. CASE Len(es) = 1
      BY <2>1 DEF Matching
    <2>2. CASE Len(es) # 1
      <3> DEFINE marked == {i \in DOMAIN es : es[i]._bWrite = b}
      <3>1. marked # {} /\ Matching(es, b) = {Min(marked)}
        BY <2>2 DEF Matching
      <3>2. marked \in SUBSET Nat /\ marked \in SUBSET (1 .. Len(es))
        BY <1>0
      <3> HIDE DEF marked
      <3>3. Min(marked) \in 1 .. Len(es)
        BY <3>1, <3>2, MinFacts
      <3> QED
        BY <3>1, <3>3
    <2> QED
      BY <2>1, <2>2
  <1>2. ASSUME NEW i \in 1 .. Len(es) PROVE Min({i}) = i
    <2>1. {i} \in SUBSET Nat /\ {i} # {}
      BY <1>0
    <2>2. Min({i}) \in {i}
      BY <2>1, MinFacts
    <2> QED
      BY <2>2
  <1> QED
    BY <1>1, <1>2

LEMMA ReleasedType ==
  ASSUME NEW es \in Seq(Entry), NEW b, NEW es2 \in Released(es, b)
  PROVE  es2 \in Seq(Entry)
  <1>0. MaxRefCnts \in Nat
    BY DataAssumption
  <1>1. CASE Matching(es, b) = {}
    BY <1>1 DEF Released
  <1>2. CASE Matching(es, b) # {}
    <2>1. PICK i \in 1 .. Len(es) : Min(Matching(es, b)) = i
      BY <1>2, MatchingIs
    <2>2. PICK n \in Decreased(es[i]._nRefCnts) :
            es2 = IF n = 0 THEN RemoveAt(es, i) ELSE [es EXCEPT ![i]._nRefCnts = n]
      BY <1>2, <2>1 DEF Released
    <2>3. es[i] \in Entry
      BY LenProperties
    <2>4. CASE n = 0
      BY <2>2, <2>4, RemoveAtFacts
    <2>5. CASE n # 0
      <3> PICK c : c = es[i]._nRefCnts
        OBVIOUS
      <3>1. c \in 1 .. MaxRefCnts
        BY <2>3 DEF Entry
      <3>2. n \in {c - 1, c}
        BY DEF Decreased
      <3>3. n \in 1 .. MaxRefCnts
        BY <1>0, <2>5, <3>1, <3>2
      <3>4. [es[i] EXCEPT !._nRefCnts = n] \in Entry
        BY <2>3, <3>3 DEF Entry
      <3> QED
        BY <2>2, <2>5, <3>4
    <2> QED
      BY <2>4, <2>5
  <1> QED
    BY <1>1, <1>2

DataTyped ==
  /\ {storage, sgnDataIn, sgnDataOut, _bUserDataHandlingFault, aborted} \subseteq BOOLEAN
  /\ _scoreBoard \in [Keys -> Seq(Entry)]
  /\ ~storage => ~sgnDataIn /\ ~sgnDataOut /\ \A a \in Keys : _scoreBoard[a] = <<>>

\* At an edge: DIN, and what a read books.
LEMMA EdgeKeepsData ==
  ASSUME InterfaceInv, DataTyped, DataEdge
  PROVE  DataTyped'
  <1>1. /\ storage' = storage /\ aborted' = aborted
        /\ sgnDataOut' = (sgnDataOut /\ ~sgnCompAck)
    BY EdgeClears
  <1>2. sgnDataIn' \in BOOLEAN /\ (~storage => ~sgnDataIn')
    <2>1. CASE SendLine
      <3>1. SendData
        BY <2>1 DEF DataEdge
      <3> QED
        BY <3>1, DataAssumption DEF SendData
    <2>2. CASE ~SendLine
      BY <2>2 DEF DataEdge, KeepData, DataTyped
    <2> QED
      BY <2>1, <2>2
  <1>3. /\ _bUserDataHandlingFault' \in BOOLEAN /\ _scoreBoard' \in [Keys -> Seq(Entry)]
        /\ ~storage => _scoreBoard' = _scoreBoard
    <2>1. BookRequest
      BY DEF DataEdge
    <2>2. CASE ~storage \/ ~sgnDimmEnable
      BY <2>1, <2>2 DEF BookRequest, DataTyped
    <2>3. CASE /\ storage /\ sgnDimmEnable
               /\ sgnRequest.transactionType = "DATA_WRITE"
      BY <2>1, <2>3 DEF BookRequest, DataTyped
    <2>4. CASE /\ storage /\ sgnDimmEnable
               /\ sgnRequest.transactionType # "DATA_WRITE"
      <3>1. PICK es \in Booked(_scoreBoard[sgnRequest.address]) :
              _scoreBoard' = [_scoreBoard EXCEPT ![sgnRequest.address] = es]
        BY <2>1, <2>4 DEF BookRequest
      <3>2. sgnRequest.address \in Keys
        BY <2>4 DEF InterfaceInv, Keys
      <3>3. _scoreBoard[sgnRequest.address] \in Seq(Entry)
        BY <3>2 DEF DataTyped
      <3>4. es \in Seq(Entry)
        BY <3>3, BookedType
      <3>5. _scoreBoard' \in [Keys -> Seq(Entry)]
        BY <3>1, <3>2, <3>4 DEF DataTyped
      <3>6. _bUserDataHandlingFault' = _bUserDataHandlingFault
        BY <2>1, <2>4 DEF BookRequest
      <3> QED
        BY <2>4, <3>5, <3>6 DEF DataTyped
    <2> QED
      BY <2>2, <2>3, <2>4
  <1> QED
    BY <1>1, <1>2, <1>3 DEF DataTyped

\* A callback: DOUT, and what is freed.
LEMMA CompletedKeepsData ==
  ASSUME DataTyped, NEW t, Completed(t)
  PROVE  DataTyped'
  <1>1. UNCHANGED <<storage, sgnDataIn, _bUserDataHandlingFault>>
    BY DEF Completed
  <1>2. sgnDataOut' \in BOOLEAN /\ aborted' \in BOOLEAN /\ (~storage => ~sgnDataOut')
    <2>1. CASE t.transactionType = "DATA_WRITE"
      BY <2>1 DEF Completed, DataTyped
    <2>2. CASE t.transactionType # "DATA_WRITE"
      BY <2>2 DEF Completed, DataOut, DataTyped
    <2> QED
      BY <2>1, <2>2
  <1>3. _scoreBoard' \in [Keys -> Seq(Entry)] /\ (~storage => _scoreBoard' = _scoreBoard)
    <2>1. CASE UNCHANGED _scoreBoard
      BY <2>1 DEF DataTyped
    <2>2. CASE storage /\ FreeFor(t)
      <3>1. PICK es \in Released(_scoreBoard[t.address], t.transactionType = "DATA_WRITE") :
              _scoreBoard' = [_scoreBoard EXCEPT ![t.address] = es]
        BY <2>2 DEF FreeFor
      <3>2. CASE t.address \in Keys
        <4>1. _scoreBoard[t.address] \in Seq(Entry)
          BY <3>2 DEF DataTyped
        <4>2. es \in Seq(Entry)
          BY <4>1, ReleasedType
        <4> QED
          BY <2>2, <3>1, <4>2 DEF DataTyped
      <3>3. CASE t.address \notin Keys
        BY <2>2, <3>1, <3>3 DEF DataTyped
      <3> QED
        BY <3>2, <3>3
    <2> QED
      BY <2>1, <2>2 DEF Completed, Free
  <1> QED
    BY <1>1, <1>2, <1>3 DEF DataTyped

LEMMA DataTypedStep == InterfaceInv /\ DataTyped /\ [DataNext]_allVars => DataTyped'
  <1> SUFFICES ASSUME InterfaceInv, DataTyped, [DataNext]_allVars PROVE DataTyped'
    OBVIOUS
  <1>1. CASE DataEdge
    BY <1>1, EdgeKeepsData
  <1>2. CASE DataHalf
    <2>1. CASE UNCHANGED dataVars
      BY <2>1 DEF dataVars, DataTyped
    <2>2. CASE Completed(Last(completions'))
      BY <2>2, CompletedKeepsData
    <2> QED
      BY <1>2, <2>1, <2>2 DEF DataHalf
  <1>3. CASE UNCHANGED allVars
    BY <1>3 DEF allVars, dataVars, DataTyped
  <1> QED
    BY <1>1, <1>2, <1>3 DEF DataNext

LEMMA DataTypedInit == DataInit => DataTyped
  <1> SUFFICES ASSUME DataInit PROVE DataTyped
    OBVIOUS
  <1>1. _scoreBoard \in [Keys -> Seq(Entry)] /\ \A a \in Keys : _scoreBoard[a] = <<>>
    BY DEF DataInit
  <1> QED
    BY <1>1 DEF DataInit, DataTyped

\* SCIC never asks more of the queue than it holds, never sees more than one write and
\* one read callback in an edge, keeps only entries with users on its score board, and
\* without storage touches neither the data signals nor the board.
THEOREM DataTypeCorrect == DataSpec => []DataTypeOK
  <1>1. DataInit => InterfaceInv
    BY InterfaceInvInit DEF DataInit
  <1>2. InterfaceInv /\ DataTyped => DataTypeOK
    <2> SUFFICES ASSUME InterfaceInv, DataTyped PROVE DataTypeOK
      OBVIOUS
    <2>1. underway \in [Transactions -> 0 .. MaxUnderway]
      <3>1. underway \in [Transactions -> Nat] /\ TotalUnderway <= MaxUnderway
        BY DEF InterfaceInv, ContractTyped
      <3>2. ASSUME NEW t \in Transactions PROVE underway[t] \in 0 .. MaxUnderway
        <4>1. \A x \in Transactions : underway[x] \in Nat
          BY <3>1
        <4>2. Total(underway, Transactions)
                = underway[t] + Total(underway, Transactions \ {t})
          BY <4>1, TotalTakeOut, ContractAssumption
        <4>3. Total(underway, Transactions \ {t}) \in Nat
          <5>1. IsFiniteSet(Transactions \ {t})
            BY FS_Subset, ContractAssumption
          <5> QED
            BY <4>1, <5>1, TotalType
        <4>4. underway[t] \in Nat /\ MaxUnderway \in Nat
          BY <4>1, ContractAssumption
        <4> QED
          BY <3>1, <4>2, <4>3, <4>4 DEF TotalUnderway
      <3> QED
        BY <3>1, <3>2
    <2>2. Len(completions) <= 2
      <3>1. /\ Len(completions) \in Nat
            /\ Len(completions) <= IF ~updating THEN 2 ELSE IF half = "begin" THEN 0 ELSE 1
        BY LenProperties DEF InterfaceInv
      <3> QED
        BY <3>1
    <2>3. InterfaceTypeOK
      BY <2>1, <2>2 DEF InterfaceInv, ContractTyped, InterfaceTypeOK
    <2> QED
      BY <2>3 DEF DataTyped, DataTypeOK, Entry
  <1> QED
    BY <1>1, <1>2, DataTypedInit, InterfaceInvStep, DataTypedStep, PTL DEF DataSpec

-----------------------------------------------------------------------------
(* The users of an address's entries. *)

Counts(es) == [i \in DOMAIN es |-> es[i]._nRefCnts]

LEMMA CountsType ==
  ASSUME NEW es \in Seq(Entry)
  PROVE  /\ IsFiniteSet(DOMAIN es) /\ DOMAIN es = 1 .. Len(es) /\ Len(es) \in Nat
         /\ Cardinality(DOMAIN es) = Len(es)
         /\ \A i \in DOMAIN es : Counts(es)[i] = es[i]._nRefCnts
         /\ \A i \in DOMAIN es : Counts(es)[i] \in Nat \ {0}
         /\ Users(es) = Total(Counts(es), DOMAIN es)
  <1>1. DOMAIN es = 1 .. Len(es) /\ Len(es) \in Nat
    BY LenProperties
  <1>2. IsFiniteSet(DOMAIN es) /\ Cardinality(DOMAIN es) = Len(es)
    BY <1>1, FirstNumbers
  <1>3. MaxRefCnts \in Nat
    BY DataAssumption
  <1>4. ASSUME NEW i \in DOMAIN es
        PROVE  Counts(es)[i] = es[i]._nRefCnts /\ Counts(es)[i] \in Nat \ {0}
    <2>1. es[i] \in Entry
      BY <1>1
    <2>2. es[i]._nRefCnts \in 1 .. MaxRefCnts
      BY <2>1 DEF Entry
    <2> QED
      BY <1>3, <2>2 DEF Counts
  <1> QED
    BY <1>1, <1>2, <1>4 DEF Users, Counts

\* Nobody's buffer is kept.
LEMMA UsersType ==
  ASSUME NEW es \in Seq(Entry)
  PROVE  Users(es) \in Nat /\ Users(es) >= Len(es) /\ (es = <<>> => Users(es) = 0)
  <1>1. IsFiniteSet(DOMAIN es) /\ \A i \in DOMAIN es : Counts(es)[i] \in Nat
    BY CountsType
  <1>2. Total(Counts(es), DOMAIN es) \in Nat
    BY <1>1, TotalType
  <1>3. Total(Counts(es), DOMAIN es) >= Cardinality(DOMAIN es)
    BY CountsType, TotalAtLeast
  <1>4. es = <<>> => Total(Counts(es), DOMAIN es) = 0
    <2>1. Total(Counts(es), {}) = 0
      BY TotalEmpty
    <2>2. es = <<>> => DOMAIN es = {}
      OBVIOUS
    <2> QED
      BY <2>1, <2>2
  <1> QED
    BY <1>2, <1>3, <1>4, CountsType

\* The users of one entry and those of the others.
LEMMA UsersOfOne ==
  ASSUME NEW es \in Seq(Entry), NEW i \in DOMAIN es
  PROVE  /\ Users(es) = es[i]._nRefCnts + Total(Counts(es), DOMAIN es \ {i})
         /\ es[i]._nRefCnts \in Nat \ {0} /\ Total(Counts(es), DOMAIN es \ {i}) \in Nat
  <1>1. /\ IsFiniteSet(DOMAIN es) /\ \A j \in DOMAIN es : Counts(es)[j] \in Nat
        /\ Counts(es)[i] = es[i]._nRefCnts /\ Counts(es)[i] \in Nat \ {0}
        /\ Users(es) = Total(Counts(es), DOMAIN es)
    BY CountsType
  <1>2. Total(Counts(es), DOMAIN es) = Counts(es)[i] + Total(Counts(es), DOMAIN es \ {i})
    BY <1>1, TotalTakeOut
  <1>3. Total(Counts(es), DOMAIN es \ {i}) \in Nat
    <2>1. IsFiniteSet(DOMAIN es \ {i})
      BY <1>1, FS_Subset
    <2> QED
      BY <1>1, <2>1, TotalType
  <1> QED
    BY <1>1, <1>2, <1>3

LEMMA UsersChange ==
  ASSUME NEW es \in Seq(Entry), NEW i \in DOMAIN es, NEW n \in 1 .. MaxRefCnts,
         NEW es2, es2 = [es EXCEPT ![i]._nRefCnts = n]
  PROVE  Users(es2) + es[i]._nRefCnts = Users(es) + n
  <1>1. DOMAIN es = 1 .. Len(es) /\ Len(es) \in Nat
    BY CountsType
  <1>2. /\ es2 \in Seq(Entry) /\ DOMAIN es2 = DOMAIN es /\ es2[i]._nRefCnts = n
        /\ \A j \in DOMAIN es \ {i} : es2[j] = es[j]
    <2>1. es[i] \in Entry
      BY <1>1
    <2>2. [es[i] EXCEPT !._nRefCnts = n] \in Entry /\ [es[i] EXCEPT !._nRefCnts = n]._nRefCnts = n
      BY <2>1 DEF Entry
    <2> QED
      BY <1>1, <2>1, <2>2
  <1>3. /\ Users(es) = es[i]._nRefCnts + Total(Counts(es), DOMAIN es \ {i})
        /\ es[i]._nRefCnts \in Nat /\ Total(Counts(es), DOMAIN es \ {i}) \in Nat
    BY UsersOfOne
  <1>4. /\ Users(es2) = n + Total(Counts(es2), DOMAIN es \ {i}) /\ n \in Nat
    BY <1>2, UsersOfOne
  <1>5. Total(Counts(es2), DOMAIN es \ {i}) = Total(Counts(es), DOMAIN es \ {i})
    <2>1. IsFiniteSet(DOMAIN es \ {i})
      BY CountsType, FS_Subset
    <2>2. \A j \in DOMAIN es \ {i} : Counts(es)[j] \in Nat /\ Counts(es2)[j] = Counts(es)[j]
      BY <1>2, CountsType
    <2> QED
      BY <2>1, <2>2, TotalSame
  <1> QED
    BY <1>3, <1>4, <1>5

LEMMA UsersAppend ==
  ASSUME NEW es \in Seq(Entry), NEW e \in Entry
  PROVE  Users(Append(es, e)) = Users(es) + e._nRefCnts
  <1> PICK r : r = Append(es, e)
    OBVIOUS
  <1>1. /\ r \in Seq(Entry) /\ Len(r) = Len(es) + 1 /\ r[Len(es) + 1] = e
        /\ \A j \in 1 .. Len(es) : r[j] = es[j]
    BY AppendProperties
  <1>2. /\ DOMAIN r = 1 .. Len(r) /\ DOMAIN es = 1 .. Len(es) /\ Len(es) \in Nat
    BY <1>1, CountsType
  <1>3. Len(es) + 1 \in DOMAIN r /\ DOMAIN r \ {Len(es) + 1} = DOMAIN es
    BY <1>1, <1>2
  <1>4. /\ Users(r) = e._nRefCnts + Total(Counts(r), DOMAIN es)
        /\ e._nRefCnts \in Nat
    BY <1>1, <1>3, UsersOfOne
  <1>5. Total(Counts(r), DOMAIN es) = Total(Counts(es), DOMAIN es)
    <2>1. ASSUME NEW j \in DOMAIN es
          PROVE  Counts(es)[j] \in Nat /\ Counts(r)[j] = Counts(es)[j]
      <3>1. r[j] = es[j] /\ j \in DOMAIN r
        BY <1>1, <1>2, <1>3
      <3>2. Counts(r)[j] = Counts(es)[j]
        BY <3>1 DEF Counts
      <3> QED
        BY <3>2, CountsType
    <2> QED
      BY <2>1, CountsType, TotalSame
  <1>6. Users(es) = Total(Counts(es), DOMAIN es) /\ Users(es) \in Nat
    BY CountsType, UsersType
  <1> QED
    BY <1>4, <1>5, <1>6

LEMMA UsersRemoveAt ==
  ASSUME NEW es \in Seq(Entry), NEW i \in DOMAIN es
  PROVE  Users(RemoveAt(es, i)) + es[i]._nRefCnts = Users(es)
  <1> PICK r : r = RemoveAt(es, i)
    OBVIOUS
  <1>1. DOMAIN es = 1 .. Len(es) /\ Len(es) \in Nat /\ i \in 1 .. Len(es)
    BY CountsType
  <1>2. /\ r \in Seq(Entry) /\ Len(r) = Len(es) - 1
        /\ \A j \in 1 .. Len(es) - 1 : r[j] = IF j < i THEN es[j] ELSE es[j+1]
    BY <1>1, RemoveAtFacts
  <1>3. DOMAIN r = 1 .. Len(es) - 1
    BY <1>2, CountsType
  <1> DEFINE e == [j \in DOMAIN r |-> IF j < i THEN j ELSE j + 1]
             S == DOMAIN es \ {i}
  <1>4. e \in [DOMAIN r -> S] /\ \A j, k \in DOMAIN r : j # k => e[j] # e[k]
    BY <1>1, <1>3
  <1>5. \A x \in S : \E j \in DOMAIN r : e[j] = x
    <2> SUFFICES ASSUME NEW x \in S PROVE \E j \in DOMAIN r : e[j] = x
      OBVIOUS
    <2>1. CASE x < i
      BY <1>1, <1>3, <2>1
    <2>2. CASE x > i
      <3>1. x - 1 \in DOMAIN r /\ e[x - 1] = x
        BY <1>1, <1>3, <2>2
      <3> QED
        BY <3>1
    <2> QED
      BY <1>1, <2>1, <2>2
  <1>6. \A j \in DOMAIN r : Counts(r)[j] = Counts(es)[e[j]]
    <2> SUFFICES ASSUME NEW j \in DOMAIN r PROVE Counts(r)[j] = Counts(es)[e[j]]
      OBVIOUS
    <2>1. r[j] = es[e[j]]
      BY <1>2, <1>3
    <2>2. e[j] \in DOMAIN es
      BY <1>4
    <2> HIDE DEF e
    <2> QED
      BY <2>1, <2>2 DEF Counts
  <1> HIDE DEF e
  <1>7. IsFiniteSet(DOMAIN r) /\ IsFiniteSet(S) /\ \A x \in S : Counts(es)[x] \in Nat
    BY <1>2, CountsType, FS_Subset
  <1> HIDE DEF S
  <1>8. Total(Counts(r), DOMAIN r) = Total(Counts(es), S)
    BY <1>4, <1>5, <1>6, <1>7, TotalRenamed
  <1>9. Users(r) = Total(Counts(r), DOMAIN r)
    BY <1>2, CountsType
  <1>10. /\ Users(es) = es[i]._nRefCnts + Total(Counts(es), S)
         /\ es[i]._nRefCnts \in Nat /\ Total(Counts(es), S) \in Nat
    BY UsersOfOne DEF S
  <1> QED
    BY <1>8, <1>9, <1>10

\* The bounds of the model leave room for whatever may be pending.
BoardLargeEnough == Capacity <= MaxEntries /\ Capacity <= MaxRefCnts

\* A read that is booked has its share in a buffer, or a bound has been met.
LEMMA BookedUsers ==
  ASSUME BoardLargeEnough, NEW es \in Seq(Entry), NEW es2 \in Booked(es)
  PROVE  Users(es2) = Users(es) + 1 \/ Users(es2) >= Capacity
  <1>0. /\ MaxRefCnts \in Nat /\ MaxRefCnts >= 1 /\ MaxEntries \in Nat /\ Capacity \in Nat
        /\ Capacity <= MaxEntries /\ Capacity <= MaxRefCnts
    BY DataAssumption, ContractAssumption DEF BoardLargeEnough, Capacity
  <1>1. CASE es # <<>> /\ ~es[1]._bWrite
    <2>1. PICK n \in Increased(es[1]._nRefCnts) : es2 = [es EXCEPT ![1]._nRefCnts = n]
      BY <1>1 DEF Booked
    <2>2. 1 \in DOMAIN es /\ es[1] \in Entry
      BY <1>1, EmptySeq, LenProperties
    <2> PICK c : c = es[1]._nRefCnts
      OBVIOUS
    <2>3. c \in 1 .. MaxRefCnts
      BY <2>2 DEF Entry
    <2>4. n = Min({c + 1, MaxRefCnts})
      BY <2>1 DEF Increased
    <2>5. n \in {c + 1, MaxRefCnts} /\ n \in 1 .. MaxRefCnts
      <3>1. {c + 1, MaxRefCnts} \in SUBSET Nat /\ {c + 1, MaxRefCnts} # {}
        BY <1>0, <2>3
      <3>2. n \in {c + 1, MaxRefCnts} /\ n <= MaxRefCnts
        BY <2>4, <3>1, MinFacts
      <3> QED
        BY <1>0, <2>3, <3>2
    <2>6. Users(es2) + c = Users(es) + n
      BY <2>1, <2>2, <2>5, UsersChange
    <2>7. Users(es) \in Nat /\ Users(es2) \in Nat
      BY UsersType, BookedType
    <2>8. Users(es) >= c
      <3>1. /\ Users(es) = c + Total(Counts(es), DOMAIN es \ {1})
            /\ Total(Counts(es), DOMAIN es \ {1}) \in Nat
        BY <2>2, UsersOfOne
      <3> QED
        BY <2>3, <3>1
    <2>9. \A a, b, m, k, q \in Nat :
            a + m = b + k /\ b >= m /\ (k = m + 1 \/ k >= q) => a = b + 1 \/ a >= q
      OBVIOUS
    <2>10. c \in Nat /\ n \in Nat /\ (n = c + 1 \/ n >= Capacity)
      BY <1>0, <2>3, <2>5
    <2> QED
      BY ONLY <1>0, <2>6, <2>7, <2>8, <2>9, <2>10
  <1>2. CASE ~(es # <<>> /\ ~es[1]._bWrite)
    <2>1. CASE Len(es) = MaxEntries
      <3>1. es2 = es
        BY <1>2, <2>1 DEF Booked
      <3>2. Users(es) \in Nat /\ Users(es) >= Len(es)
        BY UsersType
      <3> QED
        BY <1>0, <2>1, <3>1, <3>2
    <2>2. CASE Len(es) # MaxEntries
      <3>1. PICK b \in Garbage : es2 = Append(es, [_bWrite |-> b, _nRefCnts |-> 1])
        BY <1>2, <2>2 DEF Booked
      <3>2. [_bWrite |-> b, _nRefCnts |-> 1] \in Entry
        BY <1>0 DEF Entry
      <3>3. Users(Append(es, [_bWrite |-> b, _nRefCnts |-> 1]))
              = Users(es) + [_bWrite |-> b, _nRefCnts |-> 1]._nRefCnts
        BY <3>2, UsersAppend
      <3> QED
        BY <3>1, <3>3
    <2> QED
      BY <2>1, <2>2
  <1> QED
    BY <1>1, <1>2

\* A completion takes one user away at the most.
LEMMA ReleasedUsers ==
  ASSUME NEW es \in Seq(Entry), NEW b, NEW es2 \in Released(es, b)
  PROVE  Users(es) <= Users(es2) + 1
  <1>0. MaxRefCnts \in Nat /\ Users(es) \in Nat /\ Users(es2) \in Nat
    BY DataAssumption, UsersType, ReleasedType
  <1>1. CASE Matching(es, b) = {}
    <2>1. es2 = es
      BY <1>1 DEF Released
    <2> QED
      BY <1>0, <2>1
  <1>2. CASE Matching(es, b) # {}
    <2>1. PICK i \in 1 .. Len(es) : Min(Matching(es, b)) = i
      BY <1>2, MatchingIs
    <2>2. PICK n \in Decreased(es[i]._nRefCnts) :
            es2 = IF n = 0 THEN RemoveAt(es, i) ELSE [es EXCEPT ![i]._nRefCnts = n]
      BY <1>2, <2>1 DEF Released
    <2>3. es[i] \in Entry /\ i \in DOMAIN es
      BY LenProperties
    <2> PICK c : c = es[i]._nRefCnts
      OBVIOUS
    <2>4. c \in 1 .. MaxRefCnts
      BY <2>3 DEF Entry
    <2>5. n \in {c - 1, c}
      BY DEF Decreased
    <2>6. CASE n = 0
      <3>1. Users(RemoveAt(es, i)) + c = Users(es)
        BY <2>3, UsersRemoveAt
      <3>2. c = 1 /\ es2 = RemoveAt(es, i)
        BY <2>2, <2>4, <2>5, <2>6
      <3> QED
        BY <1>0, <3>1, <3>2
    <2>7. CASE n # 0
      <3>1. n \in 1 .. MaxRefCnts
        BY <1>0, <2>4, <2>5, <2>7
      <3>2. Users(es2) + c = Users(es) + n
        BY <2>2, <2>3, <2>7, <3>1, UsersChange
      <3> QED
        BY <1>0, <2>4, <2>5, <3>2
    <2> QED
      BY <2>6, <2>7
  <1> QED
    BY <1>1, <1>2

-----------------------------------------------------------------------------
(* Every pending read has its buffer. *)

\* After an edge there is at most the request on the signals more.
TakesAtMost(S) ==
  /\ Carried(S) \in Nat /\ Carried(S)' \in Nat /\ Carried(S)' <= Capacity
  /\ Carried(S)' <= Carried(S) + One(sgnDimmEnable /\ alignTransactionAddress(sgnRequest) \in S)

LEMMA EdgeNumbers ==
  ASSUME InterfaceInv, ClockEdge, NEW S \in SUBSET Transactions
  PROVE  TakesAtMost(S)
  <1>1. ContractTyped
    BY DEF InterfaceInv
  <1>2. Carried(S) \in Nat
    BY <1>1, CarriedType
  <1>3. Carried(S)' \in Nat /\ Carried(S)' <= Capacity
    <2>1. InterfaceInv'
      BY EdgeKeepsInterface
    <2>2. ContractTyped'
      BY <2>1 DEF InterfaceInv
    <2> QED
      BY <2>2, CarriedWithinNext
  <1>4. Carried(S)' <= Carried(S) + One(sgnDimmEnable /\ alignTransactionAddress(sgnRequest) \in S)
    <2>1. CASE TakeRequest
      <3> PICK t : t = alignTransactionAddress(sgnRequest)
        OBVIOUS
      <3>1. sgnDimmEnable /\ Accept(t) /\ sgnRequest \in Requests
        BY <2>1 DEF TakeRequest, InterfaceInv
      <3>2. t \in Transactions
        BY <3>1, TraceAssumption
      <3>3. Carried(S)' = Carried(S) + One(t \in S)
        BY <1>1, <3>1, <3>2, AcceptNumbers
      <3>4. One(t \in S) = One(sgnDimmEnable /\ alignTransactionAddress(sgnRequest) \in S)
        BY <3>1 DEF One
      <3> QED
        BY <1>2, <1>3, <3>3, <3>4
    <2>2. CASE RefuseRequest \/ NoRequest
      <3>1. Carried(S)' = Carried(S)
        BY <2>2 DEF RefuseRequest, NoRequest, contractVars, Carried
      <3>2. One(sgnDimmEnable /\ alignTransactionAddress(sgnRequest) \in S) \in {0, 1}
        BY OneType
      <3> QED
        BY <1>2, <3>1, <3>2
    <2> QED
      BY <2>1, <2>2 DEF ClockEdge, RunSystem
  <1> QED
    BY <1>2, <1>3, <1>4 DEF TakesAtMost

\* What half an update calls back is there once less.
LosesOnly(A, S) ==
  /\ Carried(S) \in Nat /\ Carried(S)' \in Nat
  /\ Carried(S) = Carried(S)' + One(A \cap S # {})

LEMMA HalfNumbers ==
  ASSUME InterfaceInv, WriteHalf \/ ReadHalf
  PROVE  \E A : /\ AnsweredOf(A, underway) /\ Complete(A)
                /\ \A S \in SUBSET Transactions : LosesOnly(A, S)
  <1>1. ASSUME NEW type, NEW A \in AtMostOne(type), Complete(A), ContractTyped',
               \A S \in SUBSET Transactions : Carried(S) = Carried(S)' + One(A \cap S # {})
        PROVE  \E B : /\ AnsweredOf(B, underway) /\ Complete(B)
                      /\ \A S \in SUBSET Transactions : LosesOnly(B, S)
    <2>1. ASSUME NEW S \in SUBSET Transactions PROVE LosesOnly(A, S)
      <3>1. Carried(S) \in Nat
        BY CarriedType DEF InterfaceInv
      <3>2. Carried(S)' \in Nat
        BY <1>1, CarriedWithinNext
      <3> QED
        BY <1>1, <3>1, <3>2 DEF LosesOnly
    <2> QED
      BY <1>1, <2>1, AtMostOneIs
  <1>2. CASE WriteHalf
    <2>1. PICK A \in AtMostOne("DATA_WRITE") : BeginUpdate(A) /\ Complete(A)
      BY <1>2 DEF WriteHalf
    <2>2. /\ ContractTyped'
          /\ \A S \in SUBSET Transactions : Carried(S) = Carried(S)' + One(A \cap S # {})
      BY <2>1, BeginNumbers DEF InterfaceInv
    <2> QED
      BY <1>1, <2>1, <2>2
  <1>3. CASE ReadHalf
    <2>1. PICK L \in SUBSET DOMAIN waiting, A \in AtMostOne("DATA_READ") :
            EndUpdate(L, A) /\ Complete(A)
      BY <1>3 DEF ReadHalf
    <2>2. /\ ContractTyped'
          /\ \A S \in SUBSET Transactions : Carried(S) = Carried(S)' + One(A \cap S # {})
      BY <2>1, EndNumbers DEF InterfaceInv
    <2> QED
      BY <1>1, <2>1, <2>2
  <1> QED
    BY <1>2, <1>3

\* What a trace has to be for a build with storage that keeps its buffers: no write
\* carries data, and every request starts at its transaction.
WritesWithoutData == WriteData \subseteq {FALSE}
AlignedRequests   == \A t \in StoredRequests : alignTransactionAddress(t) = t

BoardHypotheses == BoardLargeEnough /\ WritesWithoutData /\ AlignedRequests

Writes     == {t \in Transactions : t.transactionType = "DATA_WRITE"}
ReadsOf(a) == {t \in Transactions : t.transactionType = "DATA_READ" /\ t.address = a}
Strangers  == Transactions \ StoredRequests

ReadsCovered == \A a \in Keys : Carried(ReadsOf(a)) <= Users(_scoreBoard[a])

BoardInv ==
  /\ LostOnlyByMarks
  /\ storage =>
       /\ ~sgnDataIn
       /\ sgnDimmEnable => sgnRequest \in StoredRequests
       /\ Carried(Strangers) = 0
       /\ Carried(Writes) > 0 => _bUserDataHandlingFault
       /\ ReadsCovered

LEMMA TransactionSets ==
  /\ Strangers \in SUBSET Transactions /\ Writes \in SUBSET Transactions
  /\ \A a : ReadsOf(a) \in SUBSET Transactions
  BY DEF Strangers, Writes, ReadsOf

LEMMA CarriedInit ==
  ASSUME InterfaceInit, NEW S \in SUBSET Transactions
  PROVE  Carried(S) = 0
  <1>1. waiting = <<>> /\ underway = [t \in Transactions |-> 0]
    BY DEF InterfaceInit, ContractInit
  <1>2. IsFiniteSet(S) /\ \A t \in S : underway[t] = 0
    BY <1>1, ContractAssumption, FS_Subset
  <1>3. Total(underway, S) = 0 /\ Tally(waiting, S) = 0
    BY <1>1, <1>2, TotalOfZeros, TallyEmpty
  <1> QED
    BY <1>3 DEF Carried

LEMMA BoardInvInit == DataInit => BoardInv
  <1> SUFFICES ASSUME DataInit PROVE BoardInv
    OBVIOUS
  <1>1. /\ InterfaceInit /\ sgnDimmEnable = FALSE /\ sgnDataIn = FALSE /\ aborted = FALSE
        /\ \A a \in Keys : _scoreBoard[a] = <<>>
    BY DEF DataInit, InterfaceInit
  <1>2. Carried(Strangers) = 0 /\ Carried(Writes) = 0
    BY <1>1, CarriedInit, TransactionSets
  <1>3. ReadsCovered
    <2> SUFFICES ASSUME NEW a \in Keys PROVE Carried(ReadsOf(a)) <= Users(_scoreBoard[a])
      BY DEF ReadsCovered
    <2>1. Carried(ReadsOf(a)) = 0
      BY <1>1, CarriedInit, TransactionSets
    <2>2. _scoreBoard[a] = <<>> /\ <<>> \in Seq(Entry)
      BY <1>1
    <2>3. Users(<<>>) \in Nat
      BY <2>2, UsersType
    <2> QED
      BY <2>1, <2>2, <2>3
  <1> QED
    BY <1>1, <1>2, <1>3 DEF BoardInv, LostOnlyByMarks

\* At an edge SCIC books what it may hand over.
LEMMA EdgeKeepsBoard ==
  ASSUME BoardHypotheses, InterfaceInv, DataTyped, BoardInv, DataEdge
  PROVE  BoardInv'
  <1>1. /\ storage' = storage /\ aborted' = aborted /\ ~aborted /\ ClockEdge
    BY EdgeClears DEF DataEdge
  <1>2. LostOnlyByMarks'
    BY <1>1 DEF LostOnlyByMarks
  <1> SUFFICES ASSUME storage
               PROVE  /\ ~sgnDataIn'
                      /\ sgnDimmEnable' => sgnRequest' \in StoredRequests
                      /\ Carried(Strangers)' = 0
                      /\ Carried(Writes)' > 0 => _bUserDataHandlingFault'
                      /\ ReadsCovered'
    BY <1>1, <1>2 DEF BoardInv
  <1>3. /\ ~sgnDataIn /\ (sgnDimmEnable => sgnRequest \in StoredRequests)
        /\ Carried(Strangers) = 0 /\ (Carried(Writes) > 0 => _bUserDataHandlingFault)
    BY DEF BoardInv
  <1>4. ~sgnDataIn' /\ (sgnDimmEnable' => sgnRequest' \in StoredRequests)
    <2>1. CASE SendLine
      <3>1. SendData
        BY <2>1 DEF DataEdge
      <3> QED
        BY <3>1 DEF SendData, BoardHypotheses, WritesWithoutData
    <2>2. CASE ~SendLine
      <3>1. UNCHANGED <<sgnDimmEnable, sgnRequest>> \/ sgnDimmEnable' = FALSE
        BY <1>1, <2>2 DEF ClockEdge, StimulusRun, SkipLine, HoldLine, idleState
      <3>2. sgnDataIn' = sgnDataIn
        BY <2>2 DEF DataEdge, KeepData
      <3> QED
        BY <1>3, <3>1, <3>2
    <2> QED
      BY <2>1, <2>2
  <1>5. sgnDimmEnable =>
          /\ alignTransactionAddress(sgnRequest) = sgnRequest
          /\ sgnRequest \in StoredRequests /\ sgnRequest \in Transactions
          /\ sgnRequest.address \in Keys
    <2>1. sgnDimmEnable => sgnRequest \in Requests /\ sgnRequest \in StoredRequests
      BY <1>3 DEF InterfaceInv
    <2>2. sgnDimmEnable => alignTransactionAddress(sgnRequest) = sgnRequest
      BY <2>1 DEF BoardHypotheses, AlignedRequests
    <2> QED
      BY <2>1, <2>2, TraceAssumption DEF Keys
  <1>6. ASSUME NEW S \in SUBSET Transactions
        PROVE  /\ Carried(S) \in Nat /\ Carried(S)' \in Nat /\ Carried(S)' <= Capacity
               /\ Carried(S)' <= Carried(S) + One(sgnDimmEnable /\ sgnRequest \in S)
    <2>1. TakesAtMost(S)
      BY <1>1, EdgeNumbers
    <2>2. One(sgnDimmEnable /\ alignTransactionAddress(sgnRequest) \in S)
            = One(sgnDimmEnable /\ sgnRequest \in S)
      BY <1>5 DEF One
    <2> QED
      BY <2>1, <2>2 DEF TakesAtMost
  <1>7. Carried(Strangers)' = 0
    <2>1. /\ Carried(Strangers)' \in Nat
          /\ Carried(Strangers)' <= Carried(Strangers) + One(sgnDimmEnable /\ sgnRequest \in Strangers)
      BY <1>6, TransactionSets
    <2>2. One(sgnDimmEnable /\ sgnRequest \in Strangers) = 0
      BY <1>5 DEF One, Strangers
    <2> QED
      BY <1>3, <2>1, <2>2
  <1>8. BookRequest
    BY DEF DataEdge
  <1>9. Carried(Writes)' > 0 => _bUserDataHandlingFault'
    <2>1. /\ Carried(Writes) \in Nat /\ Carried(Writes)' \in Nat
          /\ Carried(Writes)' <= Carried(Writes) + One(sgnDimmEnable /\ sgnRequest \in Writes)
      BY <1>6, TransactionSets
    <2>2. CASE sgnDimmEnable /\ sgnRequest \in Writes
      BY <1>3, <1>8, <2>2 DEF BookRequest, Writes
    <2>3. CASE ~(sgnDimmEnable /\ sgnRequest \in Writes)
      <3>1. One(sgnDimmEnable /\ sgnRequest \in Writes) = 0
        BY <2>3 DEF One
      <3>2. Carried(Writes)' > 0 => Carried(Writes) > 0
        BY <2>1, <3>1
      <3>3. _bUserDataHandlingFault => _bUserDataHandlingFault'
        BY <1>8 DEF BookRequest
      <3> QED
        BY <1>3, <3>2, <3>3
    <2> QED
      BY <2>2, <2>3
  <1>10. ASSUME NEW a \in Keys
         PROVE  Carried(ReadsOf(a))' <= Users(_scoreBoard'[a])
    <2>1. /\ Carried(ReadsOf(a)) \in Nat /\ Carried(ReadsOf(a))' \in Nat
          /\ Carried(ReadsOf(a))' <= Capacity
          /\ Carried(ReadsOf(a))'
               <= Carried(ReadsOf(a)) + One(sgnDimmEnable /\ sgnRequest \in ReadsOf(a))
      BY <1>6, TransactionSets
    <2>2. Carried(ReadsOf(a)) <= Users(_scoreBoard[a])
      BY DEF BoardInv, ReadsCovered
    <2>3. _scoreBoard[a] \in Seq(Entry) /\ _scoreBoard \in [Keys -> Seq(Entry)]
      BY DEF DataTyped
    <2>4. Users(_scoreBoard[a]) \in Nat
      BY <2>3, UsersType
    <2>5. CASE sgnDimmEnable /\ sgnRequest \in ReadsOf(a)
      <3>1. sgnRequest.transactionType # "DATA_WRITE" /\ sgnRequest.address = a
        BY <2>5 DEF ReadsOf
      <3>2. PICK es \in Booked(_scoreBoard[a]) : _scoreBoard' = [_scoreBoard EXCEPT ![a] = es]
        BY <1>8, <2>5, <3>1 DEF BookRequest
      <3>3. _scoreBoard'[a] = es
        BY <2>3, <3>2
      <3>4. Users(es) = Users(_scoreBoard[a]) + 1 \/ Users(es) >= Capacity
        BY <2>3, BookedUsers DEF BoardHypotheses
      <3>5. One(sgnDimmEnable /\ sgnRequest \in ReadsOf(a)) = 1
        BY <2>5 DEF One
      <3>6. es \in Seq(Entry)
        BY <2>3, BookedType
      <3>7. Users(es) \in Nat /\ Capacity \in Nat
        BY <3>6, UsersType, ContractAssumption DEF Capacity
      <3>8. Carried(ReadsOf(a))' <= Users(es)
        BY <2>1, <2>2, <2>4, <3>4, <3>5, <3>7
      <3> QED
        BY <3>3, <3>8
    <2>6. CASE ~(sgnDimmEnable /\ sgnRequest \in ReadsOf(a))
      <3>1. _scoreBoard'[a] = _scoreBoard[a]
        <4>1. CASE ~sgnDimmEnable
          BY <1>8, <4>1 DEF BookRequest
        <4>2. CASE sgnDimmEnable /\ sgnRequest.transactionType = "DATA_WRITE"
          BY <1>8, <4>2 DEF BookRequest
        <4>3. CASE sgnDimmEnable /\ sgnRequest.transactionType # "DATA_WRITE"
          <5>1. sgnRequest.transactionType = "DATA_READ"
            BY <1>5, <4>3, ContractAssumption
          <5>2. sgnRequest.address # a
            BY <1>5, <2>6, <4>3, <5>1 DEF ReadsOf
          <5>3. \E es : _scoreBoard' = [_scoreBoard EXCEPT ![sgnRequest.address] = es]
            BY <1>8, <4>3 DEF BookRequest
          <5> QED
            BY <2>3, <5>2, <5>3
        <4> QED
          BY <4>1, <4>2, <4>3
      <3>2. One(sgnDimmEnable /\ sgnRequest \in ReadsOf(a)) = 0
        BY <2>6 DEF One
      <3>3. Carried(ReadsOf(a))' <= Users(_scoreBoard[a])
        BY <2>1, <2>2, <2>4, <3>2
      <3> QED
        BY <3>1, <3>3
    <2> QED
      BY <2>5, <2>6
  <1>11. ReadsCovered'
    BY <1>10 DEF ReadsCovered
  <1> QED
    BY <1>4, <1>7, <1>9, <1>11

\* A callback takes away no more than it releases, and finds a buffer unless every
\* mark is wrong.
LEMMA CompletedKeepsBoard ==
  ASSUME InterfaceInv, DataTyped, BoardInv, ~aborted,
         NEW t \in Transactions, underway[t] > 0, Completed(t),
         UNCHANGED <<sgnDimmEnable, sgnRequest>>,
         \A S \in SUBSET Transactions : LosesOnly({t}, S)
  PROVE  BoardInv'
  <1>1. /\ storage' = storage /\ sgnDataIn' = sgnDataIn
        /\ _bUserDataHandlingFault' = _bUserDataHandlingFault
    BY DEF Completed
  <1>2. CASE ~storage
    <2>1. ~aborted'
      BY <1>2 DEF Completed, DataOut
    <2> QED
      BY <1>1, <1>2, <2>1 DEF BoardInv, LostOnlyByMarks
  <1>3. CASE storage
    <2>1. /\ ~sgnDataIn /\ (sgnDimmEnable => sgnRequest \in StoredRequests)
          /\ Carried(Strangers) = 0 /\ (Carried(Writes) > 0 => _bUserDataHandlingFault)
          /\ ReadsCovered
      BY <1>3 DEF BoardInv
    <2>2. ASSUME NEW S \in SUBSET Transactions
          PROVE  /\ Carried(S) \in Nat /\ Carried(S)' \in Nat /\ Carried(S)' <= Carried(S)
                 /\ t \in S => Carried(S) = Carried(S)' + 1
      <3>1. LosesOnly({t}, S)
        OBVIOUS
      <3>2. t \in S => {t} \cap S # {}
        OBVIOUS
      <3>3. /\ One({t} \cap S # {}) \in {0, 1}
            /\ t \in S => One({t} \cap S # {}) = 1
        BY <3>2 DEF One
      <3> QED
        BY <3>1, <3>3 DEF LosesOnly
    <2>3. t \in StoredRequests /\ t.address \in Keys
      <3>1. /\ Carried(Strangers)' \in Nat
            /\ t \in Strangers => Carried(Strangers) = Carried(Strangers)' + 1
        BY <2>2, TransactionSets
      <3>2. t \notin Strangers
        BY <2>1, <3>1
      <3> QED
        BY <3>2, DataAssumption DEF Strangers, Keys
    <2>4. Carried(Strangers)' = 0
      BY <2>1, <2>2, TransactionSets
    <2>5. Carried(Writes)' > 0 => _bUserDataHandlingFault'
      <3>1. /\ Carried(Writes) \in Nat /\ Carried(Writes)' \in Nat
            /\ Carried(Writes)' <= Carried(Writes)
        BY <2>2, TransactionSets
      <3>2. Carried(Writes)' > 0 => Carried(Writes) > 0
        BY <3>1
      <3> QED
        BY <1>1, <2>1, <3>2
    <2>6. \A a \in Keys : /\ _scoreBoard[a] \in Seq(Entry) /\ Users(_scoreBoard[a]) \in Nat
                          /\ Carried(ReadsOf(a)) <= Users(_scoreBoard[a])
      BY <2>1, UsersType DEF DataTyped, ReadsCovered
    <2>7. (_scoreBoard' = _scoreBoard) => ReadsCovered'
      <3> SUFFICES ASSUME _scoreBoard' = _scoreBoard, NEW a \in Keys
                   PROVE  Carried(ReadsOf(a))' <= Users(_scoreBoard[a])
        BY DEF ReadsCovered
      <3>1. /\ Carried(ReadsOf(a)) \in Nat /\ Carried(ReadsOf(a))' \in Nat
            /\ Carried(ReadsOf(a))' <= Carried(ReadsOf(a))
        BY <2>2, TransactionSets
      <3>2. Users(_scoreBoard[a]) \in Nat /\ Carried(ReadsOf(a)) <= Users(_scoreBoard[a])
        BY <2>6
      <3> QED
        BY <3>1, <3>2
    <2>8. LostOnlyByMarks' /\ ReadsCovered'
      <3>1. CASE t.transactionType = "DATA_WRITE"
        <4>1. t \in Writes
          BY <3>1 DEF Writes
        <4>2. Carried(Writes) > 0
          <5>1. Carried(Writes)' \in Nat /\ Carried(Writes) = Carried(Writes)' + 1
            BY <2>2, <4>1, TransactionSets
          <5> QED
            BY <5>1
        <4>3. ~aborted' /\ _scoreBoard' = _scoreBoard
          BY <2>1, <3>1, <4>2 DEF Completed, Free
        <4> QED
          BY <2>7, <4>3 DEF LostOnlyByMarks
      <3>2. CASE t.transactionType # "DATA_WRITE"
        <4> DEFINE key == t.address
                   es == _scoreBoard[key]
        <4>1. t \in ReadsOf(key) /\ key \in Keys /\ es \in Seq(Entry)
          BY <2>3, <2>6, <3>2, ContractAssumption DEF ReadsOf
        <4>2. /\ Carried(ReadsOf(key)) \in Nat /\ Carried(ReadsOf(key))' \in Nat
              /\ Carried(ReadsOf(key)) = Carried(ReadsOf(key))' + 1
          BY <2>2, <4>1, TransactionSets
        <4>3. Users(es) \in Nat /\ Carried(ReadsOf(key)) <= Users(es)
          BY <2>6, <4>1
        <4> HIDE DEF es, key
        <4>4. aborted' = (Matching(es, FALSE) = {})
          BY <1>3, <3>2 DEF Completed, DataOut, es, key
        <4>5. CASE Matching(es, FALSE) = {}
          <5>1. aborted' /\ _scoreBoard' = _scoreBoard
            BY <4>4, <4>5 DEF Completed
          <5>2. Len(es) > 1
            <6>1. Len(es) # 1
              BY <4>5 DEF Matching
            <6>2. es # <<>>
              BY <4>1, <4>2, <4>3, UsersType
            <6>3. Len(es) \in Nat /\ (Len(es) = 0 => es = <<>>)
              BY <4>1, LenProperties, EmptySeq
            <6>4. \A n \in Nat : n # 1 /\ n # 0 => n > 1
              OBVIOUS
            <6> QED
              BY ONLY <6>1, <6>2, <6>3, <6>4
          <5>3. ASSUME NEW i \in DOMAIN es PROVE es[i]._bWrite
            <6>1. es[i]._bWrite # FALSE
              BY <4>5, <5>2 DEF Matching
            <6>2. es[i] \in Entry
              BY <4>1, LenProperties
            <6>3. es[i]._bWrite \in BOOLEAN
              BY <6>2, DataAssumption DEF Entry
            <6> QED
              BY <6>1, <6>3
          <5>4. LostOnlyByMarks'
            BY <4>1, <5>1, <5>2, <5>3 DEF LostOnlyByMarks, es
          <5> QED
            BY <2>7, <5>1, <5>4
        <4>6. CASE Matching(es, FALSE) # {}
          <5>1. ~aborted'
            BY <4>4, <4>6
          <5>2. FreeFor(t)
            BY <1>3, <3>2, <5>1 DEF Completed, Free
          <5>3. PICK es2 \in Released(es, t.transactionType = "DATA_WRITE") :
                  _scoreBoard' = [_scoreBoard EXCEPT ![key] = es2]
            BY <5>2 DEF FreeFor, es, key
          <5>4. Users(es) <= Users(es2) + 1 /\ Users(es2) \in Nat
            BY <4>1, ReleasedUsers, ReleasedType, UsersType
          <5>5. ASSUME NEW a \in Keys
                PROVE  Carried(ReadsOf(a))' <= Users(_scoreBoard'[a])
            <6>1. CASE a = key
              <7>1. _scoreBoard'[a] = es2
                BY <5>3, <6>1 DEF DataTyped
              <7>2. Carried(ReadsOf(key))' <= Users(es2)
                BY <4>2, <4>3, <5>4
              <7> QED
                BY <6>1, <7>1, <7>2
            <6>2. CASE a # key
              <7>1. _scoreBoard'[a] = _scoreBoard[a]
                BY <5>3, <6>2 DEF DataTyped
              <7>2. /\ Carried(ReadsOf(a)) \in Nat /\ Carried(ReadsOf(a))' \in Nat
                    /\ Carried(ReadsOf(a))' <= Carried(ReadsOf(a))
                BY <2>2, TransactionSets
              <7>3. Users(_scoreBoard[a]) \in Nat /\ Carried(ReadsOf(a)) <= Users(_scoreBoard[a])
                BY <2>6
              <7>4. Carried(ReadsOf(a))' <= Users(_scoreBoard[a])
                BY <7>2, <7>3
              <7> QED
                BY <7>1, <7>4
            <6> QED
              BY <6>1, <6>2
          <5> QED
            BY <5>1, <5>5 DEF LostOnlyByMarks, ReadsCovered
        <4> QED
          BY <4>5, <4>6
      <3> QED
        BY <3>1, <3>2
    <2>9. ~sgnDataIn' /\ (sgnDimmEnable' => sgnRequest' \in StoredRequests)
      BY <1>1, <2>1
    <2> QED
      BY <2>4, <2>5, <2>8, <2>9 DEF BoardInv
  <1> QED
    BY <1>2, <1>3

\* Nothing was called back.
LEMMA SilentKeepsBoard ==
  ASSUME BoardInv, UNCHANGED <<dataVars, signals>>,
         \A S \in SUBSET Transactions : LosesOnly({}, S)
  PROVE  BoardInv'
  <1>1. ASSUME NEW S \in SUBSET Transactions PROVE Carried(S)' = Carried(S)
    <2>1. LosesOnly({}, S)
      OBVIOUS
    <2>2. One({} \cap S # {}) = 0
      BY DEF One
    <2> QED
      BY <2>1, <2>2 DEF LosesOnly
  <1>2. /\ Carried(Strangers)' = Carried(Strangers) /\ Carried(Writes)' = Carried(Writes)
        /\ \A a \in Keys : Carried(ReadsOf(a))' = Carried(ReadsOf(a))
    BY <1>1, TransactionSets
  <1>3. ReadsCovered => ReadsCovered'
    BY <1>2 DEF ReadsCovered, dataVars
  <1>4. LostOnlyByMarks'
    BY DEF BoardInv, LostOnlyByMarks, dataVars
  <1> QED
    BY <1>2, <1>3, <1>4 DEF BoardInv, dataVars, signals

LEMMA BoardInvStep ==
  ASSUME BoardHypotheses
  PROVE  InterfaceInv /\ DataTyped /\ BoardInv /\ [DataNext]_allVars => BoardInv'
  <1> SUFFICES ASSUME InterfaceInv, DataTyped, BoardInv, [DataNext]_allVars
               PROVE  BoardInv'
    OBVIOUS
  <1>1. CASE DataEdge
    BY <1>1, EdgeKeepsBoard
  <1>2. CASE DataHalf
    <2>1. PICK A : /\ AnsweredOf(A, underway) /\ Complete(A)
                   /\ \A S \in SUBSET Transactions : LosesOnly(A, S)
      BY <1>2, HalfNumbers DEF DataHalf
    <2>2. completions \in Seq(Transactions)
      BY DEF InterfaceInv
    <2>3. CASE A = {}
      <3>1. UNCHANGED <<signals, completions>>
        BY <2>1, <2>3 DEF Complete
      <3>2. UNCHANGED dataVars
        BY <1>2, <3>1 DEF DataHalf
      <3> QED
        BY <2>1, <2>3, <3>1, <3>2, SilentKeepsBoard
    <2>4. CASE A # {}
      <3>1. PICK t \in Transactions : A = {t} /\ underway[t] > 0
        BY <2>1, <2>4 DEF AnsweredOf
      <3>2. /\ completions' = Append(completions, t)
            /\ UNCHANGED <<sgnDimmEnable, sgnRequest>>
        BY <2>1, <3>1 DEF Complete
      <3>3. completions' # completions /\ Last(completions') = t
        <4>1. Len(Append(completions, t)) = Len(completions) + 1 /\ Len(completions) \in Nat
          BY <2>2
        <4> QED
          BY <2>2, <3>2, <4>1, LastOfAppend
      <3>4. Completed(t) /\ ~aborted
        BY <1>2, <3>3 DEF DataHalf
      <3> QED
        BY <2>1, <3>1, <3>2, <3>4, CompletedKeepsBoard
    <2> QED
      BY <2>3, <2>4
  <1>3. CASE UNCHANGED allVars
    BY <1>3 DEF allVars, interfaceVars, contractVars, signals, dataVars, BoardInv,
                LostOnlyByMarks, ReadsCovered, Carried
  <1> QED
    BY <1>1, <1>2, <1>3 DEF DataNext

LEMMA BoardInvariance ==
  ASSUME BoardHypotheses
  PROVE  DataSpec => [](ContractTyped /\ BoardInv)
  <1>1. DataInit => InterfaceInv
    BY InterfaceInvInit DEF DataInit
  <1>2. InterfaceInv => ContractTyped
    BY DEF InterfaceInv
  <1>3. InterfaceInv /\ DataTyped /\ BoardInv /\ [DataNext]_allVars => BoardInv'
    BY BoardInvStep
  <1> QED
    BY <1>1, <1>2, <1>3, DataTypedInit, BoardInvInit, InterfaceInvStep, DataTypedStep, PTL
    DEF DataSpec

\* However the reads of an address are merged, refused or called back out of order, the
\* users on the score board cover the pending ones: SCIC books before it asks, and a
\* completion releases one user at the most, as long as no write that carries data
\* releases a read's.
THEOREM EveryReadAlwaysHasItsBuffer ==
  ASSUME BoardHypotheses
  PROVE  DataSpec => []EveryReadHasItsBuffer
  <1>1. ContractTyped /\ BoardInv => EveryReadHasItsBuffer
    <2> SUFFICES ASSUME ContractTyped, BoardInv, storage, NEW a \in Keys
                 PROVE  PendingReads(a) <= Users(_scoreBoard[a])
      BY DEF EveryReadHasItsBuffer
    <2>1. waiting \in Seq(Transactions) /\ DOMAIN waiting = 1 .. Len(waiting)
      BY LenProperties DEF ContractTyped
    <2>2. {i \in DOMAIN waiting : waiting[i].transactionType = "DATA_READ" /\ waiting[i].address = a}
            = Positions(waiting, ReadsOf(a))
      BY <2>1 DEF Positions, ReadsOf
    <2>3. {t \in Transactions : t.transactionType = "DATA_READ" /\ t.address = a} = ReadsOf(a)
      BY DEF ReadsOf
    <2>4. PendingReads(a) = Carried(ReadsOf(a))
      BY <2>2, <2>3 DEF PendingReads, Carried, Tally
    <2> QED
      BY <2>4 DEF BoardInv, ReadsCovered
  <1> QED
    BY <1>1, BoardInvariance, PTL

\* Then the assertion that a read's buffer is there fails only where each of several
\* entries carries a wrong, uninitialised mark.
THEOREM LostAlwaysByMarks ==
  ASSUME BoardHypotheses
  PROVE  DataSpec => []LostOnlyByMarks
  <1>1. BoardInv => LostOnlyByMarks
    BY DEF BoardInv
  <1> QED
    BY <1>1, BoardInvariance, PTL

=============================================================================
