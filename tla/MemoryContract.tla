--------------------------- MODULE MemoryContract ---------------------------
(***************************************************************************)
(* What one memory channel promises its caller, whatever the scheduler     *)
(* does: a transaction is accepted while the transaction queue has room,   *)
(* every accepted one is called back exactly once, and one update() makes  *)
(* at most one write callback, in its first half, and after it at most one *)
(* read callback.  MemorySystem implements it; SystemCInterface uses it.   *)
(***************************************************************************)
EXTENDS Naturals, Sequences, FiniteCollections

CONSTANTS
  Transactions,      \* records with a transactionType
  QueueDepth,        \* TRANS_QUEUE_DEPTH
  MaxUnderway        \* bound: transactions in the command queues and pipelines

ASSUME ContractAssumption ==
  /\ IsFiniteSet(Transactions)
  /\ \A t \in Transactions : t.transactionType \in {"DATA_READ", "DATA_WRITE"}
  /\ QueueDepth \in Nat \ {0}
  /\ MaxUnderway \in Nat \ {0}

VARIABLES
  waiting,           \* the transaction queue
  underway,          \* per transaction: dispatched and not yet called back
  half               \* the half of update() that runs next

contractVars == <<waiting, underway, half>>

ContractInit ==
  /\ waiting = <<>>
  /\ underway = [t \in Transactions |-> 0]
  /\ half = "begin"

TotalUnderway == Total(underway, Transactions)

\* Mutant: room for one more than the queue holds.
RoomForOneMore == Len(waiting) <= QueueDepth

HasRoom == Len(waiting) < QueueDepth

\* addTransaction(Transaction &) with room; without, it returns false and changes
\* nothing.
Accept(t) ==
  /\ half = "begin"
  /\ HasRoom
  /\ waiting' = Append(waiting, t)
  /\ UNCHANGED <<underway, half>>

\* At most one transaction of the type is called back.
AtMostOne(type) ==
  {{}} \cup {{t} : t \in {u \in Transactions : u.transactionType = type /\ underway[u] > 0}}

\* The ranks, the parked transactions and the data bus.
BeginUpdate(answered) ==
  /\ half = "begin" /\ half' = "end"
  /\ answered \in AtMostOne("DATA_WRITE")
  /\ underway' = [t \in Transactions |-> IF t \in answered THEN underway[t] - 1 ELSE underway[t]]
  /\ UNCHANGED waiting

\* Transactions at the positions "leaving" go to the command queues, and one read
\* is returned.
EndUpdate(leaving, answered) ==
  /\ half = "end" /\ half' = "begin"
  /\ leaving \subseteq DOMAIN waiting
  /\ answered \in AtMostOne("DATA_READ")
  /\ TotalUnderway + Cardinality(leaving) <= MaxUnderway
  /\ LET stays == InOrder(DOMAIN waiting \ leaving)
     IN  waiting' = [i \in DOMAIN stays |-> waiting[stays[i]]]
  /\ underway' =
       [t \in Transactions |->
          underway[t] + Cardinality({i \in leaving : waiting[i] = t})
            - (IF t \in answered THEN 1 ELSE 0)]

ContractNext ==
  \/ \E t \in Transactions : Accept(t)
  \/ \E answered \in AtMostOne("DATA_WRITE") : BeginUpdate(answered)
  \/ \E leaving \in SUBSET DOMAIN waiting, answered \in AtMostOne("DATA_READ") :
       EndUpdate(leaving, answered)

ContractSpec == ContractInit /\ [][ContractNext]_contractVars
=============================================================================
