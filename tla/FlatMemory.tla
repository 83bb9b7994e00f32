----------------------------- MODULE FlatMemory -----------------------------
(***************************************************************************)
(* What a program expects of its memory: every address holds what was      *)
(* written there last, and nothing else changes it.                        *)
(***************************************************************************)
CONSTANTS
  Addresses,         \* of transactions
  Data,
  Tracer             \* what an address holds before the first write

VARIABLES
  memory,
  physicalAddress, packetData    \* of the last access

flatVars == <<memory, physicalAddress, packetData>>

FlatInit ==
  /\ memory = [a \in Addresses |-> Tracer]
  /\ physicalAddress \in Addresses
  /\ packetData = Tracer

Accessed(a, d) == physicalAddress' = a /\ packetData' = d

FlatWrite(a, d) ==
  /\ Accessed(a, d)
  /\ memory' = [memory EXCEPT ![a] = d]

FlatRead(a) ==
  /\ Accessed(a, memory[a])
  /\ UNCHANGED memory

FlatNext == \E a \in Addresses : FlatRead(a) \/ \E d \in Data : FlatWrite(a, d)

FlatSpec == FlatInit /\ [][FlatNext]_flatVars
=============================================================================
