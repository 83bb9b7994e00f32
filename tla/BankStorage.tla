----------------------------- MODULE BankStorage -----------------------------
(***************************************************************************)
(* The data a bank stores in a build with storage: for every column a      *)
(* linked list of the rows that were written there, each with its data.    *)
(* A place is the rank, bank, row and column of a packet; the lists of all *)
(* banks are one function.                                                 *)
(***************************************************************************)
EXTENDS Naturals, SequencesExt

CONSTANTS
  Data,              \* what a write may bring
  Tracer             \* the value 0xdeadbeef of a row that was never written

VARIABLES
  rowEntries,        \* per rank, bank and column: its list
  packetData         \* the data of the last packet, written or read

storageVars == <<rowEntries, packetData>>

\* Where a place's list is.
Column(place) == [rank |-> place.rank, bank |-> place.bank, column |-> place.column]

\* Mutant: a new node's data are not set to the packet's.
NodeUnset(row, data) == [row |-> row, data |-> Tracer]

Node(row, data) == [row |-> row, data |-> data]

\* The node of the row: the first, if there is one.
searchForRow(row, list) ==
  {i \in DOMAIN list : list[i].row = row /\ \A j \in 1 .. i - 1 : list[j].row # row}

Found(row, list) == CHOOSE i \in searchForRow(row, list) : TRUE

DataAt(place) ==
  LET list == rowEntries[Column(place)]
  IN  IF searchForRow(place.row, list) = {} THEN Tracer ELSE list[Found(place.row, list)].data

read(place) ==
  /\ packetData' = DataAt(place)
  /\ UNCHANGED rowEntries

\* Mutants: a new node goes to the end of the list without a search, or to its head.
ListAppended(list, row, data) == Append(list, Node(row, data))
ListExtended(list, row, data) == <<Node(row, data)>> \o list

\* A row that is there gets the new data, another one a node at the head.
ListAfterWrite(list, row, data) ==
  IF searchForRow(row, list) = {} THEN <<Node(row, data)>> \o list
  ELSE [list EXCEPT ![Found(row, list)] = Node(row, data)]

\* The exit on a column that the bank does not have is not taken for any place of the
\* storage (MappedInRange of PhysicalMemory).
write(place, data) ==
  /\ rowEntries' = [rowEntries EXCEPT ![Column(place)] = ListAfterWrite(@, place.row, data)]
  /\ packetData' = data
=============================================================================
