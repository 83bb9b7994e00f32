--------------------------- MODULE PhysicalMemory ---------------------------
(***************************************************************************)
(* The memory as a program sees it: the constructor sets the system up,    *)
(* and then requests read and write transactions of its storage.  A        *)
(* request's address is mapped to a rank, bank, row and column when it is  *)
(* dispatched, and its rank's bank reads or writes there.  That the        *)
(* accesses to one address reach the bank with the data in place is a      *)
(* matter of the channel (ReadFindsDataStored of MemorySystem); here an    *)
(* access is one step.                                                     *)
(***************************************************************************)
EXTENDS Configuration, AddressMapping, BankStorage

CONSTANTS
  Addresses,         \* the transactions that a program may ask for
  MaxNodes           \* bound: nodes in all lists

ASSUME AddressAssumption == Addresses \subseteq Nat /\ 0 \in Addresses /\ MaxNodes \in Nat

VARIABLES
  physicalAddress    \* of the last access

memoryVars == <<configVars, storageVars, physicalAddress>>

Place(a) == addressMapping(globals, a)

StorageAddresses == {a \in Addresses : InStorage(globals, a)}

\* A list for every column of every bank.
Lists == [rank : 0 .. globals.NUM_RANKS - 1, bank : 0 .. globals.NUM_BANKS - 1,
          column : 0 .. globals.NUM_COLS - 1]

Nodes == Cardinality(UNION {{c} \X DOMAIN rowEntries[c] : c \in DOMAIN rowEntries})

MemoryInit ==
  /\ ConfigInit
  /\ rowEntries = <<>>
  /\ packetData = Tracer
  /\ physicalAddress = 0

Constructing ==
  /\ ReadLine \/ EndOfFile \/ ComputeStorage \/ InitEnumsFromStrings
  /\ UNCHANGED <<storageVars, physicalAddress>>

\* The last thing the constructor does is to create the ranks with their banks.
CreateRanks ==
  /\ CheckIfAllSet
  /\ rowEntries' = IF phase' = "built" THEN [c \in Lists |-> <<>>] ELSE rowEntries
  /\ UNCHANGED <<packetData, physicalAddress>>

Access(a) ==
  /\ phase = "built"
  /\ physicalAddress' = a
  /\ UNCHANGED configVars

Read(a) == Access(a) /\ read(Place(a))

Write(a, data) == Nodes < MaxNodes /\ Access(a) /\ write(Place(a), data)

MemoryNext ==
  \/ Constructing \/ CreateRanks
  \/ \E a \in StorageAddresses : Read(a) \/ \E d \in Data : Write(a, d)

MemorySpec == MemoryInit /\ [][MemoryNext]_memoryVars

-----------------------------------------------------------------------------
(* Properties. *)

\* The lists hold rows and data, one list for every column of every bank.
MemoryTypeOK ==
  /\ ConfigTypeOK
  /\ physicalAddress \in Addresses
  /\ packetData \in Data \cup {Tracer}
  /\ \A c \in DOMAIN rowEntries :
       rowEntries[c] \in Seq([row : 0 .. globals.NUM_ROWS - 1, data : Data])

Built == phase = "built"

\* Every address of the storage lies in a rank, bank, row and column that exists:
\* the controller indexes its bank states and its ranks with the result.
MappedInRange ==
  Built => \A a \in StorageAddresses : \A f \in DOMAIN UnitsOf :
             Place(a)[f] \in 0 .. globals[UnitsOf[f]] - 1

\* No two transactions of the storage are mapped to the same place.
MappedOneToOne ==
  Built => IsInjective([a \in StorageAddresses |-> Place(a)])

\* With the two schemes the code's comment recommends, the transaction that follows
\* is in the same row until the row's columns are used up.
RowFilledFirst ==
  Built /\ globals.addressMappingScheme \in {"Scheme4", "Scheme6"} =>
    \A a \in StorageAddresses :
      LET next == a + transactionSize(globals)
      IN  \/ next \notin StorageAddresses
          \/ \A f \in {"rank", "bank", "row"} : Place(next)[f] = Place(a)[f]
          \/ Place(a).column + globals.BL = globals.NUM_COLS /\ Place(next).column = 0

\* A row has one node in the list of a column, however often it is written.
OneNodePerRow ==
  \A c \in DOMAIN rowEntries :
    \A i, j \in DOMAIN rowEntries[c] :
      rowEntries[c][i].row = rowEntries[c][j].row => i = j

\* A read finds what was written to its address last, or the tracer value, whatever
\* was written to other addresses in between.
FlatMemoryOfStorage ==
  INSTANCE FlatMemory
    WITH memory <- [a \in Addresses |->
                      IF Built /\ InStorage(globals, a) THEN DataAt(Place(a))
                      ELSE Tracer]
ImplementsFlatMemory == FlatMemoryOfStorage!FlatSpec
=============================================================================
