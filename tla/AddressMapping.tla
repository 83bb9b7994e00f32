--------------------------- MODULE AddressMapping ---------------------------
(***************************************************************************)
(* Where a physical address lies: MemoryController::addressMapping takes   *)
(* the low bits of the address away as the byte within the bus width, and  *)
(* then one field of bits after the other, from the bottom up, in the      *)
(* order of the configured scheme.                                         *)
(*                                                                         *)
(* The parameter globals is a record of the global variables.              *)
(***************************************************************************)
EXTENDS Naturals

\* 1 << n.
PowerOfTwo[n \in Nat] == IF n = 0 THEN 1 ELSE 2 * PowerOfTwo[n - 1]

\* The bits that tell as many values apart: what is lost in halving an odd number counts
\* as one more.
dramsim_log2[value \in Nat] == IF value < 2 THEN 0 ELSE dramsim_log2[(value + 1) \div 2] + 1

\* Mutant: the check after the loop adds a bit to a power of two.
Log2OneMore[value \in Nat] == IF value < 1 THEN 0 ELSE Log2OneMore[value \div 2] + 1
RoundedUpOneMore(value) == PowerOfTwo[Log2OneMore[value]]

\* As many values as those bits can have.
RoundedUp(value) == PowerOfTwo[dramsim_log2[value]]

\* The fields of the schemes, the lowest bits first.  Mutant: Scheme4 with the row below
\* the column.
FieldOrderRowBelow ==
  [Scheme1 |-> <<"bank", "column", "row", "rank">>, Scheme2 |-> <<"rank", "bank", "column", "row">>,
   Scheme3 |-> <<"row", "column", "bank", "rank">>, Scheme4 |-> <<"row", "column", "bank", "rank">>,
   Scheme5 |-> <<"bank", "rank", "column", "row">>, Scheme6 |-> <<"column", "rank", "bank", "row">>]

FieldOrder ==
  [Scheme1 |-> <<"bank", "column", "row", "rank">>, Scheme2 |-> <<"rank", "bank", "column", "row">>,
   Scheme3 |-> <<"row", "column", "bank", "rank">>, Scheme4 |-> <<"column", "row", "bank", "rank">>,
   Scheme5 |-> <<"bank", "rank", "column", "row">>, Scheme6 |-> <<"column", "rank", "bank", "row">>]

\* A field tells apart as many units as this global variable says.
UnitsOf == [rank |-> "NUM_RANKS", bank |-> "NUM_BANKS", row |-> "NUM_ROWS", column |-> "NUM_COLS"]

BusBytes(globals) == globals.JEDEC_DATA_BUS_BITS \div 8

Size(globals, field) == RoundedUp(globals[UnitsOf[field]])

\* Mutant: the bits of a field are not shifted out.
NothingShiftedOut(globals, address, i) == address \div RoundedUp(BusBytes(globals))

\* What is left of an address after the byte within the bus and i fields.
Remaining(globals, address, i) ==
  LET order == FieldOrder[globals.addressMappingScheme]
      rest[k \in 0 .. 4] == IF k = 0 THEN address \div RoundedUp(BusBytes(globals))
                            ELSE rest[k - 1] \div Size(globals, order[k])
  IN  rest[i]

\* The rank, bank, row and column of an address: tempA ^ tempB is the low bits.
addressMapping(globals, address) ==
  [field \in DOMAIN UnitsOf |->
     LET i == CHOOSE k \in 1 .. 4 : FieldOrder[globals.addressMappingScheme][k] = field
     IN  Remaining(globals, address, i - 1) % Size(globals, field)]

-----------------------------------------------------------------------------
transactionSize(globals) == BusBytes(globals) * globals.BL

\* The low bits of an address that lie within a transaction are cleared.
alignTransactionAddress(globals, address) ==
  LET size == RoundedUp(transactionSize(globals))
  IN  (address \div size) * size

\* The storage of all ranks, in bytes.
Capacity(globals) ==
  globals.NUM_RANKS * globals.NUM_BANKS * globals.NUM_ROWS * globals.NUM_COLS
    * BusBytes(globals)

\* The transactions of the storage.
InStorage(globals, address) ==
  address < Capacity(globals) /\ address = alignTransactionAddress(globals, address)
=============================================================================
