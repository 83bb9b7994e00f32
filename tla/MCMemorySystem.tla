--------------------------- MODULE MCMemorySystem ---------------------------
(* The request sets with which MemorySystem is model-checked. *)
EXTENDS MemorySystem

Request(type, rank, bank, row, column) ==
  [transactionType |-> type, rank |-> rank, bank |-> bank, row |-> row, column |-> column]

\* A read, or a write, of row 0 of every bank.
OneReadPerBank  == {Request("DATA_READ", r, b, 0, 0) : r \in RANKS, b \in BANKS}
OneWritePerBank == {Request("DATA_WRITE", r, b, 0, 0) : r \in RANKS, b \in BANKS}

\* A read of every bank, and a write of what is read in the first one.
WriteToSameRow == OneReadPerBank \cup {Request("DATA_WRITE", 0, 0, 0, 0)}

\* A read and a write of one row, and a read of another row of the same bank.
OneBankTwoRows == {Request("DATA_READ", 0, 0, 0, 0), Request("DATA_WRITE", 0, 0, 0, 0),
                   Request("DATA_READ", 0, 0, 1, 0)}

\* OneBankTwoRows, and a read of every other bank.
RowConflict == OneBankTwoRows \cup OneReadPerBank
=============================================================================
