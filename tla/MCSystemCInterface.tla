------------------------- MODULE MCSystemCInterface -------------------------
(* The requests with which DataSignals is model-checked. *)
EXTENDS DataSignals

Request(type, address) == [transactionType |-> type, address |-> address]

\* A read and a write of one transaction, and a read of the next one.
ReadsAndAWrite ==
  {Request("DATA_READ", 0), Request("DATA_READ", 2), Request("DATA_WRITE", 0)}

\* The same, with a read from the middle of the transaction.
WithUnaligned == ReadsAndAWrite \cup {Request("DATA_READ", 1)}

\* A read and a write of one address.
ReadAndWrite == {Request("DATA_READ", 0), Request("DATA_WRITE", 0)}
=============================================================================
