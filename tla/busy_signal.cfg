SPECIFICATION DataSpec
CONSTANTS
  QueueDepth = 2
  MaxUnderway = 2
  TransactionBytes = 2
  MaxLines = 4
  Requests <- ReadAndWrite
  Transactions <- ReadAndWrite
  StoredRequests <- ReadAndWrite
  WriteData = {TRUE}
  Garbage = {FALSE}
  MaxEntries = 4
  MaxRefCnts = 5
INVARIANTS
  IssuedWithRoom
