SPECIFICATION FairDataSpec
CHECK_DEADLOCK FALSE
CONSTANTS
  QueueDepth = 2
  MaxUnderway = 2
  TransactionBytes = 2
  MaxLines = 4
  Requests <- WithUnaligned
  Transactions <- ReadsAndAWrite
  StoredRequests <- ReadAndWrite
  WriteData = {FALSE}
  Garbage = {TRUE, FALSE}
  MaxEntries = 4
  MaxRefCnts = 5
INVARIANTS
  DataTypeOK
  BusyMeansPending
  CompletionSignalled
  EveryReadHasItsBuffer
  LostOnlyByMarks
  DataOutOnlyWithReads
PROPERTIES
  TraceRunsOut
