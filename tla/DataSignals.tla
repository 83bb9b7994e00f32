---------------------------- MODULE DataSignals ----------------------------
(***************************************************************************)
(* The data signals between Stimulus and SCIC, and the score board with    *)
(* which a build with storage keeps a buffer for every pending read: a     *)
(* multimap from the address of the request to its entries.  Completions   *)
(* look an entry up by the address the memory calls back with.  In the     *)
(* build without storage there are neither data nor entries.               *)
(*                                                                         *)
(* A buffer is not more than whether it is there: nothing ever writes to   *)
(* it, because a bank that is read replaces the pointer to it by one to    *)
(* its own data.  What a completed read puts on DOUT is whatever lay in    *)
(* the buffer when it was allocated, and never what was stored.            *)
(***************************************************************************)
EXTENDS SystemCInterface

CONSTANTS
  StoredRequests,    \* the lines of a trace for a build with storage
  WriteData,         \* SUBSET BOOLEAN: whether its writes come with data
  Garbage,           \* SUBSET BOOLEAN: what an entry's _bWrite may be
  MaxEntries,        \* bound: entries of one address
  MaxRefCnts         \* bound: "so many users of an entry or more"

ASSUME DataAssumption ==
  /\ StoredRequests \subseteq Requests
  /\ WriteData \subseteq BOOLEAN /\ Garbage \subseteq BOOLEAN
  /\ {MaxEntries, MaxRefCnts} \subseteq Nat \ {0, 1}

VARIABLES
  storage,                     \* the build: NO_STORAGE is not defined
  sgnDataIn,                   \* DIN carries data
  sgnDataOut,                  \* a word of DOUT is not NULL_SIG64
  _scoreBoard,
  _bUserDataHandlingFault,
  aborted                      \* assert(pBuffer != NULL) has failed

dataVars == <<storage, sgnDataIn, sgnDataOut, _scoreBoard, _bUserDataHandlingFault, aborted>>

Keys == {t.address : t \in Requests}

DataInit ==
  /\ InterfaceInit
  /\ storage \in BOOLEAN
  /\ sgnDataIn = FALSE /\ sgnDataOut = FALSE
  /\ _scoreBoard = [a \in Keys |-> <<>>]
  /\ _bUserDataHandlingFault = FALSE
  /\ aborted = FALSE

-----------------------------------------------------------------------------
(* The entries of one address. *)

\* One more or one less of a count that is known up to MaxRefCnts.
Increased(n) == {Min({n + 1, MaxRefCnts})}
Decreased(n) == IF n = MaxRefCnts THEN {n - 1, n} ELSE {n - 1}

\* A pending read shares the buffer of the first entry, unless that is marked as
\* one of a write; the mark of a new entry is what happens to lie on the stack.
Booked(entries) ==
  IF entries # <<>> /\ ~entries[1]._bWrite
  THEN {[entries EXCEPT ![1]._nRefCnts = n] : n \in Increased(entries[1]._nRefCnts)}
  ELSE IF Len(entries) = MaxEntries THEN {entries}
  ELSE {Append(entries, [_bWrite |-> b, _nRefCnts |-> 1]) : b \in Garbage}

\* Mutant: the only entry has to be marked with the completion's type, too.
MatchingMark(entries, bWrite) ==
  LET marked == {i \in DOMAIN entries : entries[i]._bWrite = bWrite}
  IN  IF marked = {} THEN {} ELSE {Min(marked)}

\* The entry that a completion stands for: the only one, whatever it is marked as,
\* or the first that is marked with the completion's type.
Matching(entries, bWrite) ==
  IF Len(entries) = 1 THEN {1}
  ELSE LET marked == {i \in DOMAIN entries : entries[i]._bWrite = bWrite}
       IN  IF marked = {} THEN {} ELSE {Min(marked)}

\* An entry without users is erased and its buffer freed.
Released(entries, bWrite) ==
  IF Matching(entries, bWrite) = {} THEN {entries}
  ELSE LET i == Min(Matching(entries, bWrite))
       IN  {IF n = 0 THEN RemoveAt(entries, i) ELSE [entries EXCEPT ![i]._nRefCnts = n] :
              n \in Decreased(entries[i]._nRefCnts)}

-----------------------------------------------------------------------------
(* The clock edge: the Stimulus sets DIN with its request, SCIC books the one *)
(* that it finds on its signals.                                              *)

\* sendIo: data for a write that has some, none for a read.
SendData ==
  /\ storage => sgnRequest' \in StoredRequests
  /\ sgnDataIn' \in IF storage /\ sgnRequest'.transactionType = "DATA_WRITE"
                    THEN WriteData ELSE {FALSE}

KeepData == UNCHANGED sgnDataIn

\* Before addTransaction is asked: a read that is refused has been booked as well.
BookRequest ==
  IF ~storage \/ ~sgnDimmEnable THEN UNCHANGED <<_scoreBoard, _bUserDataHandlingFault>>
  ELSE IF sgnRequest.transactionType = "DATA_WRITE"
  THEN /\ _bUserDataHandlingFault' = (_bUserDataHandlingFault \/ ~sgnDataIn)
       /\ UNCHANGED _scoreBoard
  ELSE /\ \E entries \in Booked(_scoreBoard[sgnRequest.address]) :
            _scoreBoard' = [_scoreBoard EXCEPT ![sgnRequest.address] = entries]
       /\ UNCHANGED _bUserDataHandlingFault

\* Mutant: DOUT keeps the buffer when CA is taken back.
KeepDataOut == UNCHANGED sgnDataOut

\* resetDataOut, together with CA.
ClearDataOut == sgnDataOut' = (sgnDataOut /\ ~sgnCompAck)

DataEdge ==
  /\ ~aborted
  /\ ClockEdge
  /\ IF SendLine THEN SendData ELSE KeepData
  /\ BookRequest
  /\ ClearDataOut
  /\ UNCHANGED <<storage, aborted>>

-----------------------------------------------------------------------------
(* The callbacks. *)

FreeFor(t) ==
  \E entries \in Released(_scoreBoard[t.address], t.transactionType = "DATA_WRITE") :
    _scoreBoard' = [_scoreBoard EXCEPT ![t.address] = entries]

\* Mutant: the entry is released although writes came without data.
FreeAlways(t) ==
  IF storage THEN FreeFor(t) ELSE UNCHANGED _scoreBoard

\* freeMemoryElement
Free(t) ==
  IF storage /\ ~(t.transactionType = "DATA_WRITE" /\ _bUserDataHandlingFault)
  THEN FreeFor(t) ELSE UNCHANGED _scoreBoard

\* setDataOutPort: the words in the buffer of the only entry, or of the first read's,
\* which may be any.  The assertion comes before they are written.
DataOut(t) ==
  LET lost == storage /\ Matching(_scoreBoard[t.address], FALSE) = {}
  IN  /\ aborted' = lost
      /\ sgnDataOut' \in IF lost THEN {sgnDataOut} ELSE IF storage THEN BOOLEAN ELSE {FALSE}

\* A write resets DOUT, a read puts the words of its buffer there; then the entry is freed,
\* unless the buffer was not there.
Completed(t) ==
  /\ IF t.transactionType = "DATA_WRITE"
     THEN sgnDataOut' = FALSE /\ UNCHANGED aborted ELSE DataOut(t)
  /\ IF aborted' THEN UNCHANGED _scoreBoard ELSE Free(t)
  /\ UNCHANGED <<storage, sgnDataIn, _bUserDataHandlingFault>>

DataHalf ==
  /\ ~aborted
  /\ WriteHalf \/ ReadHalf
  /\ IF completions' = completions THEN UNCHANGED dataVars ELSE Completed(Last(completions'))

DataNext == DataEdge \/ DataHalf

allVars == <<interfaceVars, dataVars>>

DataSpec == DataInit /\ [][DataNext]_allVars

\* The clock runs on, and the memory neither keeps a transaction in its queue nor
\* leaves one unanswered for ever (MemorySystem's EveryRequestAnswered).
FairDataSpec ==
  /\ DataSpec
  /\ WF_allVars(DataNext)
  /\ SF_allVars(DataHalf /\ DispatchFront)
  /\ \A t \in Transactions : SF_allVars(DataHalf /\ Answer(t))

-----------------------------------------------------------------------------
(* Properties. *)

DataTypeOK ==
  /\ InterfaceTypeOK
  /\ {storage, sgnDataIn, sgnDataOut, _bUserDataHandlingFault, aborted} \subseteq BOOLEAN
  /\ _scoreBoard \in [Keys -> Seq([_bWrite : Garbage, _nRefCnts : 1 .. MaxRefCnts])]
  /\ ~storage => ~sgnDataIn /\ ~sgnDataOut /\ \A a \in Keys : _scoreBoard[a] = <<>>

PendingReads(a) ==
  LET Wanted(t) == t.transactionType = "DATA_READ" /\ t.address = a
  IN  Cardinality({i \in DOMAIN waiting : Wanted(waiting[i])})
        + Total(underway, {t \in Transactions : Wanted(t)})

Users(entries) == Total([i \in DOMAIN entries |-> entries[i]._nRefCnts], DOMAIN entries)

\* As long as writes come without data, and what a build with storage reads is aligned
\* (a read is booked under the address it asks for and freed under the one it is
\* aligned to), every pending read has its share in a buffer, however many reads of one
\* address are pending, merged or refused.
EveryReadHasItsBuffer ==
  storage =>
    \A a \in Keys :
      PendingReads(a) <= Users(_scoreBoard[a])

\* Then a buffer is not found only where every entry of an address that was read
\* twice is marked, by the uninitialised _bWrite, as one of a write.
LostOnlyByMarks ==
  aborted => \E a \in Keys : /\ Len(_scoreBoard[a]) > 1
                             /\ \A i \in DOMAIN _scoreBoard[a] : _scoreBoard[a][i]._bWrite

\* At an edge there are words on DOUT only together with CA and for a read: those of a
\* buffer that was freed since are not left there for the next completion, nor for a
\* write that completes in the same update.  It does not say that a read has data
\* there: the words are not what was stored.
DataOutOnlyWithReads ==
  ~updating /\ ~aborted /\ sgnDataOut =>
    storage /\ sgnCompAck /\ sgnResponse.transactionType = "DATA_READ"

\* "get lost of allocated internal stroage", with assert(pBuffer != NULL), does not
\* happen.
ReadBufferNotLost == ~aborted

\* Unless the assertion stops it, the Stimulus always reaches the end of its trace,
\* stops asking, and everything the memory took is answered.
TraceRunsOut ==
  \/ <>aborted
  \/ <>[](eof /\ ~sgnDimmEnable /\ waiting = <<>> /\ TotalUnderway = 0)
=============================================================================
