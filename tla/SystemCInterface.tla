-------------------------- MODULE SystemCInterface --------------------------
(***************************************************************************)
(* The SystemC side: the thread Stimulus::run, which reads a trace and     *)
(* puts one request after another on the signals DE, WE and DA, and the    *)
(* thread SCIC::runSystem, which hands what it finds there to the memory   *)
(* and calls update().  Both wake on every edge of the clock.  A signal    *)
(* that is written keeps its old value for everyone until the next delta   *)
(* cycle and either thread reads only when it wakes, so both parts of one  *)
(* edge are one step.  The update() behind it is the two halves of         *)
(* MemoryContract, and its callbacks write the completion signals.         *)
(*                                                                         *)
(* The build has one cycle of calibration, as the Makefile's.  The data    *)
(* signals and the score board behind them are in DataSignals.  The        *)
(* Stimulus has no callback registered.                                    *)
(***************************************************************************)
EXTENDS MemoryContract, SequencesExt

CONSTANTS
  Requests,              \* what a line of the trace may ask for
  TransactionBytes,      \* BL*JEDEC_DATA_BUS_BITS/8
  MaxLines               \* bound: lines in a trace

\* The request as the memory sees it: from the start of its transaction.
alignTransactionAddress(t) ==
  [t EXCEPT !.address = (@ \div TransactionBytes) * TransactionBytes]

ASSUME TraceAssumption ==
  /\ TransactionBytes \in Nat \ {0}
  /\ \A t \in Requests : alignTransactionAddress(t) \in Transactions
  /\ MaxLines \in Nat

VARIABLES
  sgnDimmEnable, sgnRequest,     \* DE; WE and the destination address
  sgnBiuBusy,                    \* RB
  sgnCompAck, sgnResponse,       \* CA; WO and AO, the write flag and the address
  _bInitialTime,
  updating,                      \* SCIC is inside update()
  eof, lines,                    \* the trace: its end was met; lines read from it
  completions                    \* callbacks since the last edge, in their order

signals == <<sgnDimmEnable, sgnRequest, sgnBiuBusy, sgnCompAck, sgnResponse>>
trace   == <<eof, lines>>

interfaceVars == <<contractVars, signals, trace, _bInitialTime, updating,
                   completions>>

\* What a signal carries before anything was written to it.
Nothing == [transactionType |-> "NONE"]

InterfaceInit ==
  /\ ContractInit
  /\ sgnDimmEnable = FALSE /\ sgnRequest = Nothing
  /\ sgnBiuBusy = FALSE
  /\ sgnCompAck = FALSE /\ sgnResponse = Nothing
  /\ _bInitialTime = TRUE
  /\ updating = FALSE
  /\ eof = FALSE /\ lines = 0
  /\ completions = <<>>

-----------------------------------------------------------------------------
(* Stimulus::run, from one wait() to the next. *)

\* A line with a request is sent.  The last line may or may not end the file.
SendLine ==
  /\ ~eof /\ ~sgnBiuBusy
  /\ lines < MaxLines
  /\ \E t \in Requests : sgnRequest' = t
  /\ sgnDimmEnable' = TRUE
  /\ lines' = lines + 1
  /\ eof' \in BOOLEAN

\* An empty line, or nothing behind the last newline: the signals stay.
SkipLine ==
  /\ ~eof /\ ~sgnBiuBusy
  /\ \/ lines < MaxLines /\ lines' = lines + 1 /\ UNCHANGED eof
     \/ UNCHANGED lines /\ eof' = TRUE
  /\ UNCHANGED <<sgnDimmEnable, sgnRequest>>

HoldLine ==
  /\ ~eof /\ sgnBiuBusy
  /\ UNCHANGED <<sgnDimmEnable, sgnRequest, trace>>

idleState ==
  /\ eof
  /\ sgnDimmEnable' = FALSE
  /\ UNCHANGED <<sgnRequest, trace>>

StimulusRun == SendLine \/ SkipLine \/ HoldLine \/ idleState

-----------------------------------------------------------------------------
(* SCIC::runSystem, up to the call of update(). *)

\* Mutant: CA stays up.
KeepCompAck == UNCHANGED sgnCompAck

ClearCompAck == sgnCompAck' = FALSE

TakeRequest ==
  /\ sgnDimmEnable
  /\ Accept(alignTransactionAddress(sgnRequest))
  /\ UNCHANGED sgnBiuBusy

\* The request is dropped: nobody keeps it.
RefuseRequest ==
  /\ sgnDimmEnable /\ ~HasRoom
  /\ sgnBiuBusy' = TRUE
  /\ UNCHANGED contractVars

NoRequest ==
  /\ ~sgnDimmEnable
  /\ UNCHANGED <<contractVars, sgnBiuBusy>>

\* The first time round there is no update().
RunSystem ==
  /\ ClearCompAck
  /\ TakeRequest \/ RefuseRequest \/ NoRequest
  /\ updating' = ~_bInitialTime
  /\ _bInitialTime' = FALSE
  /\ completions' = <<>>
  /\ UNCHANGED sgnResponse

ClockEdge ==
  /\ ~updating
  /\ StimulusRun
  /\ RunSystem

-----------------------------------------------------------------------------
(* update() and its callbacks. *)

\* Mutant: a write completion leaves RB as it is.
CompleteKeepingBusy(answered) ==
  IF answered = {} THEN UNCHANGED <<signals, completions>>
  ELSE \E t \in answered :
         /\ sgnBiuBusy' = IF t.transactionType = "DATA_WRITE" THEN sgnBiuBusy ELSE FALSE
         /\ sgnCompAck' = TRUE /\ sgnResponse' = t
         /\ completions' = Append(completions, t)
         /\ UNCHANGED <<sgnDimmEnable, sgnRequest>>

\* readComplete and writeComplete.
Complete(answered) ==
  IF answered = {} THEN UNCHANGED <<signals, completions>>
  ELSE \E t \in answered :
         /\ sgnBiuBusy' = FALSE
         /\ sgnCompAck' = TRUE /\ sgnResponse' = t
         /\ completions' = Append(completions, t)
         /\ UNCHANGED <<sgnDimmEnable, sgnRequest>>

WriteHalf ==
  /\ updating
  /\ \E answered \in AtMostOne("DATA_WRITE") : BeginUpdate(answered) /\ Complete(answered)
  /\ UNCHANGED <<trace, _bInitialTime, updating>>

ReadHalf ==
  /\ updating
  /\ updating' = FALSE
  /\ \E leaving \in SUBSET DOMAIN waiting, answered \in AtMostOne("DATA_READ") :
       EndUpdate(leaving, answered) /\ Complete(answered)
  /\ UNCHANGED <<trace, _bInitialTime>>

InterfaceNext == ClockEdge \/ WriteHalf \/ ReadHalf

InterfaceSpec == InterfaceInit /\ [][InterfaceNext]_interfaceVars

\* What fairness is asked of.
DispatchFront ==
  \E leaving \in SUBSET DOMAIN waiting : 1 \in leaving /\ ReadHalf /\ EndUpdate(leaving, {})

Answer(t) == (WriteHalf \/ ReadHalf) /\ completions' = Append(completions, t)

-----------------------------------------------------------------------------
(* Properties. *)

\* The signals carry requests of the trace, the transaction queue is never longer
\* than TRANS_QUEUE_DEPTH however often SCIC asks, and one edge sees at most one
\* write and one read callback.
InterfaceTypeOK ==
  /\ waiting \in Seq(Transactions) /\ Len(waiting) <= QueueDepth
  /\ underway \in [Transactions -> 0 .. MaxUnderway]
  /\ half \in {"begin", "end"} /\ (half = "end" => updating)
  /\ sgnDimmEnable \in BOOLEAN /\ sgnRequest \in Requests \cup {Nothing}
  /\ sgnBiuBusy \in BOOLEAN
  /\ sgnCompAck \in BOOLEAN /\ sgnResponse \in Transactions \cup {Nothing}
  /\ _bInitialTime \in BOOLEAN /\ updating \in BOOLEAN /\ eof \in BOOLEAN
  /\ lines \in 0 .. MaxLines
  /\ completions \in Seq(Transactions) /\ Len(completions) <= 2

\* While RB holds the Stimulus back, the memory still has something to complete:
\* only a completion lowers RB again.
BusyMeansPending == sgnBiuBusy => waiting # <<>> \/ TotalUnderway > 0

\* What a thread finds on CA when it wakes at an edge: high exactly if something
\* completed since the edge before, with the last completion on WO and AO.
CompletionSignalled ==
  ~updating => /\ sgnCompAck <=> completions # <<>>
               /\ sgnCompAck => sgnResponse = Last(completions)

\* "stimulus issues I/O to memory only if the bus interface unit has room": the
\* request SCIC finds on its signals fits into the transaction queue.
IssuedWithRoom == ~updating /\ sgnDimmEnable => HasRoom
=============================================================================
