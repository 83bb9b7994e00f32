# A verification of DRAMSim with its SystemC interface

The specifications in this directory model the simulator in `src/`: the memory controller, its
command queue, the ranks and the channel that holds them, the construction of a memory system
from its ini files, the address mapping and the storage behind it, the statistics, and the SystemC
threads that drive a channel. TLC checks them on small memories. TLAPS proves, for every value of the constants that
the assumptions allow, that no rank ever rejects what the channel sends it and that the channel's queues and
counters stay sound, that no column command is left behind by a precharge or a refresh nor overtakes an older one for its address, that every pending read is on its way and finds the data written before it, that the stored data are a
flat memory, that the printed statistics add up to what was served, that the SystemC signals show what completed, and that
a system that is built is the one its files describe; and, for the relations between delays that the device files keep, that bursts
never meet on the data bus, so that the program never ends in one of its own checks and no request is lost.

## 1. The system

| Part | State it keeps | Operations | Modelled in |
|---|---|---|---|
| Memory controller (`MemoryController.cpp`) | transaction queue, pending reads, return queue, bank states, power flags, command and data bus, write-data delays, refresh counters | `update`, `addTransaction`, `WillAcceptTransaction`, `receiveFromBus`, `addressMapping` | `MemoryController`, `BankState`, `AddressMapping` |
| Its statistics (`MemoryController.cpp`, `SCIC.cpp`) | transfers and latencies of an epoch, histogram, latencies per bank | `insertHistogram`, `printStats`, `resetStats`, `measureIndividualLatency`, `GetLatencyandMarkTimepoint` | `Statistics` |
| Command queue (`CommandQueue.cpp`) | packet queues, round-robin positions, refresh request, tFAW windows, row access counters | `pop`, `enqueue`, `hasRoomFor`, `isIssuable`, `isEmpty`, `needRefresh` | `CommandQueue` |
| Rank (`Rank.cpp`) | its own bank states, power flag, read-return queue, burst on the data bus | `receiveFromBus`, `update`, `powerDown`, `powerUp` | `Rank`, `MemorySystem` |
| Bank storage (`Bank.cpp`) | for every column a list of rows with their data | `read`, `write`, `searchForRow` | `BankStorage`, `PhysicalMemory` |
| Channel (`MemorySystem.cpp`) | parked requests | constructor, both `addTransaction`, `update` | `MemorySystem`, `MemoryContract`, `Configuration` |
| Trace front end (`TraceBasedSim.cpp`) | pending requests per address | main loop, `TransactionReceiver` | `MemorySystem` (source of requests, `outstanding`) |
| SystemC interface (`SCIC.cpp`) | completion, busy and data signals, calibration flag, score board | `runSystem`, `readComplete`, `writeComplete`, `setDataOutPort`, `freeMemoryElement` | `SystemCInterface`, `DataSignals` |
| SystemC stimulus (`Stimulus.cpp`) | request and data signals, trace position | `run`, `sendIo`, `idleState`, `IssueRequest` | `SystemCInterface`, `DataSignals` (trace mode) |
| Configuration (`SystemConfiguration.h`, `IniReader.cpp`) | parameters and whether each was set, derived delays | `ReadIniFile`, `SetKey`, `InitEnumsFromStrings`, `CheckIfAllSet` | `Configuration`, `SystemConfiguration` |
| `BusPacket`, `Transaction`, `BankState` | records | constructors, printing | records of `BankState`, `MemoryController` |
| `Callback`, `PrintMacros`, `DRAMSim.h` | functors, text | | not modelled (section 8) |

**How they interact.** Everything in a channel runs in one thread. A call of
`MemorySystem::update` lets the ranks finish bursts, moves a parked request, runs the controller
and steps the clocks. The controller calls the ranks directly (`receiveFromBus`, `powerDown`,
`powerUp`), a rank calls the controller back with read data, and the controller calls the user
back when a read is returned or write data has been sent. The user adds transactions between
updates. In the SystemC program two threads wake on each clock edge and talk through signals;
`SCIC` calls `update` and its callbacks write the completion signals.

**What is hard about it.** The difficulty is not in threads but in time and in duplicated state:

* controller and rank keep *separate* copies of every bank's state, updated a cycle apart, and
  the rank exits the simulation when a command does not suit its own copy;
* the power state of a rank is kept in four places;
* about fifteen timing delays decide together whether two bursts meet on the data bus;
* refresh, power-down, a limit of accesses to a row and two round robins interfere in `pop()`,
  which searches out of order and removes two entries at a time;
* refresh counters are unsigned, counted down for every rank and looked at for one rank only;
* requests wait in five places between their acceptance and their callback;
* a bank is read when the READ arrives but written only when the write data have crossed the bus;
* both ini files write to one set of globals, some of which are used before anything checks that they were set;
* on the SystemC side a full queue is reported by a signal that the other thread sees one edge
  later, two completions may share one set of signals, and a score board that is looked up by address
  keeps the buffers of reads only.

**What makes each part correct.** *Ranks*: no command they forbid ever arrives. *Queue*: an
ACTIVATE stays with its column command, order per address is kept, tFAW holds, no column command
is stranded without a row, a refresh is served. *Controller*: power views agree, bus bursts are
disjoint, waits are never shortened, no refresh counter wraps. *Channel*: each accepted request is called back exactly
once and within bounded queues. *Mapping and storage*: one to one, in range, and a read finds what was written
last. *Configuration*: a system that is built is the one the files describe. *Statistics*: the printed figures add up to
what was served. *SystemC*: nobody waits for ever, completions are signalled, a pending read has its buffer.

## 2. The modules

```
SystemConfiguration          parameters, their assumptions, the derived delays
  BankState                  a bank's state and what each command and clock step does to it
    Rank                     the rank's checks and its view of a command
      CommandProtocol        abstract: any command the controller's banks allow, in any order
        CommandProtocolProofs
    CommandQueue             pop(), all four queue/page combinations, both round robins
      MemoryController       dispatch, buses, refresh counters, return of reads
        CommandQueueProofs   queues and windows stay sound
        MemorySystem         the channel; implements CommandProtocol and MemoryContract
          MCMemorySystem
          MemorySystemProofs (extends CommandQueueProofs as well); no request is lost or answered twice
            DataBusProofs    bursts on the data bus, power-down, reads on their way, the contract
MemoryContract               abstract: what a channel promises its caller
  SystemCInterface           Stimulus::run and SCIC::runSystem over that contract
    DataSignals              the data signals and the score board of the build with storage
      MCSystemCInterface
      DataSignalsProofs
Configuration                the constructor: ini files, number of ranks, enumerations
AddressMapping               the six mapping schemes
BankStorage                  the lists of a bank
FlatMemory                   abstract: every address holds what was written there last
  PhysicalMemory             Configuration, AddressMapping and BankStorage together; implements FlatMemory
    MCPhysicalMemory
    PhysicalMemoryProofs
Statistics                   counters, histogram and the latency report of SCIC
  StatisticsProofs
FiniteCollections            sums over finite sets, numbers in order (in MemorySystem, MemoryContract, Statistics)
  FiniteCollectionsProofs    lemmas on these and on what is taken out of a sequence, for the proofs above
```

**Time.** The code compares absolute cycle stamps (`nextRead`, `nextActivate`, ...) with
`currentClockCycle`. The models keep the remaining wait, `max(stamp - now, 0)`, and `Step` takes
one off each cycle. A stamp in the past and a stamp of now are the same to every comparison, so
nothing is lost and the state space is finite. Countdown fields (`stateChangeCountdown`,
`cmdCyclesLeft`, ...) are as in the code. `Statistics` alone keeps the clock itself, because it is about the
cycles at which an epoch ends.

**One update, three steps.** `MemorySystem` splits `update()` into `Begin` (ranks, parked request,
bank countdowns, command delivery, write data, refresh check), one issue step (`pop()` and its
effects) and `End` (dispatch, power, read return, counters, clocks). The split follows the order of
the code; requests are added only between updates, so it adds no interleaving. `phase` is the
program counter. An exit of the program is a value of `error` after which nothing happens. The loop over the ranks and the
dispatch loop, which erases while it iterates, are recursive functions of the index (`Received`, `Dispatching`).

**`pop()`.** Each way out of `pop()` is an action: `PopRefreshColumn` and `PopRefreshPrecharge` (making
way for a refresh), `PopRefresh`, `PopQueued`, `PopPrecharge` and `PopNothing`. Their guards exclude
one another: the round-robin loop becomes the first position in scan order that has a hit. The
round robins advance exactly as the code's loops leave them. The clipping of the stopping position
through `bool startingRank` is modelled (`StopCell`).

**Data.** In the channel a request is a record of type, rank, bank, row and column; payloads, ids and time stamps are left
out. `outstanding` is the user's own count of unanswered requests, as `TransactionReceiver` keeps. `PhysicalMemory` has the
payloads and the mapping instead and makes an access one step; that the data are in place when a bank
is read is the channel's business (`ReadFindsDataStored`).

**Construction.** `Configuration` reads both files line by line into `globals`, in the order of the constructor: files, number of
ranks from the size, enumerations, and only then the check that every number was set. A malformed line aborts, a missing number
exits, and a missing `DEVICE_WIDTH` or a rank smaller than a megabyte divides by zero before the check comes
to its message; these are values of `phase`. Of the 45 parameters the model has those that storage and addresses depend on, and one
Boolean. The other names and enumerations take the same path through `SetKey` and `InitEnumsFromStrings`.

**SystemC.** A signal written in an edge is read by others no earlier than the next delta cycle, and
both threads read at the same edge, so the two threads' work at an edge is one step, `ClockEdge`. The
`wait(SC_ZERO_TIME)` inside a callback suspends `update()`, so the write callback (`WriteHalf`) and the read
callback (`ReadHalf`) are steps of their own. `DataSignals` conjoins to these steps what happens to the data
signals and the score board, for both builds: its variable `storage` says whether `NO_STORAGE` is undefined. A score board entry's
`_bWrite` is never assigned by its constructor, so it is any member of `Garbage`. One cycle of calibration is modelled, and no
callback registered with the Stimulus.

**Abstract specifications.**

* `CommandProtocol` replaces the scheduler by "any command the controller's own bank states
  allow". `MemorySystem` implements it (`ImplementsProtocol`, checked by TLC for two configurations and proved for
  all), so what is proved of it is true of the real scheduler.
* `MemoryContract` says what callers may rely on: acceptance exactly while the queue has room, one callback
  per accepted request, at most one write callback and then at most one read callback in an update.
  `MemorySystem` implements it (`ImplementsContract`), and `SystemCInterface` is built on it instead
  of on the channel. In the refinement mapping a transaction is *underway* when the user still
  waits for it and it has left the transaction queue.
* `FlatMemory` is what a program expects of its memory. `PhysicalMemory` implements it (`ImplementsFlatMemory`, checked
  and proved): the value of an address is what a search of its place's list finds, or the tracer value.

## 3. The runs

| Run | Configuration | Question |
|---|---|---|
| `protocol` | 1 rank, 2 banks, open page, low power | Do rank and controller agree whatever the scheduler does? |
| `close_page_per_rank` | 1 rank, 2 banks, close page, 1 queue, low power, 3 requests | Are ACTIVATEs paired, powered-down ranks quiet, protocol and contract implemented? |
| `open_page_per_rank` | 2 ranks, 1 bank, open page, low power, 3 requests | Are bursts exclusive, refreshes due in turn and none forgotten, addresses in order? |
| `close_page_per_bank` | 1 rank, 2 banks, queue per bank, 5 parked requests | Are requests conserved, does tFAW hold? |
| `open_page_per_bank` | 1 rank, 1 bank, row conflicts, 2 accesses per row, low power, requests without end, at most 3 unanswered | Is every request and refresh eventually served, and does a read find what was written? |
| `systemc_interface` | both builds, queue of 2, 2 underway, trace of at most 4 lines | Can the two threads wait for ever, are completions signalled, is DOUT reset in time, has a pending read its buffer? |
| `physical_memory` | 6 device files, 7 system files, 2 sizes, 8 addresses | Is what is built what the files say, are the schemes one to one and in range, is the storage a flat memory? |
| `statistics` | 2 ranks, 2 banks, epochs of 3 cycles, 8 cycles, 3 transfers | Do the printed figures add up to what was served, and is a latency told once? |
| `dispatch_order`, `posted_cas`, `lost_read_buffer`, `busy_signal` | see section 4 | Where the code departs from what it says |

**Bounds and why they are enough.** Delays are a few cycles, but keep the relations of the device
files that matter: tRC = tRAS+tRP, tFAW longer than four tRRD for `close_page_per_bank`, bursts longer than a cycle,
a refresh period that comes round during a run and while requests, power-down and row conflicts are
under way. Two banks (or two ranks) are what relates "this bank" to "the others" in every delay
update; three to five requests fill a transaction queue of one or two entries, park requests, and bring
row hits, row conflicts and dispatch with a full command queue. A `CMD_QUEUE_DEPTH` of 2 lets the dispatch loop meet queues
without room. `MaxTransactions` bounds the requests of one behaviour, or with `Endless` those that are unanswered at a time;
refreshes and power changes go on without bound. The three ranks or banks at which `StopCell` clips are beyond these runs;
the proofs of section 5 include them.

In `DataSignals`, `MaxLines` bounds the trace and
`MaxUnderway` the transactions inside the channel; four lines and two queue places are enough for a
refusal, an overwritten request, a repeated one, and a read and a write of one address underway together. `MaxEntries` bounds the entries of an address; a
count of users is exact below `MaxRefCnts` and means "at least so many" there, so that a repeated request cannot make it grow for ever.

In `physical_memory` a megabyte has 8 bytes and every transaction of the storage is visited, in each
scheme. Among the files are one with a malformed line, two in which a number is missing, one with a word for a number, parameters in the
wrong file, an unknown key and an unknown scheme. `MaxNodes` = 2 allows two rows in one list, or one row in two. The sizes are
powers of two: with three ranks TLC refutes `MappedInRange` for schemes 2, 5
and 6, because the rank field has two bits and may hold 3.

In `statistics`, `MaxCycle` and `EPOCH_LENGTH` give two printed epochs, an unprinted one at cycle 0 and one that the end of the simulation cuts short.

**Deadlock** is checked wherever the system goes on for ever: the program's own exits are states in which nothing more
happens, so a reached exit of the channel is reported both by `NoExit` and as a deadlock. `CHECK_DEADLOCK FALSE` stands in
`systemc_interface`, where the assertion of the score board may stop the program, in `physical_memory`, where the constructor may
exit or crash, and in `statistics`, where the simulation ends.

**Fairness.** `FairSpec` assumes only that `update()` is called again (`UpdateGoesOn`): the main loop and
`runSystem` do so unconditionally. No fairness is assumed among requests or scheduling choices, which are
deterministic. New requests may take the place that parked ones wait for, again and again; so
`EveryRequestAnswered` says that a request is answered unless parked requests are overtaken for ever. `FairDataSpec` assumes
that the clock runs on, and that the channel dispatches the front of its queue and answers
every transaction; those are assumptions about the channel, whose justification is
`EveryRequestAnswered` of the run `open_page_per_bank`.

**Properties worth a second look.**

* `ReadsOnTheWay`: per address the controller's pending reads are exactly the read commands queued, on the bus, in
  the rank, on the data bus and in the return queue.
* `RequestsConserved`: the same count for the user's view over parked, queued, issued and returned requests.
* `SameAddressOrderKept`: `pop()` takes column commands for one address in queue order.
* `RefreshNotOverrun`: no refresh counter runs out while `update()` looks at another one (`RefreshDueInTurn`, proved), and with the run's three
  requests `needRefresh` never overwrites a refresh that is still waiting. Under an endless load it may (section 4).
* `ReadFindsDataStored`: no write data for the address are on their way when a READ arrives at its rank.
* `CompletionSignalled`: at an edge CA is up exactly when something completed since the edge before, and
  then carries the last completion. When a read and a write complete in one update, the first is overwritten: the property
  states which one is seen, not that both are.
* `BusyMeansPending`: RB is never up with nothing left to complete, the only event that lowers it.
* `EveryReadHasItsBuffer` and `LostOnlyByMarks`: with writes that carry no data the users counted on the score board cover the pending reads, and
  a buffer is still not found only where the uninitialised marks of an address' entries say "write".
* `BuiltFromFiles`: the last line for a key decides, over both files, and no system is built with a number missing.
* `OneNodePerRow`: however a column's list was built up, a row occurs once, so a read cannot find an older node.
* `DataOutOnlyWithReads`: the words of a buffer are on DOUT only beside the completion of a read, never those of a buffer freed since. It does not
  say that a read has its data there, because that is not so (section 4).
* `PrintedAddsUp`: printed and not yet printed transfers are together those that were served, at any moment, for every rank and in total. Of the
  bank usage list only the first rank's entries are part of it (section 4).
* `LatencyToldOnce`: what a query tells a rank and what is kept are together what was measured at the rank's indices, wherever the queries fall. The indices are
  those the code's loop uses, not the rank's banks; the returned total is only bounded from below, since it counts latencies several times (section 4).

## 4. Where the code departs from its documentation

Each of these is a run that TLC must find violated.

* `dispatch_order`. The dispatch loop erases the entry it takes and still advances the index, so
  a later transaction for the same address can be taken first. README.txt says the head is taken.
* `posted_cas`. With AL = tRCD-1, a value the device files allow, and two ranks, writes collide on the
  data bus. The run uses the timings of a DDR3 file with that AL.
* `lost_read_buffer`. Only reads are booked on the score board, but completions of writes free entries too: a write that completes
  while a read of the same address is pending takes the read's buffer, and `assert(pBuffer != NULL)` fails.
* `busy_signal`. RB is raised only by a refusal, so the Stimulus issues requests without room and the
  refused one is overwritten at the same edge.

Other behaviour that the models show is not held against any statement of the repository:

* The look-ahead that should power a rank up "in time for a refresh" looks tXP cycles ahead, but the power-up
  itself also waits for tCKE, so a refresh may be late. Power-down alone does not lose it (`EveryRefreshSent`).
* **A stream of reads from one rank can cost another rank a refresh.** A READ makes every open bank of the other ranks wait BL/2 + tRTRS cycles for its
  next read (`AfterReadElsewhere`), while the next READ of its own rank may follow after max(tCCD, BL/2). With open pages and a queue per rank, a read that
  waits in rank 0 is therefore never issuable as long as rank 1 is read back to back, and its bank cannot close for a refresh. TLC,
  following one behaviour of `MemorySystem` with the delays of `DDR3_micron_64M_8B_x4_sg15`, two ranks, queues of 32 entries, four accesses per row, no power-down and one
  read of rank 0 early in a stream of reads over the banks of rank 1, finds `RefreshNotOverrun` violated when the refresh of rank 1 falls due: `needRefresh(1)`
  overwrites the refresh that rank 0 has waited for since half a period. Only then, when its own refresh stops the stream, can rank 0 go on: its read is
  delayed and not lost. A behaviour of thousands of cycles is too long to be one of the runs, and the three requests of
  `open_page_per_rank` end before it happens. `TOTAL_ROW_ACCESSES` is there "to prevent starvation" (`system.ini.example:25`), but of other rows in the same bank.
* Power-up assigns `nextActivate` and can shorten a wait that tRC still asks for: with closed pages and the delays of the DDR2 files (tRC = 18 or 23, tCKE = 3,
  tXP = 2) `ActivateWaitKept` fails. It holds in the run `protocol` and is proved for the delays of all other files (`PowerUpTiming`, section 5).
* An empty line, or the empty read behind the last newline of the trace, leaves DE up, and SCIC takes the same request once more.
* **Stored data never reach DOUT.** The comment above `setDataOutPort` says "write data to DOUTs based on the provided key" (`SCIC.cpp:349`). The buffer it writes is the one
  allocated at `SCIC.cpp:125`, and nothing fills it: `Bank::read` puts its own pointer in the packet (`Bank.cpp:89`, `93`) and the data do not come back with the callback.
  So DOUT shows uninitialised memory, which `DataOut` models as a choice of any words.
* **The "Bank usage list" prints the wrong entries.** For bank `j` of rank `i` it prints the counters at `i+j` (`MemoryController.cpp:1145-1152`), where the rest of `printStats` uses
  `SEQUENTIAL(i, j)`. `UsageList` has that index. Only the first rank's entries are right, and only they are compared with the printed figures.
* **`GetLatencyandMarkTimepoint` tells latencies under the wrong rank, not all of them, and returns too much.** Its loop runs over `i+j` as well (`SCIC.cpp:597`, `602`), while
  `measureIndividualLatency` is said to measure "for each rank and bank from the last point that you queried" (`SCIC.cpp:569-571`). Rank 0 is told its
  own banks; each other rank is told one index, since it finds those before it cleared; the last `NUM_RANKS * NUM_BANKS - NUM_RANKS - NUM_BANKS + 1` indices are never told
  nor marked, and grow for ever. The returned total adds a rank's running sum after every bank (`598`), so the latency of
  an early bank is in it up to `NUM_BANKS` times (`nLatency`).

## 5. What is proved

### The command protocol (`CommandProtocolProofs`)

| Theorem, of `ProtocolSpec` | States |
|---|---|
| `ProtocolInvariance` | `[]IInv`, the inductive invariant |
| `ProtocolTypeCorrect` | `[]ProtocolTypeOK` |
| `RanksNeverReject` | `[]RankNeverRejects`: no command or power change is refused and no two commands meet on the command bus |
| `PowerViewsAlwaysAgree` | `[]PowerViewsAgree` |
| `ActivateWaitAlwaysKept` | `ActivateWaitKept`, under `PowerUpTiming`; `ChannelKeepsActivateWait` says it of the channel |

`RankNeverRejects` is not inductive: it says nothing of how far the two copies of a bank
may differ. `IInv` adds that. `Follows(m, k)` says that the rank's bank `k` is open on the same row
where the controller's bank `m` is open, closed where it is closed or closing, and that none of its waits is
more than one cycle longer. One cycle is just the time a command needs to arrive (tCMD = 1), so a
command the controller may issue now is accepted at its arrival. While a command is on the bus,
`Arrives` says the same of the rank's bank as it will be after receiving it. `BankConsistent`
relates a controller bank's countdown to its state and last command: it is what keeps a bank that closes
itself after an auto-precharge from being activated before the countdown is over. `PowerAgrees` ties the four copies of
the power state together. The lemmas go from a single operator (`CountDownType`, `StepFollows`, ...) through one
bank and one command to the steps of `update()`. The theorem does not contradict the shortened wait of
section 4: both copies shorten it in the same way, so the rank does not notice.

*What needs `PowerUpTiming`.* All updates of `nextActivate` move it later except two assignments. A refresh finds it run out. A power-up sets it to tXP, so no longer wait may be left then.
`RestInv` follows a bank from its ACTIVATE: as long as its row is open, and while it closes, the wait that is left exceeds the time until the bank can be idle by at most
tCKE + tXP (`Rested`); a rank then sleeps for tCKE, and at most tXP is left. This needs tRC <= tRAS + tRP + tCKE + tXP with open pages, and
tRC <= tRCD - AL + READ_TO_PRE + tRP + tCKE + tXP with closed ones (and the same for a write), tRRD <= tCKE + tXP, and that the wait after an auto-precharge
does not go on for longer than that after the bank is idle. All device files satisfy it with open pages, and
all DDR3 files with closed pages (tRC = 39 of `sg125` is just covered). The DDR2 files do not with closed pages, and there the property fails.
Without power-down (`USE_LOW_POWER`) nothing is needed.

### The channel (`CommandQueueProofs`, `MemorySystemProofs`)

| Theorem, of `Spec` | States |
|---|---|
| `ChannelInvariance` | `[]ChannelInv`, the inductive invariant of the queues; the exit "command queue overrun" is never taken |
| `ActivatesAlwaysPaired` | `[]ActivatesPaired` |
| `FAWWindowKept` | `[]FAWWindow` |
| `ChannelImplementsProtocol` | `ImplementsProtocol` |
| `ChannelNeverRejected` | the exits for a rejected command, a rejected power change and a collision on the command bus are never taken |
| `ChannelTypeCorrect` | `[]TypeOK`: the whole state is well formed, no refresh counter wraps |
| `RefreshesInTurn` | `RefreshDueInTurn`: a refresh counter at zero is `refreshRank`'s, the only one `update()` looks at |
| `ScanEnds` | the scan for rows to close comes to the cell where it stops, so `pop()` returns |
| `NoBankLeftOut` | after a cycle in which nothing was sent, the next scan looks at every bank |

*Queues.* `QueueInv` says that every queue is within its depth, holds only commands that are queued, and has each ACTIVATE directly
before its own column command (`QueueSound`); that the tFAW windows are strictly increasing, short and within tFAW (`WindowsSound`); and that
positions and counters are in range. `CommandQueueProofs` shows for each way out of `pop()` that it keeps `QueueInv` and that what it hands
out is a command of a queue and issuable. The hard cases remove two neighbours at once: an open-page hit takes the ACTIVATE in front of it
along, and making way for a refresh does too; `RemoveTwo` says what is left. `DispatchedSound` goes along the dispatch loop by well-founded induction on its index.

*Scans.* A scan for rows to close starts at `nextRankPRE`, `nextBankPRE` and stops at `StopCell`, whose rank and bank `bool startingRank` and `bool startingBank`
clip to 0 or 1. `RoundRobin` shows that `nextRankAndBank` comes to every cell within one round, hence also to a clipped one. A scan from a cell other than
`StopCell` leaves out the banks behind it; but when it finds nothing it stops on `StopCell`, which is its own clipping, and the next scan is a whole round.

*Refinement.* `Begin` of the channel is `Deliver` of the protocol, a pop that hands out a command is `Issue` of this command, an
empty one `IssueNothing`, `End` is `PowerAndStep`, and adding or parking a request is a stutter. `PopRefines` is where the command queue's
`isIssuable` meets what the controller's bank states allow; a queued command needs the pairing of `QueueInv` only to have a place
in range. The protocol's own theorems are used through `Checked`, an instance of the proof module with the channel's
variables; its definitions are shown to be those of `Protocol` (the `Same...` lemmas), since the two instances are different names to the prover.

*Data and refresh.* `DataInv` describes the queues of packets on their way: their countdowns are strictly increasing, so only the head can run out and the code, which looks
at the head only, misses none. `RefreshInv` orders the refresh counters cyclically from `refreshRank` on: each is greater than the one before, and
any two are less than `REFRESH_CYCLES` apart. So the first counter to run out is `refreshRank`'s, it is set back behind all others, and the turn passes on. This needs
`RefreshAssumption`: with more ranks than cycles in a refresh period the initial stagger is 0 and two counters start equal.

### Conservation of requests (`MemorySystemProofs`)

| Theorem, of `Spec` | States |
|---|---|
| `ConservationInvariance` | `[]ConservationInv`, the inductive invariant |
| `RequestsAreConserved` | `RequestsConserved` at every state, until the program has ended with its exit for a collision on the data bus |
| `CallbacksExpected` | no read or write is called back that nobody waits for (the exit "no pending request") |

`RequestsConserved` counts a read and a write in different places. The proof needs one sum for both: `Balanced(t)` says that `outstanding[t]` is the
number of its copies over all places a request can be in: parked, in the transaction queue, among the pending reads, as a WRITE command in the queue of its rank and bank, as
write data that wait, and on the bus. Reads leave the last three at 0 and writes the third. For the queues this holds only because every
command is in the queue of its own bank (`QueuesHome`). Each handler is then a move from one place to another: `UnparkConserves` and `SendConserves` (parking to queue, bus to callback),
`TransmitConserves` (a WRITE that is popped becomes write data; what is removed with it, or without it, is an ACTIVATE, a refresh or nothing that counts),
`DispatchedConserves` (queue to command queue, by induction along the dispatch loop) and `EndConserves` (read data to callback).
The lemmas about the queues speak of the column commands of either kind (`ColumnsFor(t)`), and the dispatch lemmas say for a
read, too, that each pending read it adds comes with a READ (`ReadsFollow`): `DataBusProofs` builds on that. Removing an element at a position is where a
count could go wrong, so the `Tally` lemmas say what `RemoveAt`, `Tail` and `Append` do to it, by bijections and cardinalities of finite sets.

The exit for a collision on the data bus is excepted because there the data on the bus are overwritten and their request is gone with them. Whether it
can happen depends on how long bursts and delays are; the next section has the condition under which it cannot.

### No column command is stranded (`CommandQueueProofs`, `MemorySystemProofs`)

| Theorem, of `Spec` | States |
|---|---|
| `ServedInvariance` | `[]ServedInv`, the inductive invariant |
| `NoColumnEverStranded` | `[]NoStrandedColumn` |

A column command is *exposed* when no ACTIVATE stands directly in front of it (`Exposed`): its own has gone, so nothing will open its row again.
`NoStrandedColumn` says that its row is open, steady and has accesses left. To be inductive it needs what the searches of `pop()` rely on: an exposed command is the
*first* of its queue for its bank and row (`FirstForRow`), and a bank that is not open has counted no accesses (`CountersReset`). From the first follows that
each bank has at most one exposed command (`OnePerBank`). What a pop does is then told in one sentence, `PopExposes(p)`: a command that is exposed afterwards was
exposed before and is for another bank than `p`, or `p` is its ACTIVATE. Each way out of `pop()` keeps to it for a reason of its own:

* *A hit with its ACTIVATE still queued* takes both out (`PairPopped`). It is taken only when all commands for the row before it are ACTIVATEs,
  so an exposed one could only stand behind it, and would not be the first.
* *An ACTIVATE* exposes its column command (`ActivatePopped`). It is the first for its row, for an earlier one would have kept the bank from being activated or have been sent itself
  (`SentActivateIsFirst`).
* *Making way for a refresh* takes the exposed command of an open row out, if there is one, and precharges only rows that no queued command wants or whose
  accesses are used up. The latter cannot be the row of an exposed command, which has accesses left.
* *A precharge* of the scan closes a row on the same conditions; *a refresh* finds all banks closed, so nothing is exposed for its rank.

The other steps do not shorten a queue: dispatch appends an ACTIVATE with its column command (`DispatchedExposes`), and clock steps change a bank's state only where its countdown runs, which an
exposed command excludes. The case analysis is made on the controller's banks alone (`BankInv`).

### Commands for one address keep their order (`CommandQueueProofs`, `MemorySystemProofs`)

| Theorem, of `Spec` | States |
|---|---|
| `SameAddressOrderAlwaysKept` | `SameAddressOrderKept`: a pop takes from the column commands of an address none or the oldest |

This holds for both row policies and both ways to search a queue, and rests on what `ServedInv` knows about positions. `FiniteCollectionsProofs` has what
removing an item does to the items selected from a sequence: it leaves the selection alone when the item is not selected (`SelectedWithout`)
and takes its head when it is the first selected (`SelectedTail`). It remains that no pop takes a column command with another one for the same row in front of it (`PopTakesFirst`):
a column command without its ACTIVATE is exposed and hence the first of its row; one that goes together with its ACTIVATE
has only ACTIVATEs for the row before it. Taking an ACTIVATE, a precharge and a refresh take no column command (`NothingTaken`).
The order between arrival and queue is another matter: dispatch does not keep it (section 4).

### The data bus and the reads (`DataBusProofs`)

| Theorem, of `Spec` | States | Under |
|---|---|---|
| `SpacedInvariance` | `[]SpacedInv`: reads of one rank keep apart, no READ overtakes data written to its rank | |
| `ReadAlwaysFindsDataStored` | `[]ReadFindsDataStored` | |
| `ReadsAlwaysOnTheWay` | `[]ReadsOnTheWay` | |
| `DataBusAlwaysExclusive`, `NoCollisionOnDataBus` | `[]DataBusExclusive`, and the exit for a collision is never taken | `DataBusTiming` |
| `ProgramNeverExits` | `[]NoExit`: none of the channel's exits is ever taken | `DataBusTiming` |
| `RequestsAlwaysConserved` | `[]RequestsConserved`, without exception | `DataBusTiming` |
| `PoweredDownRankAlwaysQuiet` | `[]PoweredDownRankIsQuiet` | `PowerDownTiming` |

*Bursts.* The code keeps data on their way in four forms: write data that wait, packets in a rank's read-return queue, packets on the bus with their remaining
cycles, and a READ on the command bus, whose data are still to come. `Bursts` maps all of them to one set of records with a rank, a bank and the cycle, from
now, in which the burst starts on the bus. Two bursts keep apart when one is over before the other starts (`Apart`), and nothing else of the four forms matters to the
proofs. A clock step moves every start by one and the waits of the banks by one (`Delayed`, `Lag`); a READ or WRITE that is issued adds one burst, the lemmas about
`AfterRead`, `AfterWrite` and their variants for other banks and ranks say how long the waits it leaves are.

*What holds for every timing.* Within a rank the delays of the code suffice: `ReadsWait` says that no bank of a rank may take a READ whose data would catch up with a burst
that is coming or under way in this rank, or that would arrive while data for the rank are still to be written. Hence `ReadsApart` and `NoWriteAtRead`.

*What needs `DataBusTiming`.* Between ranks the bus is kept free by two relations the code relies on and does not check: tRTRS >= 1, without which a
burst of another rank follows too closely, and tRCD - AL > BL/2. The second is needed because a READ or WRITE makes banks of *other* ranks wait
only when they are open at that moment: a bank that is activated afterwards waits for nothing but tRCD - AL before its own column command, and this must cover the burst that
was issued just before. `OpenBanksWait` says of every open bank of every rank that it waits for all bursts; an ACTIVATE keeps it because the newest column command
was issued at least a cycle earlier. The run
`posted_cas` shows that the relation cannot be dropped: it is the case AL = tRCD - 1, where writes collide. All device files have AL = 0 and satisfy it; the
DDR3 file `sg25E` exactly (tRCD = 5, bursts of 4), so the condition is as weak as these files need.

*What needs `PowerDownTiming`.* `powerDown` looks at the command queue and the bank states only. A rank is quiet at that moment since each of its banks has been closed after its
last burst was issued: `ClosesAfterBursts` says that a burst is over before its bank could be closed, which takes tRP + max(tRTP, 2) >= CL + 3, and `REFRESH` must not
end earlier than a precharge (tRFC >= tRP). Three DDR2 files satisfy the first with equality.

*Reads.* `ReadInv` equates, per address, the pending reads with the READs queued, the one on the command bus and what is in the rank (`OnItsWay`). A step moves a read from one place to the next:
`BeginReads` (command bus to rank, rank to controller), `IssueReads` (queue to command bus), `EndReads` (dispatch adds to both sides, a return takes a pending read away). That a READ
which is removed together with an ACTIVATE, or beside a refresh, is the one put on the bus comes from `QueueInv`; that data which return always find their pending read is the equation itself.
In `ReadAlwaysFindsDataStored`, `ReadsAlwaysOnTheWay` and `SpacedInvariance` a collision is an end of the program like any other.

### The contract with the caller (`DataBusProofs`, last part)

| Theorem, of `Spec` | States | Under |
|---|---|---|
| `ChannelImplementsContract` | `ImplementsContract` | `~Buffered` |

The mapping keeps the transaction queue, takes for what is underway of each transaction what the CPU waits for less what still stands in the queue (`Underway`), and the two issue
steps of an update belong to its second half (`Half`). Accepting a request leaves what is underway as it is; in `Begin` at most one write leaves it;
in `End` the transactions that are dispatched join it and at most one read leaves it. Three things have to be shown of this:

* *That nothing is called back that is not underway.* A write on the bus and a pending read are counted by `Balanced`, so the number of those underway is positive
  (`AnswerUnderway`, and `UnderwayFacts` for the general bound). For the read that is `ReadInv` as well: data that return find their pending read.
* *That the rest of the queue keeps its order.* The dispatch loop erases while it goes on; `Kept(r, s, L)` says that `r` is `s` without the positions `L`, in order. `DispatchedTakesOut`
  goes along the loop with it, and `KeptInOrder` says that this is the queue that the contract asks for, since numbers are in increasing order in one way only (`OneOrder`).
* *That no more than `MaxTransactions + 1` are underway.* `ContractInv` bounds what is unanswered by what the CPU has added, and the total over all transactions of what is underway and what stands in the queue is just that
  (`UnderwayTotal`, from `TotalOfTallies`).

`~Buffered` is the entry point the contract is about, `addTransaction(Transaction &)`, which refuses what does not fit; what the other one parks is in neither variable of the contract.
No relation between delays is needed: a collision ends the program, and a program that has ended takes no more steps.

### Configuration, mapping and storage (`PhysicalMemoryProofs`)

| Theorem, of `MemorySpec` | States | While |
|---|---|---|
| `BuiltAsTheFilesSay` | `BuiltFromFiles` | |
| `PlacesExist` | `MappedInRange` | `UnitsArePowersOfTwo` |
| `PlacesDifferAlways` | `MappedOneToOne` | `BL` is not 0 |
| `RowsAreFilledFirst` | `RowFilledFirst` | `BurstsFillRows` |
| `MemoryTyped` | `MemoryTypeOK` | `UnitsArePowersOfTwo` |
| `OneNodePerRowHolds` | `OneNodePerRow` | |
| `StorageImplementsMemory` | `ImplementsFlatMemory`, when `Addressable` holds throughout | |

The conditions are about what the files say, and the code checks none of them. With three ranks the rank field has a value too many, and `MappedInRange` fails. With `BL = 0` all
addresses count as transactions, those within one word too, and are mapped to one place. Every device file satisfies all of them; `NUM_RANKS` does when
the size on the command line is a power of two of ranks. `Addressable` is the first two together.

*Construction.* `ConfigInv` says that after some lines of either file every parameter has the value of the last of those lines that names it (`ValueFrom`). It is a single invariant for both files because a position in the
second is a position behind the whole of the first, and reading a line moves the last position of its own key only. The number of ranks is bounded by the division that computes it.

*Powers of two.* `dramsim_log2` and `PowerOfTwo` are recursive functions of the natural numbers. That they exist is `RecursionDown`: a function whose
value at `n` is given by its value at a smaller number is defined everywhere, proved by piecing together the functions that are right up to `n` and choosing the least `n` for which there is none.
Then `RoundedUp(v)` is at least `v` and a power of two, and is `v` when `v` is one already.

*Mapping.* One step takes a remainder by the size of a field, and goes on with the quotient. A number is told by its remainder and its quotient
(`SamePair`), so an address is told by the four fields and what is left above them; for an address within the capacity nothing is left, whatever the scheme, since the capacity is the product of the four sizes at most
(`CapacityInOrder`). This needs no power of two, hence `PlacesDifferAlways`. That the fields are in range does: only then is `RoundedUp` of a number of units that number. In Schemes 4 and 6 the
column is lowest, so the next transaction carries into the other fields only at the row's end.

*Storage.* A write changes one list at one row (`AfterWrite`), and that is the place of one address because the mapping is one to one; the list exists
because the mapping is in range.

### The SystemC side (`DataSignalsProofs`)

| Theorem, of `DataSpec` | States | Under |
|---|---|---|
| `CompletionSignalledHolds` | `[]CompletionSignalled` | |
| `DataOutOnlyWithReadsHolds` | `[]DataOutOnlyWithReads` | |
| `DataTypeCorrect` | `[]DataTypeOK`: also, the queue is never asked for more than it holds, and an edge sees at most a write and a read callback | |
| `BusyAlwaysMeansPending` | `[]BusyMeansPending` | |
| `EveryReadAlwaysHasItsBuffer` | `[]EveryReadHasItsBuffer` | `BoardHypotheses` |
| `LostAlwaysByMarks` | `[]LostOnlyByMarks` | `BoardHypotheses` |

*Signals.* `SignalsFollow` and `DataFollows` say the same as the first two inside an update, between the two callbacks, where the write's completion may be on the signals already.

*Counting.* `Carried(S)` is how many transactions of a set `S` the memory has, in its queue and underway. `AcceptNumbers`, `BeginNumbers` and `EndNumbers` say for *every* set of transactions what a step
of the contract does to it: what is accepted is one more, what is called back is one less, and dispatching, which takes any positions out of the queue, only moves (`DispatchedTotal`, with the lemmas
on `Kept` that the contract's refinement uses as well). The rest of the argument chooses sets. With all transactions: RB goes up over a full queue, and a
callback that takes the last one away lowers it in the same step, so `InterfaceInv` keeps "RB up, then something carried".
With those that are no request of the trace, and with the writes: the first are never carried, and a write is only with `_bUserDataHandlingFault` set. With the reads of one
address: never more than the users of its entries (`BoardInv`).

*The score board.* `BookedUsers` and `ReleasedUsers` say what a booking and a completion do to the users of an address, whatever the marks: one more (or a bound is met, beyond which nothing can be pending),
and at most one less, also when an entry in the middle is removed (`UsersRemoveAt`). SCIC books in front of `addTransaction`, so a refused read only adds. When a read completes it is one of those
counted, so there is an entry; if none matches there are several, all of them with a mark that says "write".

`BoardHypotheses` are three. That no write carries data and that every request starts at its transaction are what the property is about: `lost_read_buffer` shows that it
fails with data, and an entry is booked under the address of the request but released under that of the transaction. The third says that `MaxEntries` and `MaxRefCnts`, bounds of the model alone, are no less than what may be pending.
The run `systemc_interface` satisfies all three.

### The statistics (`StatisticsProofs`)

| Theorem, of `StatisticsSpec` | States |
|---|---|
| `StatisticsInvariance` | `[]StatisticsInv` |
| `StatisticsTypeCorrect` | `[]StatisticsTypeOK`: also, no bank has an epoch latency without a read to divide it by |
| `PrintedAlwaysAddsUp` | `[]PrintedAddsUp`: ranks, total, histogram, and the first rank's entries of the bank usage list |
| `LatencyAlwaysToldOnce` | `[]LatencyToldOnce` |

*Sums.* Totals over ranks, banks and bins are sums over finite sets (`Total`), which the library defines by a recursion along chosen elements. What the proofs need of them (an
element can be taken out, whichever it is; equal terms have equal sums; disjoint sets add up) is proved in `FiniteCollectionsProofs` without induction over data:
the sets for which it would fail have a smallest one, because strict inclusion among the subsets of a finite set is well founded, and that one leads to a contradiction.

*The argument.* `StatisticsInv` says of each rank, and of all transfers together, that what was shown and what the counters hold make up what was served (`AddsUp`).
The counters of the ranks are zero between updates, so that `AddBanksToRanks` can add those of the banks once and no more; this
holds because each epoch that ends clears them. In cycle 0 an epoch ends without being printed, and what is cleared there is nothing (`currentClockCycle = 0 => totals = Cleared`).
The indices of the banks of different ranks are disjoint (`BanksOfRank`), so a transfer is counted for its own rank alone.
The histogram gains one entry per read returned, in the bin of a latency that is not negative, since no pending read is from the future (`AddedBefore`).
In the bank usage list, `SEQUENTIAL(0, j)` is `j`, so the first rank's entries are its banks' (`FirstRanksUsage`).
The query of `SCIC` walks over the indices `i + j` for a rank `i` and a bank `j`, which for more than one bank is neither rank by rank nor all of them, and clears what it reads:
`ToldTo(i)` are those that rank `i` finds uncleared. A read adds to what is measured and to what is kept at one index (`LatencyMeasured`); a query moves what is kept at `ToldTo(i)` to
what rank `i` was told (`MarkedFacts`). The returned total has for each rank the sum after the last bank, which is what the rank is told, and those before it (`ReturnedHasPerfInfo`).

The bounds `MaxCycle` and `MaxTransfers` are constants of any value, so the theorems hold for simulations of any length.

### Assumptions

Each is a named `ASSUME` that TLC evaluates in the runs:

* `GeometryAssumption`: sizes and depths are positive.
* `TimingAssumption`: delays are natural numbers, RL at least 2, BL at least 2, tRP, tRFC and tFAW positive, AL at most tRCD.
* `CommandBusAssumption`: tCMD = 1, as in every device file. The code could not do with more: its command bus holds one packet.
* `AutoPrechargeAssumption`: an auto-precharge after a read is not earlier than an explicit one could be.
* `PolicyAssumption`: the policies the code knows.
* `RefreshAssumption`: there are no more ranks than cycles in a refresh period.
* `FrontEndAssumption`: requests are transactions of the channel's geometry.
* `ContractAssumption`, `TraceAssumption`, `DataAssumption`: requests are reads and writes, there are finitely many different ones, a line's transaction is one the memory knows, bounds are positive.
* `FilesAssumption`, `AddressAssumption`: files are sequences of lines, numbers and addresses natural numbers.
* `StatisticsAssumption`: numbers of ranks and banks, epoch length, bin size and bounds are positive.

`PowerUpTiming`, `DataBusTiming` and `PowerDownTiming` are hypotheses of single theorems, not assumptions of a module; the sections above say which device files satisfy them.

## 6. Only model-checked

Liveness (`EveryRequestAnswered`, `EveryRefreshSent`, `TraceRunsOut`) is beyond the prover. TLC alone checks
the second part of `RefreshNotOverrun`, for a CPU that stops asking; its first, `RefreshDueInTurn`, is proved. The second is not a theorem of `Spec` for every load: section 4 describes one under which it fails.

## 7. What could come next

* Proofs: the loads under which a refresh waits less than the distance to the next one, for which `RefreshNotOverrun` could be proved.
* Models: a run with four banks, in which the clipping of `StopCell` bites and which the proofs cover already; the Stimulus with a callback, once its undefined shifts are settled.

## 8. Not modelled, and why

* The callback mode of the Stimulus (`RegisterCallback`, `IssueRequest`, the map of write ids). No code of the repository registers a callback, and the mode hangs on
  values the language leaves open: `NULL_SIG64` and `NULL_SIG(32)` shift an `int` by its width, and the completion of a write
  looks its id up by the first word of the data signals, which `SCIC` has just set to that value. In addition `IssueRequest` sends only while RB is high, which
  only a refused request of the trace can bring about.
* The command line, the main loop's end and the `-o` overrides of `TraceBasedSim` with `OverrideKeys`, and `WriteParams`: input and output around the modelled core.
* Parsing of trace lines and of the characters of an ini line: a line is the request or the assignment it stands for.
* Energy sums, bandwidth and power figures, the queries of `SCIC` that only compute figures from counters (`GetNumsElapsedIo`, `GetElapsedEnergyInfo`, ...), printing and output file names: they read the state and never decide anything.
* `SCIC::Reset`: nothing calls it. `SCIC::getDataFromPort`: it copies words that are abstracted to "data or none".
* Ids, time stamps and payload pointers of `BusPacket` and `Transaction` in the channel; the time a read was added is in `Statistics`.
* `Callback.h`: functors without state; a callback is the change it makes to its receiver.
* The binding of ports in `sc_main`: a matter of elaboration, before the first state of the model. `_prtReqTransID`,
  `_prtRespTransID` and `m_ptrCompAckEvent` are used by `SCIC` but not bound there.
