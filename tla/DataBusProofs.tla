---------------------------- MODULE DataBusProofs ----------------------------
(***************************************************************************)
(* When bursts are on the data bus.  Every burst that is on its way has a  *)
(* start, in cycles from now; the waits of the controller's banks keep the *)
(* next column command away from all of them.  What follows from that for  *)
(* every timing comes first; what needs the relations between delays that  *)
(* the device files keep comes with these as hypotheses.  The last part is *)
(* what the caller sees of it all: the channel implements its contract.    *)
(***************************************************************************)
EXTENDS MemorySystemProofs

-----------------------------------------------------------------------------
(* Bursts. *)

Burst(kind, p, start) == [kind |-> kind, rank |-> p.rank, bank |-> p.bank, start |-> start]

\* The bursts of a FIFO of packets, of a data bus, and of a READ on the command bus,
\* which joins the rank's FIFO in the next cycle.
Queueing(kind, s) == {Burst(kind, s[i].packet, s[i].countdown) : i \in DOMAIN s}
Running(kind, p, left) == {Burst(kind, d, left - BURST) : d \in {p} \ {NoPacket}}
Coming(r) ==
  {Burst("read", c, RL + 1) : c \in {d \in {outgoingCmdPacket} : IsRead(d) /\ d.rank = r}}

WriteBursts == Queueing("write", writeData) \cup Running("write", outgoingDataPacket, dataCyclesLeft)

ReadBursts(r) ==
  Queueing("read", readReturn[r]) \cup Running("read", rankDataPacket[r], rankDataCyclesLeft[r])
    \cup Coming(r)

Bursts == WriteBursts \cup UNION {ReadBursts(r) : r \in RANKS}

AllBursts ==
  [kind : {"read", "write"}, rank : RANKS, bank : BANKS, start : (1 - BURST) .. (RL + 1)]

\* Where a burst was a cycle ago.
Delayed(y) == [y EXCEPT !.start = @ + 1]

LEMMA BusNumbers ==
  /\ RL \in Nat /\ WL \in Nat /\ RL = WL + 1 /\ WL >= 1 /\ BURST \in Nat /\ BURST >= 1
  /\ tRP \in Nat /\ tRP >= 1 /\ tRTRS \in Nat /\ tRCD - AL \in Nat
  /\ READ_AUTOPRE_DELAY \in Nat /\ READ_AUTOPRE_DELAY >= BURST
  /\ READ_TO_PRE_DELAY \in Nat /\ READ_TO_PRE_DELAY = AL + BURST + Later(tRTP, 2) - 2
  /\ READ_TO_PRE_DELAY >= BURST /\ AL \in Nat /\ CL \in Nat /\ RL = CL + AL
  /\ Later(tRTP, 2) \in Nat /\ Later(tRTP, 2) >= 2
  /\ WRITE_TO_PRE_DELAY \in Nat /\ WRITE_TO_PRE_DELAY >= WL + BURST
  /\ WRITE_AUTOPRE_DELAY \in Nat /\ WRITE_AUTOPRE_DELAY >= WL + BURST
  /\ READ_TO_WRITE_DELAY \in Nat /\ READ_TO_WRITE_DELAY = BURST + 1 + tRTRS
  /\ WRITE_TO_READ_DELAY_B \in Nat /\ WRITE_TO_READ_DELAY_B >= WL + BURST
  /\ WRITE_TO_READ_DELAY_R \in Nat /\ WRITE_TO_READ_DELAY_R + 1 = BURST + tRTRS
  /\ Later(tCCD, BURST) \in Nat /\ Later(tCCD, BURST) >= BURST
  /\ Later(BURST, tCCD) \in Nat /\ Later(BURST, tCCD) >= BURST
  /\ tRFC \in Nat /\ tRC \in Nat /\ tRAS \in Nat /\ tRRD \in Nat /\ tCKE \in Nat /\ tXP \in Nat
  <1>1. BURST \in Nat /\ BURST >= 1 /\ BL \div 2 = BURST
    BY TimingAssumption DEF BURST
  <1>2. WL \in Nat /\ WL >= 1 /\ RL = WL + 1 /\ RL = CL + AL /\ RL \in Nat
    BY TimingAssumption DEF WL, RL
  <1>3. /\ Later(tRTP, 2) \in Nat /\ Later(tRTP, 2) >= 2
        /\ Later(tCCD, BURST) \in Nat /\ Later(tCCD, BURST) >= BURST
        /\ Later(BURST, tCCD) \in Nat /\ Later(BURST, tCCD) >= BURST
    BY <1>1, TimingAssumption DEF Later
  <1>4. /\ READ_TO_PRE_DELAY = AL + BURST + Later(tRTP, 2) - 2
        /\ READ_TO_PRE_DELAY \in Nat /\ READ_TO_PRE_DELAY >= BURST
    BY <1>1, <1>3, TimingAssumption DEF READ_TO_PRE_DELAY
  <1>5. READ_AUTOPRE_DELAY \in Nat /\ READ_AUTOPRE_DELAY >= BURST
    <2>1. READ_AUTOPRE_DELAY \in Nat
      BY TimingAssumption DEF READ_AUTOPRE_DELAY
    <2> QED
      BY <1>1, <1>4, <2>1, AutoPrechargeAssumption
  <1>6. /\ READ_TO_WRITE_DELAY = BURST + 1 + tRTRS /\ READ_TO_WRITE_DELAY \in Nat
        /\ WRITE_TO_READ_DELAY_R \in Nat /\ WRITE_TO_READ_DELAY_R + 1 = BURST + tRTRS
    BY <1>1, <1>2, TimingAssumption DEF READ_TO_WRITE_DELAY, WRITE_TO_READ_DELAY_R
  <1>7. /\ WRITE_TO_PRE_DELAY \in Nat /\ WRITE_TO_PRE_DELAY >= WL + BURST
        /\ WRITE_AUTOPRE_DELAY \in Nat /\ WRITE_AUTOPRE_DELAY >= WL + BURST
        /\ WRITE_TO_READ_DELAY_B \in Nat /\ WRITE_TO_READ_DELAY_B >= WL + BURST
    BY <1>1, <1>2, TimingAssumption
    DEF WRITE_TO_PRE_DELAY, WRITE_AUTOPRE_DELAY, WRITE_TO_READ_DELAY_B
  <1> QED
    BY <1>1, <1>2, <1>3, <1>4, <1>5, <1>6, <1>7, TimingAssumption

\* A FIFO and the bus it feeds, a cycle later: every burst has come one cycle closer.
LEMMA TickedBursts ==
  ASSUME NEW kind, NEW max \in Nat, NEW s, Counting(s, max), NEW p, NEW left, Bursting(p, left),
         NEW due, due <=> (s # <<>> /\ s[1].countdown = 1)
  PROVE  LET q == IF due THEN s[1].packet
                  ELSE IF p # NoPacket /\ left = 1 THEN NoPacket ELSE p
             n == IF due THEN BURST ELSE IF p # NoPacket THEN left - 1 ELSE left
         IN  \A y \in Queueing(kind, Ticked(s)) \cup Running(kind, q, n) :
               Delayed(y) \in Queueing(kind, s) \cup Running(kind, p, left)
  <1> DEFINE q == IF due THEN s[1].packet
                  ELSE IF p # NoPacket /\ left = 1 THEN NoPacket ELSE p
             n == IF due THEN BURST ELSE IF p # NoPacket THEN left - 1 ELSE left
             aged == [i \in DOMAIN s |-> [s[i] EXCEPT !.countdown = @ - 1]]
  <1>1. /\ s \in Seq(Entries(max)) /\ Len(s) \in Nat /\ DOMAIN s = 1 .. Len(s)
        /\ \A i \in 1 .. Len(s) : s[i] \in Entries(max)
    BY DEF Counting
  <1>2. BURST \in Nat /\ BURST >= 1
    BY BusNumbers
  <1>3. \A i \in 1 .. Len(s) : /\ aged[i].packet = s[i].packet
                               /\ aged[i].countdown = s[i].countdown - 1 /\ s[i].countdown \in Int
    BY <1>1 DEF Entries
  <1>4. ASSUME NEW i \in DOMAIN Ticked(s)
        PROVE  \E j \in 1 .. Len(s) : Ticked(s)[i] = aged[j]
    <2>1. aged \in Seq({aged[j] : j \in 1 .. Len(s)}) /\ Len(aged) = Len(s)
      <3>1. aged \in [1 .. Len(s) -> {aged[j] : j \in 1 .. Len(s)}]
        BY <1>1
      <3> QED
        BY <1>1, <3>1
    <2>2. CASE due
      <3>1. s # <<>> /\ s[1].countdown = 1
        BY <2>2
      <3>4. Ticked(s) = Tail(aged)
        BY <3>1 DEF Ticked
      <3>5. Len(s) >= 1
        BY <1>1, <3>1
      <3> HIDE DEF aged
      <3>2. i \in 1 .. Len(s) - 1 /\ Ticked(s)[i] = aged[i+1]
        BY <1>1, <2>1, <3>4, <3>5
      <3>3. i + 1 \in 1 .. Len(s)
        BY <1>1, <3>2
      <3> QED
        BY <3>2, <3>3
    <2>3. CASE ~due
      BY <1>1, <2>3 DEF Ticked
    <2> QED
      BY <2>2, <2>3
  <1>5. ASSUME NEW y \in Queueing(kind, Ticked(s))
        PROVE  Delayed(y) \in Queueing(kind, s)
    <2>1. PICK i \in DOMAIN Ticked(s) : y = Burst(kind, Ticked(s)[i].packet, Ticked(s)[i].countdown)
      BY DEF Queueing
    <2>2. PICK j \in 1 .. Len(s) : Ticked(s)[i] = aged[j]
      BY <1>4
    <2>3. y = Burst(kind, s[j].packet, s[j].countdown - 1) /\ s[j].countdown \in Int
      BY <1>3, <2>1, <2>2
    <2>4. Delayed(y) = Burst(kind, s[j].packet, s[j].countdown)
      BY <2>3 DEF Delayed, Burst
    <2> QED
      BY <1>1, <2>4 DEF Queueing
  <1>6. ASSUME NEW y \in Running(kind, q, n)
        PROVE  Delayed(y) \in Queueing(kind, s) \cup Running(kind, p, left)
    <2>1. y = Burst(kind, q, n - BURST) /\ q # NoPacket
      BY DEF Running
    <2>2. CASE due
      <3>1. 1 \in 1 .. Len(s) /\ s[1].countdown = 1
        BY <1>1, <2>2
      <3>2. q = s[1].packet /\ n = BURST
        BY <2>2
      <3> HIDE DEF q, n
      <3>3. y = Burst(kind, s[1].packet, 0)
        BY <1>2, <2>1, <3>2
      <3>4. Delayed(y) = Burst(kind, s[1].packet, s[1].countdown)
        BY <3>1, <3>3 DEF Delayed, Burst
      <3> QED
        BY <1>1, <3>1, <3>4 DEF Queueing
    <2>3. CASE ~due
      <3>1. p # NoPacket /\ q = p /\ n = left - 1 /\ left \in Nat
        BY <2>1, <2>3 DEF Bursting
      <3> HIDE DEF q, n
      <3>2. y = Burst(kind, p, left - 1 - BURST)
        BY <2>1, <3>1
      <3>3. left - 1 - BURST + 1 = left - BURST
        BY <1>2, <3>1
      <3>4. Delayed(y) = Burst(kind, p, left - BURST)
        BY <3>2, <3>3 DEF Delayed, Burst
      <3> QED
        BY <3>1, <3>4 DEF Running
    <2> QED
      BY <2>2, <2>3
  <1> QED
    BY <1>5, <1>6

-----------------------------------------------------------------------------
(* A rank's bursts are its own. *)

HomeInv ==
  \A r \in RANKS : /\ \A i \in DOMAIN readReturn[r] : readReturn[r][i].packet.rank = r
                   /\ rankDataPacket[r] # NoPacket => rankDataPacket[r].rank = r

\* What leaves or stays in a FIFO was in it.
LEMMA TickedEntries ==
  ASSUME NEW max \in Nat, NEW s, Counting(s, max), NEW i \in DOMAIN Ticked(s)
  PROVE  \E j \in DOMAIN s : Ticked(s)[i].packet = s[j].packet
  <1> DEFINE aged == [k \in DOMAIN s |-> [s[k] EXCEPT !.countdown = @ - 1]]
  <1>1. s \in Seq(Entries(max)) /\ Len(s) \in Nat /\ DOMAIN s = 1 .. Len(s)
    BY DEF Counting
  <1>2. aged \in Seq({aged[j] : j \in 1 .. Len(s)}) /\ Len(aged) = Len(s)
    <2>1. aged \in [1 .. Len(s) -> {aged[j] : j \in 1 .. Len(s)}]
      BY <1>1
    <2> QED
      BY <1>1, <2>1
  <1>3. \A j \in 1 .. Len(s) : aged[j].packet = s[j].packet
    <2> TAKE j \in 1 .. Len(s)
    <2>1. s[j] \in Entries(max)
      BY <1>1
    <2> QED
      BY <1>1, <2>1 DEF Entries
  <1>4. CASE s # <<>> /\ s[1].countdown = 1
    <2>1. Ticked(s) = Tail(aged) /\ Len(s) >= 1
      <3>1. Ticked(s) = Tail(aged)
        BY <1>4 DEF Ticked
      <3> QED
        BY <1>1, <1>4, <3>1
    <2> HIDE DEF aged
    <2>2. i \in 1 .. Len(s) - 1 /\ Ticked(s)[i] = aged[i+1]
      BY <1>1, <1>2, <2>1
    <2>3. i + 1 \in 1 .. Len(s)
      BY <1>1, <2>2
    <2> QED
      BY <1>1, <1>3, <2>2, <2>3
  <1>5. CASE ~(s # <<>> /\ s[1].countdown = 1)
    <2>1. Ticked(s) = aged
      BY <1>5 DEF Ticked
    <2> HIDE DEF aged
    <2>2. i \in 1 .. Len(s)
      BY <1>1, <1>2, <2>1
    <2> QED
      BY <1>1, <1>3, <2>1, <2>2
  <1> QED
    BY <1>4, <1>5

LEMMA HomeInit == Init => HomeInv
  BY DEF Init, HomeInv

LEMMA BeginHome ==
  ASSUME DataInv, HomeInv, Begin
  PROVE  HomeInv'
  <1> SUFFICES ASSUME NEW r \in RANKS
               PROVE  /\ \A i \in DOMAIN readReturn'[r] : readReturn'[r][i].packet.rank = r
                      /\ rankDataPacket'[r] # NoPacket => rankDataPacket'[r].rank = r
    BY DEF HomeInv
  <1> DEFINE p == outgoingCmdPacket
             e == [packet |-> [p EXCEPT !.busPacketType = "DATA"], countdown |-> RL]
             s == Ticked(readReturn[r])
  <1>1. Counting(readReturn[r], RL) /\ RL \in Nat
    BY LatencyFacts DEF DataInv
  <1>2. readReturn'[r] = IF CommandDue /\ p.rank = r /\ IsRead(p) THEN Append(s, e) ELSE s
    BY DEF Begin, RankUpdate, NextReadDue, Ticked
  <1>3. ASSUME NEW i \in DOMAIN s PROVE s[i].packet.rank = r
    <2>1. PICK j \in DOMAIN readReturn[r] : s[i].packet = readReturn[r][j].packet
      BY <1>1, TickedEntries
    <2> QED
      BY <2>1 DEF HomeInv
  <1>4. s \in Seq(Entries(RL))
    BY <1>1, TickedCounting DEF Counting
  <1>5. ASSUME CommandDue, p.rank = r PROVE e.packet.rank = r /\ e \in Entries(RL)
    <2>1. p \in BusPackets
      BY <1>5 DEF CommandDue, DataInv
    <2>2. [p EXCEPT !.busPacketType = "DATA"] \in BusPackets
      BY <2>1, DataPacketType
    <2>3. [p EXCEPT !.busPacketType = "DATA"].rank = r
      BY <1>5, <2>1 DEF BusPackets
    <2>4. RL \in 1 .. RL
      BY LatencyFacts
    <2>5. e.packet = [p EXCEPT !.busPacketType = "DATA"] /\ e.countdown = RL
      OBVIOUS
    <2> QED
      BY <2>2, <2>3, <2>4, <2>5 DEF Entries
  <1> HIDE DEF s, e
  <1>6. ASSUME NEW i \in DOMAIN readReturn'[r] PROVE readReturn'[r][i].packet.rank = r
    <2>1. CASE CommandDue /\ p.rank = r /\ IsRead(p)
      <3>1. /\ DOMAIN Append(s, e) = 1 .. Len(s) + 1 /\ Append(s, e)[Len(s) + 1] = e
            /\ \A k \in 1 .. Len(s) : Append(s, e)[k] = s[k]
            /\ DOMAIN s = 1 .. Len(s) /\ Len(s) \in Nat
        BY <1>4, <1>5, <2>1, AppendProperties, LenProperties
      <3> QED
        BY <1>2, <1>3, <1>5, <2>1, <3>1
    <2>2. CASE ~(CommandDue /\ p.rank = r /\ IsRead(p))
      <3>1. readReturn'[r] = s
        BY <1>2, <2>2
      <3> QED
        BY <1>3, <3>1
    <2> QED
      BY <2>1, <2>2
  <1>7. rankDataPacket'[r] # NoPacket => rankDataPacket'[r].rank = r
    <2>1. rankDataPacket'[r] = IF NextReadDue(r) THEN readReturn[r][1].packet
                               ELSE IF BurstDone(r) THEN NoPacket ELSE rankDataPacket[r]
      BY DEF Begin, RankUpdate
    <2>2. NextReadDue(r) => 1 \in DOMAIN readReturn[r]
      BY <1>1 DEF NextReadDue, Counting
    <2> QED
      BY <2>1, <2>2 DEF HomeInv
  <1> QED
    BY <1>6, <1>7

LEMMA OtherHome ==
  ASSUME HomeInv, UNCHANGED <<readReturn, rankDataPacket>>
  PROVE  HomeInv'
  BY DEF HomeInv

-----------------------------------------------------------------------------
(* The bursts that are on their way, and what a step does to them. *)

LEMMA BurstsKnown ==
  ASSUME DataInv, HomeInv
  PROVE  /\ Bursts \subseteq AllBursts
         /\ \A y \in WriteBursts : y.kind = "write" /\ y.start <= WL
         /\ \A r \in RANKS : \A y \in ReadBursts(r) : y.kind = "read" /\ y.rank = r
         /\ phase = "issue" /\ outgoingCmdPacket = NoPacket =>
              \A y \in Bursts : y.start <= RL /\ (y.kind = "write" => y.start <= WL - 1)
  <1>1. /\ RL \in Nat /\ WL \in Nat /\ RL = WL + 1 /\ BURST \in Nat /\ BURST >= 1
    BY BusNumbers
  <1>2. ASSUME NEW kind \in {"read", "write"}, NEW max \in Nat, NEW s, Counting(s, max),
               NEW y \in Queueing(kind, s)
        PROVE  /\ y \in [kind : {kind}, rank : RANKS, bank : BANKS, start : 1 .. max]
               /\ \E i \in DOMAIN s : y.rank = s[i].packet.rank /\ y.start = s[i].countdown
    <2>1. PICK i \in DOMAIN s : y = Burst(kind, s[i].packet, s[i].countdown)
      BY DEF Queueing
    <2>2. s[i] \in Entries(max)
      BY <1>2 DEF Counting
    <2> QED
      BY <2>1, <2>2 DEF Entries, Burst, BusPackets
  <1>3. ASSUME NEW kind \in {"read", "write"}, NEW p, NEW left, Bursting(p, left),
               NEW y \in Running(kind, p, left)
        PROVE  /\ y \in [kind : {kind}, rank : RANKS, bank : BANKS, start : (1 - BURST) .. 0]
               /\ p # NoPacket /\ y.rank = p.rank
    <2>1. y = Burst(kind, p, left - BURST) /\ p # NoPacket
      BY DEF Running
    <2>2. p \in BusPackets /\ left \in 1 .. BURST
      BY <1>1, <1>3, <2>1 DEF Bursting
    <2>3. left - BURST \in (1 - BURST) .. 0
      BY <1>1, <2>2
    <2> QED
      BY <2>1, <2>2, <2>3 DEF Burst, BusPackets
  <1>4. ASSUME NEW y \in WriteBursts
        PROVE  /\ y \in AllBursts /\ y.kind = "write" /\ y.start <= WL
               /\ phase = "issue" => y.start <= WL - 1
    <2>1. CASE y \in Queueing("write", writeData)
      <3>1. Counting(writeData, WL)
        BY DEF DataInv
      <3>2. /\ y \in [kind : {"write"}, rank : RANKS, bank : BANKS, start : 1 .. WL]
            /\ \E i \in DOMAIN writeData : y.start = writeData[i].countdown
        BY <1>1, <1>2, <2>1, <3>1
      <3>3. phase = "issue" => \A i \in DOMAIN writeData : writeData[i].countdown < WL
        BY DEF DataInv
      <3>4. phase = "issue" => y.start < WL
        BY <3>2, <3>3
      <3> QED
        BY <1>1, <3>2, <3>4 DEF AllBursts
    <2>2. CASE y \in Running("write", outgoingDataPacket, dataCyclesLeft)
      <3>1. y \in [kind : {"write"}, rank : RANKS, bank : BANKS, start : (1 - BURST) .. 0]
        BY <1>3, <2>2 DEF DataInv
      <3>2. WL >= 1
        BY BusNumbers
      <3> QED
        BY <1>1, <3>1, <3>2 DEF AllBursts
    <2> QED
      BY <2>1, <2>2 DEF WriteBursts
  <1>5. ASSUME NEW r \in RANKS, NEW y \in ReadBursts(r)
        PROVE  /\ y \in AllBursts /\ y.kind = "read" /\ y.rank = r
               /\ outgoingCmdPacket = NoPacket => y.start <= RL
    <2>1. CASE y \in Queueing("read", readReturn[r])
      <3>1. Counting(readReturn[r], RL)
        BY DEF DataInv
      <3>2. /\ y \in [kind : {"read"}, rank : RANKS, bank : BANKS, start : 1 .. RL]
            /\ \E i \in DOMAIN readReturn[r] : y.rank = readReturn[r][i].packet.rank
        BY <1>1, <1>2, <2>1, <3>1
      <3> QED
        BY <1>1, <3>2 DEF AllBursts, HomeInv
    <2>2. CASE y \in Running("read", rankDataPacket[r], rankDataCyclesLeft[r])
      <3>1. /\ y \in [kind : {"read"}, rank : RANKS, bank : BANKS, start : (1 - BURST) .. 0]
            /\ rankDataPacket[r] # NoPacket /\ y.rank = rankDataPacket[r].rank
        BY <1>3, <2>2 DEF DataInv
      <3> QED
        BY <1>1, <3>1 DEF AllBursts, HomeInv
    <2>3. CASE y \in Coming(r)
      <3>1. /\ y = Burst("read", outgoingCmdPacket, RL + 1)
            /\ IsRead(outgoingCmdPacket) /\ outgoingCmdPacket.rank = r
        BY <2>3 DEF Coming
      <3>2. outgoingCmdPacket # NoPacket
        BY <3>1 DEF IsRead, NoPacket
      <3>3. outgoingCmdPacket \in BusPackets
        BY <3>2 DEF DataInv
      <3> QED
        BY <1>1, <3>1, <3>2, <3>3 DEF AllBursts, Burst, BusPackets
    <2> QED
      BY <2>1, <2>2, <2>3 DEF ReadBursts
  <1>6. Bursts \subseteq AllBursts
    BY <1>4, <1>5 DEF Bursts
  <1>7. ASSUME phase = "issue", outgoingCmdPacket = NoPacket, NEW y \in Bursts
        PROVE  y.start <= RL /\ (y.kind = "write" => y.start <= WL - 1)
    <2>1. CASE y \in WriteBursts
      <3>1. y \in AllBursts /\ y.start <= WL - 1
        BY <1>4, <1>7, <2>1
      <3> QED
        BY <1>1, <3>1 DEF AllBursts
    <2>2. CASE y \notin WriteBursts
      BY <1>5, <1>7, <2>2 DEF Bursts
    <2> QED
      BY <2>1, <2>2
  <1> QED
    BY <1>4, <1>5, <1>6, <1>7

\* At the start of update() every burst comes a cycle closer, and a READ that its rank
\* receives joins the others.
LEMMA BeginBursts ==
  ASSUME DataInv, BankInv, Begin
  PROVE  /\ outgoingCmdPacket' = NoPacket
         /\ \A y \in WriteBursts' : Delayed(y) \in WriteBursts
         /\ \A r \in RANKS : \A y \in ReadBursts(r)' : Delayed(y) \in ReadBursts(r)
  <1>1. RL \in Nat /\ WL \in Nat
    BY BusNumbers
  <1>2. outgoingCmdPacket' = NoPacket /\ (CommandDue <=> outgoingCmdPacket # NoPacket)
    BY DEF BankInv, Begin, DeliverCommand, CommandDue
  <1>3. ASSUME NEW y \in WriteBursts' PROVE Delayed(y) \in WriteBursts
    <2>1. /\ Counting(writeData, WL) /\ Bursting(outgoingDataPacket, dataCyclesLeft)
      BY DEF DataInv
    <2>2. writeData' = Ticked(writeData)
      BY DEF Begin, SendWriteData, NextDataDue, Ticked
    <2>3. /\ NextDataDue <=> writeData # <<>> /\ writeData[1].countdown = 1
          /\ outgoingDataPacket' = IF NextDataDue THEN writeData[1].packet
                                   ELSE IF outgoingDataPacket # NoPacket /\ dataCyclesLeft = 1
                                        THEN NoPacket ELSE outgoingDataPacket
          /\ dataCyclesLeft' = IF NextDataDue THEN BURST
                               ELSE IF outgoingDataPacket # NoPacket THEN dataCyclesLeft - 1
                               ELSE dataCyclesLeft
      BY DEF Begin, SendWriteData, DataDone, NextDataDue
    <2>4. y \in Queueing("write", Ticked(writeData))
                  \cup Running("write", outgoingDataPacket', dataCyclesLeft')
      BY <2>2 DEF WriteBursts, Queueing, Running
    <2>5. Delayed(y) \in Queueing("write", writeData)
                           \cup Running("write", outgoingDataPacket, dataCyclesLeft)
      BY <1>1, <2>1, <2>3, <2>4, TickedBursts
    <2> QED
      BY <2>5 DEF WriteBursts
  <1>4. ASSUME NEW r \in RANKS, NEW y \in ReadBursts(r)' PROVE Delayed(y) \in ReadBursts(r)
    <2> DEFINE p == outgoingCmdPacket
               e == [packet |-> [p EXCEPT !.busPacketType = "DATA"], countdown |-> RL]
               s == Ticked(readReturn[r])
    <2>1. /\ Counting(readReturn[r], RL) /\ Bursting(rankDataPacket[r], rankDataCyclesLeft[r])
      BY DEF DataInv
    <2>2. readReturn'[r] = IF CommandDue /\ p.rank = r /\ IsRead(p) THEN Append(s, e) ELSE s
      BY DEF Begin, RankUpdate, NextReadDue, Ticked
    <2>3. /\ NextReadDue(r) <=> readReturn[r] # <<>> /\ readReturn[r][1].countdown = 1
          /\ rankDataPacket'[r] = IF NextReadDue(r) THEN readReturn[r][1].packet
                                  ELSE IF rankDataPacket[r] # NoPacket /\ rankDataCyclesLeft[r] = 1
                                       THEN NoPacket ELSE rankDataPacket[r]
          /\ rankDataCyclesLeft'[r] = IF NextReadDue(r) THEN BURST
                                      ELSE IF rankDataPacket[r] # NoPacket
                                           THEN rankDataCyclesLeft[r] - 1
                                      ELSE rankDataCyclesLeft[r]
      BY DEF Begin, RankUpdate, BurstDone, NextReadDue
    <2>4. s \in Seq(Entries(RL))
      BY <1>1, <2>1, TickedCounting DEF Counting
    <2>5. \A z \in Queueing("read", s) \cup Running("read", rankDataPacket'[r], rankDataCyclesLeft'[r]) :
            Delayed(z) \in Queueing("read", readReturn[r])
                             \cup Running("read", rankDataPacket[r], rankDataCyclesLeft[r])
      BY <1>1, <2>1, <2>3, TickedBursts
    <2>6. ~IsRead(NoPacket)
      BY DEF IsRead, NoPacket
    <2>7. y \in Queueing("read", readReturn'[r])
            \cup Running("read", rankDataPacket'[r], rankDataCyclesLeft'[r])
      BY <1>2, <2>6 DEF ReadBursts, Coming, Queueing, Running, IsRead
    <2>8. \/ y \in Queueing("read", s)
          \/ y \in Running("read", rankDataPacket'[r], rankDataCyclesLeft'[r])
          \/ CommandDue /\ p.rank = r /\ IsRead(p) /\ y = Burst("read", e.packet, RL)
      <3>1. CASE CommandDue /\ p.rank = r /\ IsRead(p)
        <4>1. p \in BusPackets
          BY <3>1 DEF CommandDue, DataInv
        <4>2. [p EXCEPT !.busPacketType = "DATA"] \in BusPackets /\ RL \in 1 .. RL
          BY <4>1, DataPacketType, LatencyFacts
        <4>3. e \in Entries(RL) /\ e.countdown = RL
          BY <4>2 DEF Entries
        <4> HIDE DEF s, e
        <4>4. /\ DOMAIN Append(s, e) = 1 .. Len(s) + 1 /\ Append(s, e)[Len(s) + 1] = e
              /\ \A k \in 1 .. Len(s) : Append(s, e)[k] = s[k]
              /\ DOMAIN s = 1 .. Len(s) /\ Len(s) \in Nat
          BY <2>4, <4>3, AppendProperties, LenProperties
        <4>5. CASE y \in Queueing("read", Append(s, e))
          <5>1. PICK i \in 1 .. Len(s) + 1 :
                  y = Burst("read", Append(s, e)[i].packet, Append(s, e)[i].countdown)
            BY <4>4, <4>5 DEF Queueing
          <5>2. CASE i = Len(s) + 1
            BY <3>1, <4>3, <4>4, <5>1, <5>2
          <5>3. CASE i # Len(s) + 1
            <6>1. i \in DOMAIN s /\ Append(s, e)[i] = s[i]
              BY <4>4, <5>3
            <6> QED
              BY <5>1, <6>1 DEF Queueing
          <5> QED
            BY <5>2, <5>3
        <4> QED
          BY <2>2, <2>7, <3>1, <4>5
      <3>2. CASE ~(CommandDue /\ p.rank = r /\ IsRead(p))
        BY <2>2, <2>7, <3>2
      <3> QED
        BY <3>1, <3>2
    <2>9. CASE CommandDue /\ p.rank = r /\ IsRead(p) /\ y = Burst("read", e.packet, RL)
      <3>1. p \in BusPackets
        BY <2>9 DEF CommandDue, DataInv
      <3>2. e.packet.rank = p.rank /\ e.packet.bank = p.bank
        BY <3>1 DEF BusPackets
      <3> HIDE DEF e
      <3>3. Delayed(y) = Burst("read", p, RL + 1)
        BY <2>9, <3>2 DEF Delayed, Burst
      <3>4. Delayed(y) \in Coming(r)
        BY <2>9, <3>3 DEF Coming
      <3> QED
        BY <3>4 DEF ReadBursts
    <2>10. CASE y \in Queueing("read", s) \cup Running("read", rankDataPacket'[r], rankDataCyclesLeft'[r])
      BY <2>5, <2>10 DEF ReadBursts
    <2> QED
      BY <2>8, <2>9, <2>10
  <1> QED
    BY <1>2, <1>3, <1>4

\* The burst of a popped column command is the only new one.
NewBursts(p) ==
  {y \in {Burst("read", p, RL + 1)} : IsRead(p)} \cup {y \in {Burst("write", p, WL)} : IsWrite(p)}

LEMMA IssueBursts ==
  ASSUME DataInv, NEW p \in BusPackets, Transmit(p), Idling
  PROVE  \A y \in Bursts' : y \in Bursts \/ y \in NewBursts(p)
  <1> SUFFICES ASSUME NEW y \in Bursts' PROVE y \in Bursts \/ y \in NewBursts(p)
    OBVIOUS
  <1> DEFINE e == [packet |-> [p EXCEPT !.busPacketType = "DATA"], countdown |-> WL]
  <1>1. /\ UNCHANGED <<outgoingDataPacket, dataCyclesLeft, readReturn, rankDataPacket, rankDataCyclesLeft>>
        /\ outgoingCmdPacket' = p
        /\ writeData' = IF IsWrite(p) THEN Append(writeData, e) ELSE writeData
    BY DEF Transmit, Idling, rankVars
  <1>2. CASE y \in WriteBursts'
    <2>1. CASE y \in Queueing("write", writeData')
      <3>1. CASE IsWrite(p)
        <4>1. [p EXCEPT !.busPacketType = "DATA"] \in BusPackets /\ WL \in 1 .. WL
          BY DataPacketType, LatencyFacts
        <4>2. e \in Entries(WL) /\ e.countdown = WL
          BY <4>1 DEF Entries
        <4>3. e.packet.rank = p.rank /\ e.packet.bank = p.bank
          BY DEF BusPackets
        <4> HIDE DEF e
        <4>4. /\ DOMAIN Append(writeData, e) = 1 .. Len(writeData) + 1
              /\ Append(writeData, e)[Len(writeData) + 1] = e
              /\ \A k \in 1 .. Len(writeData) : Append(writeData, e)[k] = writeData[k]
              /\ DOMAIN writeData = 1 .. Len(writeData) /\ Len(writeData) \in Nat
          BY <4>2, AppendProperties, LenProperties DEF DataInv, Counting
        <4>5. PICK i \in 1 .. Len(writeData) + 1 :
                y = Burst("write", Append(writeData, e)[i].packet, Append(writeData, e)[i].countdown)
          BY <1>1, <2>1, <3>1, <4>4 DEF Queueing
        <4>6. CASE i = Len(writeData) + 1
          <5>1. y = Burst("write", p, WL)
            BY <4>2, <4>3, <4>4, <4>5, <4>6 DEF Burst
          <5> QED
            BY <3>1, <5>1 DEF NewBursts
        <4>7. CASE i # Len(writeData) + 1
          <5>1. i \in DOMAIN writeData /\ Append(writeData, e)[i] = writeData[i]
            BY <4>4, <4>7
          <5> QED
            BY <4>5, <5>1 DEF Queueing, WriteBursts, Bursts
        <4> QED
          BY <4>6, <4>7
      <3>2. CASE ~IsWrite(p)
        BY <1>1, <2>1, <3>2 DEF WriteBursts, Bursts
      <3> QED
        BY <3>1, <3>2
    <2>2. CASE y \in Running("write", outgoingDataPacket', dataCyclesLeft')
      BY <1>1, <2>2 DEF WriteBursts, Bursts
    <2> QED
      BY <1>2, <2>1, <2>2 DEF WriteBursts, Queueing, Running
  <1>3. ASSUME NEW r \in RANKS, y \in ReadBursts(r)'
        PROVE  y \in Bursts \/ y \in NewBursts(p)
    <2>1. CASE y \in Coming(r)'
      BY <1>1, <2>1 DEF Coming, NewBursts, IsRead
    <2>2. CASE y \notin Coming(r)'
      <3>1. y \in Queueing("read", readReturn'[r])
              \cup Running("read", rankDataPacket'[r], rankDataCyclesLeft'[r])
        BY <1>3, <2>2 DEF ReadBursts, Queueing, Running
      <3> QED
        BY <1>1, <3>1 DEF ReadBursts, Bursts
    <2> QED
      BY <2>1, <2>2
  <1> QED
    BY <1>2, <1>3 DEF Bursts

\* Every other step leaves the bursts where they are.
burstVars == <<writeData, outgoingDataPacket, dataCyclesLeft, readReturn, rankDataPacket,
               rankDataCyclesLeft, outgoingCmdPacket>>

LEMMA OtherBursts ==
  ASSUME UNCHANGED burstVars
  PROVE  Bursts' = Bursts
  BY DEF burstVars, Bursts, WriteBursts, ReadBursts, Queueing, Running, Coming, IsRead

-----------------------------------------------------------------------------
(* What is known of every reachable state, and the steps that move no burst. *)

BurstsWithin ==
  /\ Bursts \subseteq AllBursts
  /\ \A y \in Bursts : y.kind = "write" => y.start <= WL
  /\ phase = "issue" => /\ outgoingCmdPacket = NoPacket
                        /\ \A y \in Bursts : y.start <= RL
                        /\ \A y \in Bursts : y.kind = "write" => y.start <= WL - 1

Known == ChannelInv /\ DataInv /\ BankInv /\ HomeInv /\ BurstsWithin

LEMMA KnownInvariance == Spec => []Known
  <1>1. Init => HomeInv
    BY HomeInit
  <1>2. DataInv /\ HomeInv /\ [Next]_vars => HomeInv'
    <2> SUFFICES ASSUME DataInv, HomeInv, [Next]_vars PROVE HomeInv'
      OBVIOUS
    <2>1. CASE Begin
      BY <2>1, BeginHome
    <2>2. CASE ~Begin
      <3>1. UNCHANGED <<readReturn, rankDataPacket>>
        BY <2>2
        DEF Next, Update, vars, rankVars, AddTransaction, ParkTransaction, IssueForRefresh,
            IssueRefresh, IssueQueued, IssuePrecharge, IssueNothing, IssuePopped, Idling, End
      <3> QED
        BY <3>1, OtherHome
    <2> QED
      BY <2>1, <2>2
  <1>3. ASSUME DataInv, BankInv, HomeInv PROVE BurstsWithin
    <2>1. /\ Bursts \subseteq AllBursts
          /\ \A y \in WriteBursts : y.kind = "write" /\ y.start <= WL
          /\ \A r \in RANKS : \A y \in ReadBursts(r) : y.kind = "read" /\ y.rank = r
          /\ phase = "issue" /\ outgoingCmdPacket = NoPacket =>
               \A y \in Bursts : y.start <= RL /\ (y.kind = "write" => y.start <= WL - 1)
      BY <1>3, BurstsKnown
    <2>2. phase = "issue" => outgoingCmdPacket = NoPacket
      BY <1>3 DEF BankInv
    <2>3. \A y \in Bursts : y.kind = "write" => y.start <= WL
      BY <2>1 DEF Bursts
    <2> QED
      BY <2>1, <2>2, <2>3 DEF BurstsWithin
  <1>4. Spec => []HomeInv
    BY <1>1, <1>2, DataInvariance, PTL DEF Spec
  <1>5. ChannelInv /\ DataInv /\ BankInv /\ HomeInv => Known
    BY <1>3 DEF Known
  <1> QED
    BY <1>4, <1>5, ChannelInvariance, DataInvariance, BankInvariance, PTL

IssueCommand == IssueForRefresh \/ IssueRefresh \/ IssueQueued \/ IssuePrecharge

\* The bank m goes on waiting as n: no wait gets shorter than the passing of time makes it.
WaitsOn(m, n) ==
  /\ n.nextRead + Lag' >= m.nextRead + Lag
  /\ n.nextWrite + Lag' >= m.nextWrite + Lag
  /\ n.nextPrecharge + Lag' >= m.nextPrecharge + Lag
  /\ n.stateChangeCountdown = m.stateChangeCountdown
  /\ \/ n.currentBankState = m.currentBankState
     \/ n.currentBankState \in {"Idle", "PowerDown"} /\ m.currentBankState # "RowActive"

LEMMA OtherSteps ==
  ASSUME Known, [Next]_vars
  PROVE  \/ Begin
         \/ IssueCommand
         \/ /\ UNCHANGED burstVars
            /\ \A r \in RANKS, b \in BANKS : WaitsOn(bankStates[r][b], bankStates'[r][b])
  <1>1. bankStates \in [RANKS -> [BANKS -> BankStates]]
    BY DEF Known, BankInv
  <1>2. \A r \in RANKS, b \in BANKS : bankStates[r][b] \in BankStates
    BY <1>1
  <1>3. CASE End
    <2>1. UNCHANGED burstVars /\ Lag = 0 /\ Lag' = 1
      BY <1>3 DEF End, burstVars, Lag
    <2>2. ASSUME NEW r \in RANKS, NEW b \in BANKS
          PROVE  WaitsOn(bankStates[r][b], bankStates'[r][b])
      <3> DEFINE m == bankStates[r][b]
      <3>1. bankStates'[r][b] \in {Step(PoweredDown(m)), Step(PoweredUp(m)), Step(m)}
            /\ (bankStates'[r][b] # Step(m) => m.currentBankState # "RowActive")
        <4> DEFINE idle == IdleRanks(Dispatched.queues)
        <4>1. \E down, up :
                /\ \A s \in down : \A c \in BANKS : bankStates[s][c].currentBankState = "Idle"
                /\ \A s \in up : powerDown[s]
                /\ PowerAndStep(down, up)
          <5>1. /\ \A s \in GoingDown(idle) : \A c \in BANKS : bankStates[s][c].currentBankState = "Idle"
                /\ \A s \in ComingUp(idle) : powerDown[s]
                /\ PowerAndStep(GoingDown(idle), ComingUp(idle))
            BY <1>3 DEF End, GoingDown, ComingUp
          <5> QED
            BY <5>1
        <4>2. PICK down, up : /\ \A s \in down : \A c \in BANKS : bankStates[s][c].currentBankState = "Idle"
                              /\ \A s \in up : powerDown[s]
                              /\ PowerAndStep(down, up)
          BY <4>1
        <4>3. bankStates'[r][b] = Step(IF r \in down THEN PoweredDown(m)
                                       ELSE IF r \in up THEN PoweredUp(m) ELSE m)
          BY <4>2 DEF PowerAndStep
        <4>4. r \in up => m.currentBankState = "PowerDown"
          BY <4>2 DEF Known, BankInv
        <4> QED
          BY <4>2, <4>3, <4>4
      <3>2. m \in BankStates
        BY <1>2
      <3>3. \A w \in Nat : Sooner(w) \in Nat /\ Sooner(w) + 1 >= w
        BY DEF Sooner
      <3> HIDE DEF m
      <3>4. CASE bankStates'[r][b] = Step(m)
        BY <2>1, <3>2, <3>3, <3>4 DEF WaitsOn, Step, BankStates, m
      <3>5. CASE bankStates'[r][b] \in {Step(PoweredDown(m)), Step(PoweredUp(m))} /\ m.currentBankState # "RowActive"
        <4>1. /\ PoweredDown(m).stateChangeCountdown = m.stateChangeCountdown
              /\ PoweredDown(m).nextRead = m.nextRead /\ PoweredDown(m).nextWrite = m.nextWrite
              /\ PoweredDown(m).nextPrecharge = m.nextPrecharge
              /\ PoweredDown(m).currentBankState = "PowerDown"
          BY <3>2 DEF BankStates, PoweredDown
        <4>2. /\ PoweredUp(m).stateChangeCountdown = m.stateChangeCountdown
              /\ PoweredUp(m).nextRead = m.nextRead /\ PoweredUp(m).nextWrite = m.nextWrite
              /\ PoweredUp(m).nextPrecharge = m.nextPrecharge
              /\ PoweredUp(m).currentBankState = "Idle"
          BY <3>2 DEF BankStates, PoweredUp
        <4>3. PICK n \in {PoweredDown(m), PoweredUp(m)} : bankStates'[r][b] = Step(n)
          BY <3>5
        <4>4. n \in [currentBankState : CurrentBankState, openRowAddress : ROWS, nextRead : Nat,
                     nextWrite : Nat, nextActivate : Nat, nextPrecharge : Nat, nextPowerUp : Nat,
                     lastCommand : CommandTypes, stateChangeCountdown : Nat]
          BY <3>2, <4>3, TimingAssumption DEF BankStates, PoweredDown, PoweredUp, CurrentBankState
        <4>5. /\ Step(n).nextRead = Sooner(m.nextRead) /\ Step(n).nextWrite = Sooner(m.nextWrite)
              /\ Step(n).nextPrecharge = Sooner(m.nextPrecharge)
              /\ Step(n).stateChangeCountdown = m.stateChangeCountdown
              /\ Step(n).currentBankState \in {"Idle", "PowerDown"}
          BY <4>1, <4>2, <4>3, <4>4 DEF Step
        <4> QED
          BY <2>1, <3>2, <3>3, <3>5, <4>3, <4>5 DEF WaitsOn, BankStates, m
      <3> QED
        BY <3>1, <3>4, <3>5
    <2> QED
      BY <2>1, <2>2
  <1>4. ASSUME bankStates' = bankStates, Lag' = Lag, NEW r \in RANKS, NEW b \in BANKS
        PROVE  WaitsOn(bankStates[r][b], bankStates'[r][b])
    <2>1. bankStates[r][b] \in BankStates /\ Lag \in Nat
      BY <1>2 DEF Lag
    <2> QED
      BY <1>4, <2>1 DEF WaitsOn, BankStates
  <1>5. CASE IssueNothing
    <2>1. bankStates' = bankStates /\ Lag' = Lag /\ UNCHANGED burstVars
      BY <1>5 DEF IssueNothing, Idling, rankVars, burstVars, Lag
    <2> QED
      BY <1>4, <2>1
  <1>6. CASE \E t \in Transactions : AddTransaction(t) \/ ParkTransaction(t)
    <2>1. bankStates' = bankStates /\ Lag' = Lag /\ UNCHANGED burstVars
      BY <1>6 DEF AddTransaction, ParkTransaction, controllerVars, rankVars, burstVars, Lag
    <2> QED
      BY <1>4, <2>1
  <1>7. CASE UNCHANGED vars
    <2>1. bankStates' = bankStates /\ Lag' = Lag /\ UNCHANGED burstVars
      BY <1>7 DEF vars, controllerVars, rankVars, burstVars, Lag
    <2> QED
      BY <1>4, <2>1
  <1> QED
    BY <1>3, <1>5, <1>6, <1>7 DEF Next, Update, IssueCommand

-----------------------------------------------------------------------------
(* The waits for the next read: the bursts of a rank keep apart, and a READ  *)
(* comes when all data written to its rank has been stored.                  *)

\* A burst takes the data bus for BURST cycles.
Apart(x, y) == x.start + BURST <= y.start \/ y.start + BURST <= x.start

ReadsApart ==
  \A x, y \in Bursts : x.kind = "read" /\ y.kind = "read" /\ x.rank = y.rank /\ x # y => Apart(x, y)

\* No bank of a rank takes a read that would catch up with a burst of the rank.
ReadsWait ==
  \A x \in Bursts, b \in BANKS :
    LET wait == bankStates[x.rank][b].nextRead + Lag
    IN  /\ x.kind = "read" => x.start + BURST <= wait + RL + 1
        /\ x.kind = "write" => x.start + BURST <= wait

NoWriteAtRead ==
  \A x \in Bursts : IsRead(outgoingCmdPacket) /\ x.kind = "write" => x.rank # outgoingCmdPacket.rank

SpacedInv == ReadsApart /\ ReadsWait /\ NoWriteAtRead

LEMMA DelayedFacts ==
  /\ \A y \in AllBursts : /\ Delayed(y).kind = y.kind /\ Delayed(y).rank = y.rank
                          /\ Delayed(y).bank = y.bank /\ Delayed(y).start = y.start + 1
  /\ \A x, y \in AllBursts : x # y => Delayed(x) # Delayed(y)
  /\ \A x, y \in AllBursts : Apart(Delayed(x), Delayed(y)) => Apart(x, y)
  /\ \A y \in AllBursts : /\ y.kind \in {"read", "write"} /\ y.rank \in RANKS /\ y.bank \in BANKS
                          /\ y.start \in Int /\ 1 - BURST <= y.start /\ y.start <= RL + 1
  <1>1. BURST \in Nat /\ RL \in Nat
    BY BusNumbers
  <1>2. \A y \in AllBursts : /\ y.kind \in {"read", "write"} /\ y.rank \in RANKS /\ y.bank \in BANKS
                             /\ y.start \in Int /\ 1 - BURST <= y.start /\ y.start <= RL + 1
    BY <1>1 DEF AllBursts
  <1>3. \A y \in AllBursts : /\ Delayed(y).kind = y.kind /\ Delayed(y).rank = y.rank
                             /\ Delayed(y).bank = y.bank /\ Delayed(y).start = y.start + 1
    BY DEF AllBursts, Delayed
  <1>4. ASSUME NEW x \in AllBursts, NEW y \in AllBursts, Delayed(x) = Delayed(y)
        PROVE  x = y
    <2>1. x.kind = y.kind /\ x.rank = y.rank /\ x.bank = y.bank /\ x.start = y.start
      BY <1>2, <1>3, <1>4
    <2> QED
      BY <2>1 DEF AllBursts
  <1>5. \A x, y \in AllBursts : Apart(Delayed(x), Delayed(y)) => Apart(x, y)
    BY <1>1, <1>2, <1>3 DEF Apart
  <1> QED
    BY <1>2, <1>3, <1>4, <1>5

\* The countdown of implicit state changes changes no wait, and opens no bank.
InUse(m) == m.currentBankState = "RowActive" /\ m.stateChangeCountdown = 0

LEMMA CountDownFacts ==
  ASSUME NEW m \in BankStates
  PROVE  LET n == CountDown(m)
         IN  /\ n \in BankStates
             /\ n.nextRead = m.nextRead /\ n.nextWrite = m.nextWrite /\ n.nextPrecharge = m.nextPrecharge
             /\ n.stateChangeCountdown \in {Sooner(m.stateChangeCountdown), tRP}
             /\ n.currentBankState = "RowActive" => m.currentBankState = "RowActive"
  <1>1. tRP \in Nat /\ \A w \in Nat : Sooner(w) \in Nat
    BY TimingAssumption DEF Sooner
  <1> QED
    BY <1>1 DEF CountDown, BankStates, CurrentBankState, CommandTypes

\* What the command p leaves as the wait for reads of a bank of rank r.
LEMMA NextReadAfter ==
  ASSUME NEW p \in BusPackets, p.busPacketType \in CommandTypes,
         NEW r \in RANKS, NEW b \in BANKS, NEW m \in BankStates,
         IsRead(p) /\ <<r, b>> = <<p.rank, p.bank>> => m.nextRead = 0
  PROVE  LET n == AfterCommand(p, r, b, m)
         IN  /\ n.nextRead \in Nat
             /\ n.nextRead >= m.nextRead \/ n.nextRead >= WL + BURST
             /\ r = p.rank /\ IsRead(p) => n.nextRead >= BURST
             /\ r = p.rank /\ IsWrite(p) => n.nextRead >= WL + BURST
  <1> DEFINE n == AfterCommand(p, r, b, m)
  <1> SUFFICES /\ n.nextRead \in Nat
               /\ n.nextRead >= m.nextRead \/ n.nextRead >= WL + BURST
               /\ r = p.rank /\ IsRead(p) => n.nextRead >= BURST
               /\ r = p.rank /\ IsWrite(p) => n.nextRead >= WL + BURST
    OBVIOUS
  <1>1. \A v, w \in Nat : Later(v, w) \in Nat /\ Later(v, w) >= v /\ Later(v, w) >= w
    BY DEF Later
  <1>2. m.nextRead \in Nat /\ m.nextActivate \in Nat
    BY DEF BankStates
  <1>3. CASE IsRead(p)
    <2>1. n = AfterRead(p, r, b, m)
      BY <1>3 DEF AfterCommand, IsRead
    <2>2. ~IsWrite(p)
      BY <1>3 DEF IsRead, IsWrite
    <2>3. CASE <<r, b>> = <<p.rank, p.bank>> /\ p.busPacketType = "READ_P"
      <3>1. n.nextRead = Later(READ_AUTOPRE_DELAY, m.nextActivate)
        BY <2>1, <2>3 DEF AfterRead, BankStates
      <3>2. READ_AUTOPRE_DELAY \in Nat /\ READ_AUTOPRE_DELAY >= BURST /\ BURST \in Nat
        BY BusNumbers
      <3>3. /\ Later(READ_AUTOPRE_DELAY, m.nextActivate) \in Nat
            /\ Later(READ_AUTOPRE_DELAY, m.nextActivate) >= READ_AUTOPRE_DELAY
        BY <1>1, <1>2, <3>2
      <3> HIDE DEF n
      <3>4. n.nextRead \in Nat /\ n.nextRead >= BURST
        BY <3>1, <3>2, <3>3
      <3>5. m.nextRead = 0
        BY <1>3, <2>3
      <3> QED
        BY <2>2, <3>4, <3>5
    <2>4. CASE ~(<<r, b>> = <<p.rank, p.bank>> /\ p.busPacketType = "READ_P")
      <3>1. n.nextRead = AfterReadElsewhere(p, r, m).nextRead
        <4>1. AfterReadElsewhere(p, r, m) \in BankStates \/ AfterReadElsewhere(p, r, m) = m
              \/ \E v, w : AfterReadElsewhere(p, r, m) = [m EXCEPT !.nextRead = v, !.nextWrite = w]
          BY DEF AfterReadElsewhere
        <4> QED
          BY <1>3, <2>1, <2>4, <4>1 DEF AfterRead, BankStates
      <3>2. \/ n.nextRead = Later(Later(tCCD, BURST), m.nextRead)
            \/ r # p.rank /\ n.nextRead \in {Later(BURST + tRTRS, m.nextRead), m.nextRead}
        BY <3>1 DEF AfterReadElsewhere, BankStates
      <3>3. /\ Later(tCCD, BURST) \in Nat /\ Later(tCCD, BURST) >= BURST /\ BURST + tRTRS \in Nat
            /\ BURST \in Nat
        BY BusNumbers
      <3>4. /\ Later(Later(tCCD, BURST), m.nextRead) \in Nat
            /\ Later(Later(tCCD, BURST), m.nextRead) >= BURST
            /\ Later(Later(tCCD, BURST), m.nextRead) >= m.nextRead
            /\ Later(BURST + tRTRS, m.nextRead) \in Nat
            /\ Later(BURST + tRTRS, m.nextRead) >= m.nextRead
        <4>1. \A v \in Nat : /\ Later(v, m.nextRead) \in Nat /\ Later(v, m.nextRead) >= v
                             /\ Later(v, m.nextRead) >= m.nextRead
          BY <1>1, <1>2
        <4> DEFINE v == Later(tCCD, BURST)
                   w == Later(v, m.nextRead)
        <4>2. w \in Nat /\ w >= v /\ w >= m.nextRead /\ v \in Nat /\ v >= BURST
          BY <3>3, <4>1
        <4> HIDE DEF w, v
        <4>3. w >= BURST
          BY <3>3, <4>2
        <4> QED
          BY <3>3, <4>1, <4>2, <4>3 DEF w, v
      <3> HIDE DEF n
      <3>5. n.nextRead \in Nat /\ n.nextRead >= m.nextRead /\ (r = p.rank => n.nextRead >= BURST)
        BY <1>2, <3>2, <3>4
      <3> QED
        BY <2>2, <3>5
    <2> QED
      BY <2>3, <2>4
  <1>4. CASE IsWrite(p)
    <2>1. n = AfterWrite(p, r, b, m)
      BY <1>4 DEF AfterCommand, IsWrite
    <2>2. ~IsRead(p)
      BY <1>4 DEF IsRead, IsWrite
    <2>3. CASE <<r, b>> = <<p.rank, p.bank>> /\ p.busPacketType = "WRITE_P"
      <3>1. n.nextRead = Later(WRITE_AUTOPRE_DELAY, m.nextActivate)
        BY <2>1, <2>3 DEF AfterWrite, BankStates
      <3>2. /\ WRITE_AUTOPRE_DELAY \in Nat /\ WRITE_AUTOPRE_DELAY >= WL + BURST
            /\ BURST \in Nat /\ WL \in Nat
        BY BusNumbers
      <3>3. /\ Later(WRITE_AUTOPRE_DELAY, m.nextActivate) \in Nat
            /\ Later(WRITE_AUTOPRE_DELAY, m.nextActivate) >= WRITE_AUTOPRE_DELAY
        BY <1>1, <1>2, <3>2
      <3> HIDE DEF n
      <3>4. n.nextRead \in Nat /\ n.nextRead >= WL + BURST
        BY <3>1, <3>2, <3>3
      <3> QED
        BY <2>2, <3>4
    <2>4. CASE ~(<<r, b>> = <<p.rank, p.bank>> /\ p.busPacketType = "WRITE_P")
      <3>1. n.nextRead = AfterWriteElsewhere(p, r, m).nextRead
        <4>1. AfterWriteElsewhere(p, r, m) = m
              \/ \E v, w : AfterWriteElsewhere(p, r, m) = [m EXCEPT !.nextWrite = v, !.nextRead = w]
          BY DEF AfterWriteElsewhere
        <4> QED
          BY <1>4, <2>1, <2>4, <4>1 DEF AfterWrite, BankStates
      <3>2. \/ n.nextRead = Later(WRITE_TO_READ_DELAY_B, m.nextRead)
            \/ r # p.rank /\ n.nextRead \in {Later(WRITE_TO_READ_DELAY_R, m.nextRead), m.nextRead}
        BY <3>1 DEF AfterWriteElsewhere, BankStates
      <3>3. /\ WRITE_TO_READ_DELAY_B \in Nat /\ WRITE_TO_READ_DELAY_B >= WL + BURST
            /\ WRITE_TO_READ_DELAY_R \in Nat /\ BURST \in Nat /\ WL \in Nat
        BY BusNumbers
      <3>4. /\ Later(WRITE_TO_READ_DELAY_B, m.nextRead) \in Nat
            /\ Later(WRITE_TO_READ_DELAY_B, m.nextRead) >= WRITE_TO_READ_DELAY_B
            /\ Later(WRITE_TO_READ_DELAY_B, m.nextRead) >= m.nextRead
            /\ Later(WRITE_TO_READ_DELAY_R, m.nextRead) \in Nat
            /\ Later(WRITE_TO_READ_DELAY_R, m.nextRead) >= m.nextRead
        BY <1>1, <1>2, <3>3
      <3> HIDE DEF n
      <3>5. /\ n.nextRead \in Nat /\ n.nextRead >= m.nextRead
            /\ r = p.rank => n.nextRead >= WL + BURST
        BY <1>2, <3>2, <3>3, <3>4
      <3> QED
        BY <2>2, <3>5
    <2> QED
      BY <2>3, <2>4
  <1>5. CASE ~IsRead(p) /\ ~IsWrite(p)
    <2>1. p.busPacketType \in {"ACTIVATE", "PRECHARGE", "REFRESH"}
      BY <1>5 DEF IsRead, IsWrite, CommandTypes, ColumnTypes
    <2>2. n.nextRead = m.nextRead \/ n.nextRead = Later(tRCD - AL, m.nextRead)
      <3>1. CASE p.busPacketType = "ACTIVATE"
        BY <3>1 DEF AfterCommand, AfterActivate, BankStates
      <3>2. CASE p.busPacketType = "PRECHARGE"
        BY <3>2 DEF AfterCommand, AfterPrecharge, BankStates
      <3>3. CASE p.busPacketType = "REFRESH"
        BY <3>3 DEF AfterCommand, AfterRefresh, BankStates
      <3> QED
        BY <2>1, <3>1, <3>2, <3>3
    <2>3. tRCD - AL \in Nat
      BY BusNumbers
    <2> HIDE DEF n
    <2>4. /\ Later(tRCD - AL, m.nextRead) \in Nat 
          /\ Later(tRCD - AL, m.nextRead) >= m.nextRead
      BY <1>1, <1>2, <2>3
    <2>5. n.nextRead \in Nat /\ n.nextRead >= m.nextRead
      BY <1>2, <2>2, <2>4
    <2> QED
      BY <1>5, <2>5
  <1> QED
    BY <1>3, <1>4, <1>5

\* A step of update() that ages every burst, seen from all of them.
LEMMA BeginDelayed ==
  ASSUME Known, Known', Begin
  PROVE  /\ \A y \in Bursts' : y \in AllBursts /\ Delayed(y) \in Bursts
         /\ Lag = 1 /\ Lag' = 0 /\ ~IsRead(outgoingCmdPacket')
         /\ \A r \in RANKS, b \in BANKS : /\ bankStates[r][b] \in BankStates
                                          /\ bankStates'[r][b] = CountDown(bankStates[r][b])
  <1>1. /\ outgoingCmdPacket' = NoPacket
        /\ \A y \in WriteBursts' : Delayed(y) \in WriteBursts
        /\ \A r \in RANKS : \A y \in ReadBursts(r)' : Delayed(y) \in ReadBursts(r)
    BY BeginBursts DEF Known
  <1>2. \A y \in Bursts' : Delayed(y) \in Bursts
    BY <1>1 DEF Bursts
  <1>3. Bursts' \subseteq AllBursts
    BY DEF Known, BurstsWithin, AllBursts
  <1>4. Lag = 1 /\ Lag' = 0
    BY DEF Begin, Lag
  <1>5. ~IsRead(outgoingCmdPacket')
    BY <1>1 DEF IsRead, NoPacket
  <1>6. \A r \in RANKS, b \in BANKS : /\ bankStates[r][b] \in BankStates
                                      /\ bankStates'[r][b] = CountDown(bankStates[r][b])
    <2>1. bankStates \in [RANKS -> [BANKS -> BankStates]]
      BY DEF Known, BankInv
    <2>2. bankStates' = [r \in RANKS |-> [b \in BANKS |-> CountDown(bankStates[r][b])]]
      BY DEF Begin
    <2> QED
      BY <2>1, <2>2
  <1> QED
    BY <1>2, <1>3, <1>4, <1>5, <1>6

\* A step of update() that pops a command, seen from all bursts.
LEMMA IssueNew ==
  ASSUME Known, Known', IssueCommand
  PROVE  LET p == outgoingCmdPacket'
         IN  /\ p \in BusPackets /\ p.busPacketType \in CommandTypes /\ Protocol!Issuable(p)
             /\ Bursts \subseteq AllBursts /\ Bursts' \subseteq AllBursts
             /\ \A y \in Bursts' : y \in Bursts \/ y \in NewBursts(p)
             /\ \A y \in Bursts : y.start <= RL /\ (y.kind = "write" => y.start <= WL - 1)
             /\ Lag = 0 /\ Lag' = 0
             /\ \A r \in RANKS, b \in BANKS :
                  /\ bankStates[r][b] \in BankStates
                  /\ bankStates'[r][b] = AfterCommand(p, r, b, bankStates[r][b])
  <1> DEFINE p == outgoingCmdPacket'
  <1>1. /\ p \in Protocol!Commands /\ p \in BusPackets /\ Protocol!Issuable(p)
        /\ Transmit(p) /\ Idling
        /\ phase = "issue" /\ phase' = "end"
    BY Popped DEF Known, IssueCommand
  <1> HIDE DEF p
  <1>2. p.busPacketType \in CommandTypes
    BY <1>1, PolicyAssumption DEF Protocol!Commands, Protocol!PolicyTypes, CommandTypes, ColumnTypes
  <1>3. \A y \in Bursts' : y \in Bursts \/ y \in NewBursts(p)
    BY <1>1, IssueBursts DEF Known
  <1>4. Bursts' \subseteq AllBursts
    BY DEF Known, BurstsWithin, AllBursts
  <1>5. Lag = 0 /\ Lag' = 0
    BY <1>1 DEF Lag
  <1>6. /\ Bursts \subseteq AllBursts
        /\ \A y \in Bursts : y.start <= RL /\ (y.kind = "write" => y.start <= WL - 1)
    BY <1>1 DEF Known, BurstsWithin
  <1>7. \A r \in RANKS, b \in BANKS :
          /\ bankStates[r][b] \in BankStates
          /\ bankStates'[r][b] = AfterCommand(p, r, b, bankStates[r][b])
    <2>1. bankStates \in [RANKS -> [BANKS -> BankStates]]
      BY DEF Known, BankInv
    <2>2. bankStates' = [r \in RANKS |-> [b \in BANKS |-> AfterCommand(p, r, b, bankStates[r][b])]]
      BY <1>1 DEF Transmit
    <2> QED
      BY <2>1, <2>2
  <1> QED
    BY <1>1, <1>2, <1>3, <1>4, <1>5, <1>6, <1>7 DEF p

LEMMA SpacedInit == Init => SpacedInv
  <1> SUFFICES ASSUME Init PROVE SpacedInv
    OBVIOUS
  <1>1. /\ outgoingCmdPacket = NoPacket /\ outgoingDataPacket = NoPacket /\ writeData = <<>>
        /\ \A r \in RANKS : readReturn[r] = <<>> /\ rankDataPacket[r] = NoPacket
    BY DEF Init, MemoryControllerInit
  <1>2. Bursts = {}
    BY <1>1 DEF Bursts, WriteBursts, ReadBursts, Queueing, Running, Coming, IsRead, NoPacket
  <1> QED
    BY <1>2 DEF SpacedInv, ReadsApart, ReadsWait, NoWriteAtRead

LEMMA BeginSpaced ==
  ASSUME Known, Known', SpacedInv, Begin
  PROVE  SpacedInv'
  <1>1. /\ \A y \in Bursts' : y \in AllBursts /\ Delayed(y) \in Bursts
        /\ Lag = 1 /\ Lag' = 0 /\ ~IsRead(outgoingCmdPacket')
        /\ \A r \in RANKS, b \in BANKS : /\ bankStates[r][b] \in BankStates
                                         /\ bankStates'[r][b] = CountDown(bankStates[r][b])
    BY BeginDelayed
  <1>2. BURST \in Nat /\ RL \in Nat
    BY BusNumbers
  <1>3. ReadsApart'
    <2> SUFFICES ASSUME NEW x \in Bursts', NEW y \in Bursts', x.kind = "read", y.kind = "read",
                        x.rank = y.rank, x # y
                 PROVE  Apart(x, y)
      BY DEF ReadsApart, Apart
    <2>1. Apart(Delayed(x), Delayed(y))
      BY <1>1, DelayedFacts DEF SpacedInv, ReadsApart
    <2> QED
      BY <1>1, <2>1, DelayedFacts
  <1>4. ReadsWait'
    <2> SUFFICES ASSUME NEW x \in Bursts', NEW b \in BANKS
                 PROVE  /\ x.kind = "read" => x.start + BURST <= bankStates'[x.rank][b].nextRead + Lag' + RL + 1
                        /\ x.kind = "write" => x.start + BURST <= bankStates'[x.rank][b].nextRead + Lag'
      BY DEF ReadsWait
    <2> DEFINE w == bankStates[x.rank][b].nextRead
    <2>1. /\ x.rank \in RANKS /\ x.start \in Int /\ Delayed(x).rank = x.rank /\ Delayed(x).kind = x.kind
          /\ Delayed(x).start = x.start + 1
      BY <1>1, DelayedFacts
    <2>2. bankStates'[x.rank][b].nextRead = w /\ w \in Nat
      BY <1>1, <2>1, CountDownFacts DEF BankStates
    <2>3. /\ x.kind = "read" => x.start + 1 + BURST <= w + Lag + RL + 1
          /\ x.kind = "write" => x.start + 1 + BURST <= w + Lag
      BY <1>1, <2>1 DEF SpacedInv, ReadsWait
    <2> HIDE DEF w
    <2> QED
      BY <1>1, <1>2, <2>1, <2>2, <2>3
  <1>5. NoWriteAtRead'
    BY <1>1 DEF NoWriteAtRead
  <1> QED
    BY <1>3, <1>4, <1>5 DEF SpacedInv

LEMMA IssueSpaced ==
  ASSUME Known, Known', SpacedInv, IssueCommand
  PROVE  SpacedInv'
  <1> DEFINE p == outgoingCmdPacket'
  <1>1. /\ p \in BusPackets /\ p.busPacketType \in CommandTypes /\ Protocol!Issuable(p)
        /\ Bursts \subseteq AllBursts /\ Bursts' \subseteq AllBursts
        /\ \A y \in Bursts' : y \in Bursts \/ y \in NewBursts(p)
        /\ \A y \in Bursts : y.start <= RL /\ (y.kind = "write" => y.start <= WL - 1)
        /\ Lag = 0 /\ Lag' = 0
        /\ \A r \in RANKS, b \in BANKS :
             /\ bankStates[r][b] \in BankStates
             /\ bankStates'[r][b] = AfterCommand(p, r, b, bankStates[r][b])
    BY IssueNew
  <1> HIDE DEF p
  <1>2. BURST \in Nat /\ BURST >= 1 /\ RL \in Nat /\ WL \in Nat /\ RL = WL + 1
    BY BusNumbers
  <1>3. \A y \in AllBursts : /\ y.kind \in {"read", "write"} /\ y.rank \in RANKS /\ y.start \in Int
                             /\ 1 - BURST <= y.start /\ y.start <= RL + 1
    BY DelayedFacts
  <1>4. p.rank \in RANKS /\ p.bank \in BANKS
    BY <1>1 DEF BusPackets
  <1>5. IsRead(p) => bankStates[p.rank][p.bank].nextRead = 0
    BY <1>1 DEF Protocol!Issuable, IsRead
  <1>6. ASSUME NEW r \in RANKS, NEW b \in BANKS
        PROVE  /\ bankStates[r][b].nextRead \in Nat /\ bankStates'[r][b].nextRead \in Nat
               /\ \/ bankStates'[r][b].nextRead >= bankStates[r][b].nextRead
                  \/ bankStates'[r][b].nextRead >= WL + BURST
               /\ r = p.rank /\ IsRead(p) => bankStates'[r][b].nextRead >= BURST
               /\ r = p.rank /\ IsWrite(p) => bankStates'[r][b].nextRead >= WL + BURST
    BY <1>1, <1>5, NextReadAfter DEF BankStates
  <1>7. \A y \in Bursts' :
          \/ y \in Bursts
          \/ IsRead(p) /\ y.kind = "read" /\ y.rank = p.rank /\ y.start = RL + 1
          \/ IsWrite(p) /\ y.kind = "write" /\ y.rank = p.rank /\ y.start = WL
    BY <1>1 DEF NewBursts, Burst
  <1>8. ReadsApart'
    <2> SUFFICES ASSUME NEW x \in Bursts', NEW y \in Bursts', x.kind = "read", y.kind = "read",
                        x.rank = y.rank, x # y
                 PROVE  Apart(x, y)
      BY DEF ReadsApart, Apart
    <2>1. ASSUME NEW z \in Bursts, z.kind = "read", z.rank = p.rank, IsRead(p)
          PROVE  z.start + BURST <= RL + 1
      <3>1. z.start + BURST <= bankStates[p.rank][p.bank].nextRead + Lag + RL + 1
        BY <1>4, <2>1 DEF SpacedInv, ReadsWait
      <3> QED
        BY <1>1, <1>2, <1>5, <2>1, <3>1
    <2>2. CASE x \in Bursts /\ y \in Bursts
      BY <2>2 DEF SpacedInv, ReadsApart
    <2>3. CASE x \in Bursts /\ y \notin Bursts
      BY <1>7, <2>1, <2>3 DEF Apart
    <2>4. CASE x \notin Bursts /\ y \in Bursts
      BY <1>7, <2>1, <2>4 DEF Apart
    <2>5. CASE x \notin Bursts /\ y \notin Bursts
      <3>1. IsRead(p) => ~IsWrite(p)
        BY DEF IsRead, IsWrite
      <3>2. x \in NewBursts(p) /\ y \in NewBursts(p) /\ IsRead(p)
        BY <1>1, <1>7, <2>5
      <3> QED
        BY <3>1, <3>2 DEF NewBursts
    <2> QED
      BY <2>2, <2>3, <2>4, <2>5
  <1>9. ReadsWait'
    <2> SUFFICES ASSUME NEW x \in Bursts', NEW b \in BANKS
                 PROVE  /\ x.kind = "read" => x.start + BURST <= bankStates'[x.rank][b].nextRead + Lag' + RL + 1
                        /\ x.kind = "write" => x.start + BURST <= bankStates'[x.rank][b].nextRead + Lag'
      BY DEF ReadsWait
    <2> DEFINE v == bankStates[x.rank][b].nextRead
               w == bankStates'[x.rank][b].nextRead
    <2>1. x.rank \in RANKS /\ x.start \in Int /\ x.start <= RL + 1
      BY <1>1, <1>3
    <2>2. v \in Nat /\ w \in Nat /\ (w >= v \/ w >= WL + BURST)
      BY <1>6, <2>1
    <2>3. CASE x \in Bursts
      <3>1. /\ x.kind = "read" => x.start + BURST <= v + 0 + RL + 1
            /\ x.kind = "write" => x.start + BURST <= v + 0
            /\ x.kind = "write" => x.start <= WL - 1
        BY <1>1, <2>3 DEF SpacedInv, ReadsWait
      <3> HIDE DEF v, w
      <3> QED
        BY <1>1, <1>2, <2>1, <2>2, <3>1 DEF w
    <2>4. CASE IsRead(p) /\ x.kind = "read" /\ x.rank = p.rank /\ x.start = RL + 1
      <3>1. w >= BURST
        BY <1>6, <2>1, <2>4
      <3> HIDE DEF v, w
      <3> QED
        BY <1>1, <1>2, <2>2, <2>4, <3>1 DEF w
    <2>5. CASE IsWrite(p) /\ x.kind = "write" /\ x.rank = p.rank /\ x.start = WL
      <3>1. w >= WL + BURST
        BY <1>6, <2>1, <2>5
      <3> HIDE DEF v, w
      <3> QED
        BY <1>1, <1>2, <2>2, <2>5, <3>1 DEF w
    <2> QED
      BY <1>7, <2>3, <2>4, <2>5
  <1>10. NoWriteAtRead'
    <2> SUFFICES ASSUME NEW x \in Bursts', IsRead(p), x.kind = "write", x.rank = p.rank
                 PROVE  FALSE
      BY DEF NoWriteAtRead, p, IsRead
    <2>1. x \in Bursts
      <3>1. ~IsWrite(p)
        BY DEF IsRead, IsWrite
      <3> QED
        BY <1>7, <3>1
    <2>2. x.start + BURST <= bankStates[p.rank][p.bank].nextRead + Lag
      BY <1>4, <2>1 DEF SpacedInv, ReadsWait
    <2>3. x.start \in Int /\ 1 - BURST <= x.start
      BY <1>1, <1>3, <2>1
    <2> QED
      BY <1>1, <1>2, <1>5, <2>2, <2>3
  <1> QED
    BY <1>8, <1>9, <1>10 DEF SpacedInv

\* A wait that is no shorter keeps as far away from a burst.
LEMMA KeepsAway ==
  ASSUME NEW s \in Int, NEW v \in Nat, NEW w \in Nat, NEW j \in Nat, NEW k \in Nat, w + k >= v + j
  PROVE  /\ s + BURST <= v + j + RL + 1 => s + BURST <= w + k + RL + 1
         /\ s + BURST <= v + j + WL => s + BURST <= w + k + WL
         /\ s + BURST <= v + j + tRP => s + BURST <= w + k + tRP
         /\ s + BURST <= v + j => s + BURST <= w + k
  <1>1. BURST \in Nat /\ RL \in Nat /\ WL \in Nat /\ tRP \in Nat
    BY BusNumbers
  <1> QED
    BY <1>1

\* Reads of a rank keep apart on the data bus, and none reaches its rank before the data
\* written there, whatever the delays are.
THEOREM SpacedInvariance == Spec => []SpacedInv
  <1>1. Known /\ Known' /\ SpacedInv /\ [Next]_vars => SpacedInv'
    <2> SUFFICES ASSUME Known, Known', SpacedInv, [Next]_vars PROVE SpacedInv'
      OBVIOUS
    <2>1. CASE Begin
      BY <2>1, BeginSpaced
    <2>2. CASE IssueCommand
      BY <2>2, IssueSpaced
    <2>3. CASE /\ UNCHANGED burstVars
               /\ \A r \in RANKS, b \in BANKS : WaitsOn(bankStates[r][b], bankStates'[r][b])
      <3>1. Bursts' = Bursts /\ outgoingCmdPacket' = outgoingCmdPacket
        BY <2>3, OtherBursts DEF burstVars
      <3>2. ReadsApart' /\ NoWriteAtRead'
        BY <3>1 DEF SpacedInv, ReadsApart, NoWriteAtRead, Apart, IsRead
      <3>3. ASSUME NEW x \in Bursts, NEW b \in BANKS
            PROVE  /\ x.kind = "read" => x.start + BURST <= bankStates'[x.rank][b].nextRead + Lag' + RL + 1
                   /\ x.kind = "write" => x.start + BURST <= bankStates'[x.rank][b].nextRead + Lag'
        <4> DEFINE v == bankStates[x.rank][b].nextRead
                   w == bankStates'[x.rank][b].nextRead
        <4>1. x.rank \in RANKS /\ x.start \in Int
          BY DelayedFacts DEF Known, BurstsWithin
        <4>2. v \in Nat /\ w \in Nat /\ Lag \in Nat /\ Lag' \in Nat
          <5>1. bankStates \in [RANKS -> [BANKS -> BankStates]] /\ bankStates' \in [RANKS -> [BANKS -> BankStates]]
            BY DEF Known, BankInv, BankStates
          <5>2. bankStates[x.rank][b] \in BankStates /\ bankStates'[x.rank][b] \in BankStates
            BY <4>1, <5>1
          <5> QED
            BY <5>2 DEF BankStates, Lag
        <4>3. w + Lag' >= v + Lag
          BY <2>3, <4>1 DEF WaitsOn
        <4>4. /\ x.kind = "read" => x.start + BURST <= v + Lag + RL + 1
              /\ x.kind = "write" => x.start + BURST <= v + Lag
          BY DEF SpacedInv, ReadsWait
        <4>5. BURST \in Nat /\ RL \in Nat
          BY BusNumbers
        <4> HIDE DEF v, w
        <4>6. CASE x.kind = "read"
          <5>1. x.start + BURST <= v + Lag + RL + 1
            BY <4>4, <4>6
          <5>2. x.start + BURST <= w + Lag' + RL + 1
            BY <4>1, <4>2, <4>3, <4>5, <5>1, KeepsAway
          <5> QED
            BY <4>6, <5>2 DEF w
        <4>7. CASE x.kind = "write"
          <5>1. x.start + BURST <= v + Lag
            BY <4>4, <4>7
          <5>2. x.start + BURST <= w + Lag'
            BY <4>1, <4>2, <4>3, <4>5, <5>1, KeepsAway
          <5> QED
            BY <4>7, <5>2 DEF w
        <4> QED
          BY <4>6, <4>7
      <3>4. ReadsWait'
        BY <3>1, <3>3 DEF ReadsWait
      <3> QED
        BY <3>2, <3>4 DEF SpacedInv
    <2> QED
      BY <2>1, <2>2, <2>3, OtherSteps
  <1> QED
    BY <1>1, SpacedInit, KnownInvariance, PTL DEF Spec

\* No rank puts a burst on its bus while another of its own is on it: the rank itself
\* does not check.
NoReadOverwritten ==
  \A r \in RANKS : NextReadDue(r) /\ rankDataPacket[r] # NoPacket => rankDataCyclesLeft[r] = 1

LEMMA SpacedMeansNotOverwritten ==
  ASSUME Known, SpacedInv
  PROVE  NoReadOverwritten
  <1> SUFFICES ASSUME NEW r \in RANKS, NextReadDue(r), rankDataPacket[r] # NoPacket
               PROVE  rankDataCyclesLeft[r] = 1
    BY DEF NoReadOverwritten
  <1> DEFINE x == Burst("read", readReturn[r][1].packet, 1)
             y == Burst("read", rankDataPacket[r], rankDataCyclesLeft[r] - BURST)
  <1>1. rankDataCyclesLeft[r] \in 1 .. BURST /\ BURST \in Nat
    BY BusNumbers DEF Known, DataInv, Bursting
  <1>2. 1 \in DOMAIN readReturn[r] /\ readReturn[r][1].countdown = 1
    BY DEF NextReadDue, Known, DataInv, Counting
  <1>3. x \in Queueing("read", readReturn[r])
    BY <1>2 DEF Queueing
  <1>4. y \in Running("read", rankDataPacket[r], rankDataCyclesLeft[r])
    BY DEF Running
  <1>5. x \in Bursts /\ y \in Bursts
    BY <1>3, <1>4 DEF ReadBursts, Bursts
  <1>6. /\ x.kind = "read" /\ y.kind = "read" /\ x.rank = r /\ y.rank = r
        /\ x.start = 1 /\ y.start = rankDataCyclesLeft[r] - BURST
    BY <1>2 DEF Burst, Known, HomeInv
  <1> HIDE DEF x, y
  <1>7. x # y
    BY <1>1, <1>6
  <1>8. Apart(x, y)
    BY <1>5, <1>6, <1>7 DEF SpacedInv, ReadsApart
  <1> QED
    BY <1>1, <1>6, <1>8 DEF Apart

\* For every value of the constants: when a READ reaches its rank, no data for the
\* address that is read is still on its way from the controller.
THEOREM ReadAlwaysFindsDataStored == Spec => []ReadFindsDataStored
  <1>1. ASSUME Known, SpacedInv PROVE ReadFindsDataStored
    <2> SUFFICES ASSUME IsRead(outgoingCmdPacket), NEW t \in Transactions, SameAddress(outgoingCmdPacket, t)
                 PROVE  WritesSending(t) = 0
      BY DEF ReadFindsDataStored
    <2>1. \A y \in WriteBursts : y.kind = "write" /\ y.rank # t.rank
      <3>1. \A y \in WriteBursts : y.kind = "write"
        BY <1>1, BurstsKnown DEF Known
      <3>2. outgoingCmdPacket.rank = t.rank
        BY DEF SameAddress
      <3> QED
        BY <1>1, <3>1, <3>2 DEF SpacedInv, NoWriteAtRead, Bursts
    <2>2. ASSUME NEW i \in DOMAIN writeData PROVE ~SameAddress(writeData[i].packet, t)
      <3>1. Burst("write", writeData[i].packet, writeData[i].countdown) \in WriteBursts
        BY DEF WriteBursts, Queueing
      <3>2. writeData[i].packet.rank # t.rank
        BY <2>1, <3>1 DEF Burst
      <3> QED
        BY <3>2 DEF SameAddress
    <2>3. ASSUME outgoingDataPacket # NoPacket PROVE ~SameAddress(outgoingDataPacket, t)
      <3>1. Burst("write", outgoingDataPacket, dataCyclesLeft - BURST) \in WriteBursts
        BY <2>3 DEF WriteBursts, Running
      <3>2. outgoingDataPacket.rank # t.rank
        BY <2>1, <3>1 DEF Burst
      <3> QED
        BY <3>2 DEF SameAddress
    <2>4. {i \in DOMAIN writeData : SameAddress(writeData[i].packet, t)} = {}
      BY <2>2
    <2>5. Count(writeData, LAMBDA w : SameAddress(w.packet, t)) = 0
      BY <2>4, FS_EmptySet DEF Count
    <2>6. One(outgoingDataPacket # NoPacket /\ SameAddress(outgoingDataPacket, t)) = 0
      BY <2>3 DEF One
    <2> QED
      BY <2>5, <2>6 DEF WritesSending
  <1> QED
    BY <1>1, KnownInvariance, SpacedInvariance, PTL

-----------------------------------------------------------------------------
(* One data bus for all ranks.  The delays between ranks keep a cycle free   *)
(* after a burst of another rank when tRTRS is at least 1; and an ACTIVATE   *)
(* leaves its bank waiting for longer than the newest burst may be away.     *)

DataBusTiming == tRTRS >= 1 /\ tRCD - AL >= BURST + 1

BurstsApart == \A x, y \in Bursts : x # y => Apart(x, y)

\* No open bank, of whatever rank, takes a column command that would catch up with a
\* burst: a read's data follows RL + 1 cycles later, a write's WL.
OpenBanksWait ==
  \A x \in Bursts, r \in RANKS, b \in BANKS :
    LET m == bankStates[r][b]
    IN  InUse(m) => /\ x.start + BURST <= m.nextRead + Lag + RL + 1
                    /\ x.start + BURST <= m.nextWrite + Lag + WL

BusInv == BurstsApart /\ OpenBanksWait

LEMMA LongerOf ==
  ASSUME NEW v \in Nat, NEW w \in Nat
  PROVE  Later(v, w) \in Nat /\ Later(v, w) >= v /\ Later(v, w) >= w
  BY DEF Later

\* Waits of v and w cycles at least are left for the columns of n.
ColumnsWait(n, v, w) == n.nextRead >= v /\ n.nextWrite >= w

\* What the command p leaves as the waits of an open bank.
LEMMA ColumnsAfter ==
  ASSUME DataBusTiming, NEW p \in BusPackets, p.busPacketType \in CommandTypes,
         NEW r \in RANKS, NEW b \in BANKS, NEW m \in BankStates,
         NEW n, n = AfterCommand(p, r, b, m), InUse(n)
  PROVE  /\ n.nextRead \in Nat /\ n.nextWrite \in Nat
         /\ \/ InUse(m) /\ ColumnsWait(n, m.nextRead, m.nextWrite)
            \/ ColumnsWait(n, BURST + 1, BURST + 1)
         /\ IsRead(p) => ColumnsWait(n, BURST, BURST + 2)
         /\ IsWrite(p) => ColumnsWait(n, BURST, BURST)
  <1>1. m.nextRead \in Nat /\ m.nextWrite \in Nat /\ m.nextActivate \in Nat
    BY DEF BankStates
  <1>2. BURST \in Nat /\ BURST >= 1 /\ tRTRS \in Nat /\ tRTRS >= 1 /\ WL \in Nat
    BY BusNumbers DEF DataBusTiming
  <1>3. ASSUME NEW v \in Nat, NEW w \in Nat, InUse(m),
               n.nextRead = Later(v, m.nextRead), n.nextWrite = Later(w, m.nextWrite)
        PROVE  /\ n.nextRead \in Nat /\ n.nextWrite \in Nat
               /\ ColumnsWait(n, m.nextRead, m.nextWrite) /\ ColumnsWait(n, v, w)
    BY <1>1, <1>3, LongerOf DEF ColumnsWait
  <1>4. CASE IsRead(p)
    <2>1. n = AfterRead(p, r, b, m) /\ ~IsWrite(p)
      BY <1>4 DEF AfterCommand, IsRead, IsWrite
    <2>2. ~(<<r, b>> = <<p.rank, p.bank>> /\ p.busPacketType = "READ_P")
      <3>1. READ_TO_PRE_DELAY >= BURST /\ READ_TO_PRE_DELAY \in Nat
        BY BusNumbers
      <3>2. READ_TO_PRE_DELAY # 0
        BY <1>2, <3>1
      <3>3. ASSUME <<r, b>> = <<p.rank, p.bank>>, p.busPacketType = "READ_P"
            PROVE  n.stateChangeCountdown = READ_TO_PRE_DELAY
        BY <2>1, <3>3 DEF AfterRead, BankStates
      <3> QED
        BY <3>2, <3>3 DEF InUse
    <2>3. /\ n.nextRead = AfterReadElsewhere(p, r, m).nextRead
          /\ n.nextWrite = AfterReadElsewhere(p, r, m).nextWrite
          /\ n.currentBankState = m.currentBankState /\ n.stateChangeCountdown = m.stateChangeCountdown
      <3>1. AfterReadElsewhere(p, r, m) = m
            \/ \E v, w : AfterReadElsewhere(p, r, m) = [m EXCEPT !.nextRead = v, !.nextWrite = w]
        BY DEF AfterReadElsewhere
      <3> DEFINE e == AfterReadElsewhere(p, r, m)
      <3>2. n = e \/ n = [e EXCEPT !.nextPrecharge = Later(READ_TO_PRE_DELAY, @), !.lastCommand = "READ"]
        BY <2>1, <2>2 DEF AfterRead
      <3>3. /\ e.currentBankState = m.currentBankState /\ e.stateChangeCountdown = m.stateChangeCountdown
            /\ DOMAIN e = DOMAIN m
        BY <3>1 DEF BankStates
      <3> HIDE DEF e
      <3>4. /\ n.nextRead = e.nextRead /\ n.nextWrite = e.nextWrite
            /\ n.currentBankState = e.currentBankState /\ n.stateChangeCountdown = e.stateChangeCountdown
        BY <3>2, <3>3 DEF BankStates
      <3> QED
        BY <3>3, <3>4 DEF e
    <2>4. InUse(m)
      BY <2>3 DEF InUse
    <2>5. \E v \in {Later(tCCD, BURST), BURST + tRTRS} :
            n.nextRead = Later(v, m.nextRead) /\ n.nextWrite = Later(READ_TO_WRITE_DELAY, m.nextWrite)
      BY <2>3, <2>4 DEF AfterReadElsewhere, BankStates, InUse
    <2>6. /\ \A v \in {Later(tCCD, BURST), BURST + tRTRS} : v \in Nat /\ v >= BURST
          /\ READ_TO_WRITE_DELAY \in Nat /\ READ_TO_WRITE_DELAY >= BURST + 2
      <3>1. /\ Later(tCCD, BURST) \in Nat /\ Later(tCCD, BURST) >= BURST
            /\ READ_TO_WRITE_DELAY = BURST + 1 + tRTRS
        BY BusNumbers
      <3> QED
        BY <1>2, <3>1
    <2>7. PICK v \in {Later(tCCD, BURST), BURST + tRTRS} :
            n.nextRead = Later(v, m.nextRead) /\ n.nextWrite = Later(READ_TO_WRITE_DELAY, m.nextWrite)
      BY <2>5
    <2>8. v \in Nat /\ v >= BURST
      BY <2>6
    <2>9. /\ n.nextRead \in Nat /\ n.nextWrite \in Nat
          /\ ColumnsWait(n, m.nextRead, m.nextWrite) /\ ColumnsWait(n, v, READ_TO_WRITE_DELAY)
      BY <1>3, <2>4, <2>6, <2>7, <2>8
    <2>10. ColumnsWait(n, BURST, BURST + 2)
      BY <1>2, <2>6, <2>8, <2>9 DEF ColumnsWait
    <2> QED
      BY <2>1, <2>4, <2>9, <2>10
  <1>5. CASE IsWrite(p)
    <2>1. n = AfterWrite(p, r, b, m) /\ ~IsRead(p)
      BY <1>5 DEF AfterCommand, IsRead, IsWrite
    <2>2. ~(<<r, b>> = <<p.rank, p.bank>> /\ p.busPacketType = "WRITE_P")
      <3>1. WRITE_TO_PRE_DELAY >= WL + BURST /\ WRITE_TO_PRE_DELAY \in Nat
        BY BusNumbers
      <3>2. WRITE_TO_PRE_DELAY # 0
        BY <1>2, <3>1
      <3>3. ASSUME <<r, b>> = <<p.rank, p.bank>>, p.busPacketType = "WRITE_P"
            PROVE  n.stateChangeCountdown = WRITE_TO_PRE_DELAY
        BY <2>1, <3>3 DEF AfterWrite, BankStates
      <3> QED
        BY <3>2, <3>3 DEF InUse
    <2>3. /\ n.nextRead = AfterWriteElsewhere(p, r, m).nextRead
          /\ n.nextWrite = AfterWriteElsewhere(p, r, m).nextWrite
          /\ n.currentBankState = m.currentBankState /\ n.stateChangeCountdown = m.stateChangeCountdown
      <3>1. AfterWriteElsewhere(p, r, m) = m
            \/ \E v, w : AfterWriteElsewhere(p, r, m) = [m EXCEPT !.nextWrite = v, !.nextRead = w]
        BY DEF AfterWriteElsewhere
      <3> DEFINE e == AfterWriteElsewhere(p, r, m)
      <3>2. n = e \/ n = [e EXCEPT !.nextPrecharge = Later(WRITE_TO_PRE_DELAY, @), !.lastCommand = "WRITE"]
        BY <2>1, <2>2 DEF AfterWrite
      <3>3. /\ e.currentBankState = m.currentBankState /\ e.stateChangeCountdown = m.stateChangeCountdown
            /\ DOMAIN e = DOMAIN m
        BY <3>1 DEF BankStates
      <3> HIDE DEF e
      <3>4. /\ n.nextRead = e.nextRead /\ n.nextWrite = e.nextWrite
            /\ n.currentBankState = e.currentBankState /\ n.stateChangeCountdown = e.stateChangeCountdown
        BY <3>2, <3>3 DEF BankStates
      <3> QED
        BY <3>3, <3>4 DEF e
    <2>4. InUse(m)
      BY <2>3 DEF InUse
    <2>5. \E v \in {WRITE_TO_READ_DELAY_B, WRITE_TO_READ_DELAY_R}, w \in {Later(BURST, tCCD), BURST + tRTRS} :
            n.nextRead = Later(v, m.nextRead) /\ n.nextWrite = Later(w, m.nextWrite)
      BY <2>3, <2>4 DEF AfterWriteElsewhere, BankStates, InUse
    <2>6. /\ \A v \in {WRITE_TO_READ_DELAY_B, WRITE_TO_READ_DELAY_R} : v \in Nat /\ v >= BURST
          /\ \A w \in {Later(BURST, tCCD), BURST + tRTRS} : w \in Nat /\ w >= BURST
      <3>1. /\ Later(BURST, tCCD) \in Nat /\ Later(BURST, tCCD) >= BURST
            /\ WRITE_TO_READ_DELAY_B \in Nat /\ WRITE_TO_READ_DELAY_B >= WL + BURST
            /\ WRITE_TO_READ_DELAY_R \in Nat /\ WRITE_TO_READ_DELAY_R + 1 = BURST + tRTRS
        BY BusNumbers
      <3> QED
        BY <1>2, <3>1
    <2>7. PICK v \in {WRITE_TO_READ_DELAY_B, WRITE_TO_READ_DELAY_R}, w \in {Later(BURST, tCCD), BURST + tRTRS} :
            n.nextRead = Later(v, m.nextRead) /\ n.nextWrite = Later(w, m.nextWrite)
      BY <2>5
    <2>8. v \in Nat /\ v >= BURST /\ w \in Nat /\ w >= BURST
      BY <2>6
    <2>9. /\ n.nextRead \in Nat /\ n.nextWrite \in Nat
          /\ ColumnsWait(n, m.nextRead, m.nextWrite) /\ ColumnsWait(n, v, w)
      BY <1>3, <2>4, <2>7, <2>8
    <2>10. ColumnsWait(n, BURST, BURST)
      BY <1>2, <2>8, <2>9 DEF ColumnsWait
    <2> QED
      BY <2>1, <2>4, <2>9, <2>10
  <1>6. CASE ~IsRead(p) /\ ~IsWrite(p)
    <2>1. p.busPacketType \in {"ACTIVATE", "PRECHARGE", "REFRESH"}
      BY <1>6 DEF IsRead, IsWrite, CommandTypes, ColumnTypes
    <2>2. CASE n.nextRead = m.nextRead /\ n.nextWrite = m.nextWrite /\ InUse(m)
      BY <1>1, <1>6, <2>2 DEF ColumnsWait
    <2>3. CASE n.nextRead = Later(tRCD - AL, m.nextRead) /\ n.nextWrite = Later(tRCD - AL, m.nextWrite)
      <3>1. tRCD - AL \in Nat /\ tRCD - AL >= BURST + 1
        BY BusNumbers DEF DataBusTiming
      <3> DEFINE d == tRCD - AL
      <3> HIDE DEF d
      <3>2. n.nextRead = Later(d, m.nextRead) /\ n.nextWrite = Later(d, m.nextWrite) /\ d \in Nat /\ d >= BURST + 1
        BY <2>3, <3>1 DEF d
      <3>3. /\ n.nextRead \in Nat /\ n.nextRead >= d /\ n.nextWrite \in Nat /\ n.nextWrite >= d
        BY <1>1, <3>2, LongerOf
      <3> QED
        BY <1>2, <1>6, <3>2, <3>3 DEF ColumnsWait
    <2>4. CASE p.busPacketType = "ACTIVATE"
      <3>1. n = AfterActivate(p, r, b, m)
        BY <2>4 DEF AfterCommand
      <3>2. CASE r # p.rank \/ b # p.bank
        <4>1. n = m \/ n = [m EXCEPT !.nextActivate = Later(tRRD, @)]
          BY <3>1, <3>2 DEF AfterActivate
        <4> QED
          BY <2>2, <4>1 DEF BankStates, InUse
      <3>3. CASE r = p.rank /\ b = p.bank
        BY <2>3, <3>1, <3>3 DEF AfterActivate, BankStates
      <3> QED
        BY <3>2, <3>3
    <2>5. CASE p.busPacketType = "PRECHARGE"
      <3>1. n = AfterPrecharge(p, r, b, m)
        BY <2>5 DEF AfterCommand
      <3>2. n = m
        BY <3>1 DEF AfterPrecharge, BankStates, InUse
      <3> QED
        BY <2>2, <3>2
    <2>6. CASE p.busPacketType = "REFRESH"
      <3>1. n = AfterRefresh(p, r, m)
        BY <2>6 DEF AfterCommand
      <3>2. n = m
        BY <3>1 DEF AfterRefresh, BankStates, InUse
      <3> QED
        BY <2>2, <3>2
    <2> QED
      BY <2>1, <2>4, <2>5, <2>6
  <1> QED
    BY <1>4, <1>5, <1>6

\* A bank that is open after the countdown was open before.
LEMMA StaysInUse ==
  ASSUME Known, NEW r \in RANKS, NEW b \in BANKS, InUse(CountDown(bankStates[r][b]))
  PROVE  InUse(bankStates[r][b])
  <1> DEFINE m == bankStates[r][b]
             n == CountDown(m)
  <1>1. m \in BankStates /\ (m.currentBankState = "RowActive" /\ m.stateChangeCountdown > 0 =>
                               m.lastCommand \in {"READ_P", "WRITE_P"})
    BY DEF Known, BankInv
  <1>2. m.stateChangeCountdown \in Nat /\ tRP \in Nat /\ tRP >= 1
    BY <1>1, BusNumbers DEF BankStates
  <1>3. /\ m.currentBankState = "RowActive"
        /\ n.stateChangeCountdown \in {Sooner(m.stateChangeCountdown), tRP}
        /\ n.currentBankState = "RowActive" /\ n.stateChangeCountdown = 0
    BY <1>1, CountDownFacts DEF InUse
  <1>4. m.stateChangeCountdown \in {0, 1}
    BY <1>2, <1>3 DEF Sooner
  <1>5. m.stateChangeCountdown = 1 => n.currentBankState = "Precharging"
    BY <1>1, <1>2, <1>3 DEF CountDown, BankStates
  <1> QED
    BY <1>3, <1>4, <1>5 DEF InUse

LEMMA BeginBus ==
  ASSUME Known, Known', BusInv, Begin
  PROVE  BusInv'
  <1>1. /\ \A y \in Bursts' : y \in AllBursts /\ Delayed(y) \in Bursts
        /\ Lag = 1 /\ Lag' = 0
        /\ \A r \in RANKS, b \in BANKS : /\ bankStates[r][b] \in BankStates
                                         /\ bankStates'[r][b] = CountDown(bankStates[r][b])
    BY BeginDelayed
  <1>2. BURST \in Nat /\ RL \in Nat /\ WL \in Nat
    BY BusNumbers
  <1>3. BurstsApart'
    <2> SUFFICES ASSUME NEW x \in Bursts', NEW y \in Bursts', x # y
                 PROVE  Apart(x, y)
      BY DEF BurstsApart, Apart
    <2>1. Apart(Delayed(x), Delayed(y))
      BY <1>1, DelayedFacts DEF BusInv, BurstsApart
    <2> QED
      BY <1>1, <2>1, DelayedFacts
  <1>4. OpenBanksWait'
    <2> SUFFICES ASSUME NEW x \in Bursts', NEW r \in RANKS, NEW b \in BANKS, InUse(bankStates'[r][b])
                 PROVE  /\ x.start + BURST <= bankStates'[r][b].nextRead + Lag' + RL + 1
                        /\ x.start + BURST <= bankStates'[r][b].nextWrite + Lag' + WL
      BY DEF OpenBanksWait, InUse
    <2> DEFINE v == bankStates[r][b].nextRead
               w == bankStates[r][b].nextWrite
    <2>1. x.start \in Int /\ Delayed(x).start = x.start + 1
      BY <1>1, DelayedFacts
    <2>2. bankStates'[r][b].nextRead = v /\ bankStates'[r][b].nextWrite = w /\ v \in Nat /\ w \in Nat
      BY <1>1, CountDownFacts DEF BankStates
    <2>3. x.start + 1 + BURST <= v + Lag + RL + 1 /\ x.start + 1 + BURST <= w + Lag + WL
      BY <1>1, <2>1, StaysInUse DEF BusInv, OpenBanksWait
    <2> HIDE DEF v, w
    <2> QED
      BY <1>1, <1>2, <2>1, <2>2, <2>3
  <1> QED
    BY <1>3, <1>4 DEF BusInv

\* A column command is popped for an open bank that waits no longer.
LEMMA ColumnIssued ==
  ASSUME Known, Lag = 0, NEW p \in BusPackets, Protocol!Issuable(p), IsRead(p) \/ IsWrite(p)
  PROVE  LET m == bankStates[p.rank][p.bank]
         IN  InUse(m) /\ (IsRead(p) => m.nextRead = 0) /\ (IsWrite(p) => m.nextWrite = 0)
  <1> DEFINE m == bankStates[p.rank][p.bank]
  <1>1. p.rank \in RANKS /\ p.bank \in BANKS
    BY DEF BusPackets
  <1>2. m \in BankStates /\ ClosesInTime(m)
    BY <1>1 DEF Known, BankInv
  <1>3. m.currentBankState = "RowActive" /\ (IsRead(p) => m.nextRead = 0) /\ (IsWrite(p) => m.nextWrite = 0)
    BY DEF Protocol!Issuable, IsRead, IsWrite
  <1>4. m.stateChangeCountdown \in Nat /\ m.nextRead \in Nat /\ m.nextWrite \in Nat
    BY <1>2 DEF BankStates
  <1>5. m.stateChangeCountdown = 0
    BY <1>2, <1>3, <1>4 DEF ClosesInTime
  <1> QED
    BY <1>3, <1>5 DEF InUse

LEMMA IssueBus ==
  ASSUME DataBusTiming, Known, Known', BusInv, IssueCommand
  PROVE  BusInv'
  <1> DEFINE p == outgoingCmdPacket'
  <1>1. /\ p \in BusPackets /\ p.busPacketType \in CommandTypes /\ Protocol!Issuable(p)
        /\ Bursts \subseteq AllBursts /\ Bursts' \subseteq AllBursts
        /\ \A y \in Bursts' : y \in Bursts \/ y \in NewBursts(p)
        /\ \A y \in Bursts : y.start <= RL
        /\ Lag = 0 /\ Lag' = 0
        /\ \A r \in RANKS, b \in BANKS :
             /\ bankStates[r][b] \in BankStates
             /\ bankStates'[r][b] = AfterCommand(p, r, b, bankStates[r][b])
    BY IssueNew
  <1> HIDE DEF p
  <1>2. BURST \in Nat /\ BURST >= 1 /\ RL \in Nat /\ WL \in Nat /\ RL = WL + 1
    BY BusNumbers
  <1>3. \A y \in AllBursts : y.start \in Int /\ 1 - BURST <= y.start /\ y.start <= RL + 1
    BY DelayedFacts
  <1>4. p.rank \in RANKS /\ p.bank \in BANKS
    BY <1>1 DEF BusPackets
  <1>5. \A y \in Bursts' :
          \/ y \in Bursts
          \/ IsRead(p) /\ y = Burst("read", p, RL + 1) /\ y.start = RL + 1
          \/ IsWrite(p) /\ y = Burst("write", p, WL) /\ y.start = WL
    BY <1>1 DEF NewBursts, Burst
  <1>6. IsRead(p) => ~IsWrite(p)
    BY DEF IsRead, IsWrite
  <1>7. ASSUME NEW z \in Bursts
        PROVE  (IsRead(p) => z.start + BURST <= RL + 1) /\ (IsWrite(p) => z.start + BURST <= WL)
    <2> DEFINE m == bankStates[p.rank][p.bank]
    <2>1. IsRead(p) \/ IsWrite(p) => InUse(m) /\ (IsRead(p) => m.nextRead = 0) /\ (IsWrite(p) => m.nextWrite = 0)
      BY <1>1, ColumnIssued
    <2>2. InUse(m) => z.start + BURST <= m.nextRead + 0 + RL + 1 /\ z.start + BURST <= m.nextWrite + 0 + WL
      BY <1>1, <1>4 DEF BusInv, OpenBanksWait
    <2> HIDE DEF m
    <2> QED
      BY <1>2, <2>1, <2>2
  <1>8. BurstsApart'
    <2> SUFFICES ASSUME NEW x \in Bursts', NEW y \in Bursts', x # y
                 PROVE  Apart(x, y)
      BY DEF BurstsApart, Apart
    <2>1. CASE x \in Bursts /\ y \in Bursts
      BY <2>1 DEF BusInv, BurstsApart
    <2>2. CASE x \in Bursts /\ y \notin Bursts
      BY <1>5, <1>7, <2>2 DEF Apart
    <2>3. CASE x \notin Bursts /\ y \in Bursts
      BY <1>5, <1>7, <2>3 DEF Apart
    <2>4. CASE x \notin Bursts /\ y \notin Bursts
      BY <1>5, <1>6, <2>4
    <2> QED
      BY <2>1, <2>2, <2>3, <2>4
  <1>9. OpenBanksWait'
    <2> SUFFICES ASSUME NEW x \in Bursts', NEW r \in RANKS, NEW b \in BANKS, InUse(bankStates'[r][b])
                 PROVE  /\ x.start + BURST <= bankStates'[r][b].nextRead + Lag' + RL + 1
                        /\ x.start + BURST <= bankStates'[r][b].nextWrite + Lag' + WL
      BY DEF OpenBanksWait, InUse
    <2> DEFINE m == bankStates[r][b]
               n == bankStates'[r][b]
    <2>1. /\ n.nextRead \in Nat /\ n.nextWrite \in Nat
          /\ \/ InUse(m) /\ ColumnsWait(n, m.nextRead, m.nextWrite)
             \/ ColumnsWait(n, BURST + 1, BURST + 1)
          /\ IsRead(p) => ColumnsWait(n, BURST, BURST + 2)
          /\ IsWrite(p) => ColumnsWait(n, BURST, BURST)
      BY <1>1, ColumnsAfter
    <2>2. m.nextRead \in Nat /\ m.nextWrite \in Nat /\ x.start \in Int
      BY <1>1, <1>3 DEF BankStates
    <2>3. SUFFICES x.start + BURST <= n.nextRead + RL + 1 /\ x.start + BURST <= n.nextWrite + WL
      BY <1>1, <1>2, <2>1
    <2> HIDE DEF m, n
    <2>4. CASE x \in Bursts
      <3>1. x.start <= RL
        BY <1>1, <2>4
      <3>2. InUse(m) => x.start + BURST <= m.nextRead + 0 + RL + 1 /\ x.start + BURST <= m.nextWrite + 0 + WL
        BY <1>1, <2>4 DEF BusInv, OpenBanksWait, m
      <3>3. CASE InUse(m) /\ ColumnsWait(n, m.nextRead, m.nextWrite)
        BY <1>2, <2>1, <2>2, <3>2, <3>3 DEF ColumnsWait
      <3>4. CASE ColumnsWait(n, BURST + 1, BURST + 1)
        BY <1>2, <2>1, <2>2, <3>1, <3>4 DEF ColumnsWait
      <3> QED
        BY <2>1, <3>3, <3>4
    <2>5. CASE IsRead(p) /\ x.start = RL + 1
      BY <1>2, <2>1, <2>5 DEF ColumnsWait
    <2>6. CASE IsWrite(p) /\ x.start = WL
      BY <1>2, <2>1, <2>6 DEF ColumnsWait
    <2> QED
      BY <1>5, <2>4, <2>5, <2>6
  <1> QED
    BY <1>8, <1>9 DEF BusInv

LEMMA BusInvariance == ASSUME DataBusTiming PROVE Spec => []BusInv
  <1>1. Init => BusInv
    <2> SUFFICES ASSUME Init PROVE BusInv
      OBVIOUS
    <2>1. /\ outgoingCmdPacket = NoPacket /\ outgoingDataPacket = NoPacket /\ writeData = <<>>
          /\ \A r \in RANKS : readReturn[r] = <<>> /\ rankDataPacket[r] = NoPacket
      BY DEF Init, MemoryControllerInit
    <2>2. Bursts = {}
      BY <2>1 DEF Bursts, WriteBursts, ReadBursts, Queueing, Running, Coming, IsRead, NoPacket
    <2> QED
      BY <2>2 DEF BusInv, BurstsApart, OpenBanksWait
  <1>2. Known /\ Known' /\ BusInv /\ [Next]_vars => BusInv'
    <2> SUFFICES ASSUME Known, Known', BusInv, [Next]_vars PROVE BusInv'
      OBVIOUS
    <2>1. CASE Begin
      BY <2>1, BeginBus
    <2>2. CASE IssueCommand
      BY <2>2, IssueBus
    <2>3. CASE /\ UNCHANGED burstVars
               /\ \A r \in RANKS, b \in BANKS : WaitsOn(bankStates[r][b], bankStates'[r][b])
      <3>1. Bursts' = Bursts
        BY <2>3, OtherBursts
      <3>2. BurstsApart'
        BY <3>1 DEF BusInv, BurstsApart, Apart
      <3>3. ASSUME NEW x \in Bursts, NEW r \in RANKS, NEW b \in BANKS, InUse(bankStates'[r][b])
            PROVE  /\ x.start + BURST <= bankStates'[r][b].nextRead + Lag' + RL + 1
                   /\ x.start + BURST <= bankStates'[r][b].nextWrite + Lag' + WL
        <4> DEFINE m == bankStates[r][b]
                   n == bankStates'[r][b]
        <4>1. x.start \in Int
          BY DelayedFacts DEF Known, BurstsWithin
        <4>2. m \in BankStates /\ n \in BankStates
          <5>1. bankStates \in [RANKS -> [BANKS -> BankStates]] /\ bankStates' \in [RANKS -> [BANKS -> BankStates]]
            BY DEF Known, BankInv, BankStates
          <5> QED
            BY <5>1
        <4>3. /\ m.nextRead \in Nat /\ n.nextRead \in Nat /\ m.nextWrite \in Nat /\ n.nextWrite \in Nat
              /\ Lag \in Nat /\ Lag' \in Nat
          BY <4>2 DEF BankStates, Lag
        <4>4. InUse(m) /\ n.nextRead + Lag' >= m.nextRead + Lag /\ n.nextWrite + Lag' >= m.nextWrite + Lag
          BY <2>3, <3>3 DEF WaitsOn, InUse
        <4>5. x.start + BURST <= m.nextRead + Lag + RL + 1 /\ x.start + BURST <= m.nextWrite + Lag + WL
          BY <4>4 DEF BusInv, OpenBanksWait
        <4> HIDE DEF m, n
        <4>6. x.start + BURST <= n.nextRead + Lag' + RL + 1 /\ x.start + BURST <= n.nextWrite + Lag' + WL
          BY <4>1, <4>3, <4>4, <4>5, KeepsAway
        <4> QED
          BY <4>6 DEF n
      <3>4. OpenBanksWait'
        BY <3>1, <3>3 DEF OpenBanksWait, InUse
      <3> QED
        BY <3>2, <3>4 DEF BusInv
    <2> QED
      BY <2>1, <2>2, <2>3, OtherSteps
  <1> QED
    BY <1>1, <1>2, KnownInvariance, PTL DEF Spec

\* The bursts of the packets that are on a bus now.
LEMMA OnTheBusNow ==
  ASSUME Known
  PROVE  /\ outgoingDataPacket # NoPacket =>
              \E y \in Bursts : y.kind = "write" /\ y.start = dataCyclesLeft - BURST
         /\ \A r \in RANKS : rankDataPacket[r] # NoPacket =>
              \E y \in Bursts : y.kind = "read" /\ y.rank = r /\ y.start = rankDataCyclesLeft[r] - BURST
         /\ outgoingDataPacket # NoPacket => dataCyclesLeft \in 1 .. BURST
         /\ \A r \in RANKS : rankDataPacket[r] # NoPacket => rankDataCyclesLeft[r] \in 1 .. BURST
         /\ NextDataDue => \E y \in Bursts : y.kind = "write" /\ y.start = 1
  <1>1. ASSUME outgoingDataPacket # NoPacket
        PROVE  \E y \in Bursts : y.kind = "write" /\ y.start = dataCyclesLeft - BURST
    <2> DEFINE y == Burst("write", outgoingDataPacket, dataCyclesLeft - BURST)
    <2>1. y \in Bursts
      BY <1>1 DEF Bursts, WriteBursts, Running
    <2>2. y.kind = "write" /\ y.start = dataCyclesLeft - BURST
      BY DEF Burst
    <2> QED
      BY <2>1, <2>2
  <1>2. ASSUME NEW r \in RANKS, rankDataPacket[r] # NoPacket
        PROVE  \E y \in Bursts : y.kind = "read" /\ y.rank = r /\ y.start = rankDataCyclesLeft[r] - BURST
    <2> DEFINE y == Burst("read", rankDataPacket[r], rankDataCyclesLeft[r] - BURST)
    <2>1. y \in Bursts
      BY <1>2 DEF Bursts, ReadBursts, Running
    <2>2. y.kind = "read" /\ y.rank = r /\ y.start = rankDataCyclesLeft[r] - BURST
      BY <1>2 DEF Burst, Known, HomeInv
    <2> QED
      BY <2>1, <2>2
  <1>3. BURST \in Nat
    BY BusNumbers
  <1>4. /\ outgoingDataPacket # NoPacket => dataCyclesLeft \in 1 .. BURST
        /\ \A r \in RANKS : rankDataPacket[r] # NoPacket => rankDataCyclesLeft[r] \in 1 .. BURST
    BY <1>3 DEF Known, DataInv, Bursting
  <1>5. ASSUME NextDataDue PROVE \E y \in Bursts : y.kind = "write" /\ y.start = 1
    <2> DEFINE y == Burst("write", writeData[1].packet, writeData[1].countdown)
    <2>1. 1 \in DOMAIN writeData
      BY <1>5 DEF NextDataDue, Known, DataInv, Counting
    <2>2. y \in Bursts
      BY <2>1 DEF Bursts, WriteBursts, Queueing
    <2>3. y.kind = "write" /\ y.start = 1
      BY <1>5 DEF Burst, NextDataDue
    <2> QED
      BY <2>2, <2>3
  <1> QED
    BY <1>1, <1>2, <1>4, <1>5

\* At most one burst is on the data bus, whether it is the controller's or a rank's:
\* for every value of the constants that keeps to DataBusTiming.
THEOREM DataBusAlwaysExclusive == ASSUME DataBusTiming PROVE Spec => []DataBusExclusive
  <1>1. ASSUME Known, BusInv PROVE DataBusExclusive
    <2> DEFINE R == {r \in RANKS : rankDataPacket[r] # NoPacket}
    <2>1. BURST \in Nat
      BY BusNumbers
    <2>2. \A x, y \in Bursts : /\ x.start \in (1 - BURST) .. 0 /\ y.start \in (1 - BURST) .. 0
                               => x = y
      <3> SUFFICES ASSUME NEW x \in Bursts, NEW y \in Bursts,
                          x.start \in (1 - BURST) .. 0, y.start \in (1 - BURST) .. 0, x # y
                   PROVE  FALSE
        OBVIOUS
      <3>1. Apart(x, y)
        BY <1>1 DEF BusInv, BurstsApart
      <3> QED
        BY <2>1, <3>1 DEF Apart
    <2>3. \A n \in 1 .. BURST : n - BURST \in (1 - BURST) .. 0
      BY <2>1
    <2>4. \A r \in R : /\ r \in RANKS
                       /\ \E y \in Bursts : y.kind = "read" /\ y.rank = r /\ y.start \in (1 - BURST) .. 0
      BY <1>1, <2>3, OnTheBusNow
    <2>5. outgoingDataPacket # NoPacket =>
            \E y \in Bursts : y.kind = "write" /\ y.start \in (1 - BURST) .. 0
      BY <1>1, <2>3, OnTheBusNow
    <2>6. \A q, r \in R : q = r
      BY <2>2, <2>4
    <2>7. outgoingDataPacket # NoPacket => R = {}
      BY <2>2, <2>4, <2>5
    <2>8. Cardinality(R) \in {0, 1} /\ (R = {} => Cardinality(R) = 0)
      <3>1. CASE R = {}
        BY <3>1, FS_EmptySet
      <3>2. CASE R # {}
        <4>1. PICK r \in R : TRUE
          BY <3>2
        <4>2. R = {r}
          BY <2>6, <4>1
        <4>3. Cardinality(R) = 1
          BY <4>2, FS_Singleton
        <4> QED
          BY <3>2, <4>3
      <3> QED
        BY <3>1, <3>2
    <2> HIDE DEF R
    <2>9. One(outgoingDataPacket # NoPacket) + Cardinality(R) <= 1
      BY <2>7, <2>8 DEF One
    <2> QED
      BY <2>9 DEF DataBusExclusive, R
  <1> QED
    BY <1>1, KnownInvariance, BusInvariance, PTL

\* Nor does the controller ever have two bursts for it: no "Data Bus Collision" exit.
THEOREM NoCollisionOnDataBus == ASSUME DataBusTiming PROVE Spec => []NoDataBusCollision
  <1>1. ASSUME Known, BusInv PROVE ~DataBusCollision
    <2> SUFFICES ASSUME NextDataDue, outgoingDataPacket # NoPacket, ~DataDone PROVE FALSE
      BY DEF DataBusCollision
    <2>1. BURST \in Nat /\ dataCyclesLeft \in 2 .. BURST
      BY <1>1, OnTheBusNow, BusNumbers DEF DataDone
    <2>2. PICK x \in Bursts : x.start = dataCyclesLeft - BURST
      BY <1>1, OnTheBusNow
    <2>3. PICK y \in Bursts : y.start = 1
      BY <1>1, OnTheBusNow
    <2>4. Apart(x, y)
      BY <1>1, <2>1, <2>2, <2>3 DEF BusInv, BurstsApart
    <2> QED
      BY <2>1, <2>2, <2>3, <2>4 DEF Apart
  <1>2. Init => NoDataBusCollision
    BY DEF Init, NoDataBusCollision
  <1>3. Known /\ BusInv /\ NoDataBusCollision /\ [Next]_vars => NoDataBusCollision'
    <2> SUFFICES ASSUME Known, BusInv, NoDataBusCollision, [Next]_vars PROVE NoDataBusCollision'
      OBVIOUS
    <2>1. CASE Begin
      BY <1>1, <2>1 DEF Begin, NoDataBusCollision
    <2>2. CASE UNCHANGED vars
      BY <2>2 DEF vars, NoDataBusCollision
    <2>3. CASE \E t \in Transactions : AddTransaction(t) \/ ParkTransaction(t)
      BY <2>3 DEF AddTransaction, ParkTransaction, NoDataBusCollision
    <2>4. CASE IssueForRefresh \/ IssueRefresh \/ IssueQueued \/ IssuePrecharge \/ IssueNothing
      BY <2>4 DEF IssueForRefresh, IssueRefresh, IssueQueued, IssuePrecharge, IssuePopped,
                  IssueNothing, NoDataBusCollision
    <2>5. CASE End
      BY <2>5 DEF End, NoDataBusCollision
    <2> QED
      BY <2>1, <2>2, <2>3, <2>4, <2>5 DEF Next, Update
  <1> QED
    BY <1>2, <1>3, KnownInvariance, BusInvariance, PTL DEF Spec

\* The program never ends in one of its own checks: no rank receives a command or a
\* power change it forbids, no bus collides, no queue overruns, and every callback is
\* for a request the CPU waits for.
THEOREM ProgramNeverExits == ASSUME DataBusTiming PROVE Spec => []NoExit
  <1>1. ASSUME error \notin {"command not allowed", "command bus collision", "power change not allowed"},
               error # "no pending request", NoDataBusCollision, ChannelInv, DataInv
        PROVE  NoExit
    BY <1>1 DEF NoExit, NoDataBusCollision, ChannelInv, DataInv, Exits
  <1> QED
    BY <1>1, ChannelNeverRejected, CallbacksExpected, NoCollisionOnDataBus, ChannelInvariance,
       DataInvariance, PTL

\* No request is lost and none is answered twice.
THEOREM RequestsAlwaysConserved == ASSUME DataBusTiming PROVE Spec => []RequestsConserved
  <1>1. NoDataBusCollision /\ (error # "data bus collision" => RequestsConserved) => RequestsConserved
    BY DEF NoDataBusCollision
  <1> QED
    BY <1>1, NoCollisionOnDataBus, RequestsAreConserved, PTL

-----------------------------------------------------------------------------
(* Power-down.  A bank is not closed before its bursts are over; a rank is   *)
(* powered down when all its banks are.                                      *)

PowerDownTiming == tRP + Later(tRTP, 2) >= CL + 3 /\ tRFC >= tRP

\* The cycles until the bank is closed: the soonest it could be, when it is open.
ClosedIn(m, lag) ==
  IF m.currentBankState # "RowActive" THEN m.stateChangeCountdown
  ELSE tRP + (IF m.stateChangeCountdown > 0 THEN m.stateChangeCountdown ELSE m.nextPrecharge + lag)

PrechargesOver ==
  \A r \in RANKS, b \in BANKS :
    LET m == bankStates[r][b]
    IN  m.currentBankState = "Precharging" => m.stateChangeCountdown <= tRP

ClosesAfterBursts == \A x \in Bursts : x.start + BURST <= ClosedIn(bankStates[x.rank][x.bank], Lag)

QuietInv == PrechargesOver /\ ClosesAfterBursts

LEMMA ClosedInType ==
  ASSUME NEW m \in BankStates, NEW lag \in Nat
  PROVE  ClosedIn(m, lag) \in Nat
  <1>1. tRP \in Nat /\ m.stateChangeCountdown \in Nat /\ m.nextPrecharge \in Nat
    BY BusNumbers DEF BankStates
  <1> QED
    BY <1>1 DEF ClosedIn

\* The countdown brings no bank closer to being closed than the passing cycle does.
LEMMA ClosedCounts ==
  ASSUME Known, NEW r \in RANKS, NEW b \in BANKS, Lag = 1
  PROVE  LET m == bankStates[r][b]
         IN  /\ ClosedIn(CountDown(m), 0) + 1 >= ClosedIn(m, 1)
             /\ CountDown(m).currentBankState = "Precharging" =>
                  \/ CountDown(m).stateChangeCountdown = tRP
                  \/ /\ m.currentBankState = "Precharging"
                     /\ CountDown(m).stateChangeCountdown <= m.stateChangeCountdown
  <1> DEFINE m == bankStates[r][b]
             n == CountDown(m)
  <1>1. /\ m \in BankStates
        /\ m.currentBankState \in {"Idle", "PowerDown"} => m.stateChangeCountdown = 0
        /\ m.currentBankState = "Precharging" =>
             m.stateChangeCountdown >= 1 /\ m.lastCommand = "PRECHARGE"
        /\ m.currentBankState = "Refreshing" =>
             m.stateChangeCountdown >= 1 /\ m.lastCommand = "REFRESH"
        /\ m.currentBankState = "RowActive" /\ m.stateChangeCountdown > 0 =>
             m.lastCommand \in {"READ_P", "WRITE_P"}
    BY DEF Known, BankInv
  <1>2. /\ m.stateChangeCountdown \in Nat /\ m.nextPrecharge \in Nat /\ tRP \in Nat /\ tRP >= 1
        /\ m.currentBankState \in {"Idle", "RowActive", "Precharging", "Refreshing", "PowerDown"}
    BY <1>1, BusNumbers DEF BankStates, CurrentBankState
  <1>3. n.nextPrecharge = m.nextPrecharge
    BY <1>1, CountDownFacts
  <1>4. CASE m.stateChangeCountdown = 1 /\ m.lastCommand \in {"READ_P", "WRITE_P"}
    <2>1. m.currentBankState = "RowActive"
      BY <1>1, <1>2, <1>4
    <2>2. n.currentBankState = "Precharging" /\ n.stateChangeCountdown = tRP
      BY <1>1, <1>4 DEF CountDown, BankStates
    <2> HIDE DEF m, n
    <2>3. ClosedIn(m, 1) = tRP + 1 /\ ClosedIn(n, 0) = tRP
      BY <1>4, <2>1, <2>2 DEF ClosedIn
    <2> QED
      BY <1>2, <2>2, <2>3 DEF m, n
  <1>5. CASE m.stateChangeCountdown = 1 /\ m.lastCommand \notin {"READ_P", "WRITE_P"}
    <2>1. m.currentBankState \in {"Precharging", "Refreshing"} /\ m.lastCommand \in {"REFRESH", "PRECHARGE"}
      BY <1>1, <1>2, <1>5
    <2>2. n.currentBankState = "Idle" /\ n.stateChangeCountdown = 0
      BY <1>1, <1>5, <2>1 DEF CountDown, BankStates, Sooner
    <2> HIDE DEF m, n
    <2>3. ClosedIn(m, 1) = 1 /\ ClosedIn(n, 0) = 0
      BY <1>5, <2>1, <2>2 DEF ClosedIn
    <2> QED
      BY <2>2, <2>3 DEF m, n
  <1>6. CASE m.stateChangeCountdown # 1
    <2>1. /\ n.currentBankState = m.currentBankState
          /\ n.stateChangeCountdown = Sooner(m.stateChangeCountdown)
      BY <1>1, <1>6 DEF CountDown, BankStates
    <2>2. /\ n.stateChangeCountdown + 1 >= m.stateChangeCountdown
          /\ n.stateChangeCountdown \in Nat /\ n.stateChangeCountdown <= m.stateChangeCountdown
          /\ n.stateChangeCountdown > 0 <=> m.stateChangeCountdown > 0
      BY <1>2, <1>6, <2>1 DEF Sooner
    <2> HIDE DEF m, n
    <2>3. ClosedIn(n, 0) + 1 >= ClosedIn(m, 1)
      BY <1>2, <1>3, <2>1, <2>2 DEF ClosedIn
    <2> QED
      BY <2>1, <2>2, <2>3 DEF m, n
  <1> QED
    BY <1>4, <1>5, <1>6

\* What a command leaves: the bank is closed no sooner than before, or not before every
\* burst that may be on its way is over.
LEMMA ClosedAfter ==
  ASSUME PowerDownTiming, NEW p \in BusPackets, p.busPacketType \in CommandTypes,
         NEW r \in RANKS, NEW b \in BANKS, NEW m \in BankStates,
         NEW n \in BankStates, n = AfterCommand(p, r, b, m),
         (IsRead(p) \/ IsWrite(p)) /\ r = p.rank /\ b = p.bank => InUse(m),
         p.busPacketType = "PRECHARGE" /\ r = p.rank /\ b = p.bank => InUse(m) /\ m.nextPrecharge = 0,
         p.busPacketType = "ACTIVATE" /\ r = p.rank /\ b = p.bank =>
           m.currentBankState # "RowActive" /\ m.stateChangeCountdown = 0,
         p.busPacketType = "REFRESH" /\ r = p.rank =>
           m.currentBankState # "RowActive" /\ m.stateChangeCountdown <= tRP
  PROVE  /\ ClosedIn(n, 0) >= ClosedIn(m, 0) \/ ClosedIn(n, 0) >= RL + BURST
         /\ IsRead(p) /\ r = p.rank /\ b = p.bank => ClosedIn(n, 0) >= RL + 1 + BURST
         /\ IsWrite(p) /\ r = p.rank /\ b = p.bank => ClosedIn(n, 0) >= WL + BURST
         /\ n.currentBankState = "Precharging" =>
              \/ n.stateChangeCountdown = tRP
              \/ /\ n.currentBankState = m.currentBankState
                 /\ n.stateChangeCountdown = m.stateChangeCountdown
  <1> DEFINE own == r = p.rank /\ b = p.bank
  <1>1. /\ m.stateChangeCountdown \in Nat /\ m.nextPrecharge \in Nat
        /\ n.stateChangeCountdown \in Nat /\ n.nextPrecharge \in Nat
    BY DEF BankStates
  <1>2. /\ tRP \in Nat /\ tRP >= 1 /\ BURST \in Nat /\ BURST >= 1 /\ RL \in Nat /\ WL \in Nat
        /\ RL = WL + 1 /\ RL = CL + AL /\ CL \in Nat /\ AL \in Nat /\ tRFC \in Nat /\ tRFC >= tRP
        /\ READ_TO_PRE_DELAY \in Nat /\ READ_TO_PRE_DELAY >= BURST
        /\ WRITE_TO_PRE_DELAY \in Nat /\ WRITE_TO_PRE_DELAY >= WL + BURST
        /\ READ_TO_PRE_DELAY + tRP >= RL + 1 + BURST
    BY BusNumbers DEF PowerDownTiming
  <1>3. ClosedIn(m, 0) \in Nat /\ ClosedIn(n, 0) \in Nat
    BY ClosedInType
  <1>4. ASSUME n.currentBankState = m.currentBankState, n.stateChangeCountdown = m.stateChangeCountdown,
               n.nextPrecharge = m.nextPrecharge
        PROVE  ClosedIn(n, 0) >= ClosedIn(m, 0)
    BY <1>3, <1>4 DEF ClosedIn
  <1>5. CASE IsRead(p)
    <2>1. n = AfterRead(p, r, b, m) /\ ~IsWrite(p)
      BY <1>5 DEF AfterCommand, IsRead, IsWrite
    <2> DEFINE e == AfterReadElsewhere(p, r, m)
    <2>2. /\ e.currentBankState = m.currentBankState /\ e.stateChangeCountdown = m.stateChangeCountdown
          /\ e.nextPrecharge = m.nextPrecharge /\ DOMAIN e = DOMAIN m
      <3>1. e = m \/ \E v, w : e = [m EXCEPT !.nextRead = v, !.nextWrite = w]
        BY DEF AfterReadElsewhere
      <3> HIDE DEF e
      <3> QED
        BY <3>1 DEF BankStates
    <2>3. CASE ~own
      <3>1. n = e
        BY <2>1, <2>3 DEF AfterRead
      <3> HIDE DEF e
      <3> QED
        BY <1>4, <2>1, <2>2, <2>3, <3>1
    <2>4. CASE own /\ p.busPacketType = "READ_P"
      <3>1. n.stateChangeCountdown = READ_TO_PRE_DELAY /\ n.currentBankState = m.currentBankState
        BY <2>1, <2>4 DEF AfterRead, BankStates
      <3>2. m.currentBankState = "RowActive"
        BY <1>5, <2>4 DEF InUse
      <3>3. ClosedIn(n, 0) = tRP + READ_TO_PRE_DELAY
        BY <1>2, <3>1, <3>2 DEF ClosedIn
      <3> QED
        BY <1>2, <2>1, <3>1, <3>2, <3>3
    <2>5. CASE own /\ p.busPacketType # "READ_P"
      <3>1. n = [e EXCEPT !.nextPrecharge = Later(READ_TO_PRE_DELAY, @), !.lastCommand = "READ"]
        BY <2>1, <2>5 DEF AfterRead
      <3> HIDE DEF e
      <3>2. /\ n.currentBankState = m.currentBankState /\ n.stateChangeCountdown = m.stateChangeCountdown
            /\ n.nextPrecharge = Later(READ_TO_PRE_DELAY, m.nextPrecharge)
        BY <2>2, <3>1 DEF BankStates
      <3>3. InUse(m)
        BY <1>5, <2>5
      <3>4. n.nextPrecharge >= READ_TO_PRE_DELAY /\ n.nextPrecharge >= m.nextPrecharge
        <4>1. READ_TO_PRE_DELAY \in Nat /\ m.nextPrecharge \in Nat
          BY <1>1, <1>2
        <4>2. /\ Later(READ_TO_PRE_DELAY, m.nextPrecharge) >= READ_TO_PRE_DELAY
              /\ Later(READ_TO_PRE_DELAY, m.nextPrecharge) >= m.nextPrecharge
          BY <4>1, LongerOf
        <4> QED
          BY <3>2, <4>2
      <3>5. ClosedIn(n, 0) = tRP + (n.nextPrecharge + 0) /\ ClosedIn(m, 0) = tRP + (m.nextPrecharge + 0)
        BY <3>2, <3>3 DEF ClosedIn, InUse
      <3>6. ClosedIn(n, 0) >= ClosedIn(m, 0) /\ ClosedIn(n, 0) >= RL + 1 + BURST
        BY <1>1, <1>2, <3>4, <3>5
      <3> QED
        BY <2>1, <3>2, <3>6
    <2> QED
      BY <2>3, <2>4, <2>5
  <1>6. CASE IsWrite(p)
    <2>1. n = AfterWrite(p, r, b, m) /\ ~IsRead(p)
      BY <1>6 DEF AfterCommand, IsRead, IsWrite
    <2> DEFINE e == AfterWriteElsewhere(p, r, m)
    <2>2. /\ e.currentBankState = m.currentBankState /\ e.stateChangeCountdown = m.stateChangeCountdown
          /\ e.nextPrecharge = m.nextPrecharge /\ DOMAIN e = DOMAIN m
      <3>1. e = m \/ \E v, w : e = [m EXCEPT !.nextWrite = v, !.nextRead = w]
        BY DEF AfterWriteElsewhere
      <3> HIDE DEF e
      <3> QED
        BY <3>1 DEF BankStates
    <2>3. CASE ~own
      <3>1. n = e
        BY <2>1, <2>3 DEF AfterWrite
      <3> HIDE DEF e
      <3> QED
        BY <1>4, <2>1, <2>2, <2>3, <3>1
    <2>4. CASE own /\ p.busPacketType = "WRITE_P"
      <3>1. n.stateChangeCountdown = WRITE_TO_PRE_DELAY /\ n.currentBankState = m.currentBankState
        BY <2>1, <2>4 DEF AfterWrite, BankStates
      <3>2. m.currentBankState = "RowActive"
        BY <1>6, <2>4 DEF InUse
      <3>3. ClosedIn(n, 0) = tRP + WRITE_TO_PRE_DELAY
        BY <1>2, <3>1, <3>2 DEF ClosedIn
      <3> QED
        BY <1>2, <2>1, <3>1, <3>2, <3>3
    <2>5. CASE own /\ p.busPacketType # "WRITE_P"
      <3>1. n = [e EXCEPT !.nextPrecharge = Later(WRITE_TO_PRE_DELAY, @), !.lastCommand = "WRITE"]
        BY <2>1, <2>5 DEF AfterWrite
      <3> HIDE DEF e
      <3>2. /\ n.currentBankState = m.currentBankState /\ n.stateChangeCountdown = m.stateChangeCountdown
            /\ n.nextPrecharge = Later(WRITE_TO_PRE_DELAY, m.nextPrecharge)
        BY <2>2, <3>1 DEF BankStates
      <3>3. InUse(m)
        BY <1>6, <2>5
      <3>4. n.nextPrecharge >= WRITE_TO_PRE_DELAY /\ n.nextPrecharge >= m.nextPrecharge
        <4>1. WRITE_TO_PRE_DELAY \in Nat /\ m.nextPrecharge \in Nat
          BY <1>1, <1>2
        <4>2. /\ Later(WRITE_TO_PRE_DELAY, m.nextPrecharge) >= WRITE_TO_PRE_DELAY
              /\ Later(WRITE_TO_PRE_DELAY, m.nextPrecharge) >= m.nextPrecharge
          BY <4>1, LongerOf
        <4> QED
          BY <3>2, <4>2
      <3>5. ClosedIn(n, 0) = tRP + (n.nextPrecharge + 0) /\ ClosedIn(m, 0) = tRP + (m.nextPrecharge + 0)
        BY <3>2, <3>3 DEF ClosedIn, InUse
      <3>6. ClosedIn(n, 0) >= ClosedIn(m, 0) /\ ClosedIn(n, 0) >= WL + BURST
        BY <1>1, <1>2, <3>4, <3>5
      <3> QED
        BY <2>1, <3>2, <3>6
    <2> QED
      BY <2>3, <2>4, <2>5
  <1>7. CASE ~IsRead(p) /\ ~IsWrite(p)
    <2>1. p.busPacketType \in {"ACTIVATE", "PRECHARGE", "REFRESH"}
      BY <1>7 DEF IsRead, IsWrite, CommandTypes, ColumnTypes
    <2>2. SUFFICES /\ ClosedIn(n, 0) >= ClosedIn(m, 0)
                   /\ n.currentBankState = "Precharging" =>
                        \/ n.stateChangeCountdown = tRP
                        \/ /\ n.currentBankState = m.currentBankState
                           /\ n.stateChangeCountdown = m.stateChangeCountdown
      BY <1>7
    <2>3. CASE n.currentBankState = m.currentBankState /\ n.stateChangeCountdown = m.stateChangeCountdown
               /\ n.nextPrecharge = m.nextPrecharge
      BY <1>4, <2>3
    <2>4. CASE p.busPacketType = "ACTIVATE"
      <3>1. n = AfterActivate(p, r, b, m)
        BY <2>4 DEF AfterCommand
      <3>2. CASE ~own
        <4>1. n = m \/ n = [m EXCEPT !.nextActivate = Later(tRRD, @)]
          BY <3>1, <3>2 DEF AfterActivate
        <4> QED
          BY <2>3, <4>1 DEF BankStates
      <3>3. CASE own
        <4>1. n.currentBankState = "RowActive"
          BY <3>1, <3>3 DEF AfterActivate, BankStates
        <4>2. ClosedIn(m, 0) = 0
          BY <2>4, <3>3 DEF ClosedIn
        <4> QED
          BY <1>3, <4>1, <4>2
      <3> QED
        BY <3>2, <3>3
    <2>5. CASE p.busPacketType = "PRECHARGE"
      <3>1. n = AfterPrecharge(p, r, b, m)
        BY <2>5 DEF AfterCommand
      <3>2. CASE ~own
        BY <2>3, <3>1, <3>2 DEF AfterPrecharge
      <3>3. CASE own
        <4>1. n.currentBankState = "Precharging" /\ n.stateChangeCountdown = tRP
          BY <3>1, <3>3 DEF AfterPrecharge, BankStates
        <4>2. m.nextPrecharge = 0 /\ ClosedIn(m, 0) = tRP + (m.nextPrecharge + 0) /\ ClosedIn(n, 0) = tRP
          BY <2>5, <3>3, <4>1 DEF ClosedIn, InUse
        <4> QED
          BY <1>2, <4>1, <4>2
      <3> QED
        BY <3>2, <3>3
    <2>6. CASE p.busPacketType = "REFRESH"
      <3>1. n = AfterRefresh(p, r, m)
        BY <2>6 DEF AfterCommand
      <3>2. CASE r # p.rank
        BY <2>3, <3>1, <3>2 DEF AfterRefresh
      <3>3. CASE r = p.rank
        <4>1. n.currentBankState = "Refreshing" /\ n.stateChangeCountdown = tRFC
          BY <3>1, <3>3 DEF AfterRefresh, BankStates
        <4>2. ClosedIn(m, 0) = m.stateChangeCountdown /\ ClosedIn(n, 0) = tRFC
              /\ m.stateChangeCountdown <= tRP
          BY <2>6, <3>3, <4>1 DEF ClosedIn
        <4> QED
          BY <1>1, <1>2, <4>1, <4>2
      <3> QED
        BY <3>2, <3>3
    <2> QED
      BY <2>1, <2>4, <2>5, <2>6
  <1> QED
    BY <1>5, <1>6, <1>7

LEMMA BeginQuiet ==
  ASSUME Known, Known', QuietInv, Begin
  PROVE  QuietInv'
  <1>1. /\ \A y \in Bursts' : y \in AllBursts /\ Delayed(y) \in Bursts
        /\ Lag = 1 /\ Lag' = 0
        /\ \A r \in RANKS, b \in BANKS : /\ bankStates[r][b] \in BankStates
                                         /\ bankStates'[r][b] = CountDown(bankStates[r][b])
    BY BeginDelayed
  <1>2. BURST \in Nat /\ tRP \in Nat
    BY BusNumbers
  <1>3. \A m \in BankStates : CountDown(m) \in BankStates
    BY CountDownFacts
  <1>4. PrechargesOver'
    <2> SUFFICES ASSUME NEW r \in RANKS, NEW b \in BANKS, bankStates'[r][b].currentBankState = "Precharging"
                 PROVE  bankStates'[r][b].stateChangeCountdown <= tRP
      BY DEF PrechargesOver
    <2> DEFINE m == bankStates[r][b]
               n == CountDown(m)
    <2>1. /\ bankStates'[r][b] = n
          /\ n.stateChangeCountdown \in Nat /\ m.stateChangeCountdown \in Nat
      BY <1>1, <1>3 DEF BankStates
    <2>2. \/ n.stateChangeCountdown = tRP
          \/ m.currentBankState = "Precharging" /\ n.stateChangeCountdown <= m.stateChangeCountdown
      BY <1>1, <2>1, ClosedCounts
    <2>3. m.currentBankState = "Precharging" => m.stateChangeCountdown <= tRP
      BY DEF QuietInv, PrechargesOver
    <2> HIDE DEF m, n
    <2> QED
      BY <1>2, <2>1, <2>2, <2>3
  <1>5. ClosesAfterBursts'
    <2> SUFFICES ASSUME NEW x \in Bursts'
                 PROVE  x.start + BURST <= ClosedIn(bankStates'[x.rank][x.bank], Lag')
      BY DEF ClosesAfterBursts, ClosedIn
    <2> DEFINE m == bankStates[x.rank][x.bank]
    <2>1. /\ x.rank \in RANKS /\ x.bank \in BANKS /\ x.start \in Int
          /\ Delayed(x).rank = x.rank /\ Delayed(x).bank = x.bank /\ Delayed(x).start = x.start + 1
      BY <1>1, DelayedFacts
    <2>2. m \in BankStates /\ bankStates'[x.rank][x.bank] = CountDown(m) /\ CountDown(m) \in BankStates
      BY <1>1, <1>3, <2>1
    <2>3. x.start + 1 + BURST <= ClosedIn(m, 1)
      BY <1>1, <2>1 DEF QuietInv, ClosesAfterBursts
    <2>4. ClosedIn(CountDown(m), 0) + 1 >= ClosedIn(m, 1)
      BY <1>1, <2>1, ClosedCounts
    <2>5. ClosedIn(CountDown(m), 0) \in Nat /\ ClosedIn(m, 1) \in Nat
      BY <2>2, ClosedInType
    <2> HIDE DEF m
    <2>6. x.start + BURST <= ClosedIn(CountDown(m), 0)
      BY <1>2, <2>1, <2>3, <2>4, <2>5
    <2> QED
      BY <1>1, <2>2, <2>6
  <1> QED
    BY <1>4, <1>5 DEF QuietInv

LEMMA IssueQuiet ==
  ASSUME PowerDownTiming, Known, Known', QuietInv, IssueCommand
  PROVE  QuietInv'
  <1> DEFINE p == outgoingCmdPacket'
  <1>1. /\ p \in BusPackets /\ p.busPacketType \in CommandTypes /\ Protocol!Issuable(p)
        /\ Bursts \subseteq AllBursts /\ Bursts' \subseteq AllBursts
        /\ \A y \in Bursts' : y \in Bursts \/ y \in NewBursts(p)
        /\ \A y \in Bursts : y.start <= RL
        /\ Lag = 0 /\ Lag' = 0
        /\ \A r \in RANKS, b \in BANKS :
             /\ bankStates[r][b] \in BankStates
             /\ bankStates'[r][b] = AfterCommand(p, r, b, bankStates[r][b])
    BY IssueNew
  <1>2. p.busPacketType = "PRECHARGE" => rowBufferPolicy = "OpenPage"
    <2>1. p \in Protocol!Commands
      BY Popped DEF Known, IssueCommand
    <2> HIDE DEF p
    <2> QED
      BY <2>1 DEF Protocol!Commands, Protocol!PolicyTypes
  <1> HIDE DEF p
  <1>3. BURST \in Nat /\ RL \in Nat /\ WL \in Nat /\ tRP \in Nat
    BY BusNumbers
  <1>4. p.rank \in RANKS /\ p.bank \in BANKS
    BY <1>1 DEF BusPackets
  <1>5. \A y \in AllBursts : y.rank \in RANKS /\ y.bank \in BANKS /\ y.start \in Int
    BY DelayedFacts
  <1>6. \A y \in Bursts' :
          \/ y \in Bursts
          \/ IsRead(p) /\ y.rank = p.rank /\ y.bank = p.bank /\ y.start = RL + 1
          \/ IsWrite(p) /\ y.rank = p.rank /\ y.bank = p.bank /\ y.start = WL
    BY <1>1 DEF NewBursts, Burst
  <1>7. ASSUME NEW r \in RANKS, NEW b \in BANKS
        PROVE  LET m == bankStates[r][b]
                   n == bankStates'[r][b]
               IN  /\ m \in BankStates /\ n \in BankStates
                   /\ ClosedIn(n, 0) >= ClosedIn(m, 0) \/ ClosedIn(n, 0) >= RL + BURST
                   /\ IsRead(p) /\ r = p.rank /\ b = p.bank => ClosedIn(n, 0) >= RL + 1 + BURST
                   /\ IsWrite(p) /\ r = p.rank /\ b = p.bank => ClosedIn(n, 0) >= WL + BURST
                   /\ n.currentBankState = "Precharging" =>
                        \/ n.stateChangeCountdown = tRP
                        \/ /\ n.currentBankState = m.currentBankState
                           /\ n.stateChangeCountdown = m.stateChangeCountdown
    <2> DEFINE m == bankStates[r][b]
               n == bankStates'[r][b]
    <2>1. m \in BankStates /\ n = AfterCommand(p, r, b, m)
      BY <1>1
    <2>2. n \in BankStates
      <3>1. bankStates' \in [RANKS -> [BANKS -> BankStates]]
        BY DEF Known, BankInv, BankStates
      <3> QED
        BY <3>1
    <2>3. /\ m.currentBankState \in {"Idle", "RowActive", "Precharging", "Refreshing", "PowerDown"}
          /\ m.stateChangeCountdown \in Nat /\ m.nextActivate \in Nat
      BY <2>1 DEF BankStates, CurrentBankState
    <2>4. /\ m.currentBankState \in {"Idle", "PowerDown"} => m.stateChangeCountdown = 0
          /\ m.currentBankState = "Refreshing" =>
               m.stateChangeCountdown >= 1 /\ m.nextActivate + 0 >= m.stateChangeCountdown
          /\ m.currentBankState = "RowActive" /\ m.stateChangeCountdown > 0 => rowBufferPolicy # "OpenPage"
          /\ m.currentBankState = "Precharging" => m.stateChangeCountdown <= tRP
      BY <1>1 DEF Known, BankInv, ClosesInTime, QuietInv, PrechargesOver
    <2>5. (IsRead(p) \/ IsWrite(p)) /\ r = p.rank /\ b = p.bank => InUse(m)
      BY <1>1, ColumnIssued
    <2>6. p.busPacketType = "PRECHARGE" /\ r = p.rank /\ b = p.bank => InUse(m) /\ m.nextPrecharge = 0
      <3>1. p.busPacketType = "PRECHARGE" /\ r = p.rank /\ b = p.bank =>
              m.currentBankState = "RowActive" /\ m.nextPrecharge = 0
        BY <1>1 DEF Protocol!Issuable
      <3> QED
        BY <1>2, <2>3, <2>4, <3>1 DEF InUse
    <2>7. p.busPacketType = "ACTIVATE" /\ r = p.rank /\ b = p.bank =>
            m.currentBankState # "RowActive" /\ m.stateChangeCountdown = 0
      <3>1. p.busPacketType = "ACTIVATE" /\ r = p.rank /\ b = p.bank =>
              m.currentBankState \in {"Idle", "Refreshing"} /\ m.nextActivate = 0
        BY <1>1 DEF Protocol!Issuable
      <3> HIDE DEF m
      <3> QED
        BY <2>3, <2>4, <3>1
    <2>8. p.busPacketType = "REFRESH" /\ r = p.rank =>
            m.currentBankState # "RowActive" /\ m.stateChangeCountdown <= tRP
      <3>1. p.busPacketType = "REFRESH" /\ r = p.rank =>
              m.currentBankState # "RowActive" /\ m.nextActivate = 0
        BY <1>1 DEF Protocol!Issuable, Protocol!RefreshIssuable, Protocol!BANKS, BANKS
      <3> HIDE DEF m
      <3> QED
        BY <1>3, <2>3, <2>4, <3>1
    <2> HIDE DEF m, n
    <2>9. /\ ClosedIn(n, 0) >= ClosedIn(m, 0) \/ ClosedIn(n, 0) >= RL + BURST
          /\ IsRead(p) /\ r = p.rank /\ b = p.bank => ClosedIn(n, 0) >= RL + 1 + BURST
          /\ IsWrite(p) /\ r = p.rank /\ b = p.bank => ClosedIn(n, 0) >= WL + BURST
          /\ n.currentBankState = "Precharging" =>
               \/ n.stateChangeCountdown = tRP
               \/ /\ n.currentBankState = m.currentBankState
                  /\ n.stateChangeCountdown = m.stateChangeCountdown
      BY <1>1, <2>1, <2>2, <2>5, <2>6, <2>7, <2>8, ClosedAfter
    <2> QED
      BY <2>1, <2>2, <2>9 DEF m, n
  <1>8. PrechargesOver'
    <2> SUFFICES ASSUME NEW r \in RANKS, NEW b \in BANKS, bankStates'[r][b].currentBankState = "Precharging"
                 PROVE  bankStates'[r][b].stateChangeCountdown <= tRP
      BY DEF PrechargesOver
    <2> DEFINE m == bankStates[r][b]
               n == bankStates'[r][b]
    <2>1. \/ n.stateChangeCountdown = tRP
          \/ m.currentBankState = "Precharging" /\ n.stateChangeCountdown = m.stateChangeCountdown
      BY <1>7
    <2>2. m.currentBankState = "Precharging" => m.stateChangeCountdown <= tRP
      BY DEF QuietInv, PrechargesOver
    <2> HIDE DEF m, n
    <2> QED
      BY <1>3, <2>1, <2>2 DEF n
  <1>9. ClosesAfterBursts'
    <2> SUFFICES ASSUME NEW x \in Bursts'
                 PROVE  x.start + BURST <= ClosedIn(bankStates'[x.rank][x.bank], Lag')
      BY DEF ClosesAfterBursts, ClosedIn
    <2> DEFINE v == ClosedIn(bankStates[x.rank][x.bank], 0)
               w == ClosedIn(bankStates'[x.rank][x.bank], 0)
    <2>1. x.rank \in RANKS /\ x.bank \in BANKS /\ x.start \in Int
      BY <1>1, <1>5
    <2>2. /\ w >= v \/ w >= RL + BURST
          /\ IsRead(p) /\ x.rank = p.rank /\ x.bank = p.bank => w >= RL + 1 + BURST
          /\ IsWrite(p) /\ x.rank = p.rank /\ x.bank = p.bank => w >= WL + BURST
          /\ v \in Nat /\ w \in Nat
      BY <1>7, <2>1, ClosedInType
    <2>3. x \in Bursts => x.start + BURST <= v /\ x.start <= RL
      BY <1>1 DEF QuietInv, ClosesAfterBursts
    <2> HIDE DEF v, w
    <2>4. x.start + BURST <= w
      BY <1>3, <1>6, <2>1, <2>2, <2>3
    <2> QED
      BY <1>1, <2>4 DEF w
  <1> QED
    BY <1>8, <1>9 DEF QuietInv

LEMMA QuietInvariance == ASSUME PowerDownTiming PROVE Spec => []QuietInv
  <1>1. Init => QuietInv
    <2> SUFFICES ASSUME Init PROVE QuietInv
      OBVIOUS
    <2>1. /\ outgoingCmdPacket = NoPacket /\ outgoingDataPacket = NoPacket /\ writeData = <<>>
          /\ \A r \in RANKS : readReturn[r] = <<>> /\ rankDataPacket[r] = NoPacket
          /\ \A r \in RANKS, b \in BANKS : bankStates[r][b].currentBankState = "Idle"
      BY DEF Init, MemoryControllerInit, InitBank
    <2>2. Bursts = {}
      BY <2>1 DEF Bursts, WriteBursts, ReadBursts, Queueing, Running, Coming, IsRead, NoPacket
    <2> QED
      BY <2>1, <2>2 DEF QuietInv, PrechargesOver, ClosesAfterBursts
  <1>2. Known /\ Known' /\ QuietInv /\ [Next]_vars => QuietInv'
    <2> SUFFICES ASSUME Known, Known', QuietInv, [Next]_vars PROVE QuietInv'
      OBVIOUS
    <2>1. CASE Begin
      BY <2>1, BeginQuiet
    <2>2. CASE IssueCommand
      BY <2>2, IssueQuiet
    <2>3. CASE /\ UNCHANGED burstVars
               /\ \A r \in RANKS, b \in BANKS : WaitsOn(bankStates[r][b], bankStates'[r][b])
      <3>1. Bursts' = Bursts
        BY <2>3, OtherBursts
      <3>2. /\ BURST \in Nat /\ tRP \in Nat /\ Lag \in Nat /\ Lag' \in Nat
            /\ bankStates \in [RANKS -> [BANKS -> BankStates]]
            /\ bankStates' \in [RANKS -> [BANKS -> BankStates]]
        BY BusNumbers DEF Known, BankInv, BankStates, Lag
      <3>3. ASSUME NEW r \in RANKS, NEW b \in BANKS
            PROVE  LET m == bankStates[r][b]
                       n == bankStates'[r][b]
                   IN  /\ m \in BankStates /\ n \in BankStates
                       /\ ClosedIn(n, Lag') >= ClosedIn(m, Lag)
                       /\ n.currentBankState = "Precharging" =>
                            /\ m.currentBankState = "Precharging"
                            /\ n.stateChangeCountdown = m.stateChangeCountdown
        <4> DEFINE m == bankStates[r][b]
                   n == bankStates'[r][b]
        <4>1. m \in BankStates /\ n \in BankStates
          BY <3>2
        <4>2. /\ m.stateChangeCountdown \in Nat /\ m.nextPrecharge \in Nat
              /\ n.stateChangeCountdown \in Nat /\ n.nextPrecharge \in Nat
          BY <4>1 DEF BankStates
        <4>3. /\ n.nextPrecharge + Lag' >= m.nextPrecharge + Lag
              /\ n.stateChangeCountdown = m.stateChangeCountdown
              /\ \/ n.currentBankState = m.currentBankState
                 \/ n.currentBankState \in {"Idle", "PowerDown"} /\ m.currentBankState # "RowActive"
          BY <2>3 DEF WaitsOn
        <4> HIDE DEF m, n
        <4>4. CASE n.currentBankState = "RowActive" /\ n.stateChangeCountdown = 0
          <5>1. /\ ClosedIn(n, Lag') = tRP + (n.nextPrecharge + Lag')
                /\ ClosedIn(m, Lag) = tRP + (m.nextPrecharge + Lag)
            BY <4>3, <4>4 DEF ClosedIn
          <5> DEFINE v == m.nextPrecharge + Lag
                     w == n.nextPrecharge + Lag'
          <5>2. v \in Nat /\ w \in Nat /\ w >= v
            BY <3>2, <4>2, <4>3
          <5>3. ClosedIn(n, Lag') = tRP + w /\ ClosedIn(m, Lag) = tRP + v
            BY <5>1
          <5> HIDE DEF v, w
          <5>4. ClosedIn(n, Lag') >= ClosedIn(m, Lag)
            BY <3>2, <5>2, <5>3
          <5> QED
            BY <4>1, <4>4, <5>4 DEF m, n
        <4>5. CASE ~(n.currentBankState = "RowActive" /\ n.stateChangeCountdown = 0)
          <5>1. ClosedIn(n, Lag') = ClosedIn(m, Lag)
            BY <4>2, <4>3, <4>5 DEF ClosedIn
          <5>2. ClosedIn(m, Lag) \in Nat
            BY <3>2, <4>1, ClosedInType
          <5> QED
            BY <4>1, <4>3, <5>1, <5>2 DEF m, n
        <4> QED
          BY <4>4, <4>5
      <3>4. PrechargesOver'
        BY <3>3 DEF QuietInv, PrechargesOver
      <3>5. ASSUME NEW x \in Bursts
            PROVE  x.start + BURST <= ClosedIn(bankStates'[x.rank][x.bank], Lag')
        <4> DEFINE v == ClosedIn(bankStates[x.rank][x.bank], Lag)
                   w == ClosedIn(bankStates'[x.rank][x.bank], Lag')
        <4>1. x.rank \in RANKS /\ x.bank \in BANKS /\ x.start \in Int
          BY DelayedFacts DEF Known, BurstsWithin
        <4>2. w >= v /\ w \in Nat /\ v \in Nat
          BY <3>2, <3>3, <4>1, ClosedInType
        <4>3. x.start + BURST <= v
          BY DEF QuietInv, ClosesAfterBursts
        <4> HIDE DEF v, w
        <4>4. x.start + BURST <= w
          BY <3>2, <4>1, <4>2, <4>3
        <4> QED
          BY <4>4 DEF w
      <3>6. ClosesAfterBursts'
        BY <3>1, <3>5 DEF ClosesAfterBursts, ClosedIn
      <3> QED
        BY <3>4, <3>6 DEF QuietInv
    <2> QED
      BY <2>1, <2>2, <2>3, OtherSteps
  <1> QED
    BY <1>1, <1>2, KnownInvariance, PTL DEF Spec

\* A rank that is powered down has nothing to send or to receive on the data bus: for
\* every value of the constants that keeps to PowerDownTiming.
THEOREM PoweredDownRankAlwaysQuiet == ASSUME PowerDownTiming PROVE Spec => []PoweredDownRankIsQuiet
  <1>1. ASSUME Known, QuietInv PROVE PoweredDownRankIsQuiet
    <2> SUFFICES ASSUME NEW r \in RANKS, powerDown[r]
                 PROVE  /\ readReturn[r] = <<>> /\ rankDataPacket[r] = NoPacket
                        /\ \A i \in DOMAIN writeData : writeData[i].packet.rank # r
      BY DEF PoweredDownRankIsQuiet
    <2>1. BURST \in Nat
      BY BusNumbers
    <2>2. ASSUME NEW x \in Bursts, x.rank = r PROVE FALSE
      <3>1. x.bank \in BANKS /\ x.start \in Int /\ 1 - BURST <= x.start
        BY <1>1, DelayedFacts DEF Known, BurstsWithin
      <3>2. bankStates[r][x.bank].currentBankState = "PowerDown" /\ bankStates[r][x.bank].stateChangeCountdown = 0
        BY <1>1, <3>1 DEF Known, BankInv
      <3>3. x.start + BURST <= 0
        BY <1>1, <2>2, <3>2 DEF QuietInv, ClosesAfterBursts, ClosedIn
      <3> QED
        BY <2>1, <3>1, <3>3
    <2>3. readReturn[r] = <<>>
      <3> SUFFICES ASSUME readReturn[r] # <<>> PROVE FALSE
        OBVIOUS
      <3>1. 1 \in DOMAIN readReturn[r]
        BY <1>1 DEF Known, DataInv, Counting
      <3>2. Burst("read", readReturn[r][1].packet, readReturn[r][1].countdown) \in Bursts
        BY <3>1 DEF Bursts, ReadBursts, Queueing
      <3>3. readReturn[r][1].packet.rank = r
        BY <1>1, <3>1 DEF Known, HomeInv
      <3> QED
        BY <2>2, <3>2, <3>3 DEF Burst
    <2>4. rankDataPacket[r] = NoPacket
      <3> SUFFICES ASSUME rankDataPacket[r] # NoPacket PROVE FALSE
        OBVIOUS
      <3>1. \E y \in Bursts : y.rank = r
        BY <1>1, OnTheBusNow
      <3> QED
        BY <2>2, <3>1
    <2>5. ASSUME NEW i \in DOMAIN writeData PROVE writeData[i].packet.rank # r
      <3>1. Burst("write", writeData[i].packet, writeData[i].countdown) \in Bursts
        BY DEF Bursts, WriteBursts, Queueing
      <3> QED
        BY <2>2, <3>1 DEF Burst
    <2> QED
      BY <2>3, <2>4, <2>5
  <1> QED
    BY <1>1, KnownInvariance, QuietInvariance, PTL

-----------------------------------------------------------------------------
(* Every pending read is on its way.  As no rank overwrites a burst that is  *)
(* still on the bus, a read only ever moves on: queue, command bus, rank,    *)
(* data bus, return queue; and what is returned answers it.                  *)

DataOf(t)    == {d \in BusPackets : SameAddress(d, t)}
EntriesOf(t) == {e \in [packet : BusPackets, countdown : Int] : SameAddress(e.packet, t)}

ReadComing(t)  == IsRead(outgoingCmdPacket) /\ SameAddress(outgoingCmdPacket, t)
ReadRunning(t) == rankDataPacket[t.rank] # NoPacket /\ SameAddress(rankDataPacket[t.rank], t)

\* Between its READ's arrival at the rank and its answer.
InRank(t) ==
  Tally(readReturn[t.rank], EntriesOf(t)) + One(ReadRunning(t))
    + Tally(returnTransaction, DataOf(t))

OnItsWay(t) ==
  Tally(queues[KeyOf(t.rank, t.bank)], ReadCommands(t)) + One(ReadComing(t)) + InRank(t)

ReadInv == \A t \in ReadRequests : Tally(pendingReads, {t}) = OnItsWay(t)

LEMMA ReadRequestFacts ==
  ASSUME NEW t \in ReadRequests
  PROVE  /\ t \in Transactions /\ t \in AllTransactions /\ t.transactionType = "DATA_READ"
         /\ t.rank \in RANKS /\ t.bank \in BANKS /\ KeyOf(t.rank, t.bank) \in QueueKeys
  BY FrontEndAssumption, KeyOfType DEF ReadRequests, AllTransactions

\* The parts are numbers.
LEMMA OnItsWayType ==
  ASSUME DataInv, QueuesHome(queues), NEW t \in ReadRequests
  PROVE  /\ Tally(queues[KeyOf(t.rank, t.bank)], ReadCommands(t)) \in Nat
         /\ One(ReadComing(t)) \in {0, 1} /\ One(ReadRunning(t)) \in {0, 1}
         /\ Tally(readReturn[t.rank], EntriesOf(t)) \in Nat
         /\ Tally(returnTransaction, DataOf(t)) \in Nat
         /\ InRank(t) \in Nat
  <1>1. t.rank \in RANKS /\ KeyOf(t.rank, t.bank) \in QueueKeys
    BY ReadRequestFacts
  <1>2. queues[KeyOf(t.rank, t.bank)] \in Seq(CommandsAt(KeyOf(t.rank, t.bank)))
    BY <1>1 DEF QueuesHome
  <1>3. readReturn[t.rank] \in Seq(Entries(RL)) /\ returnTransaction \in Seq(BusPackets)
    BY <1>1 DEF DataInv, Counting
  <1>4. /\ Tally(queues[KeyOf(t.rank, t.bank)], ReadCommands(t)) \in Nat
        /\ Tally(readReturn[t.rank], EntriesOf(t)) \in Nat
        /\ Tally(returnTransaction, DataOf(t)) \in Nat
    BY <1>2, <1>3, TallyType
  <1>5. One(ReadComing(t)) \in {0, 1} /\ One(ReadRunning(t)) \in {0, 1}
    BY OneType
  <1> QED
    BY <1>4, <1>5 DEF InRank

\* An entry leaves a rank's FIFO when its countdown is over.
LEMMA TickedTally ==
  ASSUME NEW max \in Nat, NEW s, Counting(s, max), NEW t
  PROVE  Tally(s, EntriesOf(t))
           = Tally(Ticked(s), EntriesOf(t))
               + One(s # <<>> /\ s[1].countdown = 1 /\ SameAddress(s[1].packet, t))
  <1> DEFINE left == [i \in DOMAIN s |-> [s[i] EXCEPT !.countdown = @ - 1]]
             E    == [packet : BusPackets, countdown : Int]
  <1>1. /\ s \in Seq(Entries(max)) /\ Len(s) \in Nat /\ DOMAIN s = 1 .. Len(s)
        /\ \A i \in 1 .. Len(s) : s[i] \in Entries(max)
    BY DEF Counting
  <1>2. \A i \in 1 .. Len(s) : s[i] \in E /\ left[i] \in E /\ left[i].packet = s[i].packet
    BY <1>1 DEF Entries
  <1>3. left \in Seq(E) /\ Len(left) = Len(s) /\ DOMAIN left = DOMAIN s
    <2>1. left \in [1 .. Len(s) -> E]
      BY <1>1, <1>2
    <2> QED
      BY <2>1, <1>1
  <1>4. Tally(left, EntriesOf(t)) = Tally(s, EntriesOf(t))
    <2>1. \A i \in DOMAIN s : left[i] \in EntriesOf(t) <=> s[i] \in EntriesOf(t)
      BY <1>1, <1>2 DEF EntriesOf
    <2> HIDE DEF left
    <2> QED
      BY <1>3, <2>1, TallySame
  <1>5. Ticked(s) = IF s # <<>> /\ s[1].countdown = 1 THEN Tail(left) ELSE left
    BY DEF Ticked
  <1> HIDE DEF left
  <1>6. CASE s # <<>> /\ s[1].countdown = 1
    <2>1. left # <<>> /\ 1 \in 1 .. Len(s)
      BY <1>1, <1>3, <1>6
    <2>2. Tally(left, EntriesOf(t)) = Tally(Tail(left), EntriesOf(t)) + One(Head(left) \in EntriesOf(t))
      BY <1>3, <2>1, TallyTail
    <2>3. Head(left) = left[1]
      BY <1>3, <2>1
    <2>4. Head(left) \in EntriesOf(t) <=> SameAddress(s[1].packet, t)
      BY <1>2, <2>1, <2>3 DEF EntriesOf
    <2> QED
      BY <1>4, <1>5, <1>6, <2>2, <2>4 DEF One
  <1>7. CASE ~(s # <<>> /\ s[1].countdown = 1)
    <2>1. Tally(s, EntriesOf(t)) \in Nat
      BY <1>1, TallyType
    <2> QED
      BY <1>4, <1>5, <1>7, <2>1 DEF One
  <1> QED
    BY <1>6, <1>7

\* Of the ranks, only the read's own hands over data for it.
LEMMA ReceivedTally ==
  ASSUME DataInv, HomeInv, NEW t \in ReadRequests
  PROVE  Tally(Received[NUM_RANKS], DataOf(t))
           = Tally(returnTransaction, DataOf(t)) + One(BurstDone(t.rank) /\ ReadRunning(t))
  <1> DEFINE D     == DataOf(t)
             begun == Tally(returnTransaction, D)
             own   == One(BurstDone(t.rank) /\ ReadRunning(t))
             Good(k) == /\ Received[k] \in Seq(BusPackets)
                        /\ Tally(Received[k], D) = begun + (IF k > t.rank THEN own ELSE 0)
             Bad   == {k \in 0 .. NUM_RANKS : ~Good(k)}
  <1>1. \E f : f = [k \in 0 .. NUM_RANKS |->
                      IF k = 0 THEN returnTransaction
                      ELSE IF BurstDone(k - 1) THEN Append(f[k-1], rankDataPacket[k-1])
                      ELSE f[k-1]]
    BY ReceivedExists, GeometryAssumption
  <1>2. Received = [k \in 0 .. NUM_RANKS |->
                      IF k = 0 THEN returnTransaction
                      ELSE IF BurstDone(k - 1) THEN Append(Received[k-1], rankDataPacket[k-1])
                      ELSE Received[k-1]]
    BY <1>1, Zenon DEF Received
  <1>3. NUM_RANKS \in Nat /\ t.rank \in 0 .. NUM_RANKS - 1
    BY ReadRequestFacts, GeometryAssumption DEF RANKS
  <1>4. begun \in Nat /\ own \in {0, 1} /\ returnTransaction \in Seq(BusPackets)
    BY TallyType, OneType DEF DataInv
  <1>5. SUFFICES ASSUME Bad # {} PROVE FALSE
    <2>1. Good(NUM_RANKS)
      BY <1>3, <1>5
    <2> QED
      BY <1>3, <2>1
  <1>6. PICK m \in Bad : \A k \in Bad : m <= k
    <2>1. Bad \subseteq Nat
      BY <1>3
    <2> HIDE DEF Bad
    <2> QED
      BY <2>1, <1>5, LeastNumber
  <1>7. m \in 0 .. NUM_RANKS /\ ~Good(m)
    BY <1>6
  <1>8. m # 0
    <2>1. Received[0] = returnTransaction
      BY <1>2, <1>3
    <2>2. ~(0 > t.rank)
      BY <1>3
    <2>3. Tally(Received[0], D) = begun + 0
      BY <1>4, <2>1
    <2>4. Good(0)
      BY <1>4, <2>1, <2>2, <2>3
    <2> QED
      BY <1>7, <2>4
  <1>9. m - 1 \in 0 .. NUM_RANKS - 1 /\ Good(m - 1)
    <2>1. m - 1 \in 0 .. NUM_RANKS /\ ~(m <= m - 1) /\ m - 1 \in 0 .. NUM_RANKS - 1
      BY <1>3, <1>7, <1>8
    <2>2. m - 1 \notin Bad
      BY <1>6, <2>1
    <2> QED
      BY <2>1, <2>2
  <1> DEFINE before == Received[m-1]
  <1>10. /\ before \in Seq(BusPackets)
         /\ Tally(before, D) = begun + (IF m - 1 > t.rank THEN own ELSE 0)
    BY <1>9
  <1>11. Received[m] = IF BurstDone(m - 1) THEN Append(before, rankDataPacket[m-1]) ELSE before
    BY <1>2, <1>7, <1>8
  <1> HIDE DEF before
  <1>12. /\ rankDataPacket[m-1] \in BusPackets \cup {NoPacket}
         /\ rankDataPacket[m-1] # NoPacket => rankDataPacket[m-1].rank = m - 1
    BY <1>9 DEF DataInv, Bursting, HomeInv, RANKS
  <1>13. Tally(before, D) \in Nat
    BY <1>10, TallyType
  <1>14. CASE BurstDone(m - 1)
    <2> DEFINE e == rankDataPacket[m-1]
    <2>1. e \in BusPackets /\ e # NoPacket /\ e.rank = m - 1
      BY <1>12, <1>14 DEF BurstDone
    <2>2. Append(before, e) \in Seq(BusPackets)
      BY <1>10, <2>1, AppendProperties
    <2>3. Tally(Append(before, e), D) = Tally(before, D) + One(e \in D)
      BY <1>10, <2>1, TallyAppend
    <2>4. CASE m - 1 = t.rank
      <3>1. One(e \in D) = own
        BY <1>14, <2>1, <2>4 DEF DataOf, ReadRunning, One
      <3>2. ~(m - 1 > t.rank) /\ m > t.rank
        BY <1>3, <1>9, <2>4
      <3> HIDE DEF e, D, begun, own
      <3>3. Tally(Append(before, e), D) = begun + own
        BY <1>4, <1>10, <2>3, <3>1, <3>2
      <3> QED
        BY <1>7, <1>11, <1>14, <2>2, <3>2, <3>3 DEF e
    <2>5. CASE m - 1 # t.rank
      <3>1. One(e \in D) = 0
        BY <2>1, <2>5 DEF DataOf, SameAddress, One
      <3>2. m - 1 > t.rank <=> m > t.rank
        BY <1>3, <1>9, <2>5
      <3> HIDE DEF e, D, begun, own
      <3>3. Tally(Append(before, e), D) = Tally(before, D)
        BY <1>13, <2>3, <3>1
      <3> QED
        BY <1>7, <1>10, <1>11, <1>14, <2>2, <3>2, <3>3 DEF e
    <2> QED
      BY <2>4, <2>5
  <1>15. CASE ~BurstDone(m - 1)
    <2>1. Received[m] = before
      BY <1>11, <1>15
    <2>2. CASE m - 1 = t.rank
      <3>1. own = 0
        BY <1>15, <2>2 DEF One
      <3>2. ~(m - 1 > t.rank) /\ m > t.rank
        BY <1>3, <1>9, <2>2
      <3> HIDE DEF D, begun, own
      <3> QED
        BY <1>4, <1>7, <1>10, <2>1, <3>1, <3>2
    <2>3. CASE m - 1 # t.rank
      <3>1. m - 1 > t.rank <=> m > t.rank
        BY <1>3, <1>9, <2>3
      <3> HIDE DEF D, begun, own
      <3> QED
        BY <1>7, <1>10, <2>1, <3>1
    <2> QED
      BY <2>2, <2>3
  <1> QED
    BY <1>14, <1>15

\* Begin moves a read on: from the command bus to its rank, from there to the data
\* bus, and from that to the return queue.
LEMMA BeginReads ==
  ASSUME Known, SpacedInv, QueuesHome(queues), ReadInv, Begin
  PROVE  ReadInv'
  <1> SUFFICES ASSUME NEW t \in ReadRequests
               PROVE  Tally(pendingReads', {t}) = OnItsWay(t)'
    BY DEF ReadInv
  <1> DEFINE r   == t.rank
             p   == outgoingCmdPacket
             e   == [packet |-> [p EXCEPT !.busPacketType = "DATA"], countdown |-> RL]
             s   == Ticked(readReturn[r])
             E   == EntriesOf(t)
             D   == DataOf(t)
             due == One(readReturn[r] # <<>> /\ readReturn[r][1].countdown = 1 /\ SameAddress(readReturn[r][1].packet, t))
  <1>1. /\ DataInv /\ HomeInv /\ r \in RANKS /\ Counting(readReturn[r], RL) /\ RL \in Nat
        /\ p \in BusPackets \cup {NoPacket} /\ rankDataPacket[r] \in BusPackets \cup {NoPacket}
        /\ rankDataPacket[r] # NoPacket => rankDataPacket[r].rank = r
    BY ReadRequestFacts, LatencyFacts DEF Known, DataInv, Bursting, HomeInv
  <1>2. /\ queues' = queues /\ pendingReads' = pendingReads
        /\ outgoingCmdPacket' = NoPacket /\ (p # NoPacket => CommandDue)
        /\ returnTransaction' = Received[NUM_RANKS]
        /\ rankDataPacket'[r] = IF NextReadDue(r) THEN readReturn[r][1].packet
                                ELSE IF BurstDone(r) THEN NoPacket ELSE rankDataPacket[r]
        /\ readReturn'[r] = IF CommandDue /\ p.rank = r /\ IsRead(p) THEN Append(s, e) ELSE s
    BY <1>1 DEF Known, BankInv, CommandDue, Begin, DeliverCommand, RankUpdate, NextReadDue, Ticked
  <1>3. /\ Tally(queues[KeyOf(t.rank, t.bank)], ReadCommands(t)) \in Nat
        /\ One(ReadComing(t)) \in {0, 1} /\ One(ReadRunning(t)) \in {0, 1}
        /\ Tally(readReturn[r], E) \in Nat /\ Tally(returnTransaction, D) \in Nat
    BY <1>1, OnItsWayType
  <1>4. One(ReadComing(t)') = 0
    BY <1>2 DEF ReadComing, IsRead, NoPacket, One
  <1>5. Tally(readReturn[r], E) = Tally(s, E) + due
    BY <1>1, TickedTally
  <1>6. s \in Seq([packet : BusPackets, countdown : Int]) /\ Tally(s, E) \in Nat
    <2>1. Counting(s, RL)
      BY <1>1, TickedCounting
    <2> HIDE DEF s
    <2>2. s \in Seq(Entries(RL))
      BY <2>1 DEF Counting
    <2>3. Tally(s, E) \in Nat
      BY <2>2, TallyType
    <2>4. \A i \in 1 .. Len(s) : s[i] \in [packet : BusPackets, countdown : Int]
      <3> TAKE i \in 1 .. Len(s)
      <3>1. s[i] \in Entries(RL)
        BY <2>2
      <3> QED
        BY <1>1, <3>1 DEF Entries
    <2>5. s \in Seq([packet : BusPackets, countdown : Int])
      BY <2>2, <2>4, SeqOfElements
    <2> QED
      BY <2>3, <2>5
  <1>7. Tally(readReturn'[r], E) = Tally(s, E) + One(ReadComing(t))
    <2> HIDE DEF s
    <2>1. CASE CommandDue /\ p.rank = r /\ IsRead(p)
      <3>1. p \in BusPackets /\ e \in [packet : BusPackets, countdown : Int]
        BY <1>1, <2>1 DEF CommandDue, BusPackets
      <3>2. e \in E <=> ReadComing(t)
        BY <2>1, <3>1 DEF EntriesOf, ReadComing, SameAddress, BusPackets
      <3> HIDE DEF e
      <3>3. Tally(Append(s, e), E) = Tally(s, E) + One(e \in E)
        BY <1>6, <3>1, TallyAppend
      <3> QED
        BY <1>2, <2>1, <3>2, <3>3 DEF One
    <2>2. CASE ~(CommandDue /\ p.rank = r /\ IsRead(p))
      <3>1. ~ReadComing(t)
        BY <1>2, <2>2 DEF ReadComing, SameAddress, IsRead, NoPacket
      <3> QED
        BY <1>2, <1>6, <2>2, <3>1 DEF One
    <2> QED
      BY <2>1, <2>2
  <1>8. One(ReadRunning(t)') + Tally(returnTransaction', D)
          = One(ReadRunning(t)) + Tally(returnTransaction, D) + due
    <2>1. Tally(returnTransaction', D)
            = Tally(returnTransaction, D) + One(BurstDone(r) /\ ReadRunning(t))
      BY <1>1, <1>2, ReceivedTally
    <2>2. CASE NextReadDue(r)
      <3>1. readReturn[r][1].packet \in BusPackets
        <4>1. readReturn[r] \in Seq(Entries(RL)) /\ readReturn[r] # <<>>
          BY <1>1, <2>2 DEF Counting, NextReadDue
        <4>2. readReturn[r][1] \in Entries(RL)
          BY <4>1
        <4> QED
          BY <4>2 DEF Entries
      <3>2. readReturn[r][1].packet # NoPacket
        BY <3>1 DEF BusPackets, NoPacket, CommandTypes, ColumnTypes
      <3>3. One(ReadRunning(t)') = due
        BY <1>2, <2>2, <3>2 DEF ReadRunning, NextReadDue, One
      <3>4. One(BurstDone(r) /\ ReadRunning(t)) = One(ReadRunning(t))
        <4>1. rankDataPacket[r] # NoPacket => rankDataCyclesLeft[r] = 1
          BY <1>1, <2>2, SpacedMeansNotOverwritten DEF NoReadOverwritten
        <4> QED
          BY <4>1 DEF BurstDone, ReadRunning, One
      <3>5. due \in {0, 1}
        BY OneType
      <3> HIDE DEF due, D, r
      <3> QED
        BY <1>3, <2>1, <3>3, <3>4, <3>5
    <2>3. CASE ~NextReadDue(r)
      <3>1. due = 0
        BY <2>3 DEF NextReadDue, One
      <3>2. One(ReadRunning(t)') + One(BurstDone(r) /\ ReadRunning(t)) = One(ReadRunning(t))
        BY <1>2, <2>3 DEF ReadRunning, BurstDone, One
      <3>3. One(ReadRunning(t)') \in {0, 1} /\ One(BurstDone(r) /\ ReadRunning(t)) \in {0, 1}
        BY OneType
      <3> HIDE DEF due, D, r
      <3> QED
        BY <1>3, <2>1, <3>1, <3>2, <3>3
    <2> QED
      BY <2>2, <2>3
  <1>9. Tally(pendingReads, {t}) = Tally(queues[KeyOf(t.rank, t.bank)], ReadCommands(t)) + One(ReadComing(t))
          + (Tally(readReturn[r], E) + One(ReadRunning(t)) + Tally(returnTransaction, D))
    BY DEF ReadInv, OnItsWay, InRank
  <1>10. due \in {0, 1} /\ One(ReadRunning(t)') \in {0, 1}
    BY OneType
  <1>11. Tally(returnTransaction', D) \in Nat
    <2>1. returnTransaction' \in Seq(BusPackets)
      <3>1. \A q \in RANKS : rankDataPacket[q] \in BusPackets \cup {NoPacket}
        BY <1>1 DEF DataInv, Bursting
      <3>2. returnTransaction \in Seq(BusPackets)
        BY <1>1 DEF DataInv
      <3> QED
        BY <1>2, <3>1, <3>2, ReceivedType
    <2> QED
      BY <2>1, TallyType
  <1> HIDE DEF due, s, D, E, r, p
  <1>12. Tally(pendingReads, {t}) = Tally(queues[KeyOf(t.rank, t.bank)], ReadCommands(t)) + 0
          + (Tally(readReturn'[r], E) + One(ReadRunning(t)') + Tally(returnTransaction', D))
    <2>1. Tally(readReturn'[r], E) + due = Tally(readReturn[r], E) + One(ReadComing(t))
      BY <1>3, <1>5, <1>6, <1>7, <1>10
    <2>2. Tally(readReturn'[r], E) \in Nat
      BY <1>3, <1>6, <1>7
    <2> QED
      BY <1>3, <1>8, <1>9, <1>10, <1>11, <2>1, <2>2
  <1> QED
    BY <1>2, <1>4, <1>12 DEF OnItsWay, InRank, r, E, D

\* A popped READ goes from its queue to the command bus; nothing else leaves a queue
\* but ACTIVATEs and writes.
LEMMA IssueReads ==
  ASSUME Known, QueuesHome(queues), ReadInv, IssueCommand
  PROVE  ReadInv'
  <1>1. \E p : /\ TakenOut(p) /\ (IsRead(p) => p \in QueueCommands)
               /\ outgoingCmdPacket' = p /\ Idling /\ phase = "issue"
    <2>1. ASSUME NEW p, IssuePopped(p, PopRefreshColumn(p))
          PROVE  /\ TakenOut(p) /\ (IsRead(p) => p \in QueueCommands)
                 /\ outgoingCmdPacket' = p /\ Idling /\ phase = "issue"
      <3>1. PopRefreshColumn(p) /\ outgoingCmdPacket' = p /\ Idling /\ phase = "issue"
        BY <2>1 DEF IssuePopped, Transmit
      <3> QED
        BY <3>1, PopRefreshColumnTakes DEF Known
    <2>2. ASSUME NEW p, IssuePopped(p, PopQueued(p))
          PROVE  /\ TakenOut(p) /\ (IsRead(p) => p \in QueueCommands)
                 /\ outgoingCmdPacket' = p /\ Idling /\ phase = "issue"
      <3>1. PopQueued(p) /\ outgoingCmdPacket' = p /\ Idling /\ phase = "issue"
        BY <2>2 DEF IssuePopped, Transmit
      <3> QED
        BY <3>1, PopQueuedTakes DEF Known
    <2>3. ASSUME NEW p, \/ IssuePopped(p, PopRefreshPrecharge(p)) \/ IssuePopped(p, PopRefresh(p))
                        \/ IssuePopped(p, PopPrecharge(p))
          PROVE  /\ TakenOut(p) /\ (IsRead(p) => p \in QueueCommands)
                 /\ outgoingCmdPacket' = p /\ Idling /\ phase = "issue"
      <3>1. /\ PopRefreshPrecharge(p) \/ PopRefresh(p) \/ PopPrecharge(p)
            /\ outgoingCmdPacket' = p /\ Idling /\ phase = "issue"
        BY <2>3 DEF IssuePopped, Transmit
      <3>2. p.busPacketType \in {"PRECHARGE", "REFRESH"} /\ queues' = queues
        <4>1. PopRefreshPrecharge(p) => p.busPacketType = "PRECHARGE" /\ queues' = queues
          BY DEF PopRefreshPrecharge, Packet
        <4>2. PopRefresh(p) => p.busPacketType = "REFRESH" /\ queues' = queues
          BY DEF PopRefresh, Packet
        <4>3. PopPrecharge(p) => p.busPacketType = "PRECHARGE" /\ queues' = queues
          BY DEF PopPrecharge, Packet
        <4> QED
          BY <3>1, <4>1, <4>2, <4>3
      <3> QED
        BY <3>1, <3>2, OtherTakes
    <2> QED
      BY <2>1, <2>2, <2>3 DEF IssueCommand, IssueForRefresh, IssueRefresh, IssueQueued, IssuePrecharge
  <1>2. PICK p : /\ TakenOut(p) /\ (IsRead(p) => p \in QueueCommands)
                 /\ outgoingCmdPacket' = p /\ Idling /\ phase = "issue"
    BY <1>1
  <1> SUFFICES ASSUME NEW t \in ReadRequests
               PROVE  Tally(pendingReads', {t}) = OnItsWay(t)'
    BY DEF ReadInv
  <1>3. outgoingCmdPacket = NoPacket /\ DataInv
    BY <1>2 DEF Known, BurstsWithin
  <1>4. One(ReadComing(t)) = 0
    BY <1>3 DEF ReadComing, IsRead, NoPacket, One
  <1>5. One(ReadComing(t)') = One(p \in ReadCommands(t))
    BY <1>2 DEF ReadComing, ReadCommands, IsRead, One
  <1>6. InRank(t)' = InRank(t) /\ pendingReads' = pendingReads
    BY <1>2 DEF Idling, rankVars, InRank, ReadRunning
  <1>7. Tally(queues[KeyOf(t.rank, t.bank)], ReadCommands(t))
          = Tally(queues'[KeyOf(t.rank, t.bank)], ReadCommands(t)) + One(p \in ReadCommands(t))
    BY <1>2, ReadRequestFacts DEF TakenOut, ColumnsFor
  <1>8. /\ Tally(queues[KeyOf(t.rank, t.bank)], ReadCommands(t)) \in Nat /\ InRank(t) \in Nat
        /\ Tally(queues'[KeyOf(t.rank, t.bank)], ReadCommands(t)) \in Nat
        /\ One(p \in ReadCommands(t)) \in {0, 1}
    BY <1>2, <1>3, OnItsWayType, OneType, ReadRequestFacts, TallyType DEF TakenOut, QueuesHome
  <1>9. Tally(pendingReads, {t})
          = Tally(queues[KeyOf(t.rank, t.bank)], ReadCommands(t)) + One(ReadComing(t)) + InRank(t)
    BY DEF ReadInv, OnItsWay
  <1>10. Tally(pendingReads, {t})
           = Tally(queues'[KeyOf(t.rank, t.bank)], ReadCommands(t)) + One(ReadComing(t)') + InRank(t)
    BY <1>4, <1>5, <1>7, <1>8, <1>9
  <1> QED
    BY <1>6, <1>10 DEF OnItsWay

\* Dispatch adds a read to the pending ones and its READ to a queue; data that is
\* returned answers a pending read for its address, for there is one.
LEMMA EndReads ==
  ASSUME Known, Conserved, ReadInv, End
  PROVE  ReadInv'
  <1> DEFINE pending == Dispatched.pending
             d       == returnTransaction[1]
             i       == Min(Answers(d, pending))
  <1>1. /\ HoldsRequests /\ transactionQueue \in Seq(AllTransactions) /\ DataInv /\ QueuesHome(queues)
        /\ returnTransaction \in Seq(BusPackets)
    BY DEF Known, ChannelInv, DataInv, Conserved, HoldsRequests
  <1>2. DispatchKeeps(Dispatched)
    BY <1>1, DispatchedConserves
  <1>3. /\ queues' = Dispatched.queues /\ ReturnRead(pending)
        /\ UNCHANGED <<outgoingCmdPacket, readReturn, rankDataPacket>>
    BY DEF End
  <1>4. pending \in Seq(ReadRequests) /\ QueuesHome(queues')
    BY <1>2, <1>3 DEF DispatchKeeps
  <1> SUFFICES ASSUME NEW t \in ReadRequests
               PROVE  Tally(pendingReads', {t}) = OnItsWay(t)'
    BY DEF ReadInv
  <1> DEFINE k == KeyOf(t.rank, t.bank)
             q == Tally(queues[k], ReadCommands(t))
             n == Tally(queues'[k], ReadCommands(t))
             D == DataOf(t)
             mid == Tally(readReturn[t.rank], EntriesOf(t)) + One(ReadRunning(t))
  <1>5. /\ q \in Nat /\ n \in Nat /\ Tally(pendingReads, {t}) \in Nat /\ Tally(pending, {t}) \in Nat
        /\ One(ReadComing(t)) \in Nat /\ mid \in Nat /\ Tally(returnTransaction, D) \in Nat
    <2>1. queues'[k] \in Seq(CommandsAt(k))
      BY <1>4, ReadRequestFacts DEF QueuesHome
    <2>2. n \in Nat
      BY <2>1, TallyType
    <2>3. Tally(pendingReads, {t}) \in Nat /\ Tally(pending, {t}) \in Nat
      BY <1>1, <1>4, TallyType DEF HoldsRequests
    <2> QED
      BY <1>1, <2>2, <2>3, OnItsWayType
  <1>6. Tally(pending, {t}) + q = Tally(pendingReads, {t}) + n
    BY <1>2, <1>3 DEF DispatchKeeps, ReadsFollow
  <1>7. Tally(pendingReads, {t}) = q + One(ReadComing(t)) + (mid + Tally(returnTransaction, D))
    BY DEF ReadInv, OnItsWay, InRank
  <1>8. OnItsWay(t)' = n + One(ReadComing(t)) + (mid + Tally(returnTransaction', D))
    BY <1>3 DEF OnItsWay, InRank, ReadComing, ReadRunning
  <1>9. Tally(pending, {t}) = n + One(ReadComing(t)) + (mid + Tally(returnTransaction, D))
    <2> HIDE DEF pending, q, n, mid, D
    <2> QED
      BY <1>5, <1>6, <1>7
  <1>10. CASE returnTransaction = <<>>
    <2>1. pendingReads' = pending /\ returnTransaction' = returnTransaction
      BY <1>3, <1>10 DEF ReturnRead
    <2> QED
      BY <1>8, <1>9, <2>1
  <1>11. CASE returnTransaction # <<>>
    <2>1. /\ pendingReads' = WithoutAnswered(pending, d)
          /\ returnTransaction' = Tail(returnTransaction)
      BY <1>3, <1>11 DEF ReturnRead
    <2>2. d = Head(returnTransaction) /\ d \in BusPackets /\ Tail(returnTransaction) \in Seq(BusPackets)
      BY <1>1, <1>11, HeadTailProperties
    <2>3. Tally(returnTransaction, D) = Tally(Tail(returnTransaction), D) + One(d \in D)
      BY <1>1, <1>11, <2>2, TallyTail
    <2>4. Tally(Tail(returnTransaction), D) \in Nat /\ One(d \in D) \in {0, 1}
      BY <2>2, TallyType, OneType
    <2>5. Answers(d, pending) # {} =>
            /\ i \in 1 .. Len(pending) /\ pending[i] \in ReadRequests
            /\ WithoutAnswered(pending, d) = RemoveAt(pending, i)
            /\ SameAddress(pending[i], d)
      <3> SUFFICES ASSUME Answers(d, pending) # {}
                   PROVE  /\ i \in 1 .. Len(pending) /\ pending[i] \in ReadRequests
                          /\ WithoutAnswered(pending, d) = RemoveAt(pending, i)
                          /\ SameAddress(pending[i], d)
        OBVIOUS
      <3>1. Answers(d, pending) \in SUBSET Nat
        BY <1>4, LenProperties DEF Answers
      <3>2. i \in Answers(d, pending)
        BY <3>1, MinFacts
      <3> QED
        BY <1>4, <3>2, AnswerFacts DEF Answers
    <2> HIDE DEF i, d
    <2>6. \A j \in 1 .. Len(pending) : SameAddress(pending[j], d) => (d \in D <=> pending[j] = t)
      <3> SUFFICES ASSUME NEW j \in 1 .. Len(pending), SameAddress(pending[j], d)
                   PROVE  d \in D <=> pending[j] = t
        OBVIOUS
      <3>1. pending[j] \in ReadRequests
        BY <1>4
      <3>2. /\ pending[j] \in AllTransactions /\ pending[j].transactionType = "DATA_READ"
            /\ t \in AllTransactions /\ t.transactionType = "DATA_READ"
        BY <3>1, ReadRequestFacts
      <3>3. d \in D <=> SameAddress(pending[j], t)
        BY <2>2 DEF SameAddress, DataOf
      <3>4. SameAddress(pending[j], t) <=> pending[j] = t
        BY <3>2 DEF SameAddress, AllTransactions
      <3> QED
        BY <3>3, <3>4
    <2>7. d \in D => Answers(d, pending) # {}
      <3> SUFFICES ASSUME d \in D PROVE Answers(d, pending) # {}
        OBVIOUS
      <3>1. One(d \in D) = 1
        BY DEF One
      <3>2. Tally(pending, {t}) # 0
        <4> HIDE DEF pending, n, mid, D
        <4> QED
          BY <1>5, <1>9, <2>3, <2>4, <3>1
      <3>3. PICK j \in 1 .. Len(pending) : pending[j] = t
        BY <1>4, <3>2, TallyNone
      <3>4. SameAddress(pending[j], d) /\ j \in DOMAIN pending
        BY <1>4, <3>3, LenProperties DEF DataOf, SameAddress
      <3> QED
        BY <3>4 DEF Answers
    <2>8. Tally(pending, {t}) = Tally(pendingReads', {t}) + One(d \in D)
      <3>1. CASE Answers(d, pending) # {}
        <4>1. Tally(pending, {t}) = Tally(RemoveAt(pending, i), {t}) + One(pending[i] \in {t})
          BY <1>4, <2>5, <3>1, TallyRemoveAt
        <4>2. One(pending[i] \in {t}) = One(d \in D)
          BY <2>5, <2>6, <3>1 DEF One
        <4> QED
          BY <2>1, <2>5, <3>1, <4>1, <4>2
      <3>2. CASE Answers(d, pending) = {}
        <4>1. One(d \in D) = 0
          BY <2>7, <3>2 DEF One
        <4>2. pendingReads' = pending
          BY <2>1, <3>2 DEF WithoutAnswered
        <4> HIDE DEF pending
        <4> QED
          BY <1>5, <4>1, <4>2
      <3> QED
        BY <3>1, <3>2
    <2>9. Tally(pendingReads', {t}) \in Nat
      <3>1. pendingReads' \in Seq(ReadRequests)
        BY <1>4, <2>1, <2>5, RemoveAtFacts DEF WithoutAnswered
      <3> QED
        BY <3>1, TallyType
    <2> HIDE DEF pending, n, mid, D
    <2>10. Tally(pendingReads', {t}) = n + One(ReadComing(t)) + (mid + Tally(Tail(returnTransaction), D))
      BY <1>5, <1>9, <2>3, <2>4, <2>8, <2>9
    <2> QED
      BY <1>8, <2>1, <2>10
  <1> QED
    BY <1>10, <1>11

LEMMA ReadInvariance == Spec => []ReadInv
  <1>1. Init => ReadInv
    <2> SUFFICES ASSUME Init, NEW t \in ReadRequests
                 PROVE  Tally(pendingReads, {t}) = OnItsWay(t)
      BY DEF ReadInv
    <2>1. /\ pendingReads = <<>> /\ returnTransaction = <<>> /\ outgoingCmdPacket = NoPacket
          /\ queues[KeyOf(t.rank, t.bank)] = <<>> /\ readReturn[t.rank] = <<>>
          /\ rankDataPacket[t.rank] = NoPacket
      BY ReadRequestFacts DEF Init, MemoryControllerInit, CommandQueueInit
    <2>2. One(ReadComing(t)) = 0 /\ One(ReadRunning(t)) = 0
      BY <2>1 DEF ReadComing, ReadRunning, IsRead, NoPacket, One
    <2> QED
      BY <2>1, <2>2, TallyEmpty DEF OnItsWay, InRank
  <1>2. Known /\ SpacedInv /\ ConservationInv /\ ReadInv /\ [Next]_vars => ReadInv'
    <2> SUFFICES ASSUME Known, SpacedInv, ConservationInv, ReadInv, [Next]_vars PROVE ReadInv'
      OBVIOUS
    <2>1. CASE UNCHANGED <<queues, pendingReads, returnTransaction, outgoingCmdPacket, readReturn, rankDataPacket>>
      BY <2>1 DEF ReadInv, OnItsWay, InRank, ReadComing, ReadRunning, IsRead
    <2>2. CASE Begin \/ IssueCommand \/ End
      <3>1. error = "none"
        BY <2>2 DEF Begin, IssueCommand, IssueForRefresh, IssueRefresh, IssueQueued, IssuePrecharge,
                    IssuePopped, End
      <3>2. Conserved
        BY <3>1 DEF ConservationInv
      <3>3. QueuesHome(queues)
        BY <3>2 DEF Conserved, HoldsRequests
      <3> QED
        BY <2>2, <3>2, <3>3, BeginReads, IssueReads, EndReads
    <2>3. CASE UNCHANGED vars
      BY <2>1, <2>3 DEF vars, queueVars, controllerVars, rankVars
    <2>4. CASE \E t \in Transactions : AddTransaction(t) \/ ParkTransaction(t)
      BY <2>1, <2>4 DEF AddTransaction, ParkTransaction, queueVars, controllerVars, rankVars
    <2>5. CASE IssueNothing
      BY <2>1, <2>5 DEF IssueNothing, PopNothing, Idling, rankVars
    <2> QED
      BY <2>2, <2>3, <2>4, <2>5 DEF Next, Update, IssueCommand
  <1> QED
    BY <1>1, <1>2, KnownInvariance, SpacedInvariance, ConservationInvariance, PTL DEF Spec

\* For every value of the constants: of each read, as many are pending as are queued,
\* on the command bus, in their rank's pipeline, on the data bus or returned.
THEOREM ReadsAlwaysOnTheWay == Spec => []ReadsOnTheWay
  <1>1. ASSUME DataInv, ChannelInv, ReadInv PROVE ReadsOnTheWay
    <2> SUFFICES ASSUME NEW t \in Transactions, t.transactionType = "DATA_READ"
                 PROVE  Count(pendingReads, LAMBDA u : u = t) =
                          Queued(t, IsRead)
                            + One(IsRead(outgoingCmdPacket) /\ SameAddress(outgoingCmdPacket, t))
                            + Count(readReturn[t.rank], LAMBDA e : SameAddress(e.packet, t))
                            + One(rankDataPacket[t.rank] # NoPacket /\ SameAddress(rankDataPacket[t.rank], t))
                            + Count(returnTransaction, LAMBDA d : SameAddress(d, t))
      BY DEF ReadsOnTheWay
    <2> DEFINE k == KeyOf(t.rank, t.bank)
    <2>1. t \in ReadRequests /\ t.rank \in RANKS /\ k \in QueueKeys
      <3>1. t \in ReadRequests
        BY DEF ReadRequests
      <3> QED
        BY <3>1, ReadRequestFacts
    <2>2. /\ queues[k] \in Seq(QueueCommands) /\ readReturn[t.rank] \in Seq(Entries(RL))
          /\ returnTransaction \in Seq(BusPackets)
      BY <1>1, <2>1 DEF ChannelInv, QueueInv, QueuesSound, QueueSound, DataInv, Counting
    <2>3. Count(pendingReads, LAMBDA u : u = t) = Tally(pendingReads, {t})
      <3>1. {i \in DOMAIN pendingReads : pendingReads[i] = t} = Positions(pendingReads, {t})
        BY DEF Positions
      <3> QED
        BY <3>1 DEF Count, Tally
    <2>4. Queued(t, IsRead) = Tally(queues[k], ReadCommands(t))
      <3>1. \A i \in DOMAIN queues[k] : queues[k][i] \in QueueCommands
        BY <2>2, LenProperties
      <3>2. {i \in DOMAIN queues[k] : SameAddress(queues[k][i], t) /\ IsRead(queues[k][i])}
              = Positions(queues[k], ReadCommands(t))
        BY <3>1 DEF Positions, ReadCommands
      <3> QED
        BY <3>2 DEF Queued, Count, Tally
    <2>5. Count(readReturn[t.rank], LAMBDA e : SameAddress(e.packet, t)) = Tally(readReturn[t.rank], EntriesOf(t))
      <3>1. \A i \in DOMAIN readReturn[t.rank] : readReturn[t.rank][i] \in [packet : BusPackets, countdown : Int]
        <4> TAKE i \in DOMAIN readReturn[t.rank]
        <4>1. readReturn[t.rank][i] \in Entries(RL) /\ RL \in Nat
          BY <2>2, LenProperties, LatencyFacts
        <4> QED
          BY <4>1 DEF Entries
      <3>2. {i \in DOMAIN readReturn[t.rank] : SameAddress(readReturn[t.rank][i].packet, t)}
              = Positions(readReturn[t.rank], EntriesOf(t))
        BY <3>1 DEF Positions, EntriesOf
      <3> QED
        BY <3>2 DEF Count, Tally
    <2>6. Count(returnTransaction, LAMBDA d : SameAddress(d, t)) = Tally(returnTransaction, DataOf(t))
      <3>1. \A i \in DOMAIN returnTransaction : returnTransaction[i] \in BusPackets
        BY <2>2, LenProperties
      <3>2. {i \in DOMAIN returnTransaction : SameAddress(returnTransaction[i], t)}
              = Positions(returnTransaction, DataOf(t))
        BY <3>1 DEF Positions, DataOf
      <3> QED
        BY <3>2 DEF Count, Tally
    <2>7. Tally(pendingReads, {t})
            = Tally(queues[k], ReadCommands(t))
                + One(IsRead(outgoingCmdPacket) /\ SameAddress(outgoingCmdPacket, t))
                + (Tally(readReturn[t.rank], EntriesOf(t))
                     + One(rankDataPacket[t.rank] # NoPacket /\ SameAddress(rankDataPacket[t.rank], t))
                     + Tally(returnTransaction, DataOf(t)))
      BY <1>1, <2>1 DEF ReadInv, OnItsWay, InRank, ReadComing, ReadRunning
    <2>8. /\ Tally(queues[k], ReadCommands(t)) \in Nat /\ Tally(readReturn[t.rank], EntriesOf(t)) \in Nat
          /\ Tally(returnTransaction, DataOf(t)) \in Nat
          /\ One(IsRead(outgoingCmdPacket) /\ SameAddress(outgoingCmdPacket, t)) \in {0, 1}
          /\ One(rankDataPacket[t.rank] # NoPacket /\ SameAddress(rankDataPacket[t.rank], t)) \in {0, 1}
      BY <2>2, TallyType, OneType
    <2> HIDE DEF k
    <2> QED
      BY <2>3, <2>4, <2>5, <2>6, <2>7, <2>8
  <1> QED
    BY <1>1, KnownInvariance, ReadInvariance, PTL DEF Known

-----------------------------------------------------------------------------
(* The promise to the caller.  What is underway is what the CPU waits for and *)
(* has left the transaction queue; the step invariants about requests and     *)
(* pending reads say that it never runs below zero.                           *)

LEMMA FiniteTransactions == IsFiniteSet(Transactions)
  <1> DEFINE Kinds == {"DATA_READ", "DATA_WRITE"}
             D     == ((Kinds \X RANKS) \X (BANKS \X ROWS)) \X COLS
             f     == [d \in D |-> [transactionType |-> d[1][1][1], rank |-> d[1][1][2],
                                    bank |-> d[1][2][1], row |-> d[1][2][2], column |-> d[2]]]
  <1>1. /\ IsFiniteSet(RANKS) /\ IsFiniteSet(BANKS) /\ IsFiniteSet(ROWS) /\ IsFiniteSet(COLS)
    <2>1. /\ NUM_RANKS - 1 \in Int /\ NUM_BANKS - 1 \in Int /\ NUM_ROWS - 1 \in Int
          /\ NUM_COLS - 1 \in Int /\ 0 \in Int
      BY GeometryAssumption
    <2> QED
      BY <2>1, FS_Interval DEF RANKS, BANKS, ROWS, COLS
  <1>2. IsFiniteSet(Kinds)
    <2>1. IsFiniteSet({"DATA_READ"})
      BY FS_Singleton
    <2>2. Kinds = {"DATA_READ"} \cup {"DATA_WRITE"}
      OBVIOUS
    <2> QED
      BY <2>1, <2>2, FS_AddElement
  <1>3. IsFiniteSet(D)
    <2>1. IsFiniteSet(Kinds \X RANKS) /\ IsFiniteSet(BANKS \X ROWS)
      BY <1>1, <1>2, FS_Product
    <2>2. IsFiniteSet((Kinds \X RANKS) \X (BANKS \X ROWS))
      BY <2>1, FS_Product
    <2> HIDE DEF Kinds
    <2> QED
      BY <1>1, <2>2, FS_Product
  <1>4. f \in Surjection(D, AllTransactions)
    <2>1. f \in [D -> AllTransactions]
      BY DEF AllTransactions
    <2>2. ASSUME NEW t \in AllTransactions
          PROVE  \E d \in D : f[d] = t
      <3> DEFINE d == << << <<t.transactionType, t.rank>>, <<t.bank, t.row>> >>, t.column>>
      <3>1. d \in D
        BY DEF AllTransactions
      <3>2. f[d] = t
        BY <3>1 DEF AllTransactions
      <3> QED
        BY <3>1, <3>2
    <2> HIDE DEF f, D
    <2> QED
      BY <2>1, <2>2 DEF Surjection
  <1>5. IsFiniteSet(AllTransactions)
    <2> HIDE DEF f, D
    <2> QED
      BY <1>3, <1>4, FS_Surjection
  <1> QED
    BY <1>5, FrontEndAssumption, FS_Subset

\* The instance means by its operators what the channel means by them.
LEMMA SameCollections ==
  /\ \A f, S : Contract!Total(f, S) = Total(f, S)
  /\ \A S : Contract!InOrder(S) = InOrder(S)
  /\ \A S : Contract!Cardinality(S) = Cardinality(S)
  <1>1. \A f, S : Contract!Total(f, S) = Total(f, S)
    BY DEF Contract!Total, Total, Contract!MapThenSumSet, MapThenSumSet,
           Contract!MapThenFoldSet, MapThenFoldSet
  <1>2. \A S : Contract!Cardinality(S) = Cardinality(S)
    BY DEF Contract!Cardinality, Cardinality
  <1>3. \A S : Contract!InOrder(S) = InOrder(S)
    BY <1>2 DEF Contract!InOrder, InOrder
  <1> QED
    BY <1>1, <1>2, <1>3

LEMMA UnderwayIs ==
  /\ Underway = [t \in Transactions |-> outstanding[t] - Tally(transactionQueue, {t})]
  /\ Underway' = [t \in Transactions |-> outstanding'[t] - Tally(transactionQueue', {t})]
  <1>1. \A s, t : {i \in DOMAIN s : s[i] = t} = Positions(s, {t})
    BY DEF Positions
  <1>2. \A s, t : Cardinality({i \in DOMAIN s : s[i] = t}) = Tally(s, {t})
    BY <1>1 DEF Tally
  <1> QED
    BY <1>2 DEF Underway, Count

-----------------------------------------------------------------------------
(* The bound on what the CPU waits for. *)

ContractInv ==
  /\ pendingTransactions = <<>>
  /\ Unanswered <= MaxTransactions
  /\ ~Endless => Unanswered <= added

\* One request more.
LEMMA AcceptGrows ==
  ASSUME DataInv, NEW t \in Transactions, Accept(t)
  PROVE  Unanswered' = Unanswered + 1 /\ Unanswered \in Nat
  <1>1. /\ outstanding \in [Transactions -> Nat]
        /\ outstanding' = [outstanding EXCEPT ![t] = @ + 1]
    BY DEF DataInv, Accept
  <1>2. \A u \in Transactions : /\ outstanding[u] \in Nat
                                /\ outstanding'[u] = IF u = t THEN outstanding[u] + 1 ELSE outstanding[u]
    BY <1>1
  <1>3. Total(outstanding', Transactions) = Total(outstanding, Transactions) + 1
    <2> PICK f : f = outstanding
      OBVIOUS
    <2> PICK g : g = outstanding'
      OBVIOUS
    <2>1. /\ \A u \in Transactions : f[u] \in Nat /\ g[u] = IF u = t THEN f[u] + 1 ELSE f[u]
          /\ 1 \in Nat /\ t \in Transactions
      BY <1>2
    <2>2. Total(g, Transactions) = Total(f, Transactions) + 1
      BY ONLY <2>1, FiniteTransactions, TotalGrows
    <2> QED
      BY <2>2
  <1>4. Total(outstanding, Transactions) \in Nat
    BY <1>2, FiniteTransactions, TotalType
  <1> QED
    BY <1>3, <1>4 DEF Unanswered

\* One callback, or none.
LEMMA CallbackShrinks ==
  ASSUME outstanding \in [Transactions -> Nat], NEW t,
         \/ outstanding' = outstanding
         \/ outstanding[t] # 0 /\ outstanding' = CalledBack(t, outstanding)
  PROVE  Unanswered' <= Unanswered /\ Unanswered \in Nat /\ Unanswered' \in Nat
  <1>1. outstanding' \in [Transactions -> Nat]
    BY CalledBackType
  <1>2. Total(outstanding, Transactions) \in Nat /\ Total(outstanding', Transactions) \in Nat
    BY <1>1, FiniteTransactions, TotalType
  <1>3. CASE outstanding' = outstanding
    BY <1>2, <1>3 DEF Unanswered
  <1>4. CASE outstanding' # outstanding
    <2>1. t \in Transactions /\ outstanding[t] # 0 /\ outstanding' = [outstanding EXCEPT ![t] = @ - 1]
      BY <1>4 DEF CalledBack
    <2>2. \A u \in Transactions : /\ outstanding'[u] \in Nat
                                  /\ outstanding[u] = IF u = t THEN outstanding'[u] + 1 ELSE outstanding'[u]
      BY <1>1, <2>1
    <2>3. t \in Transactions
      BY <2>1
    <2>4. Total(outstanding, Transactions) = Total(outstanding', Transactions) + 1
      BY ONLY <2>2, <2>3, FiniteTransactions, TotalGrows
    <2> QED
      BY <1>2, <2>4 DEF Unanswered
  <1> QED
    BY <1>3, <1>4

\* What Begin and End do to the CPU's view.
LEMMA UpdateCallsBack ==
  ASSUME Begin \/ End
  PROVE  \E t : \/ outstanding' = outstanding
                \/ outstanding[t] # 0 /\ outstanding' = CalledBack(t, outstanding)
  <1>1. CASE Begin
    <2> DEFINE done == WriteRequest(outgoingDataPacket)
    <2>1. \/ outstanding' = outstanding
          \/ outstanding[done] # 0 /\ outstanding' = CalledBack(done, outstanding)
      BY <1>1 DEF Begin
    <2> QED
      BY <2>1
  <1>2. CASE End
    <2> DEFINE pending == Dispatched.pending
               answer  == pending[Min(Answers(returnTransaction[1], pending))]
    <2>1. \/ outstanding' = outstanding
          \/ outstanding[answer] > 0 /\ outstanding' = CalledBack(answer, outstanding)
      BY <1>2 DEF End, ReturnRead
    <2> HIDE DEF answer
    <2>2. outstanding[answer] > 0 => outstanding[answer] # 0
      OBVIOUS
    <2> QED
      BY <2>1, <2>2
  <1> QED
    BY <1>1, <1>2

LEMMA ContractInvariance == ASSUME ~Buffered PROVE Spec => []ContractInv
  <1>1. Init => ContractInv
    <2> SUFFICES ASSUME Init PROVE ContractInv
      OBVIOUS
    <2>1. pendingTransactions = <<>> /\ outstanding = [t \in Transactions |-> 0] /\ added = 0
      BY DEF Init
    <2>2. Unanswered = 0
      BY <2>1, FiniteTransactions, TotalOfZeros DEF Unanswered
    <2> QED
      BY <2>1, <2>2, FrontEndAssumption DEF ContractInv
  <1>2. DataInv /\ ContractInv /\ [Next]_vars => ContractInv'
    <2> SUFFICES ASSUME DataInv, ContractInv, [Next]_vars PROVE ContractInv'
      OBVIOUS
    <2>1. outstanding \in [Transactions -> Nat] /\ added \in Nat
      BY DEF DataInv
    <2>2. CASE UNCHANGED <<pendingTransactions, outstanding, added>>
      BY <2>2 DEF ContractInv, Unanswered
    <2>3. ASSUME NEW t \in Transactions, AddTransaction(t)
          PROVE  ContractInv'
      <3>1. Accept(t) /\ UNCHANGED pendingTransactions
        BY <2>3 DEF AddTransaction
      <3>2. Unanswered' = Unanswered + 1 /\ Unanswered \in Nat
        BY <3>1, AcceptGrows
      <3>3. \/ Endless /\ Unanswered < MaxTransactions /\ added' = added
            \/ ~Endless /\ added < MaxTransactions /\ added' = added + 1
        BY <3>1 DEF Accept
      <3> QED
        BY <2>1, <3>1, <3>2, <3>3, FrontEndAssumption DEF ContractInv
    <2>4. ASSUME NEW t \in Transactions, ParkTransaction(t)
          PROVE  FALSE
      BY <2>4 DEF ParkTransaction
    <2>5. CASE Begin \/ End
      <3>1. UNCHANGED added /\ pendingTransactions' = <<>>
        BY <2>5 DEF Begin, End, UnparkTransaction, ContractInv
      <3>2. Unanswered' <= Unanswered /\ Unanswered \in Nat /\ Unanswered' \in Nat
        BY <2>1, <2>5, UpdateCallsBack, CallbackShrinks
      <3> QED
        BY <2>1, <3>1, <3>2, FrontEndAssumption DEF ContractInv
    <2>6. CASE IssueForRefresh \/ IssueRefresh \/ IssueQueued \/ IssuePrecharge \/ IssueNothing
      BY <2>2, <2>6 DEF IssueForRefresh, IssueRefresh, IssueQueued, IssuePrecharge, IssuePopped,
                        IssueNothing, Idling
    <2>7. CASE UNCHANGED vars
      BY <2>2, <2>7 DEF vars
    <2> QED
      BY <2>3, <2>4, <2>5, <2>6, <2>7 DEF Next, Update
  <1> QED
    BY <1>1, <1>2, DataInvariance, PTL DEF Spec

-----------------------------------------------------------------------------
(* Dispatch takes transactions out of the queue and leaves the others in order. *)

TakesOut(s) ==
  s.transactions \in Seq(Transactions) /\ \E L : Kept(s.transactions, transactionQueue, L)

LEMMA DispatchAtTakesOut ==
  ASSUME transactionQueue \in Seq(Transactions), NEW s, TakesOut(s), NEW i \in Nat \ {0}
  PROVE  TakesOut(DispatchAt(s, i))
  <1>1. CASE i > Len(s.transactions) \/ ~HasRoomFor(2, s.queues, s.transactions[i].rank, s.transactions[i].bank)
    BY <1>1 DEF DispatchAt
  <1>2. CASE ~(i > Len(s.transactions)) /\ HasRoomFor(2, s.queues, s.transactions[i].rank, s.transactions[i].bank)
    <2>1. DispatchAt(s, i).transactions = RemoveAt(s.transactions, i)
      BY <1>2 DEF DispatchAt
    <2> DEFINE ts == s.transactions
    <2>2. ts \in Seq(Transactions) /\ \E L : Kept(ts, transactionQueue, L)
      BY DEF TakesOut
    <2>3. i \in 1 .. Len(ts)
      BY <1>2, <2>2, LenProperties
    <2> HIDE DEF ts
    <2>4. RemoveAt(ts, i) \in Seq(Transactions)
      BY <2>2, <2>3, RemoveAtFacts
    <2>5. \E M : Kept(RemoveAt(ts, i), transactionQueue, M)
      BY <2>2, <2>3, KeptRemove
    <2> QED
      BY <2>1, <2>4, <2>5 DEF TakesOut, ts
  <1> QED
    BY <1>1, <1>2

LEMMA DispatchedTakesOut ==
  ASSUME transactionQueue \in Seq(Transactions)
  PROVE  TakesOut(Dispatched)
  <1> DEFINE n   == Len(transactionQueue)
             Bad == {i \in 0 .. n : ~TakesOut(Dispatching[i])}
  <1>1. n \in Nat /\ transactionQueue \in Seq(AllTransactions)
    BY LenProperties, FrontEndAssumption
  <1>2. /\ Dispatching[0] = DispatchStart
        /\ \A i \in 1 .. n : Dispatching[i] = DispatchAt(Dispatching[i-1], i)
    BY <1>1, DispatchingDef
  <1>3. SUFFICES ASSUME Bad # {} PROVE FALSE
    BY <1>1 DEF Dispatched
  <1>4. PICK m \in Bad : \A k \in Bad : m <= k
    <2>1. Bad \subseteq Nat
      BY <1>1
    <2> QED
      BY <2>1, <1>3, LeastNumber
  <1>5. CASE m = 0
    <2>1. TakesOut(DispatchStart)
      <3>1. DispatchStart.transactions = transactionQueue
        BY DEF DispatchStart
      <3>2. Kept(transactionQueue, transactionQueue, {})
        BY KeptAll
      <3> QED
        BY <3>1, <3>2 DEF TakesOut
    <2> QED
      BY <1>2, <1>4, <1>5, <2>1
  <1>6. CASE m # 0
    <2>1. m \in 1 .. n /\ m - 1 \in 0 .. n /\ m - 1 \notin Bad
      BY <1>1, <1>4, <1>6
    <2>2. TakesOut(Dispatching[m-1])
      BY <2>1
    <2>3. TakesOut(Dispatching[m])
      BY <1>1, <1>2, <2>1, <2>2, DispatchAtTakesOut
    <2> QED
      BY <1>4, <2>3
  <1> QED
    BY <1>5, <1>6
-----------------------------------------------------------------------------
(* What is underway. *)

LEMMA UnderwayFacts ==
  ASSUME Conserved, pendingTransactions = <<>>, NEW t \in Transactions
  PROVE  /\ Underway[t] = outstanding[t] - Tally(transactionQueue, {t})
         /\ Underway[t] \in Nat /\ outstanding[t] \in Nat /\ Tally(transactionQueue, {t}) \in Nat
         /\ Underway[t] >= Tally(pendingReads, {t}) /\ Underway[t] >= Sending(t)
         /\ Tally(pendingReads, {t}) \in Nat /\ Sending(t) \in Nat
  <1> DEFINE w == Tally(queues[KeyOf(t.rank, t.bank)], WriteCommands(t))
  <1>1. HoldsRequests /\ outstanding[t] \in Nat
    BY DEF Conserved, HoldsRequests
  <1>2. /\ Tally(transactionQueue, {t}) \in Nat /\ Tally(pendingReads, {t}) \in Nat
        /\ w \in Nat /\ Sending(t) \in Nat
    BY <1>1, TalliesType
  <1>3. Tally(pendingTransactions, {t}) = 0
    BY TallyEmpty
  <1>4. outstanding[t] = 0 + (Tally(transactionQueue, {t}) + Tally(pendingReads, {t}) + w) + Sending(t)
    BY <1>3 DEF Conserved, Balanced, Inside
  <1>5. Underway[t] = outstanding[t] - Tally(transactionQueue, {t})
    BY UnderwayIs
  <1> HIDE DEF w
  <1> QED
    BY <1>1, <1>2, <1>4, <1>5

LEMMA UnderwayTotal ==
  ASSUME Conserved, pendingTransactions = <<>>
  PROVE  /\ Total(Underway, Transactions) + Len(transactionQueue) = Unanswered
         /\ Total(Underway, Transactions) \in Nat /\ Len(transactionQueue) \in Nat
  <1> DEFINE w == [t \in Transactions |-> Tally(transactionQueue, {t})]
  <1>1. transactionQueue \in Seq(Transactions)
    BY DEF Conserved, HoldsRequests
  <1>2. \A t \in Transactions : /\ Underway[t] \in Nat /\ w[t] \in Nat
                                /\ outstanding[t] = Underway[t] + w[t]
    <2> SUFFICES ASSUME NEW t \in Transactions
                 PROVE  Underway[t] \in Nat /\ w[t] \in Nat /\ outstanding[t] = Underway[t] + w[t]
      OBVIOUS
    <2>1. w[t] = Tally(transactionQueue, {t})
      OBVIOUS
    <2> HIDE DEF w
    <2> QED
      BY <2>1, UnderwayFacts
  <1>3. \A t \in Transactions : w[t] = Tally(transactionQueue, {t})
    OBVIOUS
  <1> HIDE DEF w
  <1>4. Total(outstanding, Transactions) = Total(Underway, Transactions) + Total(w, Transactions)
    BY <1>2, FiniteTransactions, TotalAdds
  <1>5. Total(w, Transactions) = Len(transactionQueue)
    BY <1>1, <1>3, FiniteTransactions, TotalOfTallies
  <1>6. Total(Underway, Transactions) \in Nat
    BY <1>2, FiniteTransactions, TotalType
  <1> QED
    BY <1>1, <1>4, <1>5, <1>6, LenProperties DEF Unanswered

\* The same is underway.
LEMMA SameUnderway ==
  ASSUME \A t \in Transactions : outstanding'[t] - Tally(transactionQueue', {t})
                                   = outstanding[t] - Tally(transactionQueue, {t})
  PROVE  Underway' = Underway
  BY UnderwayIs

-----------------------------------------------------------------------------
(* Every step is one of the contract. *)

LEMMA AddImplements ==
  ASSUME Conserved, NEW t \in Transactions, AddTransaction(t)
  PROVE  Contract!Accept(t)
  <1>1. /\ phase = "begin" /\ phase' = phase
        /\ Len(transactionQueue) < TRANS_QUEUE_DEPTH
        /\ transactionQueue' = Append(transactionQueue, t)
        /\ outstanding' = [outstanding EXCEPT ![t] = @ + 1]
    BY DEF AddTransaction, Accept, WillAcceptTransaction
  <1>2. transactionQueue \in Seq(Transactions) /\ outstanding \in [Transactions -> Nat]
    BY DEF Conserved, HoldsRequests
  <1>3. ASSUME NEW u \in Transactions
        PROVE  outstanding'[u] - Tally(transactionQueue', {u}) = outstanding[u] - Tally(transactionQueue, {u})
    <2>1. Tally(transactionQueue', {u}) = Tally(transactionQueue, {u}) + One(t \in {u})
      BY <1>1, <1>2, TallyAppend
    <2>2. outstanding'[u] = outstanding[u] + One(t \in {u})
      BY <1>1, <1>2 DEF One
    <2>3. outstanding[u] \in Nat /\ Tally(transactionQueue, {u}) \in Nat /\ One(t \in {u}) \in {0, 1}
      BY <1>2, TallyType, OneType
    <2> QED
      BY <2>1, <2>2, <2>3
  <1>4. Underway' = Underway
    BY <1>3, SameUnderway
  <1> QED
    BY <1>1, <1>4 DEF Contract!Accept, Contract!HasRoom, Half

LEMMA BeginImplements ==
  ASSUME Conserved, pendingTransactions = <<>>, Begin
  PROVE  \E A \in Contract!AtMostOne("DATA_WRITE") : Contract!BeginUpdate(A)
  <1> DEFINE done == WriteRequest(outgoingDataPacket)
  <1> PICK A : A = IF DataDone THEN {done} ELSE {}
    OBVIOUS
  <1>1. /\ phase = "begin" /\ phase' = "issue"
        /\ transactionQueue' = transactionQueue
        /\ outstanding' = IF DataDone /\ ~(DataDone /\ outstanding[done] = 0)
                          THEN CalledBack(done, outstanding) ELSE outstanding
    BY DEF Begin, UnparkTransaction
  <1>2. outstanding \in [Transactions -> Nat]
    BY DEF Conserved, HoldsRequests
  <1>3. ASSUME DataDone
        PROVE  /\ done \in Transactions /\ done.transactionType = "DATA_WRITE"
               /\ Underway[done] > 0 /\ outstanding[done] > 0
    <2>1. done \in Transactions /\ One(OnTheBus(done)) = 1 /\ done.transactionType = "DATA_WRITE"
      BY <1>3 DEF DataDone, Conserved, HoldsRequests, OnTheBus, One, WriteRequest
    <2> HIDE DEF done
    <2>2. Tally(writeData, DataFor(done)) \in Nat
      BY <2>1, TalliesType DEF Conserved
    <2>3. Sending(done) > 0
      BY <2>1, <2>2 DEF Sending
    <2>4. /\ Underway[done] = outstanding[done] - Tally(transactionQueue, {done})
          /\ Underway[done] \in Nat /\ outstanding[done] \in Nat
          /\ Tally(transactionQueue, {done}) \in Nat
          /\ Underway[done] >= Sending(done) /\ Sending(done) \in Nat
      BY <2>1, UnderwayFacts
    <2> QED
      BY <2>1, <2>3, <2>4
  <1>4. A \in Contract!AtMostOne("DATA_WRITE")
    <2>1. CASE DataDone
      <3>1. A = {done}
        BY <2>1
      <3>2. /\ done \in Transactions /\ done.transactionType = "DATA_WRITE"
            /\ Underway[done] > 0
        BY <1>3, <2>1
      <3> HIDE DEF done
      <3> QED
        BY <3>1, <3>2 DEF Contract!AtMostOne
    <2>2. CASE ~DataDone
      BY <2>2 DEF Contract!AtMostOne
    <2> QED
      BY <2>1, <2>2
  <1>5. ASSUME NEW t \in Transactions
        PROVE  outstanding'[t] = IF t \in A THEN outstanding[t] - 1 ELSE outstanding[t]
    <2>1. CASE DataDone
      <3>1. outstanding' = [outstanding EXCEPT ![done] = @ - 1] /\ A = {done}
        BY <1>1, <1>3, <2>1 DEF CalledBack
      <3> HIDE DEF done
      <3> QED
        BY <1>2, <3>1
    <2>2. CASE ~DataDone
      BY <1>1, <2>2
    <2> QED
      BY <2>1, <2>2
  <1>6. Underway' = [t \in Transactions |-> IF t \in A THEN Underway[t] - 1 ELSE Underway[t]]
    <2>1. ASSUME NEW t \in Transactions
          PROVE  outstanding'[t] - Tally(transactionQueue', {t})
                   = IF t \in A THEN Underway[t] - 1 ELSE Underway[t]
      <3>1. /\ Underway[t] = outstanding[t] - Tally(transactionQueue, {t})
            /\ outstanding[t] \in Nat /\ Tally(transactionQueue, {t}) \in Nat
        BY UnderwayFacts
      <3> QED
        BY <1>1, <1>5, <3>1
    <2> QED
      BY <2>1, UnderwayIs
  <1>7. Contract!BeginUpdate(A)
    BY <1>1, <1>4, <1>6 DEF Contract!BeginUpdate, Half
  <1> QED
    BY <1>4, <1>7
\* The request that the data returned first answers has been underway.
LEMMA AnswerUnderway ==
  ASSUME Known, Conserved, ReadInv, pendingTransactions = <<>>, returnTransaction # <<>>,
         NEW i, i = Min(Answers(returnTransaction[1], Dispatched.pending)),
         Answers(returnTransaction[1], Dispatched.pending) # {}
  PROVE  LET answer == Dispatched.pending[i]
         IN  answer \in ReadRequests /\ Underway[answer] > 0 /\ outstanding[answer] > 0
  <1> DEFINE pending == Dispatched.pending
             d       == returnTransaction[1]
             answer  == pending[i]
  <1>1. /\ HoldsRequests /\ transactionQueue \in Seq(AllTransactions) /\ DataInv /\ QueuesHome(queues)
        /\ returnTransaction \in Seq(BusPackets)
    BY DEF Known, ChannelInv, DataInv, Conserved, HoldsRequests
  <1>2. pending \in Seq(ReadRequests)
    BY <1>1, DispatchedConserves DEF DispatchKeeps
  <1>3. i \in 1 .. Len(pending) /\ answer \in ReadRequests /\ SameAddress(answer, d)
    <2> HIDE DEF pending, d
    <2>1. i = Min(Answers(d, pending)) /\ Answers(d, pending) # {}
      BY DEF pending, d
    <2>2. Answers(d, pending) \subseteq Nat
      BY <1>2, LenProperties DEF Answers
    <2>3. i \in Answers(d, pending)
      BY <2>1, <2>2, MinFacts
    <2>4. i \in 1 .. Len(pending) /\ SameAddress(pending[i], d)
      BY <1>2, <2>3, LenProperties DEF Answers
    <2>5. pending[i] \in ReadRequests
      BY <1>2, <2>4
    <2> QED
      BY <2>4, <2>5
  <1> HIDE DEF answer
  <1>4. d \in BusPackets /\ 1 \in 1 .. Len(returnTransaction)
    BY <1>1, EmptySeq, LenProperties
  <1>5. d \in DataOf(answer)
    BY <1>3, <1>4 DEF DataOf, SameAddress
  <1>6. Tally(returnTransaction, DataOf(answer)) > 0
    BY <1>1, <1>4, <1>5, TallySome
  <1>7. Tally(pendingReads, {answer}) > 0
    <2>1. /\ Tally(queues[KeyOf(answer.rank, answer.bank)], ReadCommands(answer)) \in Nat
          /\ One(ReadComing(answer)) \in {0, 1} /\ One(ReadRunning(answer)) \in {0, 1}
          /\ Tally(readReturn[answer.rank], EntriesOf(answer)) \in Nat
          /\ Tally(returnTransaction, DataOf(answer)) \in Nat
      BY <1>1, <1>3, OnItsWayType
    <2>2. Tally(pendingReads, {answer})
            = Tally(queues[KeyOf(answer.rank, answer.bank)], ReadCommands(answer))
                + One(ReadComing(answer))
                + (Tally(readReturn[answer.rank], EntriesOf(answer)) + One(ReadRunning(answer))
                     + Tally(returnTransaction, DataOf(answer)))
      BY <1>3 DEF ReadInv, OnItsWay, InRank
    <2> QED
      BY <1>6, <2>1, <2>2
  <1>8. answer \in Transactions
    BY <1>3 DEF ReadRequests
  <1>9. /\ Underway[answer] = outstanding[answer] - Tally(transactionQueue, {answer})
        /\ Underway[answer] \in Nat /\ outstanding[answer] \in Nat
        /\ Tally(transactionQueue, {answer}) \in Nat
        /\ Underway[answer] >= Tally(pendingReads, {answer}) /\ Tally(pendingReads, {answer}) \in Nat
    BY <1>8, UnderwayFacts
  <1> QED
    BY <1>3, <1>7, <1>9 DEF answer

LEMMA EndImplements ==
  ASSUME Known, Conserved, ReadInv, ContractInv, End
  PROVE  \E L \in SUBSET DOMAIN transactionQueue, A \in Contract!AtMostOne("DATA_READ") :
           Contract!EndUpdate(L, A)
  <1> DEFINE pending == Dispatched.pending
             i       == Min(Answers(returnTransaction[1], pending))
             answer  == pending[i]
             answers == returnTransaction # <<>> /\ Answers(returnTransaction[1], pending) # {}
  <1>1. /\ phase = "end" /\ phase' = "begin"
        /\ transactionQueue' = Dispatched.transactions
        /\ ReturnRead(pending)
    BY DEF End
  <1>2. /\ transactionQueue \in Seq(Transactions) /\ outstanding \in [Transactions -> Nat]
        /\ pendingTransactions = <<>>
    BY DEF Conserved, HoldsRequests, ContractInv
  <1>3. TakesOut(Dispatched)
    BY <1>2, DispatchedTakesOut
  <1>5. transactionQueue' \in Seq(Transactions)
    BY <1>1, <1>3 DEF TakesOut
  <1> PICK s : s = transactionQueue
    OBVIOUS
  <1> PICK r : r = transactionQueue'
    OBVIOUS
  <1>s. /\ s = transactionQueue /\ r = transactionQueue'
        /\ s \in Seq(Transactions) /\ r \in Seq(Transactions)
    BY <1>2, <1>5
  <1>4. PICK L : Kept(r, s, L)
    BY <1>1, <1>3, <1>s DEF TakesOut
  <1> PICK A : A = IF answers THEN {answer} ELSE {}
    OBVIOUS
  <1>6. ASSUME answers
        PROVE  /\ answer \in Transactions /\ answer.transactionType = "DATA_READ"
               /\ Underway[answer] > 0 /\ outstanding[answer] > 0
    BY <1>2, <1>6, AnswerUnderway DEF ReadRequests
  <1>7. A \in Contract!AtMostOne("DATA_READ")
    <2>1. CASE answers
      <3>1. A = {answer}
        BY <2>1
      <3>2. answer \in Transactions /\ answer.transactionType = "DATA_READ" /\ Underway[answer] > 0
        BY <1>6, <2>1
      <3> HIDE DEF answer
      <3> QED
        BY <3>1, <3>2 DEF Contract!AtMostOne
    <2>2. CASE ~answers
      BY <2>2 DEF Contract!AtMostOne
    <2> QED
      BY <2>1, <2>2
  <1>8. ASSUME NEW t \in Transactions
        PROVE  outstanding'[t] = outstanding[t] - (IF t \in A THEN 1 ELSE 0)
    <2>1. outstanding[t] \in Nat
      BY <1>2
    <2>2. CASE answers
      <3>1. /\ outstanding' = [outstanding EXCEPT ![answer] = @ - 1]
            /\ t \in A <=> t = answer
        BY <1>1, <1>6, <2>2 DEF ReturnRead, CalledBack
      <3> HIDE DEF answer, answers
      <3>2. CASE t = answer
        BY <1>2, <3>1, <3>2
      <3>3. CASE t # answer
        <4>1. outstanding'[t] = outstanding[t]
          BY <1>2, <3>1, <3>3
        <4>2. t \notin A
          BY <3>1, <3>3
        <4> QED
          BY <2>1, <4>1, <4>2
      <3> QED
        BY <3>2, <3>3
    <2>3. CASE ~answers
      <3>1. outstanding' = outstanding /\ t \notin A
        BY <1>1, <2>3 DEF ReturnRead
      <3> HIDE DEF answers
      <3>2. outstanding'[t] = outstanding[t]
        BY <3>1
      <3> QED
        BY <2>1, <3>1, <3>2
    <2> QED
      BY <2>2, <2>3
  <1> HIDE DEF answers, answer, i, pending
  <1>9. /\ L \in SUBSET DOMAIN transactionQueue
        /\ LET stays == InOrder(DOMAIN transactionQueue \ L)
           IN  transactionQueue' = [j \in DOMAIN stays |-> transactionQueue[stays[j]]]
    <2>1. LET stays == InOrder(DOMAIN s \ L)
          IN  L \subseteq DOMAIN s /\ r = [j \in DOMAIN stays |-> s[stays[j]]]
      BY <1>4, <1>s, KeptInOrder
    <2> QED
      BY <1>s, <2>1
  <1>10. Underway' = [t \in Transactions |->
                        Underway[t] + Cardinality({j \in L : transactionQueue[j] = t})
                          - (IF t \in A THEN 1 ELSE 0)]
    <2>1. ASSUME NEW t \in Transactions
          PROVE  outstanding'[t] - Tally(transactionQueue', {t})
                   = Underway[t] + Cardinality({j \in L : transactionQueue[j] = t})
                       - (IF t \in A THEN 1 ELSE 0)
      <3> DEFINE out == Cardinality({j \in L : transactionQueue[j] = t})
      <3>1. Tally(transactionQueue, {t}) = Tally(transactionQueue', {t}) + out
        <4>1. Tally(s, {t}) = Tally(r, {t}) + Cardinality(L \cap Positions(s, {t}))
          <5>1. Splits(r, s, L, {t})
            BY <1>4, <1>s, KeptTally
          <5> QED
            BY <5>1 DEF Splits
        <4>2. L \cap Positions(s, {t}) = {j \in L : transactionQueue[j] = t}
          BY <1>s, <1>9 DEF Positions
        <4>3. Cardinality(L \cap Positions(s, {t})) = out
          BY <4>2
        <4>4. /\ Tally(s, {t}) = Tally(transactionQueue, {t})
              /\ Tally(r, {t}) = Tally(transactionQueue', {t})
          BY <1>s DEF Tally, Positions
        <4> HIDE DEF out
        <4> QED
          BY <4>1, <4>3, <4>4
      <3>2. /\ Underway[t] = outstanding[t] - Tally(transactionQueue, {t})
            /\ outstanding[t] \in Nat
        BY <1>2, UnderwayFacts
      <3>3. out \in Nat
        <4>1. IsFiniteSet(L)
          BY <1>2, <1>9, LenProperties, FirstNumbers, FS_Subset
        <4>2. IsFiniteSet({j \in L : transactionQueue[j] = t})
          BY <4>1, FS_Subset
        <4> QED
          BY <4>2, FS_CardinalityType
      <3>4. Tally(transactionQueue', {t}) \in Nat
        BY <1>5, TallyType
      <3> HIDE DEF out
      <3>5. outstanding'[t] - Tally(transactionQueue', {t})
              = Underway[t] + out - (IF t \in A THEN 1 ELSE 0)
        BY <1>8, <3>1, <3>2, <3>3, <3>4
      <3> QED
        BY <3>5 DEF out
    <2> QED
      BY <2>1, UnderwayIs
  <1>11. Total(Underway, Transactions) + Cardinality(L) <= MaxTransactions + 1
    <2>1. L \subseteq 1 .. Len(transactionQueue) /\ Len(transactionQueue) \in Nat
      BY <1>2, <1>9, LenProperties
    <2>2. Cardinality(L) <= Len(transactionQueue) /\ Cardinality(L) \in Nat
      <3>1. /\ IsFiniteSet(1 .. Len(transactionQueue))
            /\ Cardinality(1 .. Len(transactionQueue)) = Len(transactionQueue)
        BY <2>1, FirstNumbers
      <3>2. IsFiniteSet(L) /\ Cardinality(L) <= Cardinality(1 .. Len(transactionQueue))
        BY <2>1, <3>1, FS_Subset
      <3> QED
        BY <3>1, <3>2, FS_CardinalityType
    <2>3. /\ Total(Underway, Transactions) + Len(transactionQueue) = Unanswered
          /\ Total(Underway, Transactions) \in Nat
      BY <1>2, UnderwayTotal
    <2>4. Unanswered <= MaxTransactions /\ MaxTransactions \in Nat
      BY FrontEndAssumption DEF ContractInv
    <2> QED
      BY <2>1, <2>2, <2>3, <2>4
  <1>12. Contract!EndUpdate(L, A)
    BY <1>1, <1>7, <1>9, <1>10, <1>11, SameCollections
    DEF Contract!EndUpdate, Contract!TotalUnderway, Half
  <1> QED
    BY <1>7, <1>9, <1>12

\* For every value of the constants, and a CPU that keeps its requests itself until
\* they are accepted: whatever the scheduler does, the channel accepts a request when
\* its queue has room, calls every accepted one back once, and in one update a write
\* first and then a read at most.
THEOREM ChannelImplementsContract == ASSUME ~Buffered PROVE Spec => ImplementsContract
  <1>1. Init => Contract!ContractInit
    <2> SUFFICES ASSUME Init PROVE Contract!ContractInit
      OBVIOUS
    <2>1. transactionQueue = <<>> /\ outstanding = [t \in Transactions |-> 0] /\ phase = "begin"
      BY DEF Init, MemoryControllerInit
    <2>2. \A t \in Transactions : outstanding[t] - Tally(transactionQueue, {t}) = 0
      BY <2>1, TallyEmpty
    <2>3. Underway = [t \in Transactions |-> 0]
      BY <2>2, UnderwayIs
    <2> QED
      BY <2>1, <2>3 DEF Contract!ContractInit, Half
  <1>2. Known /\ ConservationInv /\ ReadInv /\ ContractInv /\ [Next]_vars
          => [Contract!ContractNext]_(Contract!contractVars)
    <2> SUFFICES ASSUME Known, ConservationInv, ReadInv, ContractInv, [Next]_vars
                 PROVE  Contract!ContractNext \/ UNCHANGED Contract!contractVars
      OBVIOUS
    <2>1. error = "none" => Conserved
      BY DEF ConservationInv
    <2>2. pendingTransactions = <<>>
      BY DEF ContractInv
    <2>3. CASE UNCHANGED <<transactionQueue, outstanding>> /\ Half' = Half
      BY <2>3, UnderwayIs DEF Contract!contractVars
    <2>4. ASSUME NEW t \in Transactions, AddTransaction(t)
          PROVE  Contract!ContractNext
      <3>1. error = "none"
        BY <2>4 DEF AddTransaction, Accept
      <3> QED
        BY <2>1, <2>4, <3>1, AddImplements DEF Contract!ContractNext
    <2>5. ASSUME NEW t \in Transactions, ParkTransaction(t)
          PROVE  FALSE
      BY <2>5 DEF ParkTransaction
    <2>6. CASE Begin
      <3>1. error = "none"
        BY <2>6 DEF Begin
      <3> QED
        BY <2>1, <2>2, <2>6, <3>1, BeginImplements DEF Contract!ContractNext
    <2>7. CASE IssueForRefresh \/ IssueRefresh \/ IssueQueued \/ IssuePrecharge \/ IssueNothing
      BY <2>3, <2>7 DEF IssueForRefresh, IssueRefresh, IssueQueued, IssuePrecharge, IssuePopped,
                        IssueNothing, Idling, Half
    <2>8. CASE End
      <3>1. error = "none"
        BY <2>8 DEF End
      <3> QED
        BY <2>1, <2>8, <3>1, EndImplements DEF Contract!ContractNext
    <2>9. CASE UNCHANGED vars
      BY <2>3, <2>9 DEF vars, controllerVars, Half
    <2> QED
      BY <2>4, <2>5, <2>6, <2>7, <2>8, <2>9 DEF Next, Update
  <1> QED
    BY <1>1, <1>2, KnownInvariance, ConservationInvariance, ReadInvariance, ContractInvariance,
       PTL DEF Spec, ImplementsContract, Contract!ContractSpec
=============================================================================
