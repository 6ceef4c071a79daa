----------------------------- MODULE SpipProof ------------------------------
(***************************************************************************)
(* spip.rs, for every set of transactions of the master, length of the      *)
(* buffer and depth of the FIFOs: the channel is stopped at the end of its   *)
(* transaction, and a master that waits is answered what it is due.          *)
(***************************************************************************)
EXTENDS Spip, SequenceTheorems, TLAPS

\* Main sets the mode back to IDLE only after the end of the transaction has set it
\* to RELOAD, and the end of the transaction has stopped the channel.
Inv ==
  /\ ch1 = [on |-> ch1.on, dir |-> ch1.dir, left |-> ch1.left]
  /\ ch1.on \in BOOLEAN
  /\ pc = "close" => mode = "RELOAD"
  /\ ChannelHasItsTransaction

\* The channel runs only for the transaction it was started for.
THEOREM TheChannelIsStopped == Spec => []ChannelHasItsTransaction
<1>1. Init => Inv
  BY DEF Init, Inv, ChannelHasItsTransaction
<1>2. Inv /\ [Next]_vars => Inv'
  <2> SUFFICES ASSUME Inv, [Next]_vars PROVE Inv'
    OBVIOUS
  <2> USE DEF Inv, ChannelHasItsTransaction
  \* The handlers: the mode changes with the channel.
  <2>1. CASE Exti
    <3>1. mode' = "RELOAD" /\ pc' = pc
      BY <2>1 DEF Exti, cpuVars
    <3>2. CASE mode \in {"LONG_READ", "LONG_WRITE"}
      BY <2>1, <3>1, <3>2 DEF Exti
    <3>3. CASE mode \notin {"LONG_READ", "LONG_WRITE"}
      BY <2>1, <3>1, <3>3 DEF Exti
    <3> QED BY <3>2, <3>3
  <2>2. ASSUME NEW kind \in AllKinds, TransactionBegins(kind) PROVE Inv'
    <3>1. mode = "IDLE" /\ mode' = kind /\ pc' = pc /\ ~ch1.on
      BY <2>2 DEF TransactionBegins, SpiBegins, cpuVars
    <3>2. CASE kind \in {"LONG_READ", "LONG_WRITE"}
      <4>1. ch1'.on = TRUE /\ ch1'.dir = (IF kind = "LONG_READ" THEN "out" ELSE "in")
            /\ ch1' = [on |-> ch1'.on, dir |-> ch1'.dir, left |-> ch1'.left]
        BY <2>2, <3>2 DEF TransactionBegins
      <4> QED BY <3>1, <3>2, <4>1
    <3>3. CASE kind \notin {"LONG_READ", "LONG_WRITE"}
      BY <2>2, <3>1, <3>3 DEF TransactionBegins
    <3> QED BY <3>2, <3>3
  \* Main changes the mode only where it has seen RELOAD.
  <2>3. CASE SeesReload \/ Close
    BY <2>3 DEF SeesReload, Close, MainAt, Closed
  \* No other step changes the mode, or starts the channel or turns it round.
  <2>4. CASE \/ SpiReturns \/ PushDummy \/ ReadCr2 \/ WriteCr2 \/ SetNotBusy
             \/ UNCHANGED vars
    BY <2>4 DEF SpiReturns, PushDummy, ReadCr2, WriteCr2, SetNotBusy, MainAt, cpuVars, vars
  <2>5. CASE Ch1Moves \/ Begins \/ MasterClocks \/ MasterEnds
    <3>1. UNCHANGED <<mode, pc>>
      BY <2>5 DEF Ch1Moves, Begins, MasterBegins, MasterClocks, MasterEnds, cpuVars
    <3>2. ch1' = ch1 \/ ch1' = [ch1 EXCEPT !.left = @ - 1]
      BY <2>5 DEF Ch1Moves, Begins, MasterBegins, MasterClocks, MasterEnds, Exchange
    <3> QED BY <3>1, <3>2
  <2> QED BY <2>1, <2>2, <2>3, <2>4, <2>5 DEF Next, Spi1, Main
<1>3. Inv => ChannelHasItsTransaction
  BY DEF Inv
<1> QED BY <1>1, <1>2, <1>3, PTL DEF Spec

-----------------------------------------------------------------------------
(* The answers a master that waits is given.                               *)

Values     == Tags \cup {"init"}
AnswerByte == {Reg(v) : v \in Values} \cup {Mem(v) : v \in Values} \cup {Dummy, Size, Idle}

Types ==
  /\ rxFifo \in Seq(AllKinds \cup Tags) /\ Len(rxFifo) <= RxDepth
  /\ txFifo \in Seq(AnswerByte) /\ heard \in Seq(AnswerByte)
  /\ ch1 \in [on : BOOLEAN, dir : {"in", "out"}, left : 0 .. Room]
  /\ reg \in Values /\ wroteReg \in Values
  /\ buf \in [1 .. Room -> Values] /\ wroteBuf \in [1 .. Room -> Values]
  /\ master \in [phase : {"idle", "clocking"}, kind : AllKinds, left : Nat, sent : Nat, tag : Tags]

\* A transaction is in progress until EXTI0_1 has seen its end.
Active == master.phase = "clocking" \/ extiPend

\* Main arms the port between two transactions: it finds the transmit FIFO empty and leaves
\* two dummies in it.
RestInv ==
  ~Active =>
    /\ ~spiPend /\ rxFifo = <<>> /\ ~ch1.on /\ reg = wroteReg /\ buf = wroteBuf
    /\ mode \in {"IDLE", "RELOAD"} /\ (pc = "close" => mode = "RELOAD")
    /\ mode = "RELOAD" => pc \in {"wait", "close"}
    /\ \/ pc = "push1" /\ txFifo = <<>> /\ cr2 = {}
       \/ pc = "push2" /\ txFifo = <<Dummy>> /\ cr2 = {}
       \/ pc = "readCr2" /\ txFifo = <<Dummy, Dummy>> /\ cr2 = {}
       \/ pc = "writeCr2" /\ txFifo = <<Dummy, Dummy>> /\ cr2 = {} /\ seen = {}
       \/ pc = "notBusy" /\ txFifo = <<Dummy, Dummy>> /\ cr2 = {"rxneie"}
       \/ pc = "wait" /\ mode = "IDLE" /\ txFifo = <<Dummy, Dummy>> /\ cr2 = {"rxneie"}
       \/ pc \in {"wait", "close"} /\ mode = "RELOAD" /\ txFifo = <<>> /\ cr2 = {}

\* Meanwhile main waits; first SPI1 is pending, then the transaction is what its header says,
\* and the channel is set up for it.
ActiveInv ==
  Active =>
    /\ pc = "wait" /\ mode = (IF spiPend THEN "IDLE" ELSE master.kind)
    /\ extiPend => master.phase = "idle" /\ master.left = 0 /\ ~spiPend
    /\ spiPend => /\ cr2 = {"rxneie"} /\ ~ch1.on
                  /\ master.sent <= 1 /\ Len(rxFifo) = 1 + master.sent
                  /\ rxFifo[1] = master.kind /\ (master.sent = 1 => rxFifo[2] = master.tag)
    /\ mode \in {"READ", "WRITE", "INVALID"} => cr2 = {} /\ ~ch1.on
    /\ mode = "LONG_READ"  => cr2 = {"txdmaen"} /\ ch1.on /\ ch1.dir = "out"
    /\ mode = "LONG_WRITE" => cr2 = {"rxdmaen"} /\ ch1.on /\ ch1.dir = "in"

\* Where what the master has sent is, and what it has written before.
MemoryInv ==
  Active =>
    /\ IF extiPend /\ mode = "WRITE" /\ master.sent >= 2 THEN wroteReg = master.tag ELSE reg = wroteReg
    /\ mode = "WRITE" => /\ Len(rxFifo) = Least(master.sent, RxDepth)
                         /\ \A i \in 1 .. Len(rxFifo) : rxFifo[i] = master.tag
    /\ mode = "LONG_WRITE" => ch1.left = Room - Least(master.sent, Room)
    /\ \A i \in 1 .. Room :
         buf[i] = IF mode = "LONG_WRITE" /\ ~extiPend /\ i <= master.sent THEN master.tag ELSE wroteBuf[i]

\* The bytes that are due, one by one, and how many of them have been put into the FIFO.
DueByte(kind, i) ==
  CASE i <= 2                                     -> Dummy
    [] kind = "READ" /\ i \in 3 .. 4              -> Reg(wroteReg)
    [] kind = "LONG_READ" /\ i \in 3 .. 4         -> Size
    [] kind = "LONG_READ" /\ i \in 5 .. 4 + Room  -> Mem(wroteBuf[i - 4])
    [] OTHER                                      -> Idle

Queued ==
  IF spiPend THEN 2
  ELSE IF master.kind = "LONG_READ" THEN 4 + Room - ch1.left ELSE AnswerLen(master.kind)

\* What the master has heard, followed by what is in the FIFO, is the answer so far; once the
\* FIFO has run dry the whole answer has been heard.
HeardInv ==
  Active =>
    /\ Len(heard) = master.sent + 1 /\ Len(heard) + master.left >= AnswerLen(master.kind)
    /\ \A i \in 1 .. Len(heard) : heard[i] = DueByte(master.kind, i)
    /\ \A i \in 1 .. Len(txFifo) : txFifo[i] = DueByte(master.kind, Len(heard) + i)
    /\ Len(txFifo) = (IF Len(heard) <= Queued THEN Queued - Len(heard) ELSE 0)
    /\ Len(heard) > Queued => Queued = AnswerLen(master.kind)

AnswerInv == waits => Types /\ RestInv /\ ActiveInv /\ MemoryInv /\ HeardInv

-----------------------------------------------------------------------------
(* The answers are given.                                                  *)

LEMMA NotedWhenWaiting == waits => \A old, new : Noted(old, new) = new
BY DEF Noted

LEMMA BytesAre ==
  /\ Dummy \in AnswerByte /\ Size \in AnswerByte /\ Idle \in AnswerByte
  /\ \A v \in Values : Reg(v) \in AnswerByte /\ Mem(v) \in AnswerByte
  /\ "a" \in Tags /\ "b" \in Tags /\ Tags \subseteq Values /\ "init" \in Values
BY DEF AnswerByte, Values, Tags

\* What fits the FIFO is put there as it is.
LEMMA PushFits ==
  ASSUME waits, NEW q \in Seq(AnswerByte), NEW bytes \in Seq(AnswerByte),
         Len(q) + Len(bytes) <= TxDepth
  PROVE  Push(q, bytes) = q \o bytes
<1>1. Told(bytes) = bytes
  <2>1. Told(bytes) = [i \in 1 .. Len(bytes) |-> bytes[i]]
    BY DEF Told, Noted
  <2>2. bytes = [i \in 1 .. Len(bytes) |-> bytes[i]]
    BY LenProperties
  <2> QED BY <2>1, <2>2
<1>2. q \o bytes \in Seq(AnswerByte) /\ Len(q \o bytes) = Len(q) + Len(bytes)
  BY ConcatProperties
<1>3. Len(q) \in Nat /\ Len(bytes) \in Nat
  BY LenProperties
<1>4. TxDepth \in Nat
  BY SpipAssumption
<1>5. Least(Len(q) + Len(bytes), TxDepth) = Len(q) + Len(bytes)
  BY <1>3, <1>4 DEF Least
<1>6. Push(q, bytes) = SubSeq(q \o bytes, 1, Len(q \o bytes))
  BY <1>1, <1>2, <1>5 DEF Push
<1> HIDE DEF Push
<1> QED BY <1>2, <1>6, SubSeqFull

\* The bytes that are due, in closed form: AnswerLen of them, then nothing.
LEMMA DueIs ==
  ASSUME NEW kind \in AllKinds, wroteReg \in Values, wroteBuf \in [1 .. Room -> Values]
  PROVE  /\ AnswerLen(kind) \in Nat /\ Len(Due(kind)) = AnswerLen(kind)
         /\ \A i \in 1 .. AnswerLen(kind) : Due(kind)[i] = DueByte(kind, i)
<1>1. Room \in Nat \ {0}
  BY SpipAssumption
<1> DEFINE two == <<Dummy, Dummy>>
           regs == <<Reg(wroteReg), Reg(wroteReg)>>
           sizes == <<Size, Size>>
           mems == [i \in 1 .. Room |-> Mem(wroteBuf[i])]
<1>2. two \in Seq(AnswerByte) /\ Len(two) = 2 /\ two[1] = Dummy /\ two[2] = Dummy
  BY BytesAre
<1>3. regs \in Seq(AnswerByte) /\ Len(regs) = 2 /\ regs[1] = Reg(wroteReg) /\ regs[2] = Reg(wroteReg)
  BY BytesAre
<1>4. sizes \in Seq(AnswerByte) /\ Len(sizes) = 2 /\ sizes[1] = Size /\ sizes[2] = Size
  BY BytesAre
<1>5. mems \in Seq(AnswerByte) /\ Len(mems) = Room /\ \A i \in 1 .. Room : mems[i] = Mem(wroteBuf[i])
  BY <1>1, BytesAre
<1>6. Due(kind) = two \o (CASE kind = "READ" -> regs [] kind = "LONG_READ" -> sizes \o mems [] OTHER -> <<>>)
  BY DEF Due
<1> HIDE DEF two, regs, sizes, mems
<1>7. CASE kind = "READ"
  <2>1. Due(kind) = two \o regs
    BY <1>6, <1>7
  <2>2. /\ Len(two \o regs) = 4
        /\ \A i \in 1 .. 4 : (two \o regs)[i] = IF i <= 2 THEN two[i] ELSE regs[i - 2]
    BY <1>2, <1>3, ConcatProperties
  <2>3. AnswerLen(kind) = 4
    BY <1>7 DEF AnswerLen
  <2>4. \A i \in 1 .. 4 : Due(kind)[i] = DueByte(kind, i)
    <3> TAKE i \in 1 .. 4
    <3>1. CASE i <= 2
      BY <3>1, <2>1, <2>2, <1>2 DEF DueByte
    <3>2. CASE i > 2
      BY <3>2, <2>1, <2>2, <1>3, <1>7 DEF DueByte
    <3> QED BY <3>1, <3>2
  <2> QED BY <2>1, <2>2, <2>3, <2>4
<1>8. CASE kind = "LONG_READ"
  <2> DEFINE long == sizes \o mems
  <2>1. Due(kind) = two \o long
    BY <1>6, <1>8
  <2>2. /\ long \in Seq(AnswerByte) /\ Len(long) = 2 + Room
        /\ \A i \in 1 .. 2 + Room : long[i] = IF i <= 2 THEN sizes[i] ELSE mems[i - 2]
    <3>1. /\ sizes \o mems \in Seq(AnswerByte) /\ Len(sizes \o mems) = Len(sizes) + Len(mems)
          /\ \A i \in 1 .. Len(sizes) + Len(mems) :
               (sizes \o mems)[i] = IF i <= Len(sizes) THEN sizes[i] ELSE mems[i - Len(sizes)]
      BY <1>4, <1>5, ConcatProperties
    <3> QED BY <3>1, <1>4, <1>5
  <2> HIDE DEF long
  <2>3. /\ Len(two \o long) = 4 + Room
        /\ \A i \in 1 .. 4 + Room : (two \o long)[i] = IF i <= 2 THEN two[i] ELSE long[i - 2]
    <3>1. /\ Len(two \o long) = Len(two) + Len(long)
          /\ \A i \in 1 .. Len(two) + Len(long) :
               (two \o long)[i] = IF i <= Len(two) THEN two[i] ELSE long[i - Len(two)]
      BY <1>2, <2>2, ConcatProperties
    <3>2. Len(two) + Len(long) = 4 + Room
      BY <1>1, <1>2, <2>2
    <3> QED BY <3>1, <3>2, <1>2
  <2>4. AnswerLen(kind) = 4 + Room
    BY <1>8 DEF AnswerLen
  <2>5. \A i \in 1 .. 4 + Room : Due(kind)[i] = DueByte(kind, i)
    <3> TAKE i \in 1 .. 4 + Room
    <3>1. CASE i <= 2
      BY <3>1, <2>1, <2>3, <1>2 DEF DueByte
    <3>2. CASE i \in 3 .. 4
      <4>1. Due(kind)[i] = Size
        BY <3>2, <1>1, <2>1, <2>2, <2>3, <1>4
      <4> QED BY <4>1, <3>2, <1>8 DEF DueByte
    <3>3. CASE i > 4
      <4>1. i \in 5 .. 4 + Room /\ i - 4 \in 1 .. Room /\ i - 2 \in 3 .. 2 + Room /\ (i - 2) - 2 = i - 4
        BY <3>3, <1>1
      <4>2. Due(kind)[i] = long[i - 2]
        BY <3>3, <1>1, <2>1, <2>3
      <4>3. long[i - 2] = mems[i - 4]
        BY <4>1, <1>1, <2>2
      <4> QED BY <4>1, <4>2, <4>3, <1>5, <1>8 DEF DueByte
    <3> QED BY <3>1, <3>2, <3>3, <1>1
  <2> QED BY <1>1, <2>1, <2>3, <2>4, <2>5
<1>9. CASE kind \notin {"READ", "LONG_READ"}
  <2>1. Due(kind) = two
    BY <1>2, <1>6, <1>9, ConcatEmptySeq
  <2>2. AnswerLen(kind) = 2
    BY <1>9 DEF AnswerLen
  <2> QED BY <2>1, <2>2, <1>2 DEF DueByte
<1> QED BY <1>7, <1>8, <1>9

\* Nothing is due after the answer.
LEMMA NothingMore ==
  ASSUME NEW kind \in AllKinds, NEW i \in Nat, i > AnswerLen(kind)
  PROVE  DueByte(kind, i) = Idle
<1>1. Room \in Nat \ {0}
  BY SpipAssumption
<1> QED BY <1>1 DEF DueByte, AnswerLen

\* What the proofs below assume of the FIFOs: one dummy and two bytes of an answer fit the
\* one, the header and a byte after it the other.
Deep == TxDepth >= 3 /\ RxDepth >= 2

LEMMA Depths == Room \in Nat \ {0} /\ RxDepth \in Nat \ {0} /\ TxDepth \in Nat \ {0}
BY SpipAssumption

\* The port starts between two transactions, with empty FIFOs.
LEMMA AnswerInitInv == Init => AnswerInv
<1> SUFFICES ASSUME Init PROVE AnswerInv
  OBVIOUS
<1>1. Types
  <2>1. reg \in Values /\ wroteReg \in Values
    BY BytesAre DEF Init
  <2>2. buf \in [1 .. Room -> Values] /\ wroteBuf \in [1 .. Room -> Values]
    BY BytesAre DEF Init, Zeros
  <2>3. /\ rxFifo \in Seq(AllKinds \cup Tags) /\ Len(rxFifo) <= RxDepth
        /\ txFifo \in Seq(AnswerByte) /\ heard \in Seq(AnswerByte)
    BY Depths DEF Init
  <2>4. /\ ch1 \in [on : BOOLEAN, dir : {"in", "out"}, left : 0 .. Room]
        /\ master \in [phase : {"idle", "clocking"}, kind : AllKinds, left : Nat, sent : Nat, tag : Tags]
    BY Depths DEF Init, AllKinds, Tags
  <2> QED BY <2>1, <2>2, <2>3, <2>4 DEF Types
<1>2. ~Active /\ RestInv
  BY DEF Init, RestInv, Active
<1> QED BY <1>1, <1>2 DEF AnswerInv, ActiveInv, MemoryInv, HeardInv

\* Main runs between two transactions only, and arms the port there.
LEMMA MainAnswers ==
  ASSUME Deep, waits, AnswerInv, Main
  PROVE  AnswerInv'
<1> USE DEF MainAt, cpuVars, memory, masterVars
<1>1. Types /\ RestInv /\ ActiveInv
  BY DEF AnswerInv
<1>2. ~spiPend /\ ~extiPend
  BY DEF Main, PushDummy, ReadCr2, WriteCr2, SetNotBusy, SeesReload, Close
<1>3. ~Active
  <2> SUFFICES ASSUME Active PROVE FALSE
    OBVIOUS
  <2>1. pc = "wait" /\ mode = master.kind /\ master.kind \in AllKinds
    BY <1>1, <1>2 DEF ActiveInv, Types
  <2>2. mode = "RELOAD"
    BY <2>1 DEF Main, PushDummy, ReadCr2, WriteCr2, SetNotBusy, SeesReload, Close
  <2> QED BY <2>1, <2>2 DEF AllKinds
<1>4. UNCHANGED <<extiPend, rxFifo, ch1, memory, masterVars>>
  BY DEF Main, PushDummy, ReadCr2, WriteCr2, SetNotBusy, SeesReload, Close
<1>5. ~Active'
  BY <1>3, <1>4 DEF Active
<1>6. CASE PushDummy
  <2>1. pc \in {"push1", "push2"} /\ mode \in {"IDLE", "RELOAD"} /\ cr2 = {} /\ ~spiPend
        /\ rxFifo = <<>> /\ ~ch1.on /\ reg = wroteReg /\ buf = wroteBuf /\ mode # "RELOAD"
        /\ txFifo = IF pc = "push1" THEN <<>> ELSE <<Dummy>>
    BY <1>1, <1>3, <1>6 DEF RestInv, PushDummy
  <2>2. txFifo \in Seq(AnswerByte) /\ <<Dummy>> \in Seq(AnswerByte) /\ Len(txFifo) + Len(<<Dummy>>) <= 2
    BY <2>1, BytesAre
  <2>3. txFifo' = Push(txFifo, <<Dummy>>)
    BY <1>6 DEF PushDummy, DummyByte
  <2>4. txFifo' = txFifo \o <<Dummy>>
    <3>1. Len(txFifo) + Len(<<Dummy>>) <= TxDepth
      BY <2>2, Depths DEF Deep
    <3> QED BY <2>2, <2>3, <3>1, PushFits
  <2>5. txFifo' = IF pc = "push1" THEN <<Dummy>> ELSE <<Dummy, Dummy>>
    BY <2>1, <2>4
  <2>6. txFifo' \in Seq(AnswerByte)
    BY <2>5, BytesAre
  <2>7. UNCHANGED <<mode, cr2, spiPend, seen>> /\ pc' = IF pc = "push1" THEN "push2" ELSE "readCr2"
    BY <1>6 DEF PushDummy
  <2>8. Types'
    BY <1>1, <1>4, <2>6 DEF Types
  <2>9. RestInv'
    BY <1>4, <2>1, <2>5, <2>7 DEF RestInv
  <2> QED BY <1>4, <1>5, <2>8, <2>9 DEF AnswerInv, ActiveInv, MemoryInv, HeardInv
<1>7. CASE ReadCr2 \/ WriteCr2 \/ SetNotBusy \/ SeesReload \/ Close
  <2>1. txFifo' = txFifo
    BY <1>7 DEF ReadCr2, WriteCr2, SetNotBusy, SeesReload, Close
  <2>2. Types'
    BY <1>1, <1>4, <2>1 DEF Types
  <2>3. RestInv'
    BY <1>1, <1>3, <1>4, <1>7, <2>1 DEF RestInv, ReadCr2, WriteCr2, SetNotBusy, SeesReload, Close, Closed
  <2> QED BY <1>4, <1>5, <2>2, <2>3 DEF AnswerInv, ActiveInv, MemoryInv, HeardInv
<1> QED BY <1>6, <1>7 DEF Main

\* The end of a transaction is seen once the whole answer has been heard: it leaves both
\* FIFOs empty, and what was written in its place.
LEMMA ExtiAnswers ==
  ASSUME Deep, waits, AnswerInv, Exti
  PROVE  AnswerInv'
<1> USE DEF cpuVars, memory, masterVars
<1>1. Types /\ ActiveInv /\ MemoryInv /\ HeardInv
  BY DEF AnswerInv
<1>2. extiPend /\ Active
  BY DEF Exti, Active
<1>3. /\ pc = "wait" /\ ~spiPend /\ mode = master.kind /\ master.phase = "idle" /\ master.left = 0
      /\ master.kind \in AllKinds
  BY <1>1, <1>2 DEF ActiveInv, Types
<1>4. /\ mode' = "RELOAD" /\ rxFifo' = <<>> /\ extiPend' = FALSE
      /\ UNCHANGED <<spiPend, txFifo, buf, pc, seen, waits, master, heard, wroteReg, wroteBuf>>
  BY DEF Exti
<1>5. ~Active'
  BY <1>3, <1>4 DEF Active
<1>6. reg' = wroteReg
  <2>1. reg' = Stored
    BY DEF Exti, Noted
  <2>2. CASE mode = "WRITE" /\ master.sent >= 2
    <3>1. wroteReg = master.tag /\ master.tag \in Tags /\ master.sent \in Nat
      BY <1>1, <1>2, <2>2 DEF MemoryInv, Types
    <3>2. Len(rxFifo) >= 2 /\ rxFifo[1] = master.tag /\ rxFifo[2] = master.tag
      <4>1. /\ Len(rxFifo) = Least(master.sent, RxDepth)
            /\ \A i \in 1 .. Len(rxFifo) : rxFifo[i] = master.tag
        BY <1>1, <1>2, <2>2 DEF MemoryInv
      <4>2. Len(rxFifo) >= 2 /\ Len(rxFifo) \in Nat
        BY <4>1, <2>2, <3>1, Depths DEF Least, Deep
      <4> QED BY <4>1, <4>2
    <3>3. Len(rxFifo) \in Nat
      BY <1>1 DEF Types
    <3> QED BY <2>1, <2>2, <3>1, <3>2, <3>3 DEF Stored
  <2>3. CASE ~(mode = "WRITE" /\ master.sent >= 2)
    <3>1. reg = wroteReg
      BY <1>1, <1>2, <2>3 DEF MemoryInv
    <3>2. mode = "WRITE" => Len(rxFifo) < 2
      <4>1. SUFFICES ASSUME mode = "WRITE" PROVE Len(rxFifo) < 2
        OBVIOUS
      <4>2. Len(rxFifo) = Least(master.sent, RxDepth) /\ master.sent \in Nat
        BY <1>1, <1>2, <4>1 DEF MemoryInv, Types
      <4> QED BY <2>3, <4>1, <4>2, Depths DEF Least, Deep
    <3> QED BY <2>1, <3>1, <3>2 DEF Stored
  <2> QED BY <2>2, <2>3
<1>7. buf = wroteBuf
  <2>1. \A i \in 1 .. Room : buf[i] = wroteBuf[i]
    BY <1>1, <1>2 DEF MemoryInv
  <2>2. buf \in [1 .. Room -> Values] /\ wroteBuf \in [1 .. Room -> Values]
    BY <1>1 DEF Types
  <2>3. buf = [i \in 1 .. Room |-> buf[i]] /\ wroteBuf = [i \in 1 .. Room |-> wroteBuf[i]]
    BY <2>2
  <2> QED BY <2>1, <2>3
<1>8. txFifo = <<>>
  <2>1. /\ Len(heard) >= AnswerLen(master.kind) /\ Len(heard) \in Nat
        /\ Len(txFifo) = IF Len(heard) <= Queued THEN Queued - Len(heard) ELSE 0
    <3>1. Len(heard) \in Nat
      BY <1>1 DEF Types
    <3> QED BY <3>1, <1>1, <1>2, <1>3 DEF HeardInv
  <2>2. Queued \in Int /\ Queued <= AnswerLen(master.kind) /\ AnswerLen(master.kind) \in Nat
    <3>1. ch1.left \in 0 .. Room
      BY <1>1 DEF Types
    <3> QED BY <3>1, <1>3, Depths DEF Queued, AnswerLen
  <2>3. Len(txFifo) = 0
    BY <2>1, <2>2
  <2> QED BY <1>1, <2>3, EmptySeq DEF Types
<1>9. cr2' = {} /\ ~ch1'.on
  <2>1. CASE mode \in {"LONG_READ", "LONG_WRITE"}
    BY <1>1, <1>2, <2>1 DEF Exti, ActiveInv, Types
  <2>2. CASE mode \notin {"LONG_READ", "LONG_WRITE"}
    BY <1>1, <1>2, <1>3, <2>2 DEF Exti, ActiveInv, AllKinds
  <2> QED BY <2>1, <2>2
<1>10. Types'
  <2>1. ch1' \in [on : BOOLEAN, dir : {"in", "out"}, left : 0 .. Room]
    BY <1>1 DEF Exti, Types
  <2>2. rxFifo' \in Seq(AllKinds \cup Tags) /\ Len(rxFifo') <= RxDepth
    BY <1>4, Depths
  <2> QED BY <1>1, <1>4, <1>6, <2>1, <2>2 DEF Types
<1>11. RestInv'
  BY <1>3, <1>4, <1>6, <1>7, <1>8, <1>9 DEF RestInv
<1> QED BY <1>4, <1>5, <1>10, <1>11 DEF AnswerInv, ActiveInv, MemoryInv, HeardInv

\* A transaction begins where the port is armed: its first byte brings back a dummy.
LEMMA MasterBeginsAnswers ==
  ASSUME Deep, waits, AnswerInv, Begins
  PROVE  AnswerInv'
<1> USE DEF cpuVars, memory, masterVars
<1>1. PICK t \in Waiting : MasterBegins(t[1], t[2])
  BY DEF Begins
<1> DEFINE kind == t[1]
           n == t[2]
<1>2. kind \in AllKinds /\ n \in Nat
  BY SpipAssumption
<1> HIDE DEF kind, n
<1>3. MasterBegins(kind, n)
  BY <1>1 DEF kind, n
<1>4. Types /\ RestInv /\ ~Active /\ ~spiPend /\ ~extiPend /\ pc = "wait" /\ mode = "IDLE"
  BY <1>3 DEF AnswerInv, MasterBegins, Armed, MainAt, Active
<1>5. /\ txFifo = <<Dummy, Dummy>> /\ cr2 = {"rxneie"} /\ rxFifo = <<>> /\ ~ch1.on
      /\ reg = wroteReg /\ buf = wroteBuf
  BY <1>4 DEF RestInv
<1>6. /\ spiPend' = TRUE /\ txFifo' = <<Dummy>> /\ rxFifo' = <<kind>> /\ heard' = <<Dummy>>
      /\ UNCHANGED <<buf, ch1>>
  <2>1. Exchange(kind) /\ heard' = <<Hears>>
    BY <1>3 DEF MasterBegins, Noted
  <2>2. spiPend' = TRUE
    BY <1>5, <2>1 DEF Exchange
  <2>3. txFifo # <<>> /\ Head(txFifo) = Dummy /\ Tail(txFifo) = <<Dummy>>
    BY <1>5
  <2>4. txFifo' = <<Dummy>> /\ heard' = <<Dummy>>
    BY <2>1, <2>3 DEF Exchange, Hears
  <2>5. rxFifo' = Append(rxFifo, kind) /\ UNCHANGED <<buf, ch1>>
    <3>1. Len(rxFifo) < RxDepth
      BY <1>5, Depths
    <3> QED BY <1>5, <2>1, <3>1 DEF Exchange
  <2>6. rxFifo' = <<kind>>
    BY <1>5, <2>5
  <2> QED BY <2>2, <2>4, <2>5, <2>6
<1>7. /\ master' = [phase |-> "clocking", kind |-> kind, left |-> n, sent |-> 0, tag |-> NextTag(master.tag)]
      /\ n + 1 >= AnswerLen(kind)
      /\ UNCHANGED <<mode, cr2, extiPend, reg, pc, seen, waits, wroteReg, wroteBuf>>
  BY <1>3 DEF MasterBegins, Noted
<1>8. Types'
  <2>1. rxFifo' \in Seq(AllKinds \cup Tags) /\ Len(rxFifo') <= RxDepth
    BY <1>2, <1>6, Depths
  <2>2. txFifo' \in Seq(AnswerByte) /\ heard' \in Seq(AnswerByte)
    BY <1>6, BytesAre
  <2>3. master' \in [phase : {"idle", "clocking"}, kind : AllKinds, left : Nat, sent : Nat, tag : Tags]
    BY <1>2, <1>7 DEF NextTag, Tags
  <2> QED BY <1>4, <1>6, <1>7, <2>1, <2>2, <2>3 DEF Types
<1>9. Active' /\ master'.kind = kind /\ master'.sent = 0 /\ master'.left = n /\ master'.phase = "clocking"
  BY <1>7 DEF Active
<1>10. RestInv' /\ ActiveInv'
  BY <1>4, <1>5, <1>6, <1>7, <1>9 DEF RestInv, ActiveInv
<1>11. MemoryInv'
  <2>1. buf' = wroteBuf' /\ reg' = wroteReg' /\ mode' = "IDLE" /\ ~extiPend'
    BY <1>4, <1>5, <1>6, <1>7
  <2> QED BY <2>1 DEF MemoryInv
<1>12. HeardInv'
  <2>1. Queued' = 2
    BY <1>6 DEF Queued
  <2>2. Len(heard') = 1 /\ heard'[1] = Dummy /\ Len(txFifo') = 1 /\ txFifo'[1] = Dummy
    BY <1>6
  <2>3. DueByte(kind, 1)' = Dummy /\ DueByte(kind, 2)' = Dummy
    BY DEF DueByte
  <2>4. AnswerLen(kind) \in Nat
    BY Depths DEF AnswerLen
  <2>5. \A i \in 1 .. Len(heard') : heard'[i] = DueByte(kind, i)'
    BY <2>2, <2>3
  <2>6. \A i \in 1 .. Len(txFifo') : txFifo'[i] = DueByte(kind, Len(heard) + i)'
    BY <2>2, <2>3
  <2> QED BY <1>2, <1>7, <1>9, <2>1, <2>2, <2>4, <2>5, <2>6 DEF HeardInv
<1> QED BY <1>8, <1>10, <1>11, <1>12 DEF AnswerInv

\* The channel moves the next byte of the answer into the FIFO.
LEMMA Ch1MovesAnswers ==
  ASSUME Deep, waits, AnswerInv, Ch1Moves
  PROVE  AnswerInv'
<1> USE DEF cpuVars, memory, masterVars
<1>1. Types /\ RestInv /\ ActiveInv /\ MemoryInv /\ HeardInv /\ TxAsked
  BY DEF AnswerInv, Ch1Moves
<1>2. /\ Active /\ ~spiPend /\ mode = "LONG_READ" /\ master.kind = "LONG_READ"
      /\ ch1.left \in 1 .. Room
  <2>1. Active
    BY <1>1 DEF RestInv, TxAsked
  <2>2. ~spiPend
    BY <1>1, <2>1 DEF ActiveInv, TxAsked
  <2>3. mode = master.kind /\ master.kind \in AllKinds
    BY <1>1, <2>1, <2>2 DEF ActiveInv, Types
  <2>4. mode = "LONG_READ"
    BY <1>1, <2>1, <2>3 DEF ActiveInv, TxAsked, AllKinds
  <2>5. ch1.left \in 1 .. Room
    BY <1>1, Depths DEF Types, TxAsked
  <2> QED BY <2>1, <2>2, <2>3, <2>4, <2>5
<1> DEFINE byte == Mem(buf[Room - ch1.left + 1])
           next == 4 + Room - ch1.left + 1
<1>3. txFifo' = Append(txFifo, byte)
  BY DEF Ch1Moves, Noted
<1>4. /\ ch1' = [ch1 EXCEPT !.left = @ - 1]
      /\ UNCHANGED <<mode, cr2, busy, spiPend, extiPend, rxFifo, memory, cpuVars, masterVars>>
  BY DEF Ch1Moves
<1>5. byte = DueByte("LONG_READ", next) /\ byte \in AnswerByte
  <2>1. Room - ch1.left + 1 \in 1 .. Room /\ next \in 5 .. 4 + Room /\ next - 4 = Room - ch1.left + 1
    BY <1>2, Depths
  <2>2. buf[Room - ch1.left + 1] = wroteBuf[Room - ch1.left + 1]
    BY <1>1, <1>2, <2>1 DEF MemoryInv
  <2>3. wroteBuf[Room - ch1.left + 1] \in Values
    BY <1>1, <2>1 DEF Types
  <2>4. DueByte("LONG_READ", next) = Mem(wroteBuf[next - 4])
    <3> HIDE DEF next
    <3>1. ~(next <= 2) /\ ~(next \in 3 .. 4)
      BY <2>1, Depths
    <3> QED BY <2>1, <3>1 DEF DueByte
  <2> QED BY <2>1, <2>2, <2>3, <2>4, BytesAre
<1> HIDE DEF byte
<1>6. /\ txFifo' \in Seq(AnswerByte) /\ Len(txFifo') = Len(txFifo) + 1
      /\ \A i \in 1 .. Len(txFifo) : txFifo'[i] = txFifo[i]
      /\ txFifo'[Len(txFifo) + 1] = byte
  BY <1>1, <1>3, <1>5, AppendProperties DEF Types
<1>7. ch1' = [on |-> ch1.on, dir |-> ch1.dir, left |-> ch1.left - 1]
  BY <1>1, <1>4 DEF Types
<1>8. Types'
  <2>1. ch1' \in [on : BOOLEAN, dir : {"in", "out"}, left : 0 .. Room]
    <3>1. ch1.left - 1 \in 0 .. Room /\ ch1.on \in BOOLEAN /\ ch1.dir \in {"in", "out"}
      BY <1>1, <1>2, Depths DEF Types
    <3> QED BY <1>7, <3>1
  <2>2. UNCHANGED <<rxFifo, heard, reg, wroteReg, buf, wroteBuf, master>>
    BY <1>4
  <2> QED BY <1>1, <1>6, <2>1, <2>2 DEF Types
<1>9. Active' /\ RestInv' /\ ActiveInv'
  <2>1. Active'
    BY <1>2, <1>4 DEF Active
  <2>2. ActiveInv'
    BY <1>1, <1>2, <1>4, <1>7 DEF ActiveInv
  <2> QED BY <2>1, <2>2 DEF RestInv
<1>10. MemoryInv'
  BY <1>1, <1>2, <1>4 DEF MemoryInv
<1>11. HeardInv'
  <2>1. Queued = 4 + Room - ch1.left /\ Queued' = Queued + 1 /\ AnswerLen(master.kind) = 4 + Room
    <3>1. ch1'.left = ch1.left - 1 /\ master' = master /\ spiPend' = spiPend
      BY <1>4, <1>7
    <3> QED BY <1>2, <3>1, Depths DEF Queued, AnswerLen
  <2>2. Queued < AnswerLen(master.kind) /\ Queued \in Nat
    BY <1>2, <2>1, Depths
  <2>3. Len(heard) \in Nat /\ Len(heard) <= Queued
    BY <1>1, <1>2, <2>2 DEF Types, HeardInv
  <2>4. Len(txFifo) = Queued - Len(heard)
    BY <1>1, <1>2, <2>3 DEF HeardInv
  <2>5. Len(txFifo') = Queued' - Len(heard')
    BY <1>4, <1>6, <2>1, <2>2, <2>3, <2>4
  <2>6. \A i : DueByte(master.kind, i)' = DueByte(master.kind, i)
    BY <1>4 DEF DueByte
  <2>7. \A i \in 1 .. Len(txFifo') : txFifo'[i] = DueByte(master.kind, Len(heard) + i)'
    <3> TAKE i \in 1 .. Len(txFifo')
    <3>1. CASE i \in 1 .. Len(txFifo)
      BY <1>1, <1>2, <1>4, <1>6, <2>6, <3>1 DEF HeardInv
    <3>2. CASE i = Len(txFifo) + 1
      <4>1. Len(heard) + i = next
        <5>1. Len(heard) + i = Queued + 1
          BY <3>2, <2>2, <2>3, <2>4
        <5> QED BY <5>1, <2>1
      <4> HIDE DEF next
      <4>2. txFifo'[i] = DueByte(master.kind, next)
        BY <3>2, <1>2, <1>5, <1>6
      <4> QED BY <1>4, <4>1, <4>2, <2>6
    <3>3. Len(txFifo) \in Nat
      BY <1>1 DEF Types
    <3>4. i \in 1 .. Len(txFifo) + 1
      BY <1>6
    <3> QED BY <3>1, <3>2, <3>3, <3>4
  <2>8. Len(heard') <= Queued' /\ Len(heard') \in Nat
    BY <1>4, <2>1, <2>2, <2>3
  <2>9. /\ Len(heard') = master'.sent + 1 /\ Len(heard') + master'.left >= AnswerLen(master'.kind)
        /\ \A i \in 1 .. Len(heard') : heard'[i] = DueByte(master.kind, i)'
    BY <1>1, <1>2, <1>4, <2>6 DEF HeardInv
  <2>10. Queued' \in Nat
    BY <2>1, <2>2
  <2> QED BY <2>5, <2>7, <2>8, <2>9, <2>10 DEF HeardInv
<1> QED BY <1>8, <1>9, <1>10, <1>11 DEF AnswerInv

\* SPI1 is pending only until it has taken the header, so that it never returns early.
LEMMA NeverEarly == waits /\ AnswerInv => ~SpiReturns
<1> SUFFICES ASSUME waits, AnswerInv, SpiReturns PROVE FALSE
  OBVIOUS
<1>1. RestInv /\ ActiveInv /\ spiPend /\ mode # "IDLE"
  BY DEF AnswerInv, SpiReturns, SpiIrq
<1> QED BY <1>1 DEF RestInv, ActiveInv

\* SPI1 takes the header, behind the dummies that the master still has to hear it puts the
\* answer, and it sets up the channel for the rest.
LEMMA TransactionBeginsAnswers ==
  ASSUME Deep, waits, AnswerInv, NEW kind \in AllKinds, TransactionBegins(kind)
  PROVE  AnswerInv'
<1> USE DEF cpuVars, memory, masterVars
<1>1. Types /\ RestInv /\ ActiveInv /\ MemoryInv /\ HeardInv /\ spiPend /\ ~extiPend /\ mode = "IDLE"
  BY DEF AnswerInv, TransactionBegins, SpiBegins, SpiIrq
<1>2. Active
  BY <1>1 DEF RestInv
<1>3. /\ master.phase = "clocking" /\ (master.sent = 0 \/ master.sent = 1) /\ master.tag \in Tags
      /\ Len(rxFifo) = 1 + master.sent /\ rxFifo[1] = master.kind
      /\ (master.sent = 1 => rxFifo[2] = master.tag)
      /\ Len(heard) = master.sent + 1
  BY <1>1, <1>2 DEF Active, ActiveInv, HeardInv, Types
<1>4. master.kind \in AllKinds /\ cr2 = {"rxneie"} /\ ~ch1.on /\ pc = "wait"
  BY <1>1, <1>2 DEF Types, ActiveInv
<1>5. rxFifo # <<>> /\ kind = master.kind
  <2>1. rxFifo # <<>>
    BY <1>3
  <2>2. Head(rxFifo) = rxFifo[1]
    BY <1>1, <2>1, HeadTailProperties DEF Types
  <2>3. kind \in TakenFor
    BY DEF TransactionBegins
  <2> QED BY <1>3, <1>4, <2>1, <2>2, <2>3 DEF TakenFor
<1>6. /\ Rest \in Seq(AllKinds \cup Tags) /\ Len(Rest) = master.sent
      /\ \A i \in 1 .. Len(Rest) : Rest[i] = master.tag
  <2>1. Rest = Tail(rxFifo)
    BY <1>5 DEF Rest
  <2>2. /\ Tail(rxFifo) \in Seq(AllKinds \cup Tags) /\ Len(Tail(rxFifo)) = Len(rxFifo) - 1
        /\ \A i \in 1 .. Len(Tail(rxFifo)) : Tail(rxFifo)[i] = rxFifo[i + 1]
    BY <1>1, <1>5, HeadTailProperties DEF Types
  <2>3. Len(Rest) = master.sent
    BY <1>3, <2>1, <2>2
  <2>4. \A i \in 1 .. Len(Rest) : Rest[i] = master.tag
    <3> TAKE i \in 1 .. Len(Rest)
    <3>1. master.sent = 1 /\ i = 1
      BY <1>3, <2>3
    <3>2. Rest[i] = rxFifo[2]
      BY <2>1, <2>2, <3>1
    <3> QED BY <1>3, <3>1, <3>2
  <2> QED BY <2>1, <2>2, <2>3, <2>4
<1> DEFINE n == IF kind = "LONG_WRITE" THEN Least(Len(Rest), Room) ELSE 0
<1>7. n = IF kind = "LONG_WRITE" THEN master.sent ELSE 0
  BY <1>3, <1>6, Depths DEF Least
<1>8. /\ mode' = kind /\ spiPend' = FALSE /\ txFifo' = Push(txFifo, Answer(kind))
      /\ rxFifo' = SubSeq(Rest, n + 1, Len(Rest))
      /\ buf' = Poured(buf, SubSeq(Rest, 1, n))
      /\ UNCHANGED <<extiPend, reg, pc, seen, waits, master, heard, wroteReg, wroteBuf>>
  BY DEF TransactionBegins, Noted
<1>9. /\ kind = "LONG_READ"  => ch1' = [on |-> TRUE, dir |-> "out", left |-> Room - n]
      /\ kind = "LONG_WRITE" => ch1' = [on |-> TRUE, dir |-> "in", left |-> Room - n]
      /\ kind \notin {"LONG_READ", "LONG_WRITE"} => ch1' = ch1
      /\ cr2' = (IF kind = "LONG_READ" THEN {"txdmaen"} ELSE IF kind = "LONG_WRITE" THEN {"rxdmaen"} ELSE {})
  <2>1. cr2' = (cr2 \ {"rxneie"}) \cup (IF kind = "LONG_READ" THEN {"txdmaen"} ELSE {})
                                 \cup (IF kind = "LONG_WRITE" THEN {"rxdmaen"} ELSE {})
    BY DEF TransactionBegins
  <2>2. cr2' = (IF kind = "LONG_READ" THEN {"txdmaen"} ELSE IF kind = "LONG_WRITE" THEN {"rxdmaen"} ELSE {})
    BY <1>4, <2>1
  <2> QED BY <2>2 DEF TransactionBegins
<1> HIDE DEF n
\* What is left in the receive FIFO, and what the channel has taken from it.
<1>10. /\ rxFifo' = (IF kind = "LONG_WRITE" THEN <<>> ELSE Rest)
       /\ SubSeq(Rest, 1, n) = (IF kind = "LONG_WRITE" THEN Rest ELSE <<>>)
  <2>1. CASE kind = "LONG_WRITE"
    <3>1. n = Len(Rest) /\ n \in Nat
      BY <1>3, <1>6, <1>7, <2>1
    <3>2. SubSeq(Rest, n + 1, Len(Rest)) = <<>>
      <4>1. n + 1 \in Int /\ Len(Rest) \in Int /\ Len(Rest) < n + 1
        BY <3>1
      <4> QED BY <4>1, SubSeqEmpty
    <3>3. SubSeq(Rest, 1, n) = Rest
      BY <1>6, <3>1, SubSeqFull
    <3> QED BY <1>8, <2>1, <3>2, <3>3
  <2>2. CASE kind # "LONG_WRITE"
    <3>1. n = 0
      BY <1>7, <2>2
    <3> QED BY <1>6, <1>8, <2>2, <3>1, SubSeqFull, SubSeqEmpty
  <2> QED BY <2>1, <2>2
<1>11. /\ buf' \in [1 .. Room -> Values]
       /\ \A i \in 1 .. Room : buf'[i] = IF kind = "LONG_WRITE" /\ i <= master.sent THEN master.tag ELSE wroteBuf[i]
  <2>1. \A i \in 1 .. Room : buf[i] = wroteBuf[i] /\ wroteBuf[i] \in Values
    BY <1>1, <1>2 DEF MemoryInv, Types
  <2>2. CASE kind = "LONG_WRITE"
    <3>1. buf' = [i \in 1 .. Room |-> IF i <= Len(Rest) THEN Rest[i] ELSE buf[i]]
      BY <1>8, <1>10, <2>2 DEF Poured
    <3> QED BY <1>3, <1>6, <2>1, <2>2, <3>1, BytesAre
  <2>3. CASE kind # "LONG_WRITE"
    <3>1. buf' = [i \in 1 .. Room |-> IF i <= 0 THEN <<>>[i] ELSE buf[i]]
      BY <1>8, <1>10, <2>3 DEF Poured
    <3> QED BY <2>1, <2>3, <3>1
  <2> QED BY <2>2, <2>3
\* What is put into the transmit FIFO.
<1> DEFINE answer == Answer(kind)
<1>12. /\ answer \in Seq(AnswerByte) /\ Len(answer) = (IF kind \in {"READ", "LONG_READ"} THEN 2 ELSE 0)
       /\ \A i \in 1 .. Len(answer) : answer[i] = DueByte(kind, 2 + i)
  <2>1. CASE kind = "READ"
    <3>1. reg = wroteReg /\ reg \in Values
      BY <1>1, <1>2 DEF MemoryInv, Types
    <3>2. answer = <<Reg(reg), Reg(reg)>>
      BY <2>1 DEF Answer
    <3>3. answer \in Seq(AnswerByte) /\ Len(answer) = 2
      BY <3>1, <3>2, BytesAre
    <3>4. DueByte(kind, 3) = Reg(wroteReg) /\ DueByte(kind, 4) = Reg(wroteReg)
      BY <2>1 DEF DueByte
    <3> QED BY <2>1, <3>1, <3>2, <3>3, <3>4
  <2>2. CASE kind = "LONG_READ"
    <3>1. answer = <<Size, Size>>
      BY <2>2 DEF Answer
    <3>2. answer \in Seq(AnswerByte) /\ Len(answer) = 2
      BY <3>1, BytesAre
    <3>3. DueByte(kind, 3) = Size /\ DueByte(kind, 4) = Size
      BY <2>2 DEF DueByte
    <3> QED BY <2>2, <3>1, <3>2, <3>3
  <2>3. CASE kind \notin {"READ", "LONG_READ"}
    BY <2>3 DEF Answer
  <2> QED BY <2>1, <2>2, <2>3
<1> HIDE DEF answer
<1>13. /\ Queued = 2 /\ Len(heard) \in 1 .. 2 /\ Len(txFifo) = 2 - Len(heard)
       /\ \A i \in 1 .. Len(txFifo) : txFifo[i] = DueByte(kind, Len(heard) + i)
  <2>1. Queued = 2 /\ Len(heard) \in 1 .. 2
    BY <1>1, <1>3 DEF Queued
  <2> QED BY <1>1, <1>2, <1>5, <2>1 DEF HeardInv
<1>14. txFifo' = txFifo \o answer
  <2> DEFINE f == Len(txFifo)
             a == Len(answer)
             h == Len(heard)
             d == TxDepth
  <2>1. h \in 1 .. 2 /\ f = 2 - h
    BY <1>13
  <2>2. a = 2 \/ a = 0
    BY <1>12
  <2>3. d >= 3 /\ d \in Nat
    BY Depths DEF Deep
  <2>4. f + a <= d
    <3> HIDE DEF f, a, h, d
    <3> QED BY <2>1, <2>2, <2>3
  <2>5. txFifo \in Seq(AnswerByte) /\ Len(txFifo) + Len(answer) <= TxDepth
    BY <1>1, <2>4 DEF Types
  <2>6. txFifo' = Push(txFifo, answer)
    BY <1>8 DEF answer
  <2> QED BY <1>12, <2>5, <2>6, PushFits
<1>15. /\ txFifo' \in Seq(AnswerByte) /\ Len(txFifo') = Len(txFifo) + Len(answer)
       /\ \A i \in 1 .. Len(txFifo) + Len(answer) :
            txFifo'[i] = IF i <= Len(txFifo) THEN txFifo[i] ELSE answer[i - Len(txFifo)]
  <2>1. txFifo \in Seq(AnswerByte)
    BY <1>1 DEF Types
  <2> QED BY <1>12, <1>14, <2>1, ConcatProperties
<1>16. Types'
  <2>1. ch1' \in [on : BOOLEAN, dir : {"in", "out"}, left : 0 .. Room]
    <3>1. Room - n \in 0 .. Room
      BY <1>3, <1>7, Depths
    <3>2. CASE kind = "LONG_READ"
      <4>1. ch1' = [on |-> TRUE, dir |-> "out", left |-> Room - n]
        BY <1>9, <3>2
      <4> QED BY <3>1, <4>1
    <3>3. CASE kind = "LONG_WRITE"
      <4>1. ch1' = [on |-> TRUE, dir |-> "in", left |-> Room - n]
        BY <1>9, <3>3
      <4> QED BY <3>1, <4>1
    <3>4. CASE kind \notin {"LONG_READ", "LONG_WRITE"}
      BY <1>1, <1>9, <3>4 DEF Types
    <3> QED BY <3>2, <3>3, <3>4
  <2>2. rxFifo' \in Seq(AllKinds \cup Tags) /\ Len(rxFifo') <= RxDepth
    <3>1. <<>> \in Seq(AllKinds \cup Tags) /\ Len(<<>>) = 0
      OBVIOUS
    <3>2. Len(Rest) \in 0 .. 1
      BY <1>3, <1>6
    <3>3. 0 <= RxDepth /\ 1 <= RxDepth /\ RxDepth \in Nat
      BY Depths
    <3>4. Len(Rest) <= RxDepth
      BY <3>2, <3>3
    <3> QED BY <1>6, <1>10, <3>1, <3>3, <3>4
  <2> QED BY <1>1, <1>8, <1>11, <1>15, <2>1, <2>2 DEF Types
<1>17. Active' /\ ActiveInv'
  <2>1. Active'
    BY <1>2, <1>8 DEF Active
  <2>2. mode' = master'.kind /\ pc' = "wait" /\ spiPend' = FALSE /\ extiPend' = FALSE
    BY <1>1, <1>4, <1>5, <1>8
  <2>3. mode' = kind /\ kind \in AllKinds
    BY <1>8
  <2>4. mode' \in {"READ", "WRITE", "INVALID"} => cr2' = {} /\ ~ch1'.on
    BY <1>4, <1>9, <2>3
  <2>5. mode' = "LONG_READ" => cr2' = {"txdmaen"} /\ ch1'.on /\ ch1'.dir = "out"
    BY <1>9, <2>3
  <2>6. mode' = "LONG_WRITE" => cr2' = {"rxdmaen"} /\ ch1'.on /\ ch1'.dir = "in"
    BY <1>9, <2>3
  <2> QED BY <2>1, <2>2, <2>4, <2>5, <2>6 DEF ActiveInv
<1>18. MemoryInv'
  <2>1. reg' = wroteReg' /\ extiPend' = FALSE /\ mode' = kind /\ master' = master /\ wroteBuf' = wroteBuf
    BY <1>1, <1>2, <1>8 DEF MemoryInv
  <2>2. mode' = "WRITE" => /\ Len(rxFifo') = Least(master.sent, RxDepth)
                           /\ \A i \in 1 .. Len(rxFifo') : rxFifo'[i] = master.tag
    BY <1>3, <1>6, <1>10, <2>1, Depths DEF Least
  <2>3. mode' = "LONG_WRITE" => ch1'.left = Room - Least(master.sent, Room)
    BY <1>3, <1>7, <1>9, <2>1, Depths DEF Least
  <2> QED BY <1>11, <2>1, <2>2, <2>3 DEF MemoryInv
<1>19. HeardInv'
  <2>1. UNCHANGED <<heard, master, wroteReg, wroteBuf>> /\ spiPend' = FALSE
    BY <1>8
  <2>2. Queued' = 2 + Len(answer)
    <3>1. CASE kind = "LONG_READ"
      <4>1. ch1'.left = Room
        BY <3>1, <1>7, <1>9, Depths
      <4>2. Queued' = 4 + Room - ch1'.left
        BY <3>1, <1>5, <2>1 DEF Queued
      <4>3. Queued' = 4
        BY <4>1, <4>2, Depths
      <4>4. Len(answer) = 2
        BY <3>1, <1>12
      <4> QED BY <3>1, <4>3, <4>4
    <3>2. CASE kind # "LONG_READ"
      BY <3>2, <1>5, <1>12, <2>1 DEF Queued, AnswerLen
    <3> QED BY <3>1, <3>2
  <2>3. Len(heard) <= Queued' /\ Len(txFifo') = Queued' - Len(heard)
    BY <1>12, <1>13, <1>15, <2>2
  <2>4. \A i \in 1 .. Len(txFifo') : txFifo'[i] = DueByte(kind, Len(heard) + i)
    <3> TAKE i \in 1 .. Len(txFifo')
    <3>1. CASE i <= Len(txFifo)
      BY <3>1, <1>12, <1>13, <1>15
    <3>2. CASE i > Len(txFifo)
      <4> DEFINE j == i - Len(txFifo)
      <4>1. j \in 1 .. Len(answer) /\ txFifo'[i] = answer[j] /\ Len(heard) + i = 2 + j
        BY <3>2, <1>12, <1>13, <1>15
      <4> HIDE DEF j
      <4> QED BY <4>1, <1>12
    <3>3. Len(txFifo) \in Nat
      BY <1>13
    <3> QED BY <3>1, <3>2, <3>3
  <2>5. \A i : DueByte(kind, i)' = DueByte(kind, i)
    BY <2>1 DEF DueByte
  <2>6. \A i \in 1 .. Len(txFifo') : txFifo'[i] = DueByte(kind, Len(heard) + i)'
    BY <2>1, <2>4, <2>5
  <2>7. /\ Len(heard') = master'.sent + 1 /\ Len(heard') + master'.left >= AnswerLen(master'.kind)
        /\ \A i \in 1 .. Len(heard') : heard'[i] = DueByte(kind, i)'
    BY <1>1, <1>2, <1>5, <2>1, <2>5 DEF HeardInv
  <2>8. Len(heard) \in Nat /\ Queued' \in Nat
    BY <1>12, <1>13, <2>2
  <2> QED BY <1>5, <2>1, <2>3, <2>6, <2>7, <2>8 DEF HeardInv
<1> QED BY <1>16, <1>17, <1>18, <1>19 DEF AnswerInv, RestInv

\* One byte more is heard: it is the next one due, or nothing once everything has been heard.
LEMMA OneMoreHeard ==
  ASSUME Types, Active, HeardInv,
         txFifo = <<>> => Queued = AnswerLen(master.kind),
         Queued' = Queued, Active' = Active,
         heard' = Append(heard, Hears),
         txFifo' = IF txFifo = <<>> THEN <<>> ELSE Tail(txFifo),
         master'.kind = master.kind, master'.left = master.left - 1, master'.sent = master.sent + 1,
         UNCHANGED <<wroteReg, wroteBuf>>
  PROVE  /\ HeardInv' /\ heard' \in Seq(AnswerByte) /\ txFifo' \in Seq(AnswerByte)
<1> DEFINE kind == master.kind
           h == Len(heard)
           t == Len(txFifo)
           due(i) == DueByte(kind, i)
<1>1. /\ kind \in AllKinds /\ txFifo \in Seq(AnswerByte) /\ heard \in Seq(AnswerByte)
      /\ h \in Nat /\ t \in Nat /\ master.left \in Nat /\ master.sent \in Nat
  BY DEF Types
<1>2. AnswerLen(kind) \in Nat /\ Queued \in Int
  <2>1. ch1.left \in 0 .. Room
    BY DEF Types
  <2> QED BY <2>1, Depths DEF AnswerLen, Queued
<1>3. /\ h = master.sent + 1 /\ h + master.left >= AnswerLen(kind)
      /\ \A i \in 1 .. h : heard[i] = due(i)
      /\ \A i \in 1 .. t : txFifo[i] = due(h + i)
      /\ t = (IF h <= Queued THEN Queued - h ELSE 0)
      /\ h > Queued => Queued = AnswerLen(kind)
  BY DEF HeardInv
<1>4. \A i : DueByte(kind, i)' = due(i)
  BY DEF DueByte
<1>5. Hears = due(h + 1) /\ Hears \in AnswerByte
  <2>1. CASE txFifo = <<>>
    <3>1. t = 0
      BY <2>1
    <3>2. h >= AnswerLen(kind)
      BY <1>1, <1>2, <1>3, <2>1, <3>1
    <3>3. h + 1 \in Nat /\ h + 1 > AnswerLen(kind)
      BY <1>1, <1>2, <3>2
    <3>4. due(h + 1) = Idle
      BY <1>1, <3>3, NothingMore
    <3> QED BY <2>1, <3>4, BytesAre DEF Hears
  <2>2. CASE txFifo # <<>>
    <3>1. Head(txFifo) = txFifo[1] /\ Head(txFifo) \in AnswerByte /\ t # 0
      BY <1>1, <2>2, HeadTailProperties, EmptySeq
    <3>2. txFifo[1] = due(h + 1)
      BY <1>1, <1>3, <3>1
    <3> QED BY <2>2, <3>1, <3>2 DEF Hears
  <2> QED BY <2>1, <2>2
<1>6. /\ heard' \in Seq(AnswerByte) /\ Len(heard') = h + 1
      /\ \A i \in 1 .. h : heard'[i] = heard[i]
      /\ heard'[h + 1] = Hears
  BY <1>1, <1>5, AppendProperties
<1>7. /\ txFifo' \in Seq(AnswerByte) /\ Len(txFifo') = (IF t = 0 THEN 0 ELSE t - 1)
      /\ \A i \in 1 .. Len(txFifo') : txFifo'[i] = txFifo[i + 1]
  <2>1. CASE txFifo = <<>>
    BY <2>1
  <2>2. CASE txFifo # <<>>
    <3>1. t # 0
      BY <1>1, <2>2, EmptySeq
    <3> QED BY <1>1, <2>2, <3>1, HeadTailProperties
  <2> QED BY <2>1, <2>2
<1>8. \A i \in 1 .. Len(heard') : heard'[i] = due(i)
  <2> TAKE i \in 1 .. Len(heard')
  <2>1. CASE i \in 1 .. h
    BY <1>3, <1>6, <2>1
  <2>2. CASE i = h + 1
    <3>1. heard'[i] = Hears
      BY <1>6, <2>2
    <3> QED BY <1>5, <2>2, <3>1
  <2> QED BY <1>1, <1>6, <2>1, <2>2
<1>9. \A i \in 1 .. Len(txFifo') : txFifo'[i] = due(Len(heard') + i)
  <2> TAKE i \in 1 .. Len(txFifo')
  <2>1. i + 1 \in 1 .. t /\ h + (i + 1) = Len(heard') + i
    BY <1>1, <1>6, <1>7
  <2>2. txFifo'[i] = due(h + (i + 1))
    BY <1>3, <1>7, <2>1
  <2> QED BY <2>1, <2>2
<1>10. /\ Len(txFifo') = (IF h + 1 <= Queued THEN Queued - (h + 1) ELSE 0)
       /\ h + 1 > Queued => Queued = AnswerLen(kind)
  <2>1. t = 0 => txFifo = <<>>
    BY <1>1, EmptySeq
  <2>2. t = 0 => Queued = AnswerLen(kind)
    BY <2>1
  <2>3. Len(txFifo') = (IF h + 1 <= Queued THEN Queued - (h + 1) ELSE 0)
    BY <1>1, <1>2, <1>3, <1>7
  <2>4. h + 1 > Queued => t = 0
    BY <1>1, <1>2, <1>3
  <2> QED BY <2>2, <2>3, <2>4
<1>11. HeardInv'
  <2>1. Len(heard') = master'.sent + 1 /\ Len(heard') + master'.left >= AnswerLen(master'.kind)
    BY <1>1, <1>2, <1>3, <1>6
  <2>2. /\ \A i \in 1 .. Len(heard') : heard'[i] = DueByte(kind, i)'
        /\ \A i \in 1 .. Len(txFifo') : txFifo'[i] = DueByte(kind, Len(heard) + i)'
    BY <1>4, <1>8, <1>9
  <2>3. /\ Len(txFifo') = (IF Len(heard') <= Queued' THEN Queued' - Len(heard') ELSE 0)
        /\ Len(heard') > Queued' => Queued' = AnswerLen(master'.kind)
    BY <1>6, <1>10
  <2> QED BY <2>1, <2>2, <2>3 DEF HeardInv
<1> QED BY <1>6, <1>7, <1>11

LEMMA MasterClocksAnswers ==
  ASSUME Deep, waits, AnswerInv, MasterClocks
  PROVE  AnswerInv'
<1> USE DEF cpuVars, memory, masterVars
<1>1. /\ Types /\ ActiveInv /\ MemoryInv /\ HeardInv /\ Active
      /\ master.phase = "clocking" /\ master.left > 0 /\ ~TxAsked /\ (~spiPend \/ master.sent = 0)
  BY DEF AnswerInv, MasterClocks, Active
<1>2. /\ master.kind \in AllKinds /\ master.left \in Nat /\ master.sent \in Nat /\ master.tag \in Tags
      /\ ~extiPend
  BY <1>1 DEF Types, ActiveInv
<1>3. /\ Exchange(master.tag) /\ heard' = Append(heard, Hears)
      /\ master' = [master EXCEPT !.left = @ - 1, !.sent = Noted(@, @ + 1)]
      /\ UNCHANGED <<mode, cr2, extiPend, reg, pc, seen, waits, wroteReg, wroteBuf>>
  BY DEF MasterClocks, Noted
<1>4. /\ master'.phase = "clocking" /\ master'.kind = master.kind /\ master'.tag = master.tag
      /\ master'.left = master.left - 1 /\ master'.sent = master.sent + 1
      /\ master' \in [phase : {"idle", "clocking"}, kind : AllKinds, left : Nat, sent : Nat, tag : Tags]
  <2>1. Noted(master.sent, master.sent + 1) = master.sent + 1
    BY DEF Noted
  <2>2. master.left - 1 \in Nat /\ master.sent + 1 \in Nat
    BY <1>1, <1>2
  <2>3. master' = [master EXCEPT !.left = master.left - 1, !.sent = master.sent + 1]
    BY <1>1, <1>3, <2>1 DEF Types
  <2> QED BY <1>1, <2>2, <2>3 DEF Types
<1>5. Active' /\ Active' = Active
  BY <1>1, <1>4 DEF Active
<1>6. (spiPend' <=> spiPend) /\ mode = (IF spiPend THEN "IDLE" ELSE master.kind)
  <2>1. mode = (IF spiPend THEN "IDLE" ELSE master.kind)
    BY <1>1 DEF ActiveInv
  <2>2. spiPend' = (spiPend \/ "rxneie" \in cr2)
    BY <1>3 DEF Exchange
  <2>3. CASE spiPend
    <3>1. spiPend'
      BY <2>2, <2>3
    <3> QED BY <2>1, <2>3, <3>1
  <2>4. CASE ~spiPend
    <3>1. "rxneie" \notin cr2
      BY <1>1, <1>2, <2>1, <2>4 DEF ActiveInv, AllKinds
    <3> QED BY <2>1, <2>2, <2>4, <3>1
  <2> QED BY <2>3, <2>4
<1> DEFINE Received == ch1.on /\ ch1.dir = "in" /\ "rxdmaen" \in cr2 /\ ch1.left > 0
<1>7. Received => ~spiPend /\ mode = "LONG_WRITE"
  <2>1. SUFFICES ASSUME Received PROVE ~spiPend /\ mode = "LONG_WRITE"
    OBVIOUS
  <2>2. ~spiPend
    BY <1>1, <2>1 DEF ActiveInv
  <2> QED BY <1>1, <1>2, <1>6, <2>1, <2>2 DEF ActiveInv, AllKinds
\* A byte of a long write goes to the buffer, while the buffer has room for it; all others go
\* to the FIFO.
<1>8. CASE Received
  <2> DEFINE at == Room - ch1.left + 1
  <2>1. /\ ch1.left \in 1 .. Room /\ ch1.left = Room - Least(master.sent, Room)
        /\ \A i \in 1 .. Room : buf[i] = IF i <= master.sent THEN master.tag ELSE wroteBuf[i]
    BY <1>1, <1>2, <1>7, <1>8, Depths DEF Types, MemoryInv
  <2>2. master.sent < Room /\ ch1.left = Room - master.sent /\ at = master.sent + 1
    BY <1>2, <2>1, Depths DEF Least
  <2>3. /\ buf' = [buf EXCEPT ![at] = master.tag] /\ ch1' = [ch1 EXCEPT !.left = @ - 1]
        /\ rxFifo' = rxFifo
    BY <1>3, <1>8 DEF Exchange, Noted
  <2>4. /\ buf' \in [1 .. Room -> Values]
        /\ \A i \in 1 .. Room : buf'[i] = IF i <= master.sent + 1 THEN master.tag ELSE wroteBuf[i]
    <3>1. buf \in [1 .. Room -> Values] /\ master.tag \in Values /\ at \in 1 .. Room
      BY <1>1, <1>2, <2>2, BytesAre, Depths DEF Types
    <3> HIDE DEF at
    <3>2. buf' \in [1 .. Room -> Values] /\ \A i \in 1 .. Room : buf'[i] = IF i = at THEN master.tag ELSE buf[i]
      BY <2>3, <3>1
    <3> QED BY <1>2, <2>1, <2>2, <3>2, Depths
  <2>5. ch1' = [on |-> ch1.on, dir |-> ch1.dir, left |-> ch1.left - 1]
    BY <1>1, <2>3 DEF Types
  <2>6. ch1' \in [on : BOOLEAN, dir : {"in", "out"}, left : 0 .. Room]
    <3>1. ch1.left - 1 \in 0 .. Room /\ ch1.on \in BOOLEAN /\ ch1.dir \in {"in", "out"}
      BY <1>1, <2>1, Depths DEF Types
    <3> QED BY <2>5, <3>1
  <2>7. ch1'.left = Room - Least(master'.sent, Room)
    BY <1>2, <1>4, <2>2, <2>5, Depths DEF Least
  <2>8. ActiveInv'
    BY <1>1, <1>2, <1>3, <1>4, <1>5, <1>6, <1>7, <1>8, <2>3, <2>5 DEF ActiveInv
  <2>9. MemoryInv'
    <3>1. reg' = wroteReg' /\ mode' = "LONG_WRITE" /\ ~extiPend'
      BY <1>1, <1>2, <1>3, <1>7, <1>8 DEF MemoryInv
    <3> QED BY <1>3, <1>4, <2>4, <2>7, <3>1 DEF MemoryInv
  <2>10. Queued' = Queued /\ (txFifo = <<>> => Queued = AnswerLen(master.kind))
    BY <1>4, <1>6, <1>7, <1>8 DEF Queued
  <2>11. txFifo' = IF txFifo = <<>> THEN <<>> ELSE Tail(txFifo)
    BY <1>3 DEF Exchange
  <2>12. HeardInv' /\ heard' \in Seq(AnswerByte) /\ txFifo' \in Seq(AnswerByte)
    BY <1>1, <1>3, <1>4, <1>5, <2>10, <2>11, OneMoreHeard
  <2>13. Types'
    BY <1>1, <1>3, <1>4, <2>3, <2>4, <2>6, <2>12 DEF Types
  <2> QED BY <1>5, <2>8, <2>9, <2>12, <2>13 DEF AnswerInv, RestInv
<1>9. CASE ~Received
  <2>1. /\ rxFifo' = (IF Len(rxFifo) < RxDepth THEN Append(rxFifo, master.tag) ELSE rxFifo)
        /\ UNCHANGED <<buf, ch1>>
    BY <1>3, <1>9 DEF Exchange
  <2> HIDE DEF Received
  <2>2. rxFifo \in Seq(AllKinds \cup Tags) /\ master.tag \in AllKinds \cup Tags /\ Len(rxFifo) \in Nat
        /\ Len(rxFifo) <= RxDepth
    BY <1>1, <1>2 DEF Types
  <2>3. /\ rxFifo' \in Seq(AllKinds \cup Tags)
        /\ Len(rxFifo') = (IF Len(rxFifo) < RxDepth THEN Len(rxFifo) + 1 ELSE Len(rxFifo))
        /\ \A i \in 1 .. Len(rxFifo) : rxFifo'[i] = rxFifo[i]
        /\ \A i \in 1 .. Len(rxFifo') : i > Len(rxFifo) => rxFifo'[i] = master.tag
    <3>1. CASE Len(rxFifo) < RxDepth
      <4>1. rxFifo' = Append(rxFifo, master.tag)
        BY <2>1, <3>1
      <4>2. /\ rxFifo' \in Seq(AllKinds \cup Tags) /\ Len(rxFifo') = Len(rxFifo) + 1
            /\ \A i \in 1 .. Len(rxFifo) : rxFifo'[i] = rxFifo[i]
            /\ rxFifo'[Len(rxFifo) + 1] = master.tag
        BY <2>2, <4>1, AppendProperties
      <4> QED BY <2>2, <3>1, <4>2
    <3>2. CASE ~(Len(rxFifo) < RxDepth)
      <4>1. rxFifo' = rxFifo
        BY <2>1, <3>2
      <4> QED BY <2>2, <3>2, <4>1
    <3> QED BY <3>1, <3>2
  <2>4. Len(rxFifo') <= RxDepth
    BY <2>2, <2>3, Depths
  <2>5. ActiveInv'
    <3>1. CASE spiPend
      <4>1. /\ Len(rxFifo) = 1 /\ rxFifo[1] = master.kind /\ master.sent = 0
            /\ cr2 = {"rxneie"} /\ ~ch1.on /\ pc = "wait" /\ mode = "IDLE"
        <5>1. master.sent = 0 /\ mode = "IDLE"
          BY <1>1, <1>6, <3>1
        <5> QED BY <1>1, <3>1, <5>1 DEF ActiveInv
      <4>2. Len(rxFifo') = 2 /\ rxFifo'[1] = master.kind /\ rxFifo'[2] = master.tag
        BY <2>3, <4>1, Depths DEF Deep
      <4> QED BY <1>2, <1>3, <1>4, <1>6, <2>1, <3>1, <4>1, <4>2 DEF ActiveInv
    <3>2. CASE ~spiPend
      BY <1>1, <1>2, <1>3, <1>4, <1>6, <2>1, <3>2 DEF ActiveInv
    <3> QED BY <3>1, <3>2
  <2>6. MemoryInv'
    <3>1. reg' = wroteReg' /\ ~extiPend' /\ mode' = mode
      BY <1>1, <1>2, <1>3 DEF MemoryInv
    <3>2. mode = "WRITE" => /\ Len(rxFifo') = Least(master'.sent, RxDepth)
                            /\ \A i \in 1 .. Len(rxFifo') : rxFifo'[i] = master'.tag
      <4>1. SUFFICES ASSUME mode = "WRITE"
                     PROVE  /\ Len(rxFifo') = Least(master'.sent, RxDepth)
                            /\ \A i \in 1 .. Len(rxFifo') : rxFifo'[i] = master'.tag
        OBVIOUS
      <4>2. /\ Len(rxFifo) = Least(master.sent, RxDepth)
            /\ \A i \in 1 .. Len(rxFifo) : rxFifo[i] = master.tag
        BY <1>1, <4>1 DEF MemoryInv
      <4>3. Len(rxFifo') = Least(master'.sent, RxDepth)
        BY <1>2, <1>4, <2>3, <4>2, Depths DEF Least
      <4>4. \A i \in 1 .. Len(rxFifo') : rxFifo'[i] = master.tag
        <5> TAKE i \in 1 .. Len(rxFifo')
        <5>1. CASE i \in 1 .. Len(rxFifo)
          BY <2>3, <4>2, <5>1
        <5>2. CASE i > Len(rxFifo)
          BY <2>3, <5>2
        <5> QED BY <2>2, <5>1, <5>2
      <4> QED BY <1>4, <4>3, <4>4
    \* The buffer is full, and takes no more.
    <3>3. mode = "LONG_WRITE" => ch1.left = 0 /\ master.sent >= Room
      <4>1. SUFFICES ASSUME mode = "LONG_WRITE" PROVE ch1.left = 0 /\ master.sent >= Room
        OBVIOUS
      <4>2. cr2 = {"rxdmaen"} /\ ch1.on /\ ch1.dir = "in" /\ ch1.left \in 0 .. Room
        BY <1>1, <4>1 DEF ActiveInv, Types
      <4>3. ch1.left = 0
        BY <1>9, <4>2, Depths DEF Received
      <4>4. ch1.left = Room - Least(master.sent, Room)
        BY <1>1, <4>1 DEF MemoryInv
      <4> QED BY <1>2, <4>3, <4>4, Depths DEF Least
    <3>4. mode = "LONG_WRITE" => ch1'.left = Room - Least(master'.sent, Room)
      BY <1>2, <1>4, <2>1, <3>3, Depths DEF Least
    <3>5. \A i \in 1 .. Room :
            buf'[i] = IF mode = "LONG_WRITE" /\ i <= master'.sent THEN master.tag ELSE wroteBuf[i]
      <4>1. \A i \in 1 .. Room :
              buf[i] = IF mode = "LONG_WRITE" /\ i <= master.sent THEN master.tag ELSE wroteBuf[i]
        BY <1>1, <1>2 DEF MemoryInv
      <4>2. mode = "LONG_WRITE" => \A i \in 1 .. Room : i <= master.sent /\ i <= master'.sent
        BY <1>2, <1>4, <3>3, Depths
      <4> QED BY <2>1, <4>1, <4>2
    <3> QED BY <1>3, <1>4, <3>1, <3>2, <3>4, <3>5 DEF MemoryInv
  \* The channel has no byte left to move when the FIFO runs dry.
  <2>7. txFifo = <<>> => Queued = AnswerLen(master.kind)
    <3>1. SUFFICES ASSUME txFifo = <<>> PROVE Queued = AnswerLen(master.kind)
      OBVIOUS
    <3>2. ~spiPend
      <4>1. SUFFICES ASSUME spiPend PROVE FALSE
        OBVIOUS
      <4>2. Queued = 2 /\ Len(heard) = 1
        <5>1. Queued = 2
          BY <4>1 DEF Queued
        <5>2. master.sent = 0
          BY <1>1, <4>1
        <5>3. Len(heard) = master.sent + 1
          BY <1>1 DEF HeardInv
        <5> QED BY <5>1, <5>2, <5>3
      <4>3. Len(txFifo) = 1
        BY <1>1, <4>2 DEF HeardInv
      <4> QED BY <3>1, <4>3
    <3>3. CASE master.kind = "LONG_READ"
      <4>1. cr2 = {"txdmaen"} /\ ch1.on /\ ch1.dir = "out" /\ ch1.left \in 0 .. Room
        BY <1>1, <1>6, <3>2, <3>3 DEF ActiveInv, Types
      <4>2. Len(txFifo) < TxDepth
        BY <3>1, Depths
      <4>3. ch1.left = 0
        BY <1>1, <4>1, <4>2, Depths DEF TxAsked
      <4> QED BY <3>2, <3>3, <4>3, Depths DEF Queued, AnswerLen
    <3>4. CASE master.kind # "LONG_READ"
      BY <3>2, <3>4 DEF Queued
    <3> QED BY <3>3, <3>4
  <2>8. Queued' = Queued
    BY <1>4, <1>6, <2>1 DEF Queued
  <2>9. txFifo' = IF txFifo = <<>> THEN <<>> ELSE Tail(txFifo)
    BY <1>3 DEF Exchange
  <2>10. HeardInv' /\ heard' \in Seq(AnswerByte) /\ txFifo' \in Seq(AnswerByte)
    BY <1>1, <1>3, <1>4, <1>5, <2>7, <2>8, <2>9, OneMoreHeard
  <2>11. Types'
    BY <1>1, <1>3, <1>4, <2>1, <2>3, <2>4, <2>10 DEF Types
  <2> QED BY <1>5, <2>5, <2>6, <2>10, <2>11 DEF AnswerInv, RestInv
<1> QED BY <1>8, <1>9

\* The end of a transaction is on its way: what it has written is owed from now on.
LEMMA MasterEndsAnswers ==
  ASSUME Deep, waits, AnswerInv, MasterEnds
  PROVE  AnswerInv'
<1> USE DEF cpuVars, memory, masterVars
<1>1. /\ Types /\ ActiveInv /\ MemoryInv /\ HeardInv /\ Active
      /\ master.phase = "clocking" /\ master.left = 0 /\ ~spiPend /\ ~extiPend
  BY DEF AnswerInv, MasterEnds, Active, ActiveInv
<1>2. /\ master.kind \in AllKinds /\ master.sent \in Nat /\ master.tag \in Tags
      /\ mode = master.kind
  BY <1>1 DEF Types, ActiveInv
<1>3. /\ extiPend' = TRUE
      /\ UNCHANGED <<mode, cr2, busy, spiPend, rxFifo, txFifo, ch1, memory, cpuVars, waits, heard>>
  BY DEF MasterEnds
<1>4. /\ master'.phase = "idle" /\ master'.kind = master.kind /\ master'.tag = master.tag
      /\ master'.left = master.left /\ master'.sent = master.sent
      /\ master' \in [phase : {"idle", "clocking"}, kind : AllKinds, left : Nat, sent : Nat, tag : Tags]
  BY <1>1 DEF MasterEnds, Types
<1>5. wroteReg' = IF mode = "WRITE" /\ master.sent >= 2 THEN master.tag ELSE wroteReg
  BY <1>2 DEF MasterEnds, Noted
<1>6. /\ wroteBuf' \in [1 .. Room -> Values]
      /\ \A i \in 1 .. Room : wroteBuf'[i] = IF mode = "LONG_WRITE" /\ i <= master.sent THEN master.tag ELSE wroteBuf[i]
  <2>1. wroteBuf \in [1 .. Room -> Values] /\ master.tag \in Values
    BY <1>1, <1>2, BytesAre DEF Types
  <2>2. CASE mode = "LONG_WRITE"
    <3> DEFINE sent == [i \in 1 .. master.sent |-> master.tag]
    <3>1. Len(sent) = master.sent /\ \A i \in 1 .. master.sent : sent[i] = master.tag
      BY <1>2
    <3>2. wroteBuf' = Poured(wroteBuf, sent)
      BY <1>2, <2>2 DEF MasterEnds, Noted
    <3> HIDE DEF sent
    <3>3. wroteBuf' = [i \in 1 .. Room |-> IF i <= master.sent THEN sent[i] ELSE wroteBuf[i]]
      BY <3>1, <3>2 DEF Poured
    <3> QED BY <1>2, <2>1, <2>2, <3>1, <3>3
  <2>3. CASE mode # "LONG_WRITE"
    BY <1>2, <2>1, <2>3 DEF MasterEnds
  <2> QED BY <2>2, <2>3
<1>7. Active'
  BY <1>3 DEF Active
<1>8. Types'
  <2>1. wroteReg' \in Values
    BY <1>1, <1>2, <1>5, BytesAre DEF Types
  <2> QED BY <1>1, <1>3, <1>4, <1>6, <2>1 DEF Types
<1>9. ActiveInv'
  BY <1>1, <1>2, <1>3, <1>4 DEF ActiveInv
<1>10. MemoryInv'
  <2>1. IF mode = "WRITE" /\ master.sent >= 2 THEN wroteReg' = master.tag ELSE reg' = wroteReg'
    BY <1>1, <1>3, <1>5 DEF MemoryInv
  <2>2. \A i \in 1 .. Room : buf'[i] = wroteBuf'[i]
    BY <1>1, <1>3, <1>6 DEF MemoryInv
  <2> QED BY <1>1, <1>3, <1>4, <2>1, <2>2 DEF MemoryInv
\* What this transaction is due is not what it has written.
<1>11. HeardInv'
  <2>1. \A i : DueByte(master.kind, i)' = DueByte(master.kind, i)
    BY <1>2, <1>4, <1>5, <1>6 DEF DueByte, MasterEnds
  <2>2. Queued' = Queued
    BY <1>3, <1>4 DEF Queued
  <2>3. /\ \A i \in 1 .. Len(heard') : heard'[i] = DueByte(master.kind, i)'
        /\ \A i \in 1 .. Len(txFifo') : txFifo'[i] = DueByte(master.kind, Len(heard) + i)'
    BY <1>1, <1>3, <2>1 DEF HeardInv
  <2> QED BY <1>1, <1>3, <1>4, <2>2, <2>3 DEF HeardInv
<1> QED BY <1>7, <1>8, <1>9, <1>10, <1>11 DEF AnswerInv, RestInv

\* Every step keeps the invariant; the master does not begin or cease to wait.
LEMMA AnswerStepInv ==
  ASSUME Deep, AnswerInv, [Next]_vars
  PROVE  AnswerInv'
<1>1. waits' = waits
  BY DEF Next, Spi1, SpiReturns, TransactionBegins, Exti, Main, PushDummy, ReadCr2, WriteCr2, SetNotBusy,
         SeesReload, Close, Ch1Moves, Begins, MasterBegins, MasterClocks, MasterEnds, masterVars, vars
<1>2. CASE ~waits
  BY <1>1, <1>2 DEF AnswerInv
<1>3. CASE waits
  <2>1. CASE UNCHANGED vars
    BY <2>1 DEF vars, memory, cpuVars, masterVars, AnswerInv, Types, Active, RestInv, ActiveInv, MemoryInv,
                HeardInv, Queued, DueByte, AnswerLen
  <2>2. CASE Exti
    BY <1>3, <2>2, ExtiAnswers
  <2>3. CASE Spi1
    BY <1>3, <2>3, NeverEarly, TransactionBeginsAnswers DEF Spi1
  <2>4. CASE Main
    BY <1>3, <2>4, MainAnswers
  <2>5. CASE Ch1Moves
    BY <1>3, <2>5, Ch1MovesAnswers
  <2>6. CASE Begins
    BY <1>3, <2>6, MasterBeginsAnswers
  <2>7. CASE MasterClocks
    BY <1>3, <2>7, MasterClocksAnswers
  <2>8. CASE MasterEnds
    BY <1>3, <2>8, MasterEndsAnswers
  <2> QED BY <2>1, <2>2, <2>3, <2>4, <2>5, <2>6, <2>7, <2>8 DEF Next
<1> QED BY <1>2, <1>3

\* A master that waits until the port is armed and clocks the whole answer hears, byte for
\* byte, the two dummies and then what its earlier transactions have written, and nothing
\* after it: the handler, the channel, the end of the transaction and main, in whatever order
\* they come, leave no byte of one answer for the next and lose none.
THEOREM AnswersAreDue ==
  ASSUME Deep
  PROVE  Spec => []AnswerIsDue
<1>1. AnswerInv => AnswerIsDue
  <2> SUFFICES ASSUME AnswerInv, waits, Active
               PROVE  \A i \in 1 .. Len(heard) :
                        heard[i] = IF i <= Len(Due(master.kind)) THEN Due(master.kind)[i] ELSE Idle
    BY DEF AnswerIsDue, Active
  <2> DEFINE kind == master.kind
  <2>1. /\ kind \in AllKinds /\ wroteReg \in Values /\ wroteBuf \in [1 .. Room -> Values]
        /\ Len(heard) \in Nat /\ \A i \in 1 .. Len(heard) : heard[i] = DueByte(kind, i)
    BY DEF AnswerInv, Types, HeardInv
  <2> HIDE DEF kind
  <2>2. /\ AnswerLen(kind) \in Nat /\ Len(Due(kind)) = AnswerLen(kind)
        /\ \A i \in 1 .. AnswerLen(kind) : Due(kind)[i] = DueByte(kind, i)
    BY <2>1, DueIs
  <2>3. \A i \in 1 .. Len(heard) : heard[i] = IF i <= Len(Due(kind)) THEN Due(kind)[i] ELSE Idle
    <3> TAKE i \in 1 .. Len(heard)
    <3>1. CASE i <= AnswerLen(kind)
      BY <2>1, <2>2, <3>1
    <3>2. CASE i > AnswerLen(kind)
      <4>1. DueByte(kind, i) = Idle
        BY <2>1, <3>2, NothingMore
      <4> QED BY <2>1, <2>2, <3>2, <4>1
    <3> QED BY <2>1, <2>2, <3>1, <3>2
  <2> QED BY <2>3 DEF kind
<1> QED BY <1>1, AnswerInitInv, AnswerStepInv, PTL DEF Spec
=============================================================================
