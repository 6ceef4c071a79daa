-------------------------------- MODULE Spip --------------------------------
(***************************************************************************)
(* firmware/src/bin/spip.rs, the SPI slave on its own: registers and a      *)
(* buffer of 256 bytes that the master reads and writes, one DMA channel    *)
(* for both directions.  The main loop arms the port before each            *)
(* transaction: it puts two dummy bytes into the transmit FIFO, which the   *)
(* master hears while the handler prepares the answer, and enables the      *)
(* interrupt that the handler masks.                                        *)
(*                                                                         *)
(* One register stands for the 32.  A byte is what it is the value of.      *)
(***************************************************************************)
EXTENDS Integers, Sequences

CONSTANTS
  Waiting, Hasty,   \* the transactions of a master that waits, and of one that does
                    \* not: their kinds, and the bytes clocked after the first
  Room,             \* the length of the buffer (256 in the code)
  RxDepth, TxDepth  \* bytes the FIFOs hold (4 in the part)

AllKinds == {"LONG_READ", "LONG_WRITE", "READ", "WRITE", "INVALID"}
Tags == {"a", "b"}

ASSUME SpipAssumption ==
  /\ Waiting \cup Hasty \subseteq AllKinds \X Nat
  /\ {Room, RxDepth, TxDepth} \subseteq Nat \ {0}

VARIABLES
  mode,             \* static SPI_MODE
  cr2,              \* the bits set in SPI_CR2: "rxneie", "rxdmaen", "txdmaen"
  busy,             \* the busy pin
  spiPend, extiPend,   \* SPI1 and EXTI0_1 are pending
  rxFifo, txFifo,
  ch1,              \* the channel: running, direction, bytes left
  reg,              \* REGS: "init", a tag, or "mixed"
  buf,              \* DMA_BOX.buf
  pc,               \* where main is in its loop
  seen,             \* main's local: the bits it read in the register it modifies
  waits,            \* does the master wait, before it begins, until the port is
                    \* armed, and clock the whole answer?
  master,           \* the transaction: phase, kind, bytes left and sent, its tag
  heard,            \* what the master has heard in it
  wroteReg, wroteBuf   \* what its transactions so far have written

cpuVars    == <<pc, seen>>
memory     == <<reg, buf>>
masterVars == <<waits, master, heard, wroteReg, wroteBuf>>
vars == <<mode, cr2, busy, spiPend, extiPend, rxFifo, txFifo, ch1, memory, cpuVars, masterVars>>

NextTag(t) == IF t = "a" THEN "b" ELSE "a"

Reg(v) == [reg |-> v]
Mem(v) == [mem |-> v]
Dummy  == [dummy |-> 0]
Size   == [size |-> Room]
Idle   == [idle |-> 0]          \* what the master hears of an empty FIFO

Least(m, n) == IF m < n THEN m ELSE n
Zeros == [i \in 1 .. Room |-> "init"]

Init ==
  /\ mode = "IDLE" /\ cr2 = {} /\ busy = FALSE /\ spiPend = FALSE /\ extiPend = FALSE
  /\ rxFifo = <<>> /\ txFifo = <<>>
  /\ ch1 = [on |-> FALSE, dir |-> "out", left |-> 0]
  /\ reg = "init" /\ buf = Zeros
  /\ pc = "push1" /\ seen = {}
  /\ waits \in BOOLEAN
  /\ master = [phase |-> "idle", kind |-> "INVALID", left |-> 0, sent |-> 0, tag |-> "a"]
  /\ heard = <<>>
  /\ wroteReg = "init" /\ wroteBuf = Zeros

\* What the master hears, and what it writes, is followed of a master that waits:
\* no other is due an answer.
Noted(old, new) == IF waits THEN new ELSE old

Told(bytes) == [i \in 1 .. Len(bytes) |-> Noted(Idle, bytes[i])]

\* What does not fit the FIFO is lost.
Push(q, bytes) == SubSeq(q \o Told(bytes), 1, Least(Len(q) + Len(bytes), TxDepth))

-----------------------------------------------------------------------------
(* SPI1.                                                                   *)

SpiIrq == spiPend /\ ~extiPend

\* In the middle of a transaction, or before main has closed the last: return.
SpiReturns ==
  /\ SpiIrq /\ mode # "IDLE"
  /\ spiPend' = FALSE /\ cr2' = cr2 \ {"rxneie"} /\ busy' = TRUE
  /\ UNCHANGED <<mode, extiPend, rxFifo, txFifo, ch1, memory, cpuVars, masterVars>>

\* A data byte, or what an empty FIFO reads as, may be taken for any header.
TakenFor ==
  IF rxFifo # <<>> /\ Head(rxFifo) \in AllKinds THEN {Head(rxFifo)} ELSE AllKinds

Rest == IF rxFifo = <<>> THEN <<>> ELSE Tail(rxFifo)

\* Mutation: a transaction begins whatever the mode is.
SpiAnyMode == SpiIrq

SpiBegins == SpiIrq /\ mode = "IDLE"

\* What the handler answers at once: the register, or the length of the buffer.
Answer(kind) ==
  CASE kind = "READ"      -> <<Reg(reg), Reg(reg)>>
    [] kind = "LONG_READ" -> <<Size, Size>>
    [] OTHER              -> <<>>

\* Channel 1 takes what the FIFO holds; the buffer is written from its start.
Poured(b, bytes) == [i \in 1 .. Room |-> IF i <= Len(bytes) THEN bytes[i] ELSE b[i]]

TransactionBegins(kind) ==
  LET n == IF kind = "LONG_WRITE" THEN Least(Len(Rest), Room) ELSE 0
  IN /\ SpiBegins /\ kind \in TakenFor
     /\ spiPend' = FALSE /\ mode' = kind /\ busy' = TRUE
     /\ txFifo' = Push(txFifo, Answer(kind))
     /\ rxFifo' = SubSeq(Rest, n + 1, Len(Rest))
     /\ buf' = Noted(buf, Poured(buf, SubSeq(Rest, 1, n)))
     /\ IF kind \in {"LONG_READ", "LONG_WRITE"}
          THEN ch1' = [on |-> TRUE, dir |-> IF kind = "LONG_READ" THEN "out" ELSE "in",
                       left |-> Room - n]
          ELSE ch1' = ch1
     /\ cr2' = (cr2 \ {"rxneie"}) \cup (IF kind = "LONG_READ" THEN {"txdmaen"} ELSE {})
                                   \cup (IF kind = "LONG_WRITE" THEN {"rxdmaen"} ELSE {})
     /\ UNCHANGED <<extiPend, reg, cpuVars, masterVars>>

-----------------------------------------------------------------------------
(* EXTI0_1.                                                                *)

\* Two bytes are popped for a register; a write of one stores nothing.
Stored ==
  IF mode # "WRITE" \/ Len(rxFifo) < 2 THEN reg
  ELSE IF rxFifo[1] = rxFifo[2] /\ rxFifo[1] \in Tags THEN rxFifo[1] ELSE "mixed"

Exti ==
  /\ extiPend /\ extiPend' = FALSE
  /\ reg' = Noted(reg, Stored)
  /\ IF mode \in {"LONG_READ", "LONG_WRITE"}
       THEN /\ ch1' = [ch1 EXCEPT !.on = FALSE]
            /\ cr2' = cr2 \ {IF mode = "LONG_READ" THEN "txdmaen" ELSE "rxdmaen"}
       ELSE UNCHANGED <<ch1, cr2>>
  /\ rxFifo' = <<>> /\ mode' = "RELOAD" /\ busy' = FALSE
  /\ UNCHANGED <<spiPend, txFifo, buf, cpuVars, masterVars>>

Spi1 == SpiReturns \/ \E kind \in AllKinds : TransactionBegins(kind)

-----------------------------------------------------------------------------
(* The main loop.                                                          *)

MainAt(step) == ~spiPend /\ ~extiPend /\ pc = step

\* Mutation: one of the dummies is forgotten.
NoBytes == <<>>

DummyByte == <<Dummy>>

PushDummy ==
  /\ pc \in {"push1", "push2"} /\ MainAt(pc)
  /\ txFifo' = Push(txFifo, IF pc = "push1" THEN DummyByte ELSE <<Dummy>>)
  /\ pc' = IF pc = "push1" THEN "push2" ELSE "readCr2"
  /\ UNCHANGED <<mode, cr2, busy, spiPend, extiPend, rxFifo, ch1, memory, seen, masterVars>>

\* The interrupt is enabled by a read and a write of CR2, which holds the DMA
\* enables too; a byte that waits in the FIFO interrupts at once.
ReadCr2 ==
  /\ MainAt("readCr2")
  /\ seen' = cr2 /\ pc' = "writeCr2"
  /\ UNCHANGED <<mode, cr2, busy, spiPend, extiPend, rxFifo, txFifo, ch1, memory, masterVars>>

WriteCr2 ==
  /\ MainAt("writeCr2")
  /\ cr2' = seen \cup {"rxneie"} /\ seen' = {}
  /\ spiPend' = (rxFifo # <<>>)
  /\ pc' = "notBusy"
  /\ UNCHANGED <<mode, busy, extiPend, rxFifo, txFifo, ch1, memory, masterVars>>

SetNotBusy ==
  /\ MainAt("notBusy")
  /\ busy' = FALSE /\ pc' = "wait"
  /\ UNCHANGED <<mode, cr2, spiPend, extiPend, rxFifo, txFifo, ch1, memory, seen, masterVars>>

SeesReload ==
  /\ MainAt("wait") /\ mode = "RELOAD"
  /\ pc' = "close"
  /\ UNCHANGED <<mode, cr2, busy, spiPend, extiPend, rxFifo, txFifo, ch1, memory, seen,
                 masterVars>>

\* Mutation: the mode stays as it is.
StaysReload == mode

Closed == "IDLE"

Close ==
  /\ MainAt("close")
  /\ mode' = Closed /\ pc' = "push1"
  /\ UNCHANGED <<cr2, busy, spiPend, extiPend, rxFifo, txFifo, ch1, memory, seen, masterVars>>

Main == PushDummy \/ ReadCr2 \/ WriteCr2 \/ SetNotBusy \/ SeesReload \/ Close

-----------------------------------------------------------------------------
(* The channel, as a source of bytes; it is faster than the master.        *)

TxAsked == ch1.on /\ ch1.dir = "out" /\ "txdmaen" \in cr2 /\ ch1.left > 0 /\ Len(txFifo) < TxDepth

Ch1Moves ==
  /\ TxAsked
  /\ txFifo' = Append(txFifo, Noted(Idle, Mem(buf[Room - ch1.left + 1])))
  /\ ch1' = [ch1 EXCEPT !.left = @ - 1]
  /\ UNCHANGED <<mode, cr2, busy, spiPend, extiPend, rxFifo, memory, cpuVars, masterVars>>

-----------------------------------------------------------------------------
(* The master: each byte it sends brings one back.                         *)

Hears == IF txFifo = <<>> THEN Idle ELSE Head(txFifo)

Exchange(byte) ==
  /\ spiPend' = (spiPend \/ "rxneie" \in cr2)
  /\ txFifo' = IF txFifo = <<>> THEN <<>> ELSE Tail(txFifo)
  /\ IF ch1.on /\ ch1.dir = "in" /\ "rxdmaen" \in cr2 /\ ch1.left > 0
       THEN /\ buf' = Noted(buf, [buf EXCEPT ![Room - ch1.left + 1] = byte])
            /\ ch1' = [ch1 EXCEPT !.left = @ - 1]
            /\ UNCHANGED rxFifo
       ELSE /\ rxFifo' = IF Len(rxFifo) < RxDepth THEN Append(rxFifo, byte) ELSE rxFifo
            /\ UNCHANGED <<buf, ch1>>

\* The bytes of the answer, the first one included.
AnswerLen(kind) ==
  CASE kind = "READ" -> 4 [] kind = "LONG_READ" -> 4 + Room [] OTHER -> 2

Armed == MainAt("wait") /\ mode = "IDLE"

MasterBegins(kind, n) ==
  /\ master.phase = "idle"
  /\ waits => Armed /\ n + 1 >= AnswerLen(kind)
  /\ Exchange(kind)
  /\ master' = [phase |-> "clocking", kind |-> kind, left |-> n, sent |-> 0,
                tag |-> Noted(master.tag, NextTag(master.tag))]
  /\ heard' = Noted(heard, <<Hears>>)
  /\ UNCHANGED <<mode, cr2, busy, extiPend, reg, cpuVars, waits, wroteReg, wroteBuf>>

\* The handler has the time of one byte, the second dummy, to answer.
MasterClocks ==
  /\ master.phase = "clocking" /\ master.left > 0
  /\ ~TxAsked
  /\ waits => ~spiPend \/ master.sent = 0
  /\ Exchange(master.tag)
  /\ master' = [master EXCEPT !.left = @ - 1, !.sent = Noted(@, @ + 1)]
  /\ heard' = Noted(heard, Append(heard, Hears))
  /\ UNCHANGED <<mode, cr2, busy, extiPend, reg, cpuVars, waits, wroteReg, wroteBuf>>

MasterEnds ==
  /\ master.phase = "clocking" /\ master.left = 0
  /\ waits => ~spiPend
  /\ extiPend' = TRUE
  /\ master' = [master EXCEPT !.phase = "idle"]
  /\ wroteReg' = IF master.kind = "WRITE" /\ master.sent >= 2
                   THEN Noted(wroteReg, master.tag) ELSE wroteReg
  /\ wroteBuf' = IF master.kind = "LONG_WRITE"
                   THEN Noted(wroteBuf, Poured(wroteBuf, [i \in 1 .. master.sent |-> master.tag]))
                   ELSE wroteBuf
  /\ UNCHANGED <<mode, cr2, busy, spiPend, rxFifo, txFifo, ch1, memory, cpuVars, waits, heard>>

Begins == \E t \in IF waits THEN Waiting ELSE Hasty : MasterBegins(t[1], t[2])

Next == Exti \/ Spi1 \/ Main \/ Ch1Moves \/ Begins \/ MasterClocks \/ MasterEnds

Spec == Init /\ [][Next]_vars

\* Interrupts are taken, main runs, a transaction that has begun ends.  The core is
\* faster than the bus: it gets round to SPI1 and main between two transactions.
FairSpec ==
  /\ Spec
  /\ WF_vars(Exti) /\ SF_vars(Spi1) /\ SF_vars(Main) /\ WF_vars(Ch1Moves)
  /\ WF_vars(MasterClocks) /\ WF_vars(MasterEnds)

-----------------------------------------------------------------------------
(* Properties.                                                             *)

TypeOK ==
  /\ mode \in {"IDLE", "RELOAD"} \cup AllKinds
  /\ cr2 \cup seen \subseteq {"rxneie", "rxdmaen", "txdmaen"}
  /\ {busy, spiPend, extiPend} \subseteq BOOLEAN
  /\ Len(rxFifo) <= RxDepth /\ Len(txFifo) <= TxDepth
  /\ ch1 \in [on : BOOLEAN, dir : {"in", "out"}, left : 0 .. Room]
  /\ reg \in Tags \cup {"init", "mixed"}
  /\ DOMAIN buf = 1 .. Room
  /\ pc \in {"push1", "push2", "readCr2", "writeCr2", "notBusy", "wait", "close"}

\* What a transaction of this kind is due: the two dummies, which cover the time
\* of the handler, then what earlier transactions have written.
Due(kind) ==
  <<Dummy, Dummy>> \o
  CASE kind = "READ"      -> <<Reg(wroteReg), Reg(wroteReg)>>
    [] kind = "LONG_READ" -> <<Size, Size>> \o [i \in 1 .. Room |-> Mem(wroteBuf[i])]
    [] OTHER              -> <<>>

\* The master hears what it is due, byte for byte where it is due, whatever
\* transactions came before, and nothing after it.
AnswerIsDue ==
  waits /\ (master.phase = "clocking" \/ extiPend) =>
    \A i \in 1 .. Len(heard) :
      heard[i] = IF i <= Len(Due(master.kind)) THEN Due(master.kind)[i] ELSE Idle

\* Whatever the master does, and whichever register main is in the middle of
\* modifying: the channel runs only for a long transaction in progress, in its
\* direction, so that the end of the transaction stops it.
ChannelHasItsTransaction ==
  ch1.on => mode = (IF ch1.dir = "in" THEN "LONG_WRITE" ELSE "LONG_READ")

\* After every transaction the port is armed again, by a main loop that the
\* handlers interrupt: it waits for the next byte, with its interrupt enabled.
ArmedAgain == (waits /\ mode = "RELOAD") ~> (Armed /\ "rxneie" \in cr2)
=============================================================================
