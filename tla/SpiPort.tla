------------------------------ MODULE SpiPort ------------------------------
(***************************************************************************)
(* firmware/src/modem/spi.rs and the SPI half of idle_step: the modem is an *)
(* SPI slave.  The first byte of a transaction says what it is; in a long   *)
(* one the bytes that follow go to a frame of s2r by DMA channel 1 while a  *)
(* frame of r2s goes out by channel 2, and the rising edge of CSn ends it.  *)
(* Two pins tell the master when the modem has room and when it has a frame.*)
(*                                                                         *)
(* The RS-485 side of the pipes is an environment that takes frames from    *)
(* s2r and delivers frames to r2s.  The register file is left out: one      *)
(* handler reads it, another writes it, and nothing else depends on it.     *)
(***************************************************************************)
EXTENDS Pipes

CONSTANTS
  MaxLen,           \* the frame size the slots ask grants for (256 in the code)
  Kinds,            \* the kinds of transactions the master makes
  Clocked,          \* how many bytes it clocks after the first
  RsLens,           \* the lengths of the frames the RS-485 side delivers
  Tags,             \* what tells the data of one transaction, or frame, from
                    \* that of the next: one or two values
  FifoDepth,        \* bytes the receive FIFO keeps (4 in the part)
  MasterCareful,    \* does the master start only when a pin invites it to and
                    \* main has nothing to restore?
  MasterPaced,      \* does the master give the handlers the time to run?
  Rs485Waits        \* does the RS-485 side leave the pipes alone meanwhile?

AllKinds == {"LONG", "READ", "WRITE", "INVALID"}

ASSUME SpiAssumption ==
  /\ MaxLen \in Nat \ {0}
  /\ Kinds \subseteq AllKinds
  /\ Clocked \subseteq Nat
  /\ RsLens \subseteq 1 .. MaxLen
  /\ Tags \in {{"a"}, {"a", "b"}}
  /\ FifoDepth \in Nat \ {0}
  /\ {MasterCareful, MasterPaced, Rs485Waits} \subseteq BOOLEAN

VARIABLES
  spiMode,          \* static SPI_MODE
  cr2,              \* the bits set in SPI_CR2: "rxneie", "rxdmaen", "txdmaen"
  spiPend,          \* SPI1 is pending in the NVIC
  extiPend,         \* EXTI0_1 is pending: CSn has risen
  rxFifo,           \* receive FIFO: first bytes (their kind) or data (a tag)
  ch1,              \* receive DMA: running, bytes left (ndt), what it got so
                    \* far, set up for the grant in the slot
  ch2,              \* transmit DMA: running, set up for the grant in the slot
  pins,             \* the pins that are active, in GPIOA_ODR: "rxrdy", "txrdy"
  seen,             \* main's local: the bits it read in the register it modifies
  master,           \* the transaction: phase, bytes left and sent, the tag of
                    \* its data, the pins as they were when it began
  rsTag             \* tag of the next frame of the RS-485 side

intVars  == <<spiMode, cr2, spiPend, extiPend, rxFifo>>
dmaVars  == <<ch1, ch2>>
vars == <<s2r, r2s, loopVars, panicked, intVars, dmaVars, pins, seen, master, rsTag>>

NextTag(t) == IF t = "a" /\ "b" \in Tags THEN "b" ELSE "a"

Bytes == AllKinds \cup Tags
Modes == {"IDLE"} \cup AllKinds
Steps == {"check", "spiWr", "spiWrDma", "spiWrCr", "spiWrAddr", "spiWrDir", "spiWrDirCr",
          "spiWrPin", "spiWrOdr",
          "spiRd", "spiRdDma", "spiRdCr", "spiRdAddr", "spiRdDir", "spiRdDirCr",
          "spiRdPin", "spiRdOdr", "unmask", "unmaskCr2"}
Pins  == {"rxrdy", "txrdy"}

Most == CHOOSE n \in Clocked : \A m \in Clocked : m <= n

TypeOK ==
  /\ PipesTypeOK
  /\ pc \in Steps
  /\ spiMode \in Modes
  /\ cr2 \subseteq {"rxneie", "rxdmaen", "txdmaen"}
  /\ pins \subseteq Pins
  /\ seen \subseteq {"en"} \cup Pins \cup {"rxneie", "rxdmaen", "txdmaen"}
  /\ {spiPend, extiPend} \subseteq BOOLEAN
  /\ rxFifo \in UNION {[1 .. n -> Bytes] : n \in 0 .. FifoDepth}
  /\ ch1 \in [on : BOOLEAN, left : 0 .. MaxLen, got : Tags \cup {"none", "mixed"},
              fresh : BOOLEAN]
  /\ ch2 \in [on : BOOLEAN, fresh : BOOLEAN]
  /\ master \in [phase : {"idle", "clocking"}, left : 0 .. Most, sent : 0 .. Most,
                 tag : Tags, saw : SUBSET Pins]
  /\ rsTag \in Tags

\* setup_spi, which leaves the interrupt masked, and setup_gpios.
Init ==
  /\ PipesInit /\ pc = "check"
  /\ spiMode = "IDLE" /\ cr2 = {} /\ spiPend = FALSE /\ extiPend = FALSE
  /\ rxFifo = <<>>
  /\ ch1 = [on |-> FALSE, left |-> 0, got |-> "none", fresh |-> FALSE]
  /\ ch2 = [on |-> FALSE, fresh |-> FALSE]
  /\ pins = {} /\ seen = {}
  /\ master = [phase |-> "idle", left |-> 0, sent |-> 0, tag |-> NextTag("a"), saw |-> {}]
  /\ rsTag = "a"

-----------------------------------------------------------------------------
(* Bytes from the master: to memory while channel 1 runs and the peripheral *)
(* asks it to, else to the FIFO (a byte that finds it full is lost).        *)
(* Either way the receive flag rises, and with it the interrupt if it is    *)
(* not masked.                                                              *)

DmaTakes(c, byte) ==
  [c EXCEPT !.left = @ - 1,
            !.got  = IF byte \in Tags /\ @ \in {"none", byte} THEN byte ELSE "mixed"]

Arrives(byte) ==
  /\ spiPend' = (spiPend \/ "rxneie" \in cr2)
  /\ IF ch1.on /\ "rxdmaen" \in cr2 /\ ch1.left > 0
       THEN ch1' = DmaTakes(ch1, byte) /\ UNCHANGED rxFifo
       ELSE /\ rxFifo' = IF Len(rxFifo) < FifoDepth THEN Append(rxFifo, byte) ELSE rxFifo
            /\ UNCHANGED ch1

\* What a grant that got these bytes, and no others, holds.
AllOf(bytes) ==
  IF bytes = <<>> THEN "none"
  ELSE IF bytes[1] \in Tags /\ \A i \in DOMAIN bytes : bytes[i] = bytes[1]
         THEN bytes[1] ELSE "mixed"

\* trigger_spi_rx_dma: the channel begins with what the FIFO holds.
Started(fifo) ==
  LET n == IF Len(fifo) < ch1.left THEN Len(fifo) ELSE ch1.left
  IN [ch   |-> [ch1 EXCEPT !.on = TRUE, !.left = @ - n, !.got = AllOf(SubSeq(fifo, 1, n))],
      rest |-> SubSeq(fifo, n + 1, Len(fifo))]

-----------------------------------------------------------------------------
(* exti_isr.                                                               *)

\* "Spurious EXTI?": the FIFO keeps what it has.
ExtiSpurious ==
  /\ ~panicked /\ extiPend /\ spiMode = "IDLE"
  /\ extiPend' = FALSE
  /\ UNCHANGED <<s2r, r2s, loopVars, panicked, spiMode, cr2, spiPend, rxFifo, dmaVars,
                 pins, seen, master, rsTag>>

ExtiShort ==
  /\ ~panicked /\ extiPend /\ spiMode \in {"READ", "WRITE", "INVALID"}
  /\ extiPend' = FALSE
  /\ rxFifo' = <<>> /\ spiMode' = "IDLE"
  /\ UNCHANGED <<s2r, r2s, loopVars, panicked, cr2, spiPend, dmaVars, pins, seen, master,
                 rsTag>>

\* Mutations: what remains is taken for what came; the header is counted.
ReceivedRemaining  == [len |-> ch1.left, tag |-> IF ~ch1.fresh THEN "mixed" ELSE ch1.got]
ReceivedWithHeader == [len |-> MaxLen + 2 - ch1.left,
                       tag |-> IF ~ch1.fresh THEN "mixed" ELSE ch1.got]

\* The frame is what the channel counted down from the length of the grant; its
\* bytes are in the grant only if the channel was set up for it.
ReceivedFrame ==
  [len |-> MaxLen - ch1.left,
   tag |-> IF ~ch1.fresh THEN "mixed" ELSE ch1.got]

ExtiLong ==
  /\ ~panicked /\ extiPend /\ spiMode = "LONG"
  /\ extiPend' = FALSE
  /\ s2r' = CompleteWr(s2r, ReceivedFrame)
  /\ r2s' = CompleteRd(r2s)
  /\ ch1' = [ch1 EXCEPT !.on = FALSE, !.fresh = @ /\ s2r.wr # BUSY]
  /\ ch2' = [ch2 EXCEPT !.on = FALSE, !.fresh = @ /\ r2s.rd # BUSY]
  /\ cr2' = cr2 \ {"rxdmaen", "txdmaen"}
  /\ rxFifo' = <<>> /\ spiMode' = "IDLE"
  /\ UNCHANGED <<loopVars, panicked, spiPend, pins, seen, master, rsTag>>

-----------------------------------------------------------------------------
(* spi_isr: of the same priority as exti_isr and after it in the vector     *)
(* table.  It masks its interrupt; only main unmasks it again.              *)

SpiIrq == spiPend /\ ~extiPend

\* defmt::panic!("Not idle?").
NotIdle ==
  /\ ~panicked /\ SpiIrq /\ spiMode # "IDLE"
  /\ spiPend' = FALSE /\ cr2' = cr2 \ {"rxneie"}
  /\ panicked' = TRUE
  /\ UNCHANGED <<s2r, r2s, loopVars, spiMode, extiPend, rxFifo, dmaVars, pins, seen, master,
                 rsTag>>

\* What the first byte in the FIFO is taken for; a data byte, or what an empty
\* FIFO reads as, may be taken for anything.
TakenFor ==
  IF rxFifo # <<>> /\ Head(rxFifo) \in AllKinds THEN {Head(rxFifo)} ELSE AllKinds

\* Mutation: the first byte is looked at and stays.
FifoKeepsFirst == rxFifo

RestOfFifo == IF rxFifo = <<>> THEN <<>> ELSE Tail(rxFifo)

ShortBegins(kind) ==
  /\ ~panicked /\ SpiIrq /\ spiMode = "IDLE"
  /\ kind \in TakenFor \ {"LONG"}
  /\ spiPend' = FALSE /\ cr2' = cr2 \ {"rxneie"}
  /\ rxFifo' = RestOfFifo
  /\ spiMode' = kind
  /\ UNCHANGED <<s2r, r2s, loopVars, panicked, extiPend, dmaVars, pins, seen, master, rsTag>>

\* Mutation: the pins stay active.
PinsStay(sends, accepts) == pins

\* set_txrdy_inactive and set_rxrdy_inactive, for what the transaction takes.
PinsAfter(sends, accepts) ==
  pins \ ((IF sends THEN {"txrdy"} ELSE {}) \cup (IF accepts THEN {"rxrdy"} ELSE {}))

LongBegins ==
  LET sends   == r2s.rd = READY /\ Head(r2s.frames).len # 0     \* tx_amt != 0
      accepts == s2r.wr = READY                                 \* rx_amt != 0
  IN /\ ~panicked /\ SpiIrq /\ spiMode = "IDLE"
     /\ "LONG" \in TakenFor
     /\ spiPend' = FALSE
     /\ cr2' = (cr2 \ {"rxneie"}) \cup (IF sends THEN {"txdmaen"} ELSE {})
                                   \cup (IF accepts THEN {"rxdmaen"} ELSE {})
     /\ r2s' = PrepRd(r2s) /\ s2r' = PrepWr(s2r)
     /\ ch2' = IF sends THEN [ch2 EXCEPT !.on = TRUE] ELSE ch2
     /\ pins' = PinsAfter(sends, accepts)
     /\ IF accepts
          THEN ch1' = Started(RestOfFifo).ch /\ rxFifo' = Started(RestOfFifo).rest
          ELSE ch1' = ch1 /\ rxFifo' = RestOfFifo
     /\ spiMode' = "LONG"
     /\ UNCHANGED <<loopVars, panicked, extiPend, seen, master, rsTag>>

Handler ==
  \/ ExtiSpurious \/ ExtiShort \/ ExtiLong
  \/ NotIdle \/ LongBegins
  \/ \E kind \in AllKinds : ShortBegins(kind)

-----------------------------------------------------------------------------
(* The SPI half of idle_step.                                              *)

MainAt(step) == ~panicked /\ ~spiPend /\ ~extiPend /\ pc = step

Goto(step) == pc' = step /\ UNCHANGED didRestoreRs485

Check ==
  /\ MainAt("check")
  /\ Goto("spiWr") /\ didRestoreSpi' = FALSE
  /\ UNCHANGED <<s2r, r2s, panicked, intVars, dmaVars, pins, seen, master, rsTag>>

\* Mutation: the channel is not set up for the new grant.
RestoreWrOnly ==
  /\ MainAt("spiWr") /\ CanGrantWr(s2r)
  /\ s2r' = ServiceWr(s2r)
  /\ Goto("spiWrPin")
  /\ UNCHANGED <<r2s, didRestoreSpi, panicked, intVars, dmaVars, pins, seen, master, rsTag>>

\* The incoming grant, published in the slot before the channel is set up.
RestoreWr ==
  /\ MainAt("spiWr") /\ CanGrantWr(s2r)
  /\ s2r' = ServiceWr(s2r)
  /\ Goto("spiWrDma")
  /\ UNCHANGED <<r2s, didRestoreSpi, panicked, intVars, dmaVars, pins, seen, master, rsTag>>

NoRoomOrNotIdle ==
  /\ MainAt("spiWr") /\ (s2r.wr # IDLE \/ MayRefuseWr(s2r))
  /\ Goto("spiRd")
  /\ UNCHANGED <<s2r, r2s, didRestoreSpi, panicked, intVars, dmaVars, pins, seen, master,
                 rsTag>>

\* Main configures a channel by reading its control register and writing it back
\* with other bits changed, by writing address and length, and by reading and
\* writing back the register once more for the direction.  A handler that ran
\* between a read and its write has its enable bit undone; a running channel
\* keeps its address and length, and what is set up for a grant that has gone is
\* for nothing.
SetUpCh1Read ==
  /\ \/ MainAt("spiWrDma") /\ Goto("spiWrCr")
     \/ MainAt("spiWrDir") /\ Goto("spiWrDirCr")
  /\ seen' = IF ch1.on THEN {"en"} ELSE {}
  /\ UNCHANGED <<s2r, r2s, didRestoreSpi, panicked, intVars, dmaVars, pins, master, rsTag>>

SetUpCh1Write ==
  /\ \/ MainAt("spiWrCr") /\ Goto("spiWrAddr")
     \/ MainAt("spiWrDirCr") /\ Goto("spiWrPin")
  /\ ch1' = [ch1 EXCEPT !.on = "en" \in seen]
  /\ seen' = {}
  /\ UNCHANGED <<s2r, r2s, didRestoreSpi, panicked, intVars, ch2, pins, master, rsTag>>

SetUpCh1 ==
  /\ MainAt("spiWrAddr")
  /\ ch1' = IF ch1.on THEN ch1
            ELSE [ch1 EXCEPT !.left = MaxLen, !.got = "none", !.fresh = s2r.wr # IDLE]
  /\ Goto("spiWrDir")
  /\ UNCHANGED <<s2r, r2s, didRestoreSpi, panicked, intVars, ch2, pins, seen, master, rsTag>>

\* A pin is set by a read and a write of the register that holds both.
ReadPins ==
  /\ pc \in {"spiWrPin", "spiRdPin"} /\ MainAt(pc)
  /\ seen' = pins
  /\ Goto(IF pc = "spiWrPin" THEN "spiWrOdr" ELSE "spiRdOdr")
  /\ UNCHANGED <<s2r, r2s, didRestoreSpi, panicked, intVars, dmaVars, pins, master, rsTag>>

SetRxrdy ==
  /\ MainAt("spiWrOdr")
  /\ pins' = seen \cup {"rxrdy"} /\ seen' = {}
  /\ didRestoreSpi' = TRUE
  /\ Goto("spiRd")
  /\ UNCHANGED <<s2r, r2s, panicked, intVars, dmaVars, master, rsTag>>

\* Mutation: that the first grant was restored is forgotten.
AfterRdForgets(did) == AfterSpi(FALSE, didRestoreRs485)

AfterRd(did) == AfterSpi(did, didRestoreRs485)

RestoreRd ==
  /\ MainAt("spiRd") /\ CanGrantRd(r2s)
  /\ r2s' = ServiceRd(r2s)
  /\ Goto("spiRdDma")
  /\ UNCHANGED <<s2r, didRestoreSpi, panicked, intVars, dmaVars, pins, seen, master, rsTag>>

NothingToSend ==
  /\ MainAt("spiRd") /\ ~CanGrantRd(r2s)
  /\ r2s' = IF FindsNone(r2s) THEN ServiceRdNone(r2s) ELSE r2s
  /\ Goto(AfterRd(didRestoreSpi))
  /\ UNCHANGED <<s2r, didRestoreSpi, panicked, intVars, dmaVars, pins, seen, master, rsTag>>

SetUpCh2Read ==
  /\ \/ MainAt("spiRdDma") /\ Goto("spiRdCr")
     \/ MainAt("spiRdDir") /\ Goto("spiRdDirCr")
  /\ seen' = IF ch2.on THEN {"en"} ELSE {}
  /\ UNCHANGED <<s2r, r2s, didRestoreSpi, panicked, intVars, dmaVars, pins, master, rsTag>>

SetUpCh2Write ==
  /\ \/ MainAt("spiRdCr") /\ Goto("spiRdAddr")
     \/ MainAt("spiRdDirCr") /\ Goto("spiRdPin")
  /\ ch2' = [ch2 EXCEPT !.on = "en" \in seen]
  /\ seen' = {}
  /\ UNCHANGED <<s2r, r2s, didRestoreSpi, panicked, intVars, ch1, pins, master, rsTag>>

SetUpCh2 ==
  /\ MainAt("spiRdAddr")
  /\ ch2' = IF ch2.on THEN ch2 ELSE [ch2 EXCEPT !.fresh = r2s.rd # IDLE]
  /\ Goto("spiRdDir")
  /\ UNCHANGED <<s2r, r2s, didRestoreSpi, panicked, intVars, ch1, pins, seen, master, rsTag>>

SetTxrdy ==
  /\ MainAt("spiRdOdr")
  /\ pins' = seen \cup {"txrdy"} /\ seen' = {}
  /\ didRestoreSpi' = TRUE
  /\ Goto("unmask")
  /\ UNCHANGED <<s2r, r2s, panicked, intVars, dmaVars, master, rsTag>>

\* spi_int_unmask, a read and a write of SPI_CR2: a byte that waits in the FIFO
\* interrupts at once.
ReadCr2 ==
  /\ MainAt("unmask")
  /\ seen' = cr2
  /\ Goto("unmaskCr2")
  /\ UNCHANGED <<s2r, r2s, didRestoreSpi, panicked, intVars, dmaVars, pins, master, rsTag>>

Unmask ==
  /\ MainAt("unmaskCr2")
  /\ cr2' = seen \cup {"rxneie"} /\ seen' = {}
  /\ spiPend' = (rxFifo # <<>>)
  /\ Goto(AfterUnmask(didRestoreRs485))
  /\ UNCHANGED <<s2r, r2s, didRestoreSpi, panicked, spiMode, extiPend, rxFifo, dmaVars,
                 pins, master, rsTag>>

Serve ==
  \/ ReadPins
  \/ RestoreWr \/ NoRoomOrNotIdle \/ SetUpCh1Read \/ SetUpCh1Write \/ SetUpCh1 \/ SetRxrdy
  \/ RestoreRd \/ NothingToSend \/ SetUpCh2Read \/ SetUpCh2Write \/ SetUpCh2 \/ SetTxrdy
  \/ ReadCr2 \/ Unmask

Main == Check \/ Serve

-----------------------------------------------------------------------------
(* The master.                                                             *)

Settled == pc = "check" /\ ~CanGrantWr(s2r) /\ ~CanGrantRd(r2s)

MayBegin ==
  /\ MasterPaced => ~spiPend /\ ~extiPend
  /\ MasterCareful => Settled /\ pins # {}

\* CSn falls and the first byte is clocked.  A master that sees no room sends what
\* it sent last.
MasterBegins(kind, n) ==
  /\ master.phase = "idle" /\ MayBegin
  /\ Arrives(kind)
  /\ master' = [phase |-> "clocking", left |-> n, sent |-> 0,
                tag |-> IF "rxrdy" \in pins THEN NextTag(master.tag) ELSE master.tag,
                saw |-> pins]
  /\ UNCHANGED <<s2r, r2s, loopVars, panicked, spiMode, cr2, extiPend, ch2, pins, seen,
                 rsTag>>

\* A master that is paced does not overrun the FIFO that spi_isr has not looked at yet.
MasterClocks ==
  /\ master.phase = "clocking" /\ master.left > 0
  /\ MasterPaced /\ spiPend => Len(rxFifo) < FifoDepth
  /\ Arrives(master.tag)
  /\ master' = [master EXCEPT !.left = @ - 1, !.sent = @ + 1]
  /\ UNCHANGED <<s2r, r2s, loopVars, panicked, spiMode, cr2, extiPend, ch2, pins, seen,
                 rsTag>>

\* CSn rises.
MasterEnds ==
  /\ master.phase = "clocking" /\ master.left = 0
  /\ MasterPaced => ~spiPend
  /\ extiPend' = TRUE
  /\ master' = [master EXCEPT !.phase = "idle"]
  /\ UNCHANGED <<s2r, r2s, loopVars, panicked, spiMode, cr2, spiPend, rxFifo, dmaVars,
                 pins, seen, rsTag>>

Begins == \E kind \in Kinds, n \in Clocked : MasterBegins(kind, n)

-----------------------------------------------------------------------------
(* The RS-485 side of the pipes.                                           *)

Rs485May ==
  /\ ~panicked
  /\ Rs485Waits => master.phase = "idle" /\ ~spiPend /\ ~extiPend

Rs485Takes ==
  /\ Rs485May
  /\ s2r' = IF s2r.frames = <<>> THEN ServiceRdNone(s2r) ELSE [s2r EXCEPT !.frames = Tail(@)]
  /\ UNCHANGED <<r2s, loopVars, panicked, intVars, dmaVars, pins, seen, master, rsTag>>

Rs485Delivers(len) ==
  /\ Rs485May
  /\ Len(r2s.frames) < MaxFrames
  /\ r2s' = [r2s EXCEPT !.frames = Append(@, [len |-> len, tag |-> rsTag]),
                        !.unresolved = FALSE]
  /\ rsTag' = NextTag(rsTag)
  /\ UNCHANGED <<s2r, loopVars, panicked, intVars, dmaVars, pins, seen, master>>

Next ==
  \/ Handler \/ Main
  \/ Begins \/ MasterClocks \/ MasterEnds
  \/ Rs485Takes
  \/ \E len \in RsLens : Rs485Delivers(len)

Spec == Init /\ [][Next]_vars

\* Interrupts are taken, the main loop runs, the router takes what is there, and
\* the master finishes what it begins and comes again.
FairSpec ==
  /\ Spec
  /\ WF_vars(Handler) /\ WF_vars(Main) /\ WF_vars(Rs485Takes)
  /\ SF_vars(Begins) /\ WF_vars(MasterClocks) /\ WF_vars(MasterEnds)

-----------------------------------------------------------------------------
(* Properties.                                                             *)

\* The assertion "Not idle?" of spi_isr: it is never entered in the middle of a
\* transaction.
OnlyIdleIsInterrupted == ~panicked /\ SpiIrq => spiMode = "IDLE"

\* A slot is taken only for a long transaction, and a channel moves bytes only
\* while the grant it is for is taken: whatever the master does, and whichever
\* register main is in the middle of modifying, memory is written only while a
\* handler owns it.
GrantsAreOwned ==
  /\ s2r.wr = BUSY \/ r2s.rd = BUSY => spiMode = "LONG"
  /\ ch1.on /\ "rxdmaen" \in cr2 => s2r.wr = BUSY
  /\ ch2.on /\ "txdmaen" \in cr2 => r2s.rd = BUSY

\* A grant that is taken is served: its channel runs, was set up for it, and the
\* peripheral asks for its bytes.
GrantsAreServed ==
  /\ s2r.wr = BUSY => ch1.on /\ ch1.fresh /\ "rxdmaen" \in cr2
  /\ r2s.rd = BUSY => ch2.on /\ ch2.fresh /\ "txdmaen" \in cr2

\* The pins mean what the comments at them say: a transaction that began with
\* rxrdy active commits a frame, one that began with txrdy active takes one.
PinsKeepTheirWord ==
  [][ ExtiLong => /\ "rxrdy" \in master.saw => Len(s2r'.frames) = Len(s2r.frames) + 1
                  /\ "txrdy" \in master.saw => Len(r2s'.frames) = Len(r2s.frames) - 1 ]_vars

\* A frame of s2r is one transaction: as long as what the master clocked, up to
\* the room granted, and with nothing of another transaction in it.
FrameIsTheTransaction ==
  [][ Len(s2r'.frames) > Len(s2r.frames) =>
        LET f == s2r'.frames[Len(s2r'.frames)]
        IN /\ f.len = IF master.sent < MaxLen THEN master.sent ELSE MaxLen
           /\ f.tag = IF f.len = 0 THEN "none" ELSE master.tag ]_vars

\* A grant a long transaction takes is given back, by its end or, when the end
\* was missed, by that of a later one; only a panic keeps it.
GrantsComeBack ==
  /\ (s2r.wr = BUSY) ~> (s2r.wr # BUSY \/ panicked)
  /\ (r2s.rd = BUSY) ~> (r2s.rd # BUSY \/ panicked)

\* spi_isr masks its interrupt and only a restored grant unmasks it: after a long
\* transaction, whatever it took and however it came, the port hears the next one.
HearsAgain == (spiMode = "LONG") ~> ("rxneie" \in cr2 \/ panicked)
=============================================================================
