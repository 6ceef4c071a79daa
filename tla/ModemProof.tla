----------------------------- MODULE ModemProof -----------------------------
(***************************************************************************)
(* The modem as a whole, for every frame size, every set of capacities and  *)
(* of lengths and every depth of the FIFOs, as long as no cycle overlaps    *)
(* main's re-arming of the RS-485 port, which the code does not prevent:    *)
(* each port finds in the other no more than the environment its own module *)
(* assumes, and the frames cross the modem once, in order and unmixed.      *)
(***************************************************************************)
EXTENDS Modem, SequenceTheorems, TLAPS

\* The RS-485 port of the modem, with the theorems about it.
Port485 == INSTANCE Rs485PortProof WITH
  Ports <- {"rs485"}, FifoDepth <- UsartDepth, SpiLens <- Lens,
  RouterReliable <- TRUE,
  pc <- RsPc, seen <- RsSeen, s2r <- RsS2r, r2s <- RsR2s,
  didRestoreSpi <- FALSE, panicked <- FALSE, spiTag <- CommitTag

-----------------------------------------------------------------------------
(* The inductive invariant.                                                *)

Frame   == [len : 1 .. MaxLen, tag : Tags]
PipeRec == [frames : Seq(Frame), wr : SlotState, rd : SlotState, unresolved : BOOLEAN]

Types ==
  /\ s2r \in PipeRec /\ r2s \in PipeRec
  /\ didRestoreSpi \in BOOLEAN /\ didRestoreRs485 \in BOOLEAN /\ panicked \in BOOLEAN
  /\ pc \in {"check"} \cup RsSteps \cup EnSteps \cup SpiSteps

RsTypes ==
  /\ mode \in Rs!Modes /\ recvAmt \in 0 .. MaxLen
  /\ cmie \in BOOLEAN /\ cmf \in BOOLEAN /\ tcie \in BOOLEAN /\ tcf \in BOOLEAN /\ txing \in BOOLEAN
  /\ fifo \in Seq(Rs!Words)
  /\ ch3 \in [on : BOOLEAN, left : 0 .. MaxLen, got : Tags \cup {"none", "mixed"},
              fresh : BOOLEAN, done : BOOLEAN]
  /\ ch4 \in [on : BOOLEAN, frame : Rs!Frames \cup {Rs!NoFrame}, done : BOOLEAN]
  /\ handed \in Rs!Frames \cup {Rs!NoFrame}
  /\ router \in [phase : {"idle", "polling", "reading", "sending"}, left : 0 .. MaxLen]
  /\ wantTag \in Tags /\ inTag \in Tags

SpiTypes ==
  /\ spiMode \in {"IDLE", "LONG"}
  /\ cr2 \subseteq {"rxneie", "rxdmaen", "txdmaen"} /\ pins \subseteq Spi!Pins
  /\ spiPend \in BOOLEAN /\ extiPend \in BOOLEAN
  /\ rxFifo \in Seq(Spi!Bytes)
  /\ ch1 \in [on : BOOLEAN, left : 0 .. MaxLen, got : Tags \cup {"none", "mixed"}, fresh : BOOLEAN]
  /\ ch2 \in [on : BOOLEAN, fresh : BOOLEAN]
  /\ master \in [phase : {"idle", "clocking"}, left : Nat, sent : Nat,
                 tag : Tags, saw : SUBSET Spi!Pins]
  /\ pc = "unmaskCr2" => seen \subseteq {"rxneie", "rxdmaen", "txdmaen"}

\* A grant has a frame to send, or room for one to come.
SlotsInv ==
  /\ s2r.rd # IDLE => s2r.frames # <<>>
  /\ r2s.rd # IDLE => r2s.frames # <<>>
  /\ s2r.wr # IDLE => Len(s2r.frames) < MaxFrames
  /\ r2s.wr # IDLE => Len(r2s.frames) < MaxFrames

\* Main holds bits of a register only between its read and its write.
ModifySteps ==
  {"rsRdCr", "rsRdDirCr", "rsWrCr", "rsWrDirCr", "enCr1", "spiWrCr", "spiWrDirCr", "spiWrOdr",
   "spiRdCr", "spiRdDirCr", "spiRdOdr", "unmaskCr2"}

SeenInv == seen # {} => pc \in ModifySteps

\* The receive FIFO holds the words of one poll, whose address match is pending, or nothing.
OnePoll == IF cmf THEN router.phase = "polling" /\ fifo = <<"poll">> ELSE fifo = <<>>

\* A poll before the port is armed is flushed; one that comes after the flush waits for the
\* interrupt to be enabled.
ArmedInv ==
  /\ mode = "RELOAD" /\ cmie => ~cmf
  /\ mode \notin {"RELOAD", "READY"} => ~cmie
  /\ mode = "READY" => cmie \/ pc \in {"enCmie", "enCr1"}
  /\ pc \in {"enCmie", "enCr1"} => mode = "READY"
  /\ mode = "READY" \/ pc = "enStore" => OnePoll

\* Router and port go through the handshake together.
CycleInv ==
  /\ recvAmt > 0 => mode \in {"SEND_DMA", "SEND_NO_DMA", "RECV"}
  /\ router.phase = "reading" =>
       /\ router.left = recvAmt /\ fifo = <<>>
       /\ (mode = "SEND_DMA" /\ ~ch4.done) \/ (mode = "SEND_NO_DMA" /\ txing)
  /\ router.phase = "sending" => router.left \in 1 .. recvAmt
  /\ mode = "SEND_DMA"    => (ch4.done \/ router.phase = "reading") /\ router.phase # "polling"
  /\ mode = "SEND_NO_DMA" => /\ tcie /\ router.phase # "polling"
                             /\ IF txing THEN ~tcf /\ router.phase = "reading" ELSE tcf
  /\ mode = "RECV"        => router.phase \in {"idle", "sending"}

\* The words the router has still to send, and the tag of those it has sent.
ToSend  == IF router.phase = "sending" THEN router.left ELSE 0
SentTag == IF router.phase = "sending" THEN inTag ELSE Rs!NextTag(inTag)

\* What it has sent has arrived: in the FIFO until channel 3 runs, then in the grant.
WordsInv ==
  router.phase # "reading" /\ recvAmt > 0 =>
    IF mode = "RECV"
      THEN /\ fifo = <<>> /\ ch3.on /\ ch3.left = ToSend
           /\ ch3.done <=> ToSend = 0
           /\ ch3.got = IF ToSend = recvAmt THEN "none" ELSE SentTag
      ELSE /\ Len(fifo) = recvAmt - ToSend
           /\ \A i \in 1 .. Len(fifo) : fifo[i] = SentTag

\* A transaction is in progress from its first byte until exti_isr has seen its end.
Active == master.phase = "clocking" \/ extiPend

WrSteps  == {"spiWrDma", "spiWrCr", "spiWrAddr"}
PinSteps == {"spiWrDir", "spiWrDirCr", "spiWrPin", "spiWrOdr"}
RdSteps  == {"spiRdDma", "spiRdCr", "spiRdAddr", "spiRdDir", "spiRdDirCr", "spiRdPin", "spiRdOdr"}
ToUnmask == RdSteps \cup {"unmask", "unmaskCr2"}

\* The two interrupts of a transaction come one after the other; it begins while main has
\* nothing to restore.
PhaseInv ==
  /\ spiPend => master.phase = "clocking" /\ ~extiPend
  /\ extiPend => master.phase = "idle" /\ master.left = 0 /\ spiMode = "LONG"
  /\ Active /\ spiMode = "IDLE" => spiPend
  /\ spiPend /\ spiMode = "IDLE" => SpiPc = "check"
  /\ ~Active => rxFifo = <<>> /\ spiMode = "IDLE"
  /\ Active => master.sent + master.left \in Clocked

\* The pins are active for the grants that wait, and then the modem hears the master.
PinInv ==
  /\ "rxrdy" \in pins => s2r.wr = READY
  /\ "txrdy" \in pins => r2s.rd = READY
  /\ s2r.wr = READY => "rxrdy" \in pins \/ pc \in WrSteps \cup PinSteps
  /\ pc \in WrSteps \cup PinSteps => s2r.wr = READY
  /\ pc \in RdSteps => r2s.rd = READY
  /\ pc \in {"spiWrOdr", "spiRdOdr"} => seen = pins
  /\ pins # {} => \/ "rxneie" \in cr2 \/ spiPend \/ pc \in ToUnmask
                  \/ pc = "spiRd" /\ didRestoreSpi
  /\ spiPend /\ spiMode = "IDLE" => s2r.wr = IF "rxrdy" \in master.saw THEN READY ELSE IDLE
  /\ spiMode = "LONG" => (s2r.wr = BUSY <=> "rxrdy" \in master.saw)

\* Channel 1 is set up for a grant that waits, and runs exactly for one that is taken.
GrantInv ==
  /\ s2r.wr = READY => pc \in WrSteps \/ (ch1.fresh /\ ch1.left = MaxLen /\ ch1.got = "none")
  /\ s2r.wr = BUSY => spiMode = "LONG" /\ ch1.fresh /\ "rxdmaen" \in cr2
  /\ ch1.on <=> s2r.wr = BUSY
  /\ r2s.rd = BUSY => spiMode = "LONG"
  /\ pc \in {"spiWrCr", "spiWrDirCr"} => seen = {}
  /\ pc = "unmaskCr2" /\ s2r.wr = BUSY => "rxdmaen" \in seen

AtMost(a, b) == IF a < b THEN a ELSE b

\* What the master has sent has arrived: in the FIFO until spi_isr runs, then in the grant.
BytesInv ==
  /\ spiPend /\ spiMode = "IDLE" =>
       /\ Len(rxFifo) = 1 + master.sent /\ rxFifo[1] = "LONG"
       /\ \A i \in 2 .. Len(rxFifo) : rxFifo[i] = master.tag
  /\ s2r.wr = BUSY =>
       /\ ch1.left = MaxLen - AtMost(master.sent, MaxLen)
       /\ ch1.got = IF master.sent = 0 THEN "none" ELSE master.tag

\* After the panic of spi_isr nothing depends on the SPI port.
SpiInv == ~panicked => PhaseInv /\ PinInv /\ GrantInv /\ BytesInv

RsInv == Port485!Inv /\ ArmedInv /\ CycleInv /\ WordsInv

MInv == Types /\ RsTypes /\ SpiTypes /\ SlotsInv /\ SeenInv /\ RsInv /\ SpiInv

-----------------------------------------------------------------------------
(* The constants of the ports' own specifications.                         *)

LEMMA LensAre == Lens \subseteq 1 .. MaxLen /\ 0 \notin Lens
BY ModemAssumption DEF Lens

\* What the module of the RS-485 port assumes of its constants holds here.
LEMMA PortsAssumptions ==
  /\ {"rs485"} \subseteq {"rs485", "spi"} /\ {"rs485"} # {}
  /\ /\ MaxLen \in Nat \ {0}
     /\ RxCaps \subseteq Nat /\ TxCaps \subseteq Nat
     /\ Lens \subseteq 0 .. MaxLen
     /\ UsartDepth \in Nat \ {0}
     /\ TRUE \in BOOLEAN
<1>1. Lens \subseteq 0 .. MaxLen
  BY LensAre, ModemAssumption
<1> QED BY <1>1, ModemAssumption

LEMMA NextTagIs ==
  /\ \A t \in Tags : Rs!NextTag(t) \in Tags /\ Rs!NextTag(t) # t /\ Rs!NextTag(Rs!NextTag(t)) = t
  /\ \A t : Spi!NextTag(t) = Rs!NextTag(t)
BY DEF Tags, Rs!NextTag, Spi!NextTag

-----------------------------------------------------------------------------
(* What the invariant of the port says of the variables of the whole.       *)

Between == s2r.rd # BUSY /\ r2s.wr # BUSY /\ ~ch3.on /\ ~ch3.done /\ ~ch4.on /\ ~ch4.done /\ ~txing /\ ~tcie

LEMMA PortFacts ==
  ASSUME Types, RsTypes, Port485!Inv
  PROVE  /\ mode \in {"RELOAD", "READY"} => Between
         /\ mode \in {"SEND_DMA", "SEND_NO_DMA", "RECV"} => (r2s.wr = BUSY <=> recvAmt > 0)
         /\ mode = "SEND_DMA" =>
              /\ s2r.rd = BUSY /\ s2r.frames # <<>> /\ ch4.on /\ ch4.frame = Head(s2r.frames)
              /\ ~ch3.on /\ ~ch3.done /\ ~tcie /\ ~txing
         /\ mode = "SEND_NO_DMA" => s2r.rd # BUSY /\ ~ch3.on /\ ~ch3.done /\ ~ch4.on /\ ~ch4.done
         /\ mode = "RECV" =>
              s2r.rd # BUSY /\ r2s.wr = BUSY /\ recvAmt > 0 /\ ~ch4.on /\ ~ch4.done /\ ~tcie /\ ~txing
         /\ pc \in (RsSteps \ {"rsRd", "rsWr"}) \cup EnSteps => mode \in {"RELOAD", "READY"}
         /\ pc \in SpiSteps \cup {"rsWr"} /\ didRestoreRs485 => mode \in {"RELOAD", "READY"}
<1> USE DEF IDLE, READY, BUSY, Port485!READY, Port485!BUSY
<1>1. /\ Port485!ModeInv /\ Port485!ArmingInv
  BY DEF Port485!Inv
<1>2. RsS2r.rd = s2r.rd /\ RsS2r.frames = s2r.frames /\ RsR2s.wr = r2s.wr
  BY DEF Types, PipeRec, RsS2r, RsR2s
<1>3. mode \in {"RELOAD", "READY"} => Between
  BY <1>1, <1>2 DEF Port485!ModeInv, Port485!BetweenCycles, Port485!Ch3Off, Port485!Ch4Off, Between
<1>4. mode \in {"SEND_DMA", "SEND_NO_DMA"} => Port485!Accepted /\ Port485!Ch3Off
  BY <1>1 DEF Port485!ModeInv, Port485!SendingFrame, Port485!SendingNone
<1>5. mode = "RECV" => Port485!Receiving
  BY <1>1 DEF Port485!ModeInv
<1>6. mode \in {"SEND_DMA", "SEND_NO_DMA", "RECV"} => (r2s.wr = BUSY <=> recvAmt > 0)
  BY <1>2, <1>4, <1>5 DEF Port485!Accepted, Port485!Receiving
<1>7. mode = "SEND_DMA" =>
        /\ s2r.rd = BUSY /\ s2r.frames # <<>> /\ ch4.on /\ ch4.frame = Head(s2r.frames)
        /\ ~ch3.on /\ ~ch3.done /\ ~tcie /\ ~txing
  BY <1>1, <1>2 DEF Port485!ModeInv, Port485!SendingFrame, Port485!Ch3Off
<1>8. mode = "SEND_NO_DMA" => s2r.rd # BUSY /\ ~ch3.on /\ ~ch3.done /\ ~ch4.on /\ ~ch4.done
  BY <1>1, <1>2 DEF Port485!ModeInv, Port485!SendingNone, Port485!Ch3Off, Port485!Ch4Off
<1>9. mode = "RECV" =>
        s2r.rd # BUSY /\ r2s.wr = BUSY /\ recvAmt > 0 /\ ~ch4.on /\ ~ch4.done /\ ~tcie /\ ~txing
  BY <1>2, <1>5 DEF Port485!Receiving, Port485!Ch4Off
<1>10. Port485!Rearming => mode \in {"RELOAD", "READY"}
  BY <1>1 DEF Port485!ArmingInv, Port485!Overlap, Port485!ShouldReload
<1>11. pc \in (RsSteps \ {"rsRd", "rsWr"}) \cup EnSteps => Port485!Rearming
  BY DEF RsPc, RsSteps, EnSteps, SpiSteps, Spi!Steps, Port485!Rearming
<1>12. pc \in SpiSteps \cup {"rsWr"} /\ didRestoreRs485 => Port485!Rearming
  BY DEF RsPc, AfterUnmask, SpiSteps, Spi!Steps, Port485!Rearming
<1> QED BY <1>3, <1>6, <1>7, <1>8, <1>9, <1>10, <1>11, <1>12

-----------------------------------------------------------------------------
(* A pipe looks the same to both of its sides, but for the slot of the other.*)

\* The states of a slot have one name in every module.
USE DEF IDLE, READY, BUSY, Rs!IDLE, Rs!READY, Rs!BUSY, Spi!IDLE, Spi!READY, Spi!BUSY,
        RsAlone!IDLE, RsAlone!READY, RsAlone!BUSY, SpiAlone!IDLE, SpiAlone!READY, SpiAlone!BUSY,
        Port485!READY, Port485!BUSY

\* The RS-485 side's functions, with the slot of the SPI side hidden ...
LEMMA RsHidesS2r ==
  ASSUME s2r \in PipeRec
  PROVE  /\ RsS2r.frames = s2r.frames /\ RsS2r.rd = s2r.rd /\ RsS2r.unresolved = s2r.unresolved
         /\ RsS2r.wr = IDLE
         /\ [Rs!PrepRd(s2r) EXCEPT !.wr = IDLE] = RsAlone!PrepRd(RsS2r)
         /\ [Rs!AbortRd(Rs!PrepRd(s2r)) EXCEPT !.wr = IDLE] = RsAlone!AbortRd(RsAlone!PrepRd(RsS2r))
         /\ [Rs!CompleteRd(s2r) EXCEPT !.wr = IDLE] = RsAlone!CompleteRd(RsS2r)
         /\ [Rs!ServiceRd(s2r) EXCEPT !.wr = IDLE] = RsAlone!ServiceRd(RsS2r)
         /\ [Rs!ServiceRdNone(s2r) EXCEPT !.wr = IDLE] = RsAlone!ServiceRdNone(RsS2r)
         /\ RsAlone!CanGrantRd(RsS2r) <=> Rs!CanGrantRd(s2r)
         /\ RsAlone!FindsNone(RsS2r) <=> Rs!FindsNone(s2r)
<1> USE DEF PipeRec, RsS2r
<1>1. [Rs!PrepRd(s2r) EXCEPT !.wr = IDLE] = RsAlone!PrepRd(RsS2r)
  BY DEF Rs!PrepRd, RsAlone!PrepRd
<1>2. [Rs!AbortRd(Rs!PrepRd(s2r)) EXCEPT !.wr = IDLE] = RsAlone!AbortRd(RsAlone!PrepRd(RsS2r))
  BY DEF Rs!PrepRd, RsAlone!PrepRd, Rs!AbortRd, RsAlone!AbortRd
<1>3. [Rs!CompleteRd(s2r) EXCEPT !.wr = IDLE] = RsAlone!CompleteRd(RsS2r)
  BY DEF Rs!CompleteRd, RsAlone!CompleteRd
<1>4. /\ [Rs!ServiceRd(s2r) EXCEPT !.wr = IDLE] = RsAlone!ServiceRd(RsS2r)
      /\ [Rs!ServiceRdNone(s2r) EXCEPT !.wr = IDLE] = RsAlone!ServiceRdNone(RsS2r)
  BY DEF Rs!ServiceRd, RsAlone!ServiceRd, Rs!ServiceRdNone, RsAlone!ServiceRdNone
<1>5. /\ RsAlone!CanGrantRd(RsS2r) <=> Rs!CanGrantRd(s2r)
      /\ RsAlone!FindsNone(RsS2r) <=> Rs!FindsNone(s2r)
  BY DEF Rs!CanGrantRd, RsAlone!CanGrantRd, Rs!FindsNone, RsAlone!FindsNone
<1>6. /\ RsS2r.frames = s2r.frames /\ RsS2r.rd = s2r.rd /\ RsS2r.unresolved = s2r.unresolved
      /\ RsS2r.wr = IDLE
  OBVIOUS
<1> QED BY <1>1, <1>2, <1>3, <1>4, <1>5, <1>6

LEMMA RsHidesR2s ==
  ASSUME r2s \in PipeRec
  PROVE  /\ RsR2s.frames = r2s.frames /\ RsR2s.wr = r2s.wr /\ RsR2s.unresolved = r2s.unresolved
         /\ RsR2s.rd = IDLE
         /\ [Rs!PrepWr(r2s) EXCEPT !.rd = IDLE] = RsAlone!PrepWr(RsR2s)
         /\ \A p \in Rs!AbortWr(Rs!PrepWr(r2s)) :
              [p EXCEPT !.rd = IDLE] \in RsAlone!AbortWr(RsAlone!PrepWr(RsR2s))
         /\ \A f : [Rs!CompleteWr(r2s, f) EXCEPT !.rd = IDLE] = RsAlone!CompleteWr(RsR2s, f)
         /\ [Rs!ServiceWr(r2s) EXCEPT !.rd = IDLE] = RsAlone!ServiceWr(RsR2s)
         /\ RsAlone!CanGrantWr(RsR2s) <=> Rs!CanGrantWr(r2s)
         /\ RsAlone!MayRefuseWr(RsR2s) <=> Rs!MayRefuseWr(r2s)
<1> USE DEF PipeRec, RsR2s
<1>1. [Rs!PrepWr(r2s) EXCEPT !.rd = IDLE] = RsAlone!PrepWr(RsR2s)
  BY DEF Rs!PrepWr, RsAlone!PrepWr
<1>2. ASSUME NEW p \in Rs!AbortWr(Rs!PrepWr(r2s))
      PROVE  [p EXCEPT !.rd = IDLE] \in RsAlone!AbortWr(RsAlone!PrepWr(RsR2s))
  <2> DEFINE q == Rs!PrepWr(r2s)
             h == RsAlone!PrepWr(RsR2s)
  <2>1. q \in PipeRec /\ h = [q EXCEPT !.rd = IDLE]
    BY DEF Rs!PrepWr, RsAlone!PrepWr, SlotState
  <2> HIDE DEF q, h
  <2>2. h.wr = q.wr /\ h.unresolved = q.unresolved
    BY <2>1
  <2>3. CASE q.wr = BUSY
    <3>1. PICK u \in {q.unresolved, TRUE} : p = [q EXCEPT !.wr = IDLE, !.unresolved = u]
      BY <1>2, <2>3 DEF Rs!AbortWr, q
    <3>2. [p EXCEPT !.rd = IDLE] = [h EXCEPT !.wr = IDLE, !.unresolved = u]
      BY <2>1, <3>1
    <3>3. h.wr = BUSY /\ u \in {h.unresolved, TRUE}
      BY <2>2, <2>3, <3>1
    <3>4. [h EXCEPT !.wr = IDLE, !.unresolved = u] \in RsAlone!AbortWr(h)
      BY <3>3 DEF RsAlone!AbortWr
    <3> QED BY <3>2, <3>4 DEF h
  <2>4. CASE q.wr # BUSY
    BY <1>2, <2>1, <2>2, <2>4 DEF Rs!AbortWr, RsAlone!AbortWr, q, h
  <2> QED BY <2>3, <2>4
<1>3. ASSUME NEW f
      PROVE  [Rs!CompleteWr(r2s, f) EXCEPT !.rd = IDLE] = RsAlone!CompleteWr(RsR2s, f)
  BY DEF Rs!CompleteWr, RsAlone!CompleteWr
<1>4. [Rs!ServiceWr(r2s) EXCEPT !.rd = IDLE] = RsAlone!ServiceWr(RsR2s)
  BY DEF Rs!ServiceWr, RsAlone!ServiceWr
<1>5. /\ RsAlone!CanGrantWr(RsR2s) <=> Rs!CanGrantWr(r2s)
      /\ RsAlone!MayRefuseWr(RsR2s) <=> Rs!MayRefuseWr(r2s)
  BY DEF Rs!CanGrantWr, RsAlone!CanGrantWr, Rs!MayRefuseWr, RsAlone!MayRefuseWr
<1>6. /\ RsR2s.frames = r2s.frames /\ RsR2s.wr = r2s.wr /\ RsR2s.unresolved = r2s.unresolved
      /\ RsR2s.rd = IDLE
  OBVIOUS
<1> QED BY <1>1, <1>2, <1>3, <1>4, <1>5, <1>6

-----------------------------------------------------------------------------
(* The steps of the RS-485 port are steps of its own specification.         *)

\* The environment that the port's own module assumes is told apart by the tag only.
LEMMA CommitTagKept == UNCHANGED spiOwn => UNCHANGED CommitTag
BY DEF spiOwn, CommitTag, Spi!NextTag

LEMMA SameIrq == Rs!Irq <=> RsAlone!Irq
BY DEF Rs!Irq, RsAlone!Irq

\* Where main is, as the port sees it.
LEMMA RsSees ==
  /\ pc \notin SpiSteps => RsPc = pc /\ RsSeen = seen
  /\ pc = "spiWr" => RsPc = AfterUnmask(didRestoreRs485) /\ RsSeen = {}
  /\ \A s \in {"check"} \cup RsSteps \cup EnSteps : s \notin SpiSteps
  /\ "spiWr" \in SpiSteps
BY DEF RsPc, RsSeen, SpiSteps, RsSteps, EnSteps, Spi!Steps

LEMMA RsMainMaps ==
  ASSUME MInv, Rs!Main, UNCHANGED spiOwn
  PROVE  RsAlone!Main
<1>1. /\ ~panicked /\ ~RsAlone!Irq /\ pc \in {"check"} \cup RsSteps \cup EnSteps
      /\ RsPc = pc /\ RsSeen = seen
  BY RsSees, SameIrq DEF Rs!Main, Rs!MainAt, Rs!Check, Rs!RestoreRd, Rs!NothingToSend, Rs!SetUpCh4Read,
     Rs!SetUpCh4Write, Rs!SetUpCh4, Rs!RestoreWr, Rs!NoRoomOrNotIdle, Rs!SetUpCh3Read,
     Rs!SetUpCh3Write, Rs!SetUpCh3, Rs!EnableLoad, Rs!EnableFlush, Rs!EnableStore,
     Rs!EnableReadCr1, Rs!EnableCmie, RsSteps, EnSteps
<1>2. CommitTag' = CommitTag
  BY CommitTagKept
<1>3. UNCHANGED s2r => UNCHANGED RsS2r
  BY DEF RsS2r
<1>4. UNCHANGED r2s => UNCHANGED RsR2s
  BY DEF RsR2s
<1>5. /\ pc' \notin SpiSteps => RsPc' = pc' /\ RsSeen' = seen'
      /\ pc' = "spiWr" => RsPc' = AfterUnmask(didRestoreRs485') /\ RsSeen' = {}
  BY RsSees DEF RsPc, RsSeen
<1>6. \A s \in {"check"} \cup RsSteps \cup EnSteps : s \notin SpiSteps
  BY RsSees
<1>7. /\ Rs!AfterRs485(didRestoreSpi, didRestoreRs485) = "spiWr"
      /\ \A x, y : Rs!AfterRs485(x, y) = "spiWr" /\ RsAlone!AfterRs485(FALSE, y) = AfterUnmask(y)
  BY ModemAssumption DEF Rs!AfterRs485, RsAlone!AfterRs485, RsAlone!AfterSpi, RsAlone!AfterUnmask, AfterUnmask
<1>8. s2r \in PipeRec /\ r2s \in PipeRec
  BY DEF MInv, Types
<1>9. pc \notin ModifySteps => seen = {}
  BY DEF MInv, SeenInv
<1> USE <1>1, <1>2, <1>3, <1>4, <1>5
<1> USE DEF Rs!MainAt, RsAlone!MainAt, Rs!loopVars, RsAlone!loopVars, RsAlone!usartVars, Rs!usartVars,
            RsAlone!dmaVars, Rs!dmaVars, RsAlone!routerVars, Rs!routerVars
<1>10. pc = "enLoad" => mode \in {"RELOAD", "READY"}
  BY PortFacts DEF MInv, RsInv, EnSteps
<1>11. RsS2r' = [s2r' EXCEPT !.wr = IDLE] /\ RsR2s' = [r2s' EXCEPT !.rd = IDLE]
  BY DEF RsS2r, RsR2s
<1>12. CASE Rs!Check
  <2>1. RsAlone!Check
    BY <1>12, <1>6, <1>7, <1>9 DEF Rs!Check, RsAlone!Check, Rs!ShouldReload, RsAlone!ShouldReload, RsSteps, ModifySteps, AfterUnmask
  <2> QED BY <2>1 DEF RsAlone!Main
<1>13. CASE Rs!RestoreRd
  <2>1. RsAlone!RestoreRd
    BY <1>13, <1>6, <1>8, <1>11, RsHidesS2r DEF Rs!RestoreRd, RsAlone!RestoreRd, RsSteps
  <2> QED BY <2>1 DEF RsAlone!Main
<1>14. CASE Rs!NothingToSend
  <2>1. RsAlone!NothingToSend
    BY <1>14, <1>6, <1>8, <1>11, RsHidesS2r DEF Rs!NothingToSend, RsAlone!NothingToSend, RsSteps
  <2> QED BY <2>1 DEF RsAlone!Main
<1>15. CASE Rs!SetUpCh4Read
  <2>1. RsAlone!SetUpCh4Read
    BY <1>15, <1>6 DEF Rs!SetUpCh4Read, RsAlone!SetUpCh4Read, RsSteps
  <2> QED BY <2>1 DEF RsAlone!Main
<1>16. CASE Rs!SetUpCh4Write
  <2>1. RsAlone!SetUpCh4Write
    BY <1>16, <1>6 DEF Rs!SetUpCh4Write, RsAlone!SetUpCh4Write, RsSteps
  <2> QED BY <2>1 DEF RsAlone!Main
<1>17. CASE Rs!SetUpCh4
  <2>1. RsAlone!SetUpCh4
    BY <1>17, <1>6 DEF Rs!SetUpCh4, RsAlone!SetUpCh4, Rs!NoFrame, RsAlone!NoFrame, RsSteps
  <2> QED BY <2>1 DEF RsAlone!Main
<1>18. CASE Rs!RestoreWr
  <2>1. RsAlone!RestoreWr
    BY <1>18, <1>6, <1>8, <1>11, RsHidesR2s DEF Rs!RestoreWr, RsAlone!RestoreWr, RsSteps
  <2> QED BY <2>1 DEF RsAlone!Main
<1>19. CASE Rs!NoRoomOrNotIdle
  <2>1. RsAlone!NoRoomOrNotIdle
    BY <1>19, <1>7, <1>8, <1>9, RsHidesR2s DEF Rs!NoRoomOrNotIdle, RsAlone!NoRoomOrNotIdle, RsSteps, ModifySteps, AfterUnmask
  <2> QED BY <2>1 DEF RsAlone!Main
<1>20. CASE Rs!SetUpCh3Read
  <2>1. RsAlone!SetUpCh3Read
    BY <1>20, <1>6 DEF Rs!SetUpCh3Read, RsAlone!SetUpCh3Read, RsSteps
  <2> QED BY <2>1 DEF RsAlone!Main
<1>21. CASE Rs!SetUpCh3Write
  <2>1. RsAlone!SetUpCh3Write
    BY <1>21, <1>6, <1>7 DEF Rs!SetUpCh3Write, RsAlone!SetUpCh3Write, RsSteps
  <2> QED BY <2>1 DEF RsAlone!Main
<1>22. CASE Rs!SetUpCh3
  <2>1. RsAlone!SetUpCh3
    BY <1>22, <1>6, <1>8, RsHidesR2s DEF Rs!SetUpCh3, RsAlone!SetUpCh3, RsSteps
  <2> QED BY <2>1 DEF RsAlone!Main
<1>23. CASE Rs!EnableLoad
  <2>1. RsAlone!EnableLoad
    BY <1>23, <1>6, <1>10 DEF Rs!EnableLoad, RsAlone!EnableLoad, Rs!ShouldReload, RsAlone!ShouldReload, EnSteps
  <2> QED BY <2>1 DEF RsAlone!Main
<1>24. CASE Rs!EnableFlush
  <2>1. RsAlone!EnableFlush
    BY <1>24, <1>6 DEF Rs!EnableFlush, RsAlone!EnableFlush, EnSteps
  <2> QED BY <2>1 DEF RsAlone!Main
<1>25. CASE Rs!EnableStore
  <2>1. RsAlone!EnableStore
    BY <1>25, <1>6 DEF Rs!EnableStore, RsAlone!EnableStore, EnSteps
  <2> QED BY <2>1 DEF RsAlone!Main
<1>26. CASE Rs!EnableReadCr1
  <2>1. RsAlone!EnableReadCr1
    BY <1>26, <1>6 DEF Rs!EnableReadCr1, RsAlone!EnableReadCr1, EnSteps
  <2> QED BY <2>1 DEF RsAlone!Main
<1>27. CASE Rs!EnableCmie
  <2>1. RsAlone!EnableCmie
    BY <1>27, <1>6 DEF Rs!EnableCmie, RsAlone!EnableCmie, EnSteps
  <2> QED BY <2>1 DEF RsAlone!Main
<1> QED BY <1>12, <1>13, <1>14, <1>15, <1>16, <1>17, <1>18, <1>19, <1>20, <1>21, <1>22, <1>23, <1>24, <1>25, <1>26, <1>27 DEF Rs!Main

\* Between two cycles only a poll interrupts, and only when the port is armed.
LEMMA OnlyPolls ==
  ASSUME MInv, Rs!Irq, mode \in {"RELOAD", "READY"}
  PROVE  /\ mode = "READY" /\ cmf /\ cmie
         /\ router.phase = "polling" /\ fifo = <<"poll">>
<1>1. ~tcie /\ ~ch3.done /\ ~ch4.done
  BY PortFacts DEF MInv, RsInv, Between
<1>2. cmf /\ cmie
  BY <1>1 DEF Rs!Irq
<1> QED BY <1>2 DEF MInv, RsInv, ArmedInv, OnePoll

LEMMA RsHandlerMaps ==
  ASSUME MInv, Rs!Handler, UNCHANGED spiOwn
  PROVE  RsAlone!Handler
<1>1. /\ RsAlone!Irq <=> Rs!Irq
      /\ s2r \in PipeRec /\ r2s \in PipeRec
  BY SameIrq DEF MInv, Types
<1>2. CommitTag' = CommitTag
  BY CommitTagKept
<1>3. UNCHANGED s2r => UNCHANGED RsS2r
  BY DEF RsS2r
<1>4. UNCHANGED r2s => UNCHANGED RsR2s
  BY DEF RsR2s
<1>5. UNCHANGED <<pc, seen, didRestoreRs485>> => UNCHANGED RsPc /\ UNCHANGED RsSeen
  BY DEF RsPc, RsSeen, AfterUnmask
<1>6. RsS2r' = [s2r' EXCEPT !.wr = IDLE] /\ RsR2s' = [r2s' EXCEPT !.rd = IDLE]
  BY DEF RsS2r, RsR2s
<1> USE <1>1, <1>2, <1>3, <1>4, <1>5
<1> USE DEF Rs!loopVars, RsAlone!loopVars, RsAlone!usartVars, Rs!usartVars,
            RsAlone!dmaVars, Rs!dmaVars, RsAlone!routerVars, Rs!routerVars
<1>7. CASE Rs!IdleStartTimeout
  BY <1>7, OnlyPolls DEF Rs!IdleStartTimeout
<1>8. CASE Rs!PanicInReload
  BY <1>8, OnlyPolls DEF Rs!PanicInReload
<1>9. ASSUME NEW rRxCap \in RxCaps, NEW rTxCap \in TxCaps, Rs!IdleStartAnswer(rRxCap, rTxCap)
      PROVE  RsAlone!IdleStartAnswer(rRxCap, rTxCap)
  <2>1. RsAlone!TxCap = Rs!TxCap /\ RsAlone!RxCap = Rs!RxCap
    BY RsHidesS2r, RsHidesR2s DEF Rs!TxCap, RsAlone!TxCap, Rs!RxCap, RsAlone!RxCap
  <2> QED BY <1>9, <1>6, <2>1, RsHidesS2r, RsHidesR2s DEF Rs!IdleStartAnswer, RsAlone!IdleStartAnswer
<1>10. Rs!StartRecv <=> RsAlone!StartRecv
  BY DEF Rs!StartRecv, RsAlone!StartRecv, Rs!AllOf, RsAlone!AllOf, Rs!Tags, RsAlone!Tags
<1>11. CASE Rs!DmaTxComplete
  <2>1. RsAlone!DmaTxComplete
    BY <1>11, <1>10, <1>6, RsHidesS2r DEF Rs!DmaTxComplete, RsAlone!DmaTxComplete
  <2> QED BY <2>1 DEF RsAlone!Handler
<1>12. CASE Rs!NoDmaTxComplete
  <2>1. RsAlone!NoDmaTxComplete
    BY <1>12, <1>10 DEF Rs!NoDmaTxComplete, RsAlone!NoDmaTxComplete
  <2> QED BY <2>1 DEF RsAlone!Handler
<1>13. CASE Rs!RecvComplete
  <2>1. RsAlone!RecvComplete
    BY <1>13, <1>6, RsHidesR2s DEF Rs!RecvComplete, RsAlone!RecvComplete, Rs!Tags, RsAlone!Tags
  <2> QED BY <2>1 DEF RsAlone!Handler
<1> QED BY <1>7, <1>8, <1>9, <1>11, <1>12, <1>13 DEF Rs!Handler, RsAlone!Handler

LEMMA RsBusMaps ==
  ASSUME MInv, RouterPoll \/ Bus
  PROVE  RsAlone!Bus
<1>1. RsAlone!Irq <=> Rs!Irq
  BY SameIrq
<1>2. CommitTag' = CommitTag
  BY CommitTagKept DEF RouterPoll, Bus
<1>3. UNCHANGED s2r => UNCHANGED RsS2r
  BY DEF RsS2r
<1>4. UNCHANGED r2s => UNCHANGED RsR2s
  BY DEF RsR2s
<1>5. UNCHANGED <<pc, seen, didRestoreRs485>> => UNCHANGED RsPc /\ UNCHANGED RsSeen
  BY DEF RsPc, RsSeen, AfterUnmask
<1>6. \A w : Rs!Arrives(w) <=> RsAlone!Arrives(w)
  BY DEF Rs!Arrives, RsAlone!Arrives, Rs!DmaTakes, RsAlone!DmaTakes, Rs!Merge, RsAlone!Merge
<1>7. \A t : Rs!NextTag(t) = RsAlone!NextTag(t)
  BY DEF Rs!NextTag, RsAlone!NextTag
<1> USE <1>1, <1>2, <1>3, <1>4, <1>5
<1> USE DEF Rs!loopVars, RsAlone!loopVars, RsAlone!usartVars, Rs!usartVars,
            RsAlone!dmaVars, Rs!dmaVars, RsAlone!routerVars, Rs!routerVars
<1>8. ASSUME RouterPoll PROVE RsAlone!RouterPoll
  <2>1. Rs!PollAllowed => RsAlone!PollAllowed
    <3>1. SUFFICES ASSUME RsPc \in {"enStore", "enCmie", "enCr1"} PROVE RsPc = pc
      BY DEF Rs!PollAllowed, RsAlone!PollAllowed
    <3> QED BY <3>1 DEF RsPc, AfterUnmask
  <2> QED BY <1>8, <1>6, <2>1 DEF RouterPoll, Rs!RouterPoll, RsAlone!RouterPoll
<1>9. ASSUME Rs!TxDone PROVE RsAlone!TxDone
  BY <1>9 DEF Rs!TxDone, RsAlone!TxDone, Rs!AfterReading, RsAlone!AfterReading
<1>10. ASSUME Rs!Ch4Done PROVE RsAlone!Ch4Done
  BY <1>10, <1>7 DEF Rs!Ch4Done, RsAlone!Ch4Done, Rs!AfterReading, RsAlone!AfterReading
<1>11. ASSUME Rs!RouterSends PROVE RsAlone!RouterSends
  BY <1>11, <1>6, <1>7 DEF Rs!RouterSends, RsAlone!RouterSends
<1> QED BY <1>8, <1>9, <1>10, <1>11 DEF Bus, RsAlone!Bus

-----------------------------------------------------------------------------
(* The steps of the SPI port and of its master are those of the environment *)
(* the module of the RS-485 port assumes, or it does not see them.          *)

LEMMA RsBlind ==
  ASSUME s2r \in PipeRec, r2s \in PipeRec
  PROVE  /\ [Spi!ServiceWr(s2r) EXCEPT !.wr = IDLE] = RsS2r
         /\ [Spi!PrepWr(s2r) EXCEPT !.wr = IDLE] = RsS2r
         /\ [Spi!ServiceRd(r2s) EXCEPT !.rd = IDLE] = RsR2s
         /\ [Spi!PrepRd(r2s) EXCEPT !.rd = IDLE] = RsR2s
         /\ [Spi!ServiceRdNone(r2s) EXCEPT !.rd = IDLE] = RsAlone!ServiceRdNone(RsR2s)
         /\ \A f : s2r.wr = BUSY =>
              [Spi!CompleteWr(s2r, f) EXCEPT !.wr = IDLE]
                = [RsS2r EXCEPT !.frames = Append(@, f), !.unresolved = FALSE]
         /\ r2s.rd = BUSY => [Spi!CompleteRd(r2s) EXCEPT !.rd = IDLE] = [RsR2s EXCEPT !.frames = Tail(@)]
         /\ \A f : s2r.wr # BUSY => Spi!CompleteWr(s2r, f) = s2r
         /\ r2s.rd # BUSY => Spi!CompleteRd(r2s) = r2s
<1> USE DEF PipeRec, RsS2r, RsR2s
<1>1. /\ [Spi!ServiceWr(s2r) EXCEPT !.wr = IDLE] = RsS2r
      /\ [Spi!PrepWr(s2r) EXCEPT !.wr = IDLE] = RsS2r
  BY DEF Spi!ServiceWr, Spi!PrepWr
<1>2. /\ [Spi!ServiceRd(r2s) EXCEPT !.rd = IDLE] = RsR2s
      /\ [Spi!PrepRd(r2s) EXCEPT !.rd = IDLE] = RsR2s
  BY DEF Spi!ServiceRd, Spi!PrepRd
<1>3. [Spi!ServiceRdNone(r2s) EXCEPT !.rd = IDLE] = RsAlone!ServiceRdNone(RsR2s)
  BY DEF Spi!ServiceRdNone, RsAlone!ServiceRdNone
<1>4. ASSUME NEW f, s2r.wr = BUSY
      PROVE  [Spi!CompleteWr(s2r, f) EXCEPT !.wr = IDLE]
               = [RsS2r EXCEPT !.frames = Append(@, f), !.unresolved = FALSE]
  BY <1>4 DEF Spi!CompleteWr
<1>5. r2s.rd = BUSY => [Spi!CompleteRd(r2s) EXCEPT !.rd = IDLE] = [RsR2s EXCEPT !.frames = Tail(@)]
  BY DEF Spi!CompleteRd
<1>6. /\ \A f : s2r.wr # BUSY => Spi!CompleteWr(s2r, f) = s2r
      /\ r2s.rd # BUSY => Spi!CompleteRd(r2s) = r2s
  BY DEF Spi!CompleteWr, Spi!CompleteRd
<1> QED BY <1>1, <1>2, <1>3, <1>4, <1>5, <1>6

\* The master begins only long transactions, each when the last has ended.
LEMMA OnlyLong ==
  ASSUME MInv, ~panicked
  PROVE  /\ extiPend => spiMode = "LONG" /\ ~spiPend
         /\ spiPend /\ spiMode = "IDLE" =>
              /\ SpiPc = "check" /\ rxFifo # <<>> /\ Head(rxFifo) = "LONG" /\ Spi!TakenFor = {"LONG"}
         /\ spiMode = "LONG" => (s2r.wr = BUSY <=> "rxrdy" \in master.saw)
<1>1. PhaseInv /\ PinInv /\ BytesInv
  BY DEF MInv, SpiInv
<1>2. ASSUME spiPend, spiMode = "IDLE"
      PROVE  /\ SpiPc = "check" /\ rxFifo # <<>> /\ Head(rxFifo) = "LONG" /\ Spi!TakenFor = {"LONG"}
  <2>1. Len(rxFifo) = 1 + master.sent /\ rxFifo[1] = "LONG" /\ SpiPc = "check"
    BY <1>1, <1>2 DEF BytesInv, PhaseInv
  <2>2. master.sent \in Nat /\ rxFifo \in Seq(Spi!Bytes)
    BY DEF MInv, SpiTypes
  <2>3. rxFifo # <<>>
    BY <2>1, <2>2
  <2>4. Head(rxFifo) = "LONG"
    BY <2>1, <2>2, <2>3
  <2> QED BY <2>1, <2>3, <2>4 DEF Spi!TakenFor, Spi!AllKinds
<1> QED BY <1>1, <1>2 DEF PhaseInv, PinInv

\* What the end of a transaction commits.
LEMMA CommitFacts ==
  ASSUME MInv, ~panicked, extiPend, s2r.wr = BUSY
  PROVE  /\ Spi!ReceivedFrame = [len |-> AtMost(master.sent, MaxLen), tag |-> master.tag]
         /\ AtMost(master.sent, MaxLen) \in Lens
         /\ Len(s2r.frames) < MaxFrames
<1>1. PhaseInv /\ PinInv /\ GrantInv /\ BytesInv
  BY DEF MInv, SpiInv
<1>2. /\ master.phase = "idle" /\ master.left = 0 /\ spiMode = "LONG"
      /\ master.sent + master.left \in Clocked
      /\ ch1.fresh /\ ch1.left = MaxLen - AtMost(master.sent, MaxLen)
      /\ ch1.got = IF master.sent = 0 THEN "none" ELSE master.tag
  BY <1>1 DEF PhaseInv, GrantInv, BytesInv, Active
<1>3. master.sent \in Nat
  BY DEF MInv, SpiTypes
<1>4. master.sent \in Clocked /\ master.sent # 0
  BY <1>2, <1>3, ModemAssumption
<1>5. AtMost(master.sent, MaxLen) \in Lens
  BY <1>4 DEF AtMost, Lens
<1>6. AtMost(master.sent, MaxLen) \in Nat
  BY <1>3, ModemAssumption DEF AtMost
<1>7. MaxLen - ch1.left = AtMost(master.sent, MaxLen)
  <2> DEFINE m == AtMost(master.sent, MaxLen)
  <2>1. ch1.left = MaxLen - m /\ m \in Nat /\ MaxLen \in Nat
    BY <1>2, <1>6, ModemAssumption
  <2> HIDE DEF m
  <2>2. MaxLen - ch1.left = m
    BY <2>1
  <2> QED BY <2>2 DEF m
<1>8. Spi!ReceivedFrame = [len |-> AtMost(master.sent, MaxLen), tag |-> master.tag]
  BY <1>2, <1>4, <1>7 DEF Spi!ReceivedFrame
<1>9. Len(s2r.frames) < MaxFrames
  BY DEF MInv, SlotsInv
<1> QED BY <1>5, <1>8, <1>9

LEMMA RsSeesHandler ==
  ASSUME MInv, Spi!Handler, UNCHANGED rsOwn
  PROVE  RsAlone!Spi \/ UNCHANGED RsAlone!vars
<1>1. s2r \in PipeRec /\ r2s \in PipeRec
  BY DEF MInv, Types
<1>2. UNCHANGED s2r => UNCHANGED RsS2r
  BY DEF RsS2r
<1>3. UNCHANGED r2s => UNCHANGED RsR2s
  BY DEF RsR2s
<1>4. UNCHANGED <<pc, seen, didRestoreRs485>> => UNCHANGED RsPc /\ UNCHANGED RsSeen
  BY DEF RsPc, RsSeen, AfterUnmask
<1>5. RsS2r' = [s2r' EXCEPT !.wr = IDLE] /\ RsR2s' = [r2s' EXCEPT !.rd = IDLE]
  BY DEF RsS2r, RsR2s
<1>6. UNCHANGED <<master, extiPend>> => UNCHANGED CommitTag
  BY DEF CommitTag, Spi!NextTag
<1>7. UNCHANGED rsOwn /\ UNCHANGED <<RsS2r, RsR2s, RsPc, RsSeen, didRestoreRs485, CommitTag>>
        => UNCHANGED RsAlone!vars
  BY DEF rsOwn, RsAlone!vars, RsAlone!loopVars, RsAlone!usartVars, RsAlone!dmaVars, RsAlone!routerVars
<1> USE DEF Spi!loopVars, Spi!intVars, Spi!dmaVars
<1>8. CASE Spi!NotIdle
  BY <1>8, <1>2, <1>3, <1>4, <1>6, <1>7 DEF Spi!NotIdle
<1>9. ~Spi!ExtiSpurious /\ ~Spi!ExtiShort
  BY OnlyLong DEF Spi!ExtiSpurious, Spi!ExtiShort
<1>10. ASSUME NEW kind \in Spi!AllKinds, Spi!ShortBegins(kind)
       PROVE  FALSE
  BY <1>10, OnlyLong DEF Spi!ShortBegins, Spi!SpiIrq
<1>11. CASE Spi!LongBegins
  <2>1. RsS2r' = RsS2r /\ RsR2s' = RsR2s
    BY <1>1, <1>5, <1>11, RsBlind DEF Spi!LongBegins
  <2>2. UNCHANGED <<pc, seen, didRestoreRs485, master, extiPend>>
    BY <1>11 DEF Spi!LongBegins
  <2> QED BY <1>4, <1>6, <1>7, <2>1, <2>2
<1>12. CASE Spi!ExtiLong
  <2>1. /\ UNCHANGED <<pc, seen, didRestoreRs485, master, panicked>> /\ ~panicked /\ extiPend /\ ~extiPend'
        /\ spiMode = "LONG" /\ UNCHANGED RsPc /\ UNCHANGED RsSeen
        /\ s2r' = Spi!CompleteWr(s2r, Spi!ReceivedFrame) /\ r2s' = Spi!CompleteRd(r2s)
    BY <1>12, <1>4 DEF Spi!ExtiLong
  <2>2. s2r.wr = BUSY <=> "rxrdy" \in master.saw
    BY <2>1, OnlyLong
  <2>3. master.phase = "idle" /\ master.tag \in Tags
    BY <2>1 DEF MInv, SpiInv, PhaseInv, SpiTypes
  <2>4. s2r.wr # BUSY => UNCHANGED CommitTag /\ UNCHANGED RsS2r
    BY <2>1, <2>2, <2>3, <1>1, <1>2, RsBlind DEF CommitTag, Spi!NextTag
  <2>5. s2r.wr = BUSY => CommitTag = master.tag /\ CommitTag' = RsAlone!NextTag(CommitTag)
    BY <2>1, <2>2, <2>3 DEF CommitTag, Spi!NextTag, RsAlone!NextTag, Tags
  <2>6. r2s.rd # BUSY => UNCHANGED RsR2s
    BY <2>1, <1>1, <1>3, RsBlind
  <2>7. r2s.rd = BUSY => RsR2s' = [RsR2s EXCEPT !.frames = Tail(@)]
    BY <2>1, <1>1, <1>5, RsBlind
  <2>8. RsS2r.frames = s2r.frames /\ RsR2s.frames = r2s.frames
    BY <1>1, RsHidesS2r, RsHidesR2s
  <2>9. r2s.rd = BUSY => r2s.frames # <<>> /\ RsR2s' = RsAlone!Fetched(RsR2s)
    BY <2>7, <2>8 DEF MInv, SlotsInv, RsAlone!Fetched
  <2> DEFINE m == AtMost(master.sent, MaxLen)
  <2>10. s2r.wr = BUSY =>
           /\ m \in Lens /\ Len(RsS2r.frames) < MaxFrames
           /\ RsS2r' = [RsS2r EXCEPT !.frames = Append(@, [len |-> m, tag |-> CommitTag]),
                                     !.unresolved = FALSE]
    <3> SUFFICES ASSUME s2r.wr = BUSY
                 PROVE  /\ m \in Lens /\ Len(RsS2r.frames) < MaxFrames
                        /\ RsS2r' = [RsS2r EXCEPT !.frames = Append(@, [len |-> m, tag |-> CommitTag]),
                                                  !.unresolved = FALSE]
      OBVIOUS
    <3>1. Spi!ReceivedFrame = [len |-> m, tag |-> CommitTag]
      BY <2>1, <2>5, CommitFacts
    <3>2. m \in Lens /\ Len(s2r.frames) < MaxFrames
      BY <2>1, CommitFacts
    <3> HIDE DEF m
    <3>3. [Spi!CompleteWr(s2r, Spi!ReceivedFrame) EXCEPT !.wr = IDLE]
            = [RsS2r EXCEPT !.frames = Append(@, Spi!ReceivedFrame), !.unresolved = FALSE]
      BY <1>1, RsBlind
    <3>4. RsS2r' = [RsS2r EXCEPT !.frames = Append(@, Spi!ReceivedFrame), !.unresolved = FALSE]
      BY <1>5, <2>1, <3>3
    <3> QED BY <2>8, <3>1, <3>2, <3>4
  <2> HIDE DEF m
  <2>11. UNCHANGED <<RsAlone!loopVars, RsAlone!usartVars, RsAlone!dmaVars, handed, RsSeen, router,
                     wantTag, inTag>>
    BY <2>1 DEF rsOwn, RsAlone!loopVars, RsAlone!usartVars, RsAlone!dmaVars
  <2>12. CASE s2r.wr = BUSY /\ r2s.rd = BUSY
    <3>1. RsAlone!SpiExchanges(m)
      BY <2>1, <2>5, <2>8, <2>9, <2>10, <2>11, <2>12 DEF RsAlone!SpiExchanges
    <3> QED BY <2>10, <2>12, <3>1 DEF RsAlone!Spi
  <2>13. CASE s2r.wr = BUSY /\ r2s.rd # BUSY
    <3>1. RsAlone!SpiCommits(m)
      BY <2>1, <2>5, <2>6, <2>10, <2>11, <2>13 DEF RsAlone!SpiCommits
    <3> QED BY <2>10, <2>13, <3>1 DEF RsAlone!Spi
  <2>14. CASE s2r.wr # BUSY /\ r2s.rd = BUSY
    <3>1. RsAlone!SpiTakes
      BY <2>1, <2>4, <2>9, <2>11, <2>14 DEF RsAlone!SpiTakes, RsAlone!routerVars
    <3> QED BY <3>1 DEF RsAlone!Spi
  <2>15. CASE s2r.wr # BUSY /\ r2s.rd # BUSY
    BY <1>7, <2>1, <2>4, <2>6, <2>15
  <2> QED BY <2>12, <2>13, <2>14, <2>15
<1> QED BY <1>8, <1>9, <1>10, <1>11, <1>12 DEF Spi!Handler

LEMMA RsSeesServe ==
  ASSUME MInv, Spi!Serve, UNCHANGED rsOwn
  PROVE  RsAlone!Spi \/ UNCHANGED RsAlone!vars
<1>1. s2r \in PipeRec /\ r2s \in PipeRec /\ ~panicked
  BY DEF MInv, Types, Spi!Serve, Spi!MainAt, Spi!Goto, Spi!ReadPins, Spi!RestoreWr, Spi!NoRoomOrNotIdle, Spi!SetUpCh1Read,
     Spi!SetUpCh1Write, Spi!SetUpCh1, Spi!SetRxrdy, Spi!RestoreRd, Spi!NothingToSend, Spi!SetUpCh2Read,
     Spi!SetUpCh2Write, Spi!SetUpCh2, Spi!SetTxrdy, Spi!ReadCr2, Spi!Unmask, Spi!intVars, Spi!dmaVars
<1>2. UNCHANGED s2r => UNCHANGED RsS2r
  BY DEF RsS2r
<1>3. UNCHANGED r2s => UNCHANGED RsR2s
  BY DEF RsR2s
<1>4. RsS2r' = [s2r' EXCEPT !.wr = IDLE] /\ RsR2s' = [r2s' EXCEPT !.rd = IDLE]
  BY DEF RsS2r, RsR2s
<1>5. UNCHANGED <<master, extiPend>> => UNCHANGED CommitTag
  BY DEF CommitTag, Spi!NextTag
<1>6. UNCHANGED rsOwn /\ UNCHANGED <<RsS2r, RsR2s, RsPc, RsSeen, didRestoreRs485, CommitTag>>
        => UNCHANGED RsAlone!vars
  BY DEF rsOwn, RsAlone!vars, RsAlone!loopVars, RsAlone!usartVars, RsAlone!dmaVars, RsAlone!routerVars
\* Main goes on in the SPI half, or leaves it for where the port waits for it.
<1>7. pc \in SpiSteps /\ UNCHANGED <<master, extiPend, didRestoreRs485, panicked>>
  BY DEF Spi!Serve, Spi!MainAt, Spi!Goto, Spi!ReadPins, Spi!RestoreWr, Spi!NoRoomOrNotIdle, Spi!SetUpCh1Read,
     Spi!SetUpCh1Write, Spi!SetUpCh1, Spi!SetRxrdy, Spi!RestoreRd, Spi!NothingToSend, Spi!SetUpCh2Read,
     Spi!SetUpCh2Write, Spi!SetUpCh2, Spi!SetTxrdy, Spi!ReadCr2, Spi!Unmask, Spi!intVars, Spi!dmaVars, SpiSteps, Spi!Steps
<1>8. \/ pc' \in SpiSteps
      \/ pc' = AfterUnmask(didRestoreRs485) /\ seen' = {}
  BY DEF Spi!Serve, Spi!MainAt, Spi!Goto, Spi!ReadPins, Spi!RestoreWr, Spi!NoRoomOrNotIdle, Spi!SetUpCh1Read,
     Spi!SetUpCh1Write, Spi!SetUpCh1, Spi!SetRxrdy, Spi!RestoreRd, Spi!NothingToSend, Spi!SetUpCh2Read,
     Spi!SetUpCh2Write, Spi!SetUpCh2, Spi!SetTxrdy, Spi!ReadCr2, Spi!Unmask, Spi!intVars, Spi!dmaVars, SpiSteps, Spi!Steps, Spi!AfterRd, Spi!AfterSpi, Spi!AfterUnmask, AfterUnmask, MInv, SeenInv, ModifySteps
<1>9. UNCHANGED RsPc /\ UNCHANGED RsSeen
  BY <1>7, <1>8 DEF RsPc, RsSeen, AfterUnmask, SpiSteps, Spi!Steps
<1>10. UNCHANGED RsS2r
  BY <1>1, <1>2, <1>4, RsBlind DEF Spi!Serve, Spi!MainAt, Spi!Goto, Spi!ReadPins, Spi!RestoreWr, Spi!NoRoomOrNotIdle, Spi!SetUpCh1Read,
     Spi!SetUpCh1Write, Spi!SetUpCh1, Spi!SetRxrdy, Spi!RestoreRd, Spi!NothingToSend, Spi!SetUpCh2Read,
     Spi!SetUpCh2Write, Spi!SetUpCh2, Spi!SetTxrdy, Spi!ReadCr2, Spi!Unmask, Spi!intVars, Spi!dmaVars
<1>11. \/ UNCHANGED RsR2s
       \/ r2s.frames = <<>> /\ RsR2s' = RsAlone!ServiceRdNone(RsR2s)
  BY <1>1, <1>3, <1>4, RsBlind DEF Spi!Serve, Spi!MainAt, Spi!Goto, Spi!ReadPins, Spi!RestoreWr, Spi!NoRoomOrNotIdle, Spi!SetUpCh1Read,
     Spi!SetUpCh1Write, Spi!SetUpCh1, Spi!SetRxrdy, Spi!RestoreRd, Spi!NothingToSend, Spi!SetUpCh2Read,
     Spi!SetUpCh2Write, Spi!SetUpCh2, Spi!SetTxrdy, Spi!ReadCr2, Spi!Unmask, Spi!intVars, Spi!dmaVars, Spi!FindsNone
<1>12. CASE UNCHANGED RsR2s
  BY <1>5, <1>6, <1>7, <1>9, <1>10, <1>12
<1>13. CASE r2s.frames = <<>> /\ RsR2s' = RsAlone!ServiceRdNone(RsR2s)
  <2>1. RsAlone!SpiTakes
    BY <1>1, <1>5, <1>7, <1>9, <1>10, <1>13, RsHidesR2s DEF RsAlone!SpiTakes, RsAlone!Fetched, rsOwn,
       RsAlone!loopVars, RsAlone!usartVars, RsAlone!dmaVars, RsAlone!routerVars
  <2> QED BY <2>1 DEF RsAlone!Spi
<1> QED BY <1>11, <1>12, <1>13

LEMMA RsSeesMaster ==
  ASSUME MInv, Begins \/ Clocks
  PROVE  UNCHANGED RsAlone!vars
<1>1. UNCHANGED <<rsOwn, s2r, r2s, pc, didRestoreRs485, seen>>
  BY DEF Begins, Spi!Begins, Spi!MasterBegins, Clocks, Spi!MasterClocks, Spi!MasterEnds, Spi!loopVars
<1>2. master = [phase |-> master.phase, left |-> master.left, sent |-> master.sent, tag |-> master.tag, saw |-> master.saw]
      /\ master.tag \in Tags
  BY DEF MInv, SpiTypes
<1>3. CommitTag' = CommitTag
  <2>1. CASE Begins
    BY <1>2, <2>1 DEF Begins, SpiAlone!MayBegin, Spi!Begins, Spi!MasterBegins, CommitTag, Spi!NextTag, Tags
  <2>2. CASE Spi!MasterClocks
    BY <1>2, <2>2 DEF Spi!MasterClocks, CommitTag, Spi!NextTag
  <2>3. CASE Spi!MasterEnds
    BY <1>2, <2>3 DEF Spi!MasterEnds, CommitTag, Spi!NextTag
  <2> QED BY <2>1, <2>2, <2>3 DEF Clocks
<1> QED BY <1>1, <1>3 DEF rsOwn, RsAlone!vars, RsAlone!loopVars, RsAlone!usartVars, RsAlone!dmaVars,
           RsAlone!routerVars, RsS2r, RsR2s, RsPc, RsSeen, AfterUnmask

-----------------------------------------------------------------------------
(* The invariant of the port is that of the whole.                          *)

\* The port of the theorems is the port of the refinement.
LEMMA SameNext ==
  /\ Port485!Next <=> RsAlone!Next
  /\ UNCHANGED Port485!vars <=> UNCHANGED RsAlone!vars
  /\ Port485!Overlap' <=> RsAlone!Overlap'
<1>1. Port485!Overlap' <=> RsAlone!Overlap'
  BY DEF Port485!Overlap, RsAlone!Overlap, Port485!Rearming, RsAlone!Rearming, Port485!ShouldReload,
         RsAlone!ShouldReload
<1>2. (Port485!Next <=> RsAlone!Next) /\ (UNCHANGED Port485!vars <=> UNCHANGED RsAlone!vars)
  BY DEF
       Port485!usartVars, RsAlone!usartVars, Port485!dmaVars, RsAlone!dmaVars,
       Port485!routerVars, RsAlone!routerVars, Port485!Irq, RsAlone!Irq, Port485!Merge,
       RsAlone!Merge, Port485!DmaTakes, RsAlone!DmaTakes, Port485!AllOf, RsAlone!AllOf,
       Port485!Arrives, RsAlone!Arrives, Port485!TxCap, RsAlone!TxCap, Port485!RxCap,
       RsAlone!RxCap, Port485!IdleStartTimeout, RsAlone!IdleStartTimeout,
       Port485!IdleStartAnswer, RsAlone!IdleStartAnswer, Port485!StartRecv, RsAlone!StartRecv,
       Port485!DmaTxComplete, RsAlone!DmaTxComplete, Port485!NoDmaTxComplete,
       RsAlone!NoDmaTxComplete, Port485!RecvComplete, RsAlone!RecvComplete,
       Port485!PanicInReload, RsAlone!PanicInReload, Port485!Handler, RsAlone!Handler,
       Port485!MainAt, RsAlone!MainAt, Port485!ShouldReload, RsAlone!ShouldReload,
       Port485!Check, RsAlone!Check, Port485!RestoreRd, RsAlone!RestoreRd,
       Port485!NothingToSend, RsAlone!NothingToSend, Port485!SetUpCh4Read, RsAlone!SetUpCh4Read,
       Port485!SetUpCh4Write, RsAlone!SetUpCh4Write, Port485!SetUpCh4, RsAlone!SetUpCh4,
       Port485!RestoreWr, RsAlone!RestoreWr, Port485!NoRoomOrNotIdle, RsAlone!NoRoomOrNotIdle,
       Port485!SetUpCh3Read, RsAlone!SetUpCh3Read, Port485!SetUpCh3Write, RsAlone!SetUpCh3Write,
       Port485!SetUpCh3, RsAlone!SetUpCh3, Port485!EnableLoad, RsAlone!EnableLoad,
       Port485!EnableFlush, RsAlone!EnableFlush, Port485!EnableStore, RsAlone!EnableStore,
       Port485!EnableReadCr1, RsAlone!EnableReadCr1, Port485!EnableCmie, RsAlone!EnableCmie,
       Port485!Main, RsAlone!Main, Port485!AfterReading, RsAlone!AfterReading, Port485!TxDone,
       RsAlone!TxDone, Port485!Ch4Done, RsAlone!Ch4Done, Port485!PollAllowed,
       RsAlone!PollAllowed, Port485!RouterPoll, RsAlone!RouterPoll, Port485!RouterShortPoll,
       RsAlone!RouterShortPoll, Port485!RouterLateWords, RsAlone!RouterLateWords,
       Port485!RouterSends, RsAlone!RouterSends, Port485!RouterGivesUp, RsAlone!RouterGivesUp,
       Port485!Bus, RsAlone!Bus, Port485!SpiCommits, RsAlone!SpiCommits, Port485!Fetched,
       RsAlone!Fetched, Port485!SpiTakes, RsAlone!SpiTakes, Port485!SpiExchanges,
       RsAlone!SpiExchanges, Port485!Spi, RsAlone!Spi, Port485!Next, RsAlone!Next, Port485!vars,
       RsAlone!vars, Port485!loopVars, RsAlone!loopVars, Port485!NextTag, RsAlone!NextTag,
       Port485!Tags, RsAlone!Tags, Port485!AfterRs485, RsAlone!AfterRs485, Port485!AfterSpi,
       RsAlone!AfterSpi, Port485!AfterUnmask, RsAlone!AfterUnmask, Port485!ServiceRd,
       RsAlone!ServiceRd, Port485!ServiceWr, RsAlone!ServiceWr, Port485!ServiceRdNone,
       RsAlone!ServiceRdNone, Port485!PrepRd, RsAlone!PrepRd, Port485!PrepWr, RsAlone!PrepWr,
       Port485!AbortRd, RsAlone!AbortRd, Port485!AbortWr, RsAlone!AbortWr, Port485!CompleteRd,
       RsAlone!CompleteRd, Port485!CompleteWr, RsAlone!CompleteWr, Port485!CanGrantRd,
       RsAlone!CanGrantRd, Port485!CanGrantWr, RsAlone!CanGrantWr, Port485!FindsNone,
       RsAlone!FindsNone, Port485!MayRefuseWr, RsAlone!MayRefuseWr, Port485!IDLE, RsAlone!IDLE,
       Port485!READY, RsAlone!READY, Port485!BUSY, RsAlone!BUSY, Port485!NoFrame,
       RsAlone!NoFrame
<1> QED BY <1>1, <1>2

LEMMA RsNext ==
  ASSUME MInv, [Next /\ ~RsAlone!Overlap']_vars
  PROVE  [RsAlone!Next /\ ~RsAlone!Overlap']_(RsAlone!vars)
<1>0. (Next /\ ~RsAlone!Overlap') \/ UNCHANGED vars
  OBVIOUS
<1>1. ASSUME Handler PROVE RsAlone!Next \/ UNCHANGED RsAlone!vars
  <2>1. CASE Rs!Handler /\ UNCHANGED spiOwn
    BY <2>1, RsHandlerMaps DEF RsAlone!Next
  <2>2. CASE Spi!Handler /\ UNCHANGED rsOwn
    BY <2>2, RsSeesHandler DEF RsAlone!Next
  <2> QED BY <1>1, <2>1, <2>2 DEF Handler, Exti, Spi1, Dma, Usart1
<1>2. ASSUME Main PROVE RsAlone!Next \/ UNCHANGED RsAlone!vars
  <2>1. CASE Rs!Main /\ UNCHANGED spiOwn
    BY <2>1, RsMainMaps DEF RsAlone!Next
  <2>2. CASE Spi!Serve /\ UNCHANGED rsOwn
    BY <2>2, RsSeesServe DEF RsAlone!Next
  <2> QED BY <1>2, <2>1, <2>2 DEF Main
<1>3. ASSUME RouterPoll \/ Bus PROVE RsAlone!Next
  BY <1>3, RsBusMaps DEF RsAlone!Next
<1>4. ASSUME Begins \/ Clocks PROVE RsAlone!Next \/ UNCHANGED RsAlone!vars
  BY <1>4, RsSeesMaster
<1>5. CASE UNCHANGED vars
  BY <1>5 DEF vars, loopVars, rsOwn, spiOwn, RsAlone!vars, RsAlone!loopVars, RsAlone!usartVars,
     RsAlone!dmaVars, RsAlone!routerVars, RsS2r, RsR2s, RsPc, RsSeen, AfterUnmask, CommitTag, Spi!NextTag
<1>6. Next => RsAlone!Next \/ UNCHANGED RsAlone!vars
  BY <1>1, <1>2, <1>3, <1>4 DEF Next
<1> QED BY <1>0, <1>5, <1>6

LEMMA PortInvKept ==
  ASSUME 0 \notin TxCaps, MInv, [Next /\ ~RsAlone!Overlap']_vars
  PROVE  Port485!Inv'
<1>1. [Port485!Next /\ ~Port485!Overlap']_(Port485!vars)
  BY RsNext, SameNext
<1>2. 0 \notin TxCaps \cup Lens
  BY LensAre
<1>3. Port485!Inv
  BY DEF MInv, RsInv
<1>4. Port485!Inv /\ [Port485!Next /\ ~Port485!Overlap']_(Port485!vars) => Port485!Inv'
  BY <1>2, PortsAssumptions, Port485!InvKept
<1> QED BY <1>1, <1>3, <1>4

LEMMA PortInvInit == Init => Port485!Inv
<1>1. Init => RsAlone!Init
  BY DEF Init, Rs!Init, Spi!Init, RsAlone!Init, Rs!PipesInit, RsAlone!PipesInit, Rs!EmptyPipe,
     RsAlone!EmptyPipe, RsS2r, RsR2s, RsPc, RsSeen, SpiSteps, Spi!Steps, CommitTag, Spi!NextTag,
     Rs!NoFrame, RsAlone!NoFrame, Tags
<1>2. RsAlone!Init => Port485!Init
  BY DEF Port485!Init, RsAlone!Init, Port485!PipesInit, RsAlone!PipesInit, Port485!EmptyPipe,
RsAlone!EmptyPipe, Port485!IDLE, RsAlone!IDLE, Port485!NoFrame, RsAlone!NoFrame
<1>3. Port485!Init => Port485!Inv
  BY PortsAssumptions, Port485!InvInit
<1> QED BY <1>1, <1>2, <1>3

-----------------------------------------------------------------------------
(* A step of one port leaves what the invariant says of the other.          *)

OutsideSpi == {"check", "spiWr"} \cup RsSteps \cup EnSteps

LEMMA SpiHalfKept ==
  ASSUME MInv, UNCHANGED <<spiOwn, panicked>>,
         s2r'.wr = s2r.wr, r2s'.rd = r2s.rd,
         \/ UNCHANGED <<pc, seen, didRestoreSpi>>
         \/ ~spiPend /\ pc \in OutsideSpi \ {"spiWr"} /\ pc' \in OutsideSpi
  PROVE  SpiTypes' /\ SpiInv'
<1>1. SpiTypes'
  BY DEF MInv, SpiTypes, spiOwn, OutsideSpi, RsSteps, EnSteps
<1>2. CASE panicked
  BY <1>1, <1>2 DEF SpiInv
<1>3. CASE ~panicked
  <2>1. PhaseInv /\ PinInv /\ GrantInv /\ BytesInv
    BY <1>3 DEF MInv, SpiInv
  <2>2. UNCHANGED <<spiMode, cr2, spiPend, extiPend, rxFifo, ch1, ch2, pins, master>>
    BY DEF spiOwn
  <2>3. PhaseInv' /\ BytesInv'
    BY <2>1, <2>2 DEF PhaseInv, BytesInv, Active, SpiPc, AtMost
  <2>4. CASE UNCHANGED <<pc, seen, didRestoreSpi>>
    BY <1>1, <2>1, <2>2, <2>3, <2>4 DEF SpiInv, PinInv, GrantInv
  <2>5. CASE ~spiPend /\ pc \in OutsideSpi \ {"spiWr"} /\ pc' \in OutsideSpi
    <3>1. /\ pc \notin WrSteps \cup PinSteps \cup RdSteps \cup ToUnmask \cup {"spiRd"}
          /\ pc' \notin WrSteps \cup PinSteps \cup RdSteps \cup ToUnmask \cup {"spiRd"}
      BY <2>5 DEF OutsideSpi, RsSteps, EnSteps, WrSteps, PinSteps, RdSteps, ToUnmask
    <3>2. PinInv'
      BY <2>1, <2>2, <2>5, <3>1 DEF PinInv, WrSteps, PinSteps, RdSteps, ToUnmask
    <3>3. GrantInv'
      BY <2>1, <2>2, <2>5, <3>1 DEF GrantInv, WrSteps, PinSteps, ToUnmask
    <3> QED BY <1>1, <2>3, <3>2, <3>3 DEF SpiInv
  <2> QED BY <2>4, <2>5
<1> QED BY <1>1, <1>2, <1>3

LEMMA RsHalfKept ==
  ASSUME MInv, UNCHANGED rsOwn, UNCHANGED RsPc,
         UNCHANGED pc \/ (pc \in SpiSteps /\ pc' \in SpiSteps \cup {"check", "enLoad"})
  PROVE  RsTypes' /\ ArmedInv' /\ CycleInv' /\ WordsInv'
<1> USE DEF rsOwn
<1>1. ArmedInv /\ CycleInv /\ WordsInv /\ RsTypes
  BY DEF MInv, RsInv
<1>2. RsTypes'
  BY <1>1 DEF RsTypes
<1>3. ArmedInv'
  BY <1>1 DEF ArmedInv, OnePoll, SpiSteps, Spi!Steps
<1>4. CycleInv'
  BY <1>1 DEF CycleInv
<1>5. WordsInv'
  BY <1>1 DEF WordsInv, ToSend, SentTag, Rs!NextTag
<1> QED BY <1>2, <1>3, <1>4, <1>5

-----------------------------------------------------------------------------
(* The steps of main in the RS-485 half of idle_step.                       *)

LEMMA RsMainIs ==
  ASSUME MInv, Rs!Main
  PROVE  /\ ~panicked /\ panicked' = panicked /\ pc \in OutsideSpi \ {"spiWr"} /\ pc' \in OutsideSpi
         /\ pc \notin {"check", "rsRd", "rsWr"} => mode \in {"RELOAD", "READY"}
         /\ UNCHANGED <<recvAmt, tcf, txing, router, wantTag, inTag>>
         /\ didRestoreSpi' \in BOOLEAN /\ didRestoreRs485' \in BOOLEAN
         /\ pc' \notin ModifySteps => seen' = {}
         /\ pc' # "unmaskCr2"
         /\ \/ s2r' = s2r
            \/ s2r.rd = IDLE /\ s2r.frames # <<>> /\ s2r' = [s2r EXCEPT !.rd = READY]
            \/ s2r' = [s2r EXCEPT !.unresolved = FALSE]
         /\ \/ r2s' = r2s
            \/ r2s.wr = IDLE /\ Len(r2s.frames) < MaxFrames /\ r2s' = [r2s EXCEPT !.wr = READY]
<1>1. \A x, y : Rs!AfterRs485(x, y) = "spiWr"
  BY ModemAssumption DEF Rs!AfterRs485
<1>2. ~panicked /\ pc \in OutsideSpi \ {"spiWr"} /\ pc' \in OutsideSpi
  BY <1>1 DEF OutsideSpi, RsSteps, EnSteps, Rs!Main, Rs!MainAt, Rs!Check, Rs!RestoreRd, Rs!NothingToSend, Rs!SetUpCh4Read, Rs!SetUpCh4Write,
     Rs!SetUpCh4, Rs!RestoreWr, Rs!NoRoomOrNotIdle, Rs!SetUpCh3Read, Rs!SetUpCh3Write, Rs!SetUpCh3,
     Rs!EnableLoad, Rs!EnableFlush, Rs!EnableStore, Rs!EnableReadCr1, Rs!EnableCmie, Rs!usartVars,
     Rs!dmaVars, Rs!routerVars
<1>3. pc \notin {"check", "rsRd", "rsWr"} => mode \in {"RELOAD", "READY"}
  BY <1>2, PortFacts DEF MInv, RsInv, OutsideSpi
<1>4. panicked' = panicked
  BY <1>2, <1>3 DEF Rs!ShouldReload, Rs!Main, Rs!MainAt, Rs!Check, Rs!RestoreRd, Rs!NothingToSend, Rs!SetUpCh4Read, Rs!SetUpCh4Write,
     Rs!SetUpCh4, Rs!RestoreWr, Rs!NoRoomOrNotIdle, Rs!SetUpCh3Read, Rs!SetUpCh3Write, Rs!SetUpCh3,
     Rs!EnableLoad, Rs!EnableFlush, Rs!EnableStore, Rs!EnableReadCr1, Rs!EnableCmie, Rs!usartVars,
     Rs!dmaVars, Rs!routerVars
<1>5. UNCHANGED <<recvAmt, tcf, txing, router, wantTag, inTag>>
  BY DEF Rs!Main, Rs!MainAt, Rs!Check, Rs!RestoreRd, Rs!NothingToSend, Rs!SetUpCh4Read, Rs!SetUpCh4Write,
     Rs!SetUpCh4, Rs!RestoreWr, Rs!NoRoomOrNotIdle, Rs!SetUpCh3Read, Rs!SetUpCh3Write, Rs!SetUpCh3,
     Rs!EnableLoad, Rs!EnableFlush, Rs!EnableStore, Rs!EnableReadCr1, Rs!EnableCmie, Rs!usartVars,
     Rs!dmaVars, Rs!routerVars
<1>6. didRestoreSpi' \in BOOLEAN /\ didRestoreRs485' \in BOOLEAN
  BY DEF MInv, Types, Rs!Main, Rs!MainAt, Rs!Check, Rs!RestoreRd, Rs!NothingToSend, Rs!SetUpCh4Read, Rs!SetUpCh4Write,
     Rs!SetUpCh4, Rs!RestoreWr, Rs!NoRoomOrNotIdle, Rs!SetUpCh3Read, Rs!SetUpCh3Write, Rs!SetUpCh3,
     Rs!EnableLoad, Rs!EnableFlush, Rs!EnableStore, Rs!EnableReadCr1, Rs!EnableCmie, Rs!usartVars,
     Rs!dmaVars, Rs!routerVars
<1>7. pc' \notin ModifySteps => seen' = {}
  BY <1>1 DEF MInv, SeenInv, ModifySteps, Rs!Main, Rs!MainAt, Rs!Check, Rs!RestoreRd, Rs!NothingToSend, Rs!SetUpCh4Read, Rs!SetUpCh4Write,
     Rs!SetUpCh4, Rs!RestoreWr, Rs!NoRoomOrNotIdle, Rs!SetUpCh3Read, Rs!SetUpCh3Write, Rs!SetUpCh3,
     Rs!EnableLoad, Rs!EnableFlush, Rs!EnableStore, Rs!EnableReadCr1, Rs!EnableCmie, Rs!usartVars,
     Rs!dmaVars, Rs!routerVars
<1>8. pc' # "unmaskCr2"
  BY <1>2 DEF OutsideSpi, RsSteps, EnSteps
<1>9. \/ s2r' = s2r
      \/ s2r.rd = IDLE /\ s2r.frames # <<>> /\ s2r' = [s2r EXCEPT !.rd = READY]
      \/ s2r' = [s2r EXCEPT !.unresolved = FALSE]
  BY DEF Rs!CanGrantRd, Rs!ServiceRd, Rs!ServiceRdNone, Rs!Main, Rs!MainAt, Rs!Check, Rs!RestoreRd, Rs!NothingToSend, Rs!SetUpCh4Read, Rs!SetUpCh4Write,
     Rs!SetUpCh4, Rs!RestoreWr, Rs!NoRoomOrNotIdle, Rs!SetUpCh3Read, Rs!SetUpCh3Write, Rs!SetUpCh3,
     Rs!EnableLoad, Rs!EnableFlush, Rs!EnableStore, Rs!EnableReadCr1, Rs!EnableCmie, Rs!usartVars,
     Rs!dmaVars, Rs!routerVars
<1>10. \/ r2s' = r2s
       \/ r2s.wr = IDLE /\ Len(r2s.frames) < MaxFrames /\ r2s' = [r2s EXCEPT !.wr = READY]
  BY DEF Rs!CanGrantWr, Rs!ServiceWr, Rs!Main, Rs!MainAt, Rs!Check, Rs!RestoreRd, Rs!NothingToSend, Rs!SetUpCh4Read, Rs!SetUpCh4Write,
     Rs!SetUpCh4, Rs!RestoreWr, Rs!NoRoomOrNotIdle, Rs!SetUpCh3Read, Rs!SetUpCh3Write, Rs!SetUpCh3,
     Rs!EnableLoad, Rs!EnableFlush, Rs!EnableStore, Rs!EnableReadCr1, Rs!EnableCmie, Rs!usartVars,
     Rs!dmaVars, Rs!routerVars
<1> QED BY <1>2, <1>3, <1>4, <1>5, <1>6, <1>7, <1>8, <1>9, <1>10

\* What a grant that is restored does to a pipe.
LEMMA RestoreKeeps ==
  ASSUME s2r \in PipeRec, r2s \in PipeRec, SlotsInv,
         \/ s2r' = s2r
         \/ s2r.rd = IDLE /\ s2r.frames # <<>> /\ s2r' = [s2r EXCEPT !.rd = READY]
         \/ s2r' = [s2r EXCEPT !.unresolved = FALSE],
         \/ r2s' = r2s
         \/ r2s.wr = IDLE /\ Len(r2s.frames) < MaxFrames /\ r2s' = [r2s EXCEPT !.wr = READY]
  PROVE  /\ s2r' \in PipeRec /\ r2s' \in PipeRec /\ SlotsInv'
         /\ s2r'.wr = s2r.wr /\ r2s'.rd = r2s.rd
<1>1. s2r' \in PipeRec /\ s2r'.frames = s2r.frames /\ s2r'.wr = s2r.wr
  BY DEF PipeRec, SlotState
<1>2. r2s' \in PipeRec /\ r2s'.frames = r2s.frames /\ r2s'.rd = r2s.rd
  BY DEF PipeRec, SlotState
<1>3. s2r'.rd # IDLE => s2r.frames # <<>>
  BY DEF PipeRec, SlotsInv
<1>4. r2s'.wr # IDLE => Len(r2s.frames) < MaxFrames
  BY DEF PipeRec, SlotsInv
<1> QED BY <1>1, <1>2, <1>3, <1>4 DEF SlotsInv

LEMMA RsMainKeeps ==
  ASSUME MInv, Rs!Main, UNCHANGED spiOwn, ~spiPend
  PROVE  /\ Types' /\ RsTypes' /\ SlotsInv' /\ SeenInv' /\ SpiTypes' /\ SpiInv'
         /\ ArmedInv' /\ CycleInv' /\ WordsInv'
<1>1. /\ ~panicked /\ panicked' = panicked /\ pc \in OutsideSpi \ {"spiWr"} /\ pc' \in OutsideSpi
      /\ pc \notin {"check", "rsRd", "rsWr"} => mode \in {"RELOAD", "READY"}
      /\ UNCHANGED <<recvAmt, tcf, txing, router, wantTag, inTag>>
      /\ didRestoreSpi' \in BOOLEAN /\ didRestoreRs485' \in BOOLEAN
      /\ pc' \notin ModifySteps => seen' = {}
  BY RsMainIs
<1>2. s2r' \in PipeRec /\ r2s' \in PipeRec /\ SlotsInv' /\ s2r'.wr = s2r.wr /\ r2s'.rd = r2s.rd
  BY RsMainIs, RestoreKeeps DEF MInv, Types
<1>3. Types' /\ SeenInv'
  BY <1>1, <1>2 DEF MInv, Types, OutsideSpi, SpiSteps, Spi!Steps, SeenInv
<1>4. SpiTypes' /\ SpiInv'
  BY <1>1, <1>2, SpiHalfKept DEF MInv, Types
<1>5. RsTypes'
  <2>1. RsTypes
    BY DEF MInv
  <2>2. /\ mode' \in Rs!Modes /\ fifo' \in Seq(Rs!Words)
        /\ cmie' \in BOOLEAN /\ cmf' \in BOOLEAN /\ tcie' \in BOOLEAN
    <3>1. mode' \in Rs!Modes
      BY <2>1 DEF RsTypes, Rs!Modes, Rs!Main, Rs!MainAt, Rs!Check, Rs!RestoreRd, Rs!NothingToSend, Rs!SetUpCh4Read, Rs!SetUpCh4Write,
     Rs!SetUpCh4, Rs!RestoreWr, Rs!NoRoomOrNotIdle, Rs!SetUpCh3Read, Rs!SetUpCh3Write, Rs!SetUpCh3,
     Rs!EnableLoad, Rs!EnableFlush, Rs!EnableStore, Rs!EnableReadCr1, Rs!EnableCmie, Rs!usartVars,
     Rs!dmaVars, Rs!routerVars
    <3>2. fifo' = fifo \/ fifo' = <<>>
      BY DEF Rs!Main, Rs!MainAt, Rs!Check, Rs!RestoreRd, Rs!NothingToSend, Rs!SetUpCh4Read, Rs!SetUpCh4Write,
     Rs!SetUpCh4, Rs!RestoreWr, Rs!NoRoomOrNotIdle, Rs!SetUpCh3Read, Rs!SetUpCh3Write, Rs!SetUpCh3,
     Rs!EnableLoad, Rs!EnableFlush, Rs!EnableStore, Rs!EnableReadCr1, Rs!EnableCmie, Rs!usartVars,
     Rs!dmaVars, Rs!routerVars
    <3>3. (cmie' = cmie \/ cmie' = TRUE) /\ (cmf' = cmf \/ cmf' = FALSE)
      BY DEF Rs!Main, Rs!MainAt, Rs!Check, Rs!RestoreRd, Rs!NothingToSend, Rs!SetUpCh4Read, Rs!SetUpCh4Write,
     Rs!SetUpCh4, Rs!RestoreWr, Rs!NoRoomOrNotIdle, Rs!SetUpCh3Read, Rs!SetUpCh3Write, Rs!SetUpCh3,
     Rs!EnableLoad, Rs!EnableFlush, Rs!EnableStore, Rs!EnableReadCr1, Rs!EnableCmie, Rs!usartVars,
     Rs!dmaVars, Rs!routerVars
    <3>4. tcie' = tcie \/ tcie' = ("tcie" \in seen)
      BY DEF Rs!Main, Rs!MainAt, Rs!Check, Rs!RestoreRd, Rs!NothingToSend, Rs!SetUpCh4Read, Rs!SetUpCh4Write,
     Rs!SetUpCh4, Rs!RestoreWr, Rs!NoRoomOrNotIdle, Rs!SetUpCh3Read, Rs!SetUpCh3Write, Rs!SetUpCh3,
     Rs!EnableLoad, Rs!EnableFlush, Rs!EnableStore, Rs!EnableReadCr1, Rs!EnableCmie, Rs!usartVars,
     Rs!dmaVars, Rs!routerVars
    <3>5. tcie' \in BOOLEAN
      <4>1. tcie \in BOOLEAN
        BY <2>1 DEF RsTypes
      <4>2. ("tcie" \in seen) \in BOOLEAN
        OBVIOUS
      <4> QED BY <3>4, <4>1, <4>2, Zenon
    <3>6. fifo' \in Seq(Rs!Words)
      <4>1. fifo \in Seq(Rs!Words)
        BY <2>1 DEF RsTypes
      <4> QED BY <3>2, <4>1, EmptySeq
    <3>7. cmie' \in BOOLEAN /\ cmf' \in BOOLEAN
      BY <2>1, <3>3 DEF RsTypes
    <3> QED BY <3>1, <3>5, <3>6, <3>7
  <2>3. handed' \in Rs!Frames \cup {Rs!NoFrame}
    <3>1. CASE Rs!RestoreRd
      <4>1. s2r.frames # <<>> /\ s2r.frames \in Seq(Frame) /\ handed' = Head(s2r.frames)
        BY <3>1 DEF Rs!RestoreRd, Rs!CanGrantRd, MInv, Types, PipeRec
      <4>2. handed' \in Frame
        BY <4>1
      <4> QED BY <4>2 DEF Frame, Rs!Frames, Tags, Rs!Tags
    <3>2. CASE ~Rs!RestoreRd
      BY <2>1, <3>2 DEF RsTypes, Rs!Main, Rs!MainAt, Rs!Check, Rs!RestoreRd, Rs!NothingToSend, Rs!SetUpCh4Read, Rs!SetUpCh4Write,
     Rs!SetUpCh4, Rs!RestoreWr, Rs!NoRoomOrNotIdle, Rs!SetUpCh3Read, Rs!SetUpCh3Write, Rs!SetUpCh3,
     Rs!EnableLoad, Rs!EnableFlush, Rs!EnableStore, Rs!EnableReadCr1, Rs!EnableCmie, Rs!usartVars,
     Rs!dmaVars, Rs!routerVars
    <3> QED BY <3>1, <3>2
  <2>4. /\ \/ ch3' = ch3 \/ ch3' = [ch3 EXCEPT !.on = "en" \in seen]
           \/ ch3' = [ch3 EXCEPT !.fresh = r2s.wr # IDLE]
        /\ \/ ch4' = ch4 \/ ch4' = [ch4 EXCEPT !.on = "en" \in seen]
           \/ ch4' = [ch4 EXCEPT !.frame = handed]
    BY DEF Rs!Main, Rs!MainAt, Rs!Check, Rs!RestoreRd, Rs!NothingToSend, Rs!SetUpCh4Read, Rs!SetUpCh4Write,
     Rs!SetUpCh4, Rs!RestoreWr, Rs!NoRoomOrNotIdle, Rs!SetUpCh3Read, Rs!SetUpCh3Write, Rs!SetUpCh3,
     Rs!EnableLoad, Rs!EnableFlush, Rs!EnableStore, Rs!EnableReadCr1, Rs!EnableCmie, Rs!usartVars,
     Rs!dmaVars, Rs!routerVars
  <2> DEFINE e == "en" \in seen
             i == r2s.wr # IDLE
  <2>5. e \in BOOLEAN /\ i \in BOOLEAN
    OBVIOUS
  <2>6. /\ ch3' = ch3 \/ ch3' = [ch3 EXCEPT !.on = e] \/ ch3' = [ch3 EXCEPT !.fresh = i]
        /\ ch4' = ch4 \/ ch4' = [ch4 EXCEPT !.on = e] \/ ch4' = [ch4 EXCEPT !.frame = handed]
    BY <2>4
  <2> HIDE DEF e, i
  <2>7. ch3' \in [on : BOOLEAN, left : 0 .. MaxLen, got : Tags \cup {"none", "mixed"},
              fresh : BOOLEAN, done : BOOLEAN]
    BY <2>1, <2>5, <2>6 DEF RsTypes
  <2>8. ch4' \in [on : BOOLEAN, frame : Rs!Frames \cup {Rs!NoFrame}, done : BOOLEAN]
    BY <2>1, <2>5, <2>6 DEF RsTypes
  <2> QED BY <1>1, <2>1, <2>2, <2>3, <2>7, <2>8 DEF RsTypes, Rs!Frames, Rs!NoFrame
<1>6. ArmedInv /\ CycleInv /\ WordsInv
  BY DEF MInv, RsInv
\* Between two cycles the router waits or polls.
<1>7. mode \in {"RELOAD", "READY"} => recvAmt = 0 /\ router.phase \notin {"reading", "sending"}
  <2> SUFFICES ASSUME mode \in {"RELOAD", "READY"}
               PROVE  recvAmt = 0 /\ router.phase \notin {"reading", "sending"}
    OBVIOUS
  <2>1. recvAmt = 0
    BY <1>6 DEF CycleInv, MInv, RsTypes
  <2> QED BY <1>6, <2>1 DEF CycleInv
<1>8. ArmedInv'
  <2>3. CASE Rs!EnableFlush
    BY <1>6, <2>3 DEF Rs!EnableFlush, Rs!MainAt, ArmedInv, OnePoll
  <2>4. CASE Rs!EnableStore
    BY <1>1, <1>6, <2>4 DEF Rs!EnableStore, Rs!MainAt, ArmedInv, OnePoll
  <2>5. CASE Rs!EnableCmie
    BY <1>1, <1>6, <2>5 DEF Rs!EnableCmie, Rs!MainAt, ArmedInv, OnePoll
  <2>6. CASE Rs!EnableReadCr1
    BY <1>6, <2>6 DEF Rs!EnableReadCr1, Rs!MainAt, ArmedInv, OnePoll, Rs!usartVars, Rs!routerVars
  <2>7. CASE ~Rs!EnableFlush /\ ~Rs!EnableStore /\ ~Rs!EnableCmie /\ ~Rs!EnableReadCr1
    <3>1. /\ UNCHANGED <<mode, cmie, cmf, fifo, router>>
          /\ pc' \notin {"enStore", "enCmie", "enCr1"} /\ pc \notin {"enCmie", "enCr1"}
      BY <2>7, ModemAssumption DEF Rs!Main, Rs!MainAt, Rs!Check, Rs!RestoreRd, Rs!NothingToSend, Rs!SetUpCh4Read, Rs!SetUpCh4Write,
     Rs!SetUpCh4, Rs!RestoreWr, Rs!NoRoomOrNotIdle, Rs!SetUpCh3Read, Rs!SetUpCh3Write, Rs!SetUpCh3,
     Rs!EnableLoad, Rs!EnableFlush, Rs!EnableStore, Rs!EnableReadCr1, Rs!EnableCmie, Rs!usartVars,
     Rs!dmaVars, Rs!routerVars, Rs!AfterRs485
    <3> QED BY <1>6, <3>1 DEF ArmedInv, OnePoll
  <2> QED BY <2>3, <2>4, <2>5, <2>6, <2>7
<1>9. CASE pc \in {"check", "rsRd", "rsWr"}
  <2>1. UNCHANGED <<mode, fifo, cmie, cmf, tcie, ch3, ch4>>
    BY <1>9 DEF Rs!Main, Rs!MainAt, Rs!Check, Rs!RestoreRd, Rs!NothingToSend, Rs!SetUpCh4Read, Rs!SetUpCh4Write,
     Rs!SetUpCh4, Rs!RestoreWr, Rs!NoRoomOrNotIdle, Rs!SetUpCh3Read, Rs!SetUpCh3Write, Rs!SetUpCh3,
     Rs!EnableLoad, Rs!EnableFlush, Rs!EnableStore, Rs!EnableReadCr1, Rs!EnableCmie, Rs!usartVars,
     Rs!dmaVars, Rs!routerVars
  <2>2. CycleInv'
    BY <1>1, <1>6, <2>1 DEF CycleInv
  <2>3. WordsInv'
    BY <1>1, <1>6, <2>1 DEF WordsInv, ToSend, SentTag, Rs!NextTag
  <2> QED BY <1>2, <1>3, <1>4, <1>5, <1>8, <2>2, <2>3
<1>10. CASE pc \notin {"check", "rsRd", "rsWr"}
  <2>1. mode' \in {"RELOAD", "READY"}
    BY <1>1, <1>10 DEF Rs!Main, Rs!MainAt, Rs!Check, Rs!RestoreRd, Rs!NothingToSend, Rs!SetUpCh4Read, Rs!SetUpCh4Write,
     Rs!SetUpCh4, Rs!RestoreWr, Rs!NoRoomOrNotIdle, Rs!SetUpCh3Read, Rs!SetUpCh3Write, Rs!SetUpCh3,
     Rs!EnableLoad, Rs!EnableFlush, Rs!EnableStore, Rs!EnableReadCr1, Rs!EnableCmie, Rs!usartVars,
     Rs!dmaVars, Rs!routerVars
  <2>2. CycleInv'
    BY <1>1, <1>7, <1>10, <2>1 DEF CycleInv
  <2>3. WordsInv'
    BY <1>1, <1>7, <1>10 DEF WordsInv
  <2> QED BY <1>2, <1>3, <1>4, <1>5, <1>8, <2>2, <2>3
<1> QED BY <1>9, <1>10

-----------------------------------------------------------------------------
(* The steps of rs485_isr.                                                  *)

Ch3Type == [on : BOOLEAN, left : 0 .. MaxLen, got : Tags \cup {"none", "mixed"},
            fresh : BOOLEAN, done : BOOLEAN]

\* Channel 3 begins with all that has arrived, and stops when the rest has.
LEMMA StartRecvIs ==
  ASSUME MInv, Rs!StartRecv, mode \in {"SEND_DMA", "SEND_NO_DMA"},
         router.phase \notin {"reading", "polling"}
  PROVE  \/ recvAmt = 0 /\ mode' = "RELOAD" /\ UNCHANGED <<ch3, fifo>>
         \/ /\ recvAmt > 0 /\ mode' = "RECV" /\ fifo' = <<>>
            /\ ch3' \in Ch3Type /\ ch3'.on /\ ch3'.left = ToSend
            /\ ch3'.done <=> ToSend = 0
            /\ ch3'.got = IF ToSend = recvAmt THEN "none" ELSE SentTag
<1>1. CASE recvAmt = 0
  BY <1>1 DEF Rs!StartRecv
<1>2. CASE recvAmt # 0
  <2>1. recvAmt \in 1 .. MaxLen /\ MaxLen \in Nat
    BY <1>2, ModemAssumption DEF MInv, RsTypes
  <2>2. ToSend \in 0 .. recvAmt
    BY <2>1 DEF ToSend, MInv, RsInv, CycleInv
  <2>3. fifo \in Seq(Rs!Words) /\ ch3 \in Ch3Type /\ inTag \in Tags
    BY DEF MInv, RsTypes, Ch3Type
  <2>4. Len(fifo) = recvAmt - ToSend /\ \A i \in 1 .. Len(fifo) : fifo[i] = SentTag
    BY <2>1 DEF MInv, RsInv, WordsInv
  <2>5. SentTag \in Tags
    BY <2>3, NextTagIs DEF SentTag
  <2> DEFINE n == IF Len(fifo) < recvAmt THEN Len(fifo) ELSE recvAmt
             g == Rs!AllOf(SubSeq(fifo, 1, n))
             d == n = recvAmt
  <2>6. /\ mode' = "RECV"
        /\ ch3' = [ch3 EXCEPT !.on = TRUE, !.left = recvAmt - n, !.got = g, !.done = d]
        /\ fifo' = SubSeq(fifo, n + 1, Len(fifo))
    BY <1>2 DEF Rs!StartRecv
  <2>7. n = Len(fifo) /\ recvAmt - n = ToSend
    BY <2>1, <2>2, <2>3, <2>4
  <2>8. d <=> ToSend = 0
    BY <2>1, <2>2, <2>7
  <2>9. fifo' = <<>>
    BY <2>3, <2>6, <2>7
  <2>10. g = IF ToSend = recvAmt THEN "none" ELSE SentTag
    <3>1. SubSeq(fifo, 1, n) = fifo
      BY <2>3, <2>7
    <3>2. CASE ToSend = recvAmt
      <4>1. fifo = <<>>
        BY <2>1, <2>3, <2>4, <3>2
      <4> QED BY <3>1, <3>2, <4>1 DEF Rs!AllOf
    <3>3. CASE ToSend # recvAmt
      <4>1. Len(fifo) \in Nat \ {0}
        BY <2>1, <2>2, <2>3, <2>4, <3>3
      <4>2. fifo # <<>> /\ fifo[1] = SentTag
        BY <2>3, <2>4, <4>1
      <4>3. DOMAIN fifo = 1 .. Len(fifo)
        BY <2>3
      <4>4. fifo[1] \in Rs!Tags /\ \A i \in DOMAIN fifo : fifo[i] = fifo[1]
        BY <2>4, <2>5, <4>2, <4>3 DEF Rs!Tags, Tags
      <4>5. Rs!AllOf(fifo) = fifo[1]
        BY <4>2, <4>4 DEF Rs!AllOf
      <4>6. g = SentTag
        BY <3>1, <4>2, <4>5
      <4> QED BY <3>3, <4>6
    <3> QED BY <3>2, <3>3
  <2>11. d \in BOOLEAN
    OBVIOUS
  <2> HIDE DEF n, g, d
  <2>12. ToSend \in 0 .. MaxLen /\ g \in Tags \cup {"none", "mixed"} /\ recvAmt > 0
    BY <2>1, <2>2, <2>5, <2>10
  <2>13. ch3' = [ch3 EXCEPT !.on = TRUE, !.left = ToSend, !.got = g, !.done = d]
    BY <2>6, <2>7
  <2>14. /\ ch3' \in Ch3Type
         /\ ch3'.on = TRUE /\ ch3'.left = ToSend /\ ch3'.done = d /\ ch3'.got = g
    BY <2>3, <2>11, <2>12, <2>13 DEF Ch3Type
  <2> QED BY <2>6, <2>8, <2>9, <2>10, <2>12, <2>14
<1> QED BY <1>1, <1>2

LEMMA AnswerKeeps ==
  ASSUME MInv, NEW rRxCap \in RxCaps, NEW rTxCap \in TxCaps, Rs!IdleStartAnswer(rRxCap, rTxCap)
  PROVE  /\ s2r' \in PipeRec /\ r2s' \in PipeRec
         /\ s2r'.frames = s2r.frames /\ s2r'.wr = s2r.wr /\ (s2r'.rd # IDLE => s2r.rd # IDLE)
         /\ r2s'.frames = r2s.frames /\ r2s'.rd = r2s.rd /\ (r2s'.wr # IDLE => r2s.wr # IDLE)
         /\ RsTypes' /\ CycleInv' /\ WordsInv' /\ (~RsAlone!Overlap' => ArmedInv')
<1> DEFINE sends   == rRxCap >= Rs!TxCap
           accepts == rTxCap <= Rs!RxCap
           txAmt   == IF sends THEN Rs!TxCap ELSE 0
           rxAmt   == IF accepts THEN rTxCap ELSE 0
<1>1. /\ mode = "READY" /\ cmf /\ cmie /\ UNCHANGED RsPc /\ UNCHANGED pc
      /\ router.phase = "polling" /\ fifo = <<"poll">>
  <2>1. Rs!Irq /\ mode = "READY" /\ UNCHANGED <<pc, didRestoreRs485>>
    BY DEF Rs!IdleStartAnswer, Rs!loopVars
  <2>2. UNCHANGED RsPc
    BY <2>1 DEF RsPc, AfterUnmask
  <2> QED BY <2>1, <2>2, OnlyPolls
<1>2. s2r \in PipeRec /\ r2s \in PipeRec /\ RsTypes /\ ArmedInv
  BY DEF MInv, Types, RsInv
<1>3. s2r.rd # BUSY /\ r2s.wr # BUSY /\ ~ch3.on /\ ~ch4.on /\ ~txing /\ ~tcie
  BY <1>1, PortFacts DEF MInv, RsInv, Between
<1>4. /\ s2r' \in PipeRec /\ s2r'.frames = s2r.frames /\ s2r'.wr = s2r.wr
      /\ s2r'.rd # IDLE => s2r.rd # IDLE
  <2>1. s2r' = Rs!PrepRd(s2r) \/ s2r' = Rs!AbortRd(Rs!PrepRd(s2r))
    BY DEF Rs!IdleStartAnswer
  <2> QED BY <1>2, <2>1 DEF Rs!PrepRd, Rs!AbortRd, PipeRec, SlotState
<1>5. /\ r2s' \in PipeRec /\ r2s'.frames = r2s.frames /\ r2s'.rd = r2s.rd
      /\ r2s'.wr # IDLE => r2s.wr # IDLE
  <2> DEFINE q == Rs!PrepWr(r2s)
  <2>1. r2s' = q \/ r2s' \in Rs!AbortWr(q)
    BY DEF Rs!IdleStartAnswer
  <2>2. q \in PipeRec /\ q.frames = r2s.frames /\ q.rd = r2s.rd /\ (q.wr # IDLE => r2s.wr # IDLE)
    BY <1>2 DEF Rs!PrepWr, PipeRec, SlotState
  <2> HIDE DEF q
  <2>3. r2s' = q \/ \E u \in BOOLEAN : r2s' = [q EXCEPT !.wr = IDLE, !.unresolved = u]
    BY <2>1, <2>2 DEF Rs!AbortWr, PipeRec
  <2>4. CASE r2s' = q
    BY <2>2, <2>4
  <2>5. ASSUME NEW u \in BOOLEAN, r2s' = [q EXCEPT !.wr = IDLE, !.unresolved = u]
        PROVE  /\ r2s' \in PipeRec /\ r2s'.frames = r2s.frames /\ r2s'.rd = r2s.rd
               /\ r2s'.wr = IDLE
    BY <2>2, <2>5 DEF PipeRec, SlotState
  <2> QED BY <2>3, <2>4, <2>5
<1>6. rxAmt \in 0 .. MaxLen
  <2>1. rTxCap \in Nat /\ MaxLen \in Nat
    BY ModemAssumption
  <2> QED BY <2>1 DEF Rs!RxCap
<1>7. /\ recvAmt' = rxAmt /\ cmie' = FALSE /\ cmf' = cmf /\ tcf' = FALSE /\ fifo' = <<>>
      /\ router' = [phase |-> "reading", left |-> rxAmt]
      /\ UNCHANGED <<handed, wantTag, inTag>>
      /\ ch3' = [ch3 EXCEPT !.fresh = @ /\ accepts]
  BY <1>1 DEF Rs!IdleStartAnswer
<1>8. \/ /\ mode' = "SEND_DMA" /\ ch4' = [ch4 EXCEPT !.on = TRUE, !.done = FALSE]
         /\ UNCHANGED <<tcie, txing>>
      \/ mode' = "SEND_NO_DMA" /\ tcie' = TRUE /\ txing' = TRUE /\ ch4' = ch4
  BY DEF Rs!IdleStartAnswer
<1> DEFINE a == ch3.fresh /\ accepts
<1>9. a \in BOOLEAN /\ ch3' = [ch3 EXCEPT !.fresh = a]
  BY <1>7
<1> HIDE DEF a, rxAmt
<1>10. /\ ch3' \in Ch3Type
       /\ ch4' \in [on : BOOLEAN, frame : Rs!Frames \cup {Rs!NoFrame}, done : BOOLEAN]
  BY <1>2, <1>8, <1>9 DEF RsTypes, Ch3Type
<1>11. RsTypes'
  <2>1. fifo' \in Seq(Rs!Words)
    BY <1>7, EmptySeq
  <2>2. tcie' \in BOOLEAN /\ txing' \in BOOLEAN /\ mode' \in Rs!Modes
    BY <1>2, <1>8 DEF RsTypes, Rs!Modes
  <2>3. router' \in [phase : {"idle", "polling", "reading", "sending"}, left : 0 .. MaxLen]
    BY <1>6, <1>7
  <2> QED BY <1>2, <1>6, <1>7, <1>10, <2>1, <2>2, <2>3 DEF RsTypes, Ch3Type
<1>12. ASSUME ~RsAlone!Overlap' PROVE ArmedInv'
  <2>1. pc \notin EnSteps
    <3>1. mode' \notin {"RELOAD", "READY"}
      BY <1>8
    <3>2. ~RsAlone!Rearming'
      BY <1>12, <3>1 DEF RsAlone!Overlap, RsAlone!ShouldReload
    <3> QED BY <1>1, <3>2 DEF RsAlone!Rearming, RsPc, EnSteps, SpiSteps, Spi!Steps
  <2>2. pc' \notin EnSteps /\ mode' \notin {"RELOAD", "READY"} /\ ~cmie'
    BY <1>1, <1>7, <1>8, <2>1
  <2> QED BY <2>2 DEF ArmedInv, EnSteps
<1>13. CycleInv'
  <2>1. router'.phase = "reading" /\ router'.left = recvAmt'
    BY <1>7
  <2>2. mode' = "SEND_DMA" => ~ch4'.done
    BY <1>2, <1>8 DEF RsTypes
  <2> QED BY <1>7, <1>8, <2>1, <2>2 DEF CycleInv
<1>14. WordsInv'
  BY <1>7 DEF WordsInv
<1> QED BY <1>4, <1>5, <1>11, <1>12, <1>13, <1>14

\* The state the port is left in by the end of its transmission.
LEMMA RecvBegins ==
  ASSUME MInv, Rs!StartRecv, mode \in {"SEND_DMA", "SEND_NO_DMA"},
         router.phase \notin {"reading", "polling"},
         UNCHANGED <<recvAmt, cmie, cmf, tcf, txing, handed, router, wantTag, inTag, pc, RsPc>>,
         tcie' \in BOOLEAN,
         ch4' \in [on : BOOLEAN, frame : Rs!Frames \cup {Rs!NoFrame}, done : BOOLEAN]
  PROVE  RsTypes' /\ ArmedInv' /\ CycleInv' /\ WordsInv'
<1>1. /\ RsTypes /\ ArmedInv /\ CycleInv /\ WordsInv /\ Port485!Inv
      /\ ~cmie /\ pc \notin EnSteps
  BY PortFacts DEF MInv, RsInv, ArmedInv
<1>2. /\ ToSend' = ToSend /\ SentTag' = SentTag
  BY DEF ToSend, SentTag, Rs!NextTag
<1>3. CASE recvAmt = 0 /\ mode' = "RELOAD" /\ UNCHANGED <<ch3, fifo>>
  <2>1. RsTypes'
    BY <1>1, <1>3 DEF RsTypes, Rs!Modes
  <2>2. ArmedInv'
    BY <1>1, <1>3 DEF ArmedInv, EnSteps
  <2>3. CycleInv'
    BY <1>1, <1>3 DEF CycleInv
  <2>4. WordsInv'
    BY <1>3 DEF WordsInv
  <2> QED BY <2>1, <2>2, <2>3, <2>4
<1>4. CASE /\ recvAmt > 0 /\ mode' = "RECV" /\ fifo' = <<>>
           /\ ch3' \in Ch3Type /\ ch3'.on /\ ch3'.left = ToSend
           /\ ch3'.done <=> ToSend = 0
           /\ ch3'.got = IF ToSend = recvAmt THEN "none" ELSE SentTag
  <2>1. fifo' \in Seq(Rs!Words)
    BY <1>4, EmptySeq
  <2>2. RsTypes'
    BY <1>1, <1>4, <2>1 DEF RsTypes, Rs!Modes, Ch3Type
  <2>3. ArmedInv'
    BY <1>1, <1>4 DEF ArmedInv, EnSteps
  <2>4. router.phase \in {"idle", "sending"}
    BY <1>1 DEF RsTypes
  <2>5. CycleInv'
    BY <1>1, <1>4, <2>4 DEF CycleInv
  <2>6. WordsInv'
    BY <1>2, <1>4 DEF WordsInv
  <2> QED BY <2>2, <2>3, <2>5, <2>6
<1> QED BY <1>3, <1>4, StartRecvIs

\* What the end of a transmission does to the pipe it came from.
LEMMA ReadEnds ==
  ASSUME NEW p \in PipeRec, p.rd = BUSY, p.frames # <<>>, p.wr # IDLE => Len(p.frames) < MaxFrames
  PROVE  /\ Rs!CompleteRd(p) = [p EXCEPT !.rd = IDLE, !.frames = Tail(@)]
         /\ Spi!CompleteRd(p) = Rs!CompleteRd(p)
         /\ Rs!CompleteRd(p) \in PipeRec
         /\ Rs!CompleteRd(p).frames = Tail(p.frames) /\ Rs!CompleteRd(p).rd = IDLE
         /\ Rs!CompleteRd(p).wr = p.wr
         /\ p.wr # IDLE => Len(Tail(p.frames)) < MaxFrames
<1>1. p.frames \in Seq(Frame) /\ p.frames # <<>>
  BY DEF PipeRec
<1>2. Tail(p.frames) \in Seq(Frame) /\ Len(Tail(p.frames)) = Len(p.frames) - 1
  BY <1>1
<1>3. /\ Rs!CompleteRd(p) = [p EXCEPT !.rd = IDLE, !.frames = Tail(@)]
      /\ Spi!CompleteRd(p) = [p EXCEPT !.rd = IDLE, !.frames = Tail(@)]
  BY DEF Rs!CompleteRd, Spi!CompleteRd
<1> DEFINE q == [p EXCEPT !.rd = IDLE, !.frames = Tail(@)]
<1>4. /\ q \in PipeRec /\ q.frames = Tail(p.frames) /\ q.rd = IDLE /\ q.wr = p.wr
  BY <1>2 DEF PipeRec, SlotState
<1>5. p.wr # IDLE => Len(Tail(p.frames)) < MaxFrames
  BY <1>1, <1>2, ModemAssumption
<1> QED BY <1>3, <1>4, <1>5

\* What the end of a reception does to the pipe it goes to.
LEMMA WriteEnds ==
  ASSUME NEW p \in PipeRec, NEW f \in Frame, p.wr = BUSY
  PROVE  /\ Rs!CompleteWr(p, f) = [p EXCEPT !.wr = IDLE, !.frames = Append(@, f), !.unresolved = FALSE]
         /\ Spi!CompleteWr(p, f) = Rs!CompleteWr(p, f)
         /\ Rs!CompleteWr(p, f) \in PipeRec
         /\ Rs!CompleteWr(p, f).frames = Append(p.frames, f) /\ Rs!CompleteWr(p, f).wr = IDLE
         /\ Rs!CompleteWr(p, f).rd = p.rd
         /\ Append(p.frames, f) # <<>>
<1>1. p.frames \in Seq(Frame)
  BY DEF PipeRec
<1>2. Append(p.frames, f) \in Seq(Frame) /\ Append(p.frames, f) # <<>>
  BY <1>1
<1>3. /\ Rs!CompleteWr(p, f) = [p EXCEPT !.wr = IDLE, !.frames = Append(@, f), !.unresolved = FALSE]
      /\ Spi!CompleteWr(p, f) = [p EXCEPT !.wr = IDLE, !.frames = Append(@, f), !.unresolved = FALSE]
  BY DEF Rs!CompleteWr, Spi!CompleteWr
<1> DEFINE q == [p EXCEPT !.wr = IDLE, !.frames = Append(@, f), !.unresolved = FALSE]
<1>4. q \in PipeRec /\ q.frames = Append(p.frames, f) /\ q.wr = IDLE /\ q.rd = p.rd
  BY <1>2 DEF PipeRec, SlotState
<1> QED BY <1>2, <1>3, <1>4

\* The frame the port commits is the one the router has sent.
LEMMA ReceivedIs ==
  ASSUME MInv, Rs!Irq, mode = "RECV"
  PROVE  /\ ch3.done /\ router.phase = "idle" /\ recvAmt \in 1 .. MaxLen
         /\ ch3.got = Rs!NextTag(inTag) /\ ch3.got \in Tags
         /\ r2s.wr = BUSY /\ Len(r2s.frames) < MaxFrames
<1>1. /\ RsTypes /\ ArmedInv /\ CycleInv /\ WordsInv /\ SlotsInv
      /\ r2s.wr = BUSY /\ recvAmt > 0 /\ ~ch4.done /\ ~tcie
  BY PortFacts DEF MInv, RsInv
<1>2. ~cmie
  BY <1>1 DEF ArmedInv
<1>3. ch3.done
  BY <1>1, <1>2 DEF Rs!Irq
<1>4. ToSend = 0 /\ router.phase \in {"idle", "sending"} /\ recvAmt \in 1 .. MaxLen
  BY <1>1, <1>3, ModemAssumption DEF WordsInv, CycleInv, RsTypes
<1>5. router.phase = "idle"
  BY <1>1, <1>4 DEF ToSend, CycleInv
<1>6. ch3.got = Rs!NextTag(inTag)
  BY <1>1, <1>4, <1>5 DEF WordsInv, SentTag
<1> QED BY <1>1, <1>3, <1>4, <1>5, <1>6, NextTagIs DEF SlotsInv, RsTypes

\* When the transmission has ended the router has what it was for.
LEMMA TransmittedIs ==
  ASSUME MInv, Rs!Irq, mode \in {"SEND_DMA", "SEND_NO_DMA"}
  PROVE  /\ router.phase \notin {"reading", "polling"}
         /\ mode = "SEND_DMA" => ch4.done /\ s2r.rd = BUSY /\ ch4.frame = Head(s2r.frames)
<1>1. RsTypes /\ ArmedInv /\ CycleInv /\ ~cmie
  BY DEF MInv, RsInv, ArmedInv
<1>2. CASE mode = "SEND_DMA"
  <2>1. ~ch3.done /\ ~tcie /\ s2r.rd = BUSY /\ ch4.frame = Head(s2r.frames)
    BY <1>2, PortFacts DEF MInv, RsInv
  <2>2. ch4.done
    BY <1>1, <2>1 DEF Rs!Irq
  <2> QED BY <1>1, <1>2, <2>1, <2>2 DEF CycleInv
<1>3. CASE mode = "SEND_NO_DMA"
  <2>1. ~ch3.done /\ ~ch4.done
    BY <1>3, PortFacts DEF MInv, RsInv
  <2>2. tcf
    BY <1>1, <2>1 DEF Rs!Irq
  <2> QED BY <1>1, <1>3, <2>2 DEF CycleInv
<1> QED BY <1>2, <1>3

LEMMA RsHandlerKeeps ==
  ASSUME MInv, ~RsAlone!Overlap', Rs!Handler, UNCHANGED spiOwn
  PROVE  /\ Types' /\ RsTypes' /\ SlotsInv' /\ SeenInv' /\ SpiTypes' /\ SpiInv'
         /\ ArmedInv' /\ CycleInv' /\ WordsInv'
<1>1. Types /\ RsTypes /\ SlotsInv /\ SeenInv /\ s2r \in PipeRec /\ r2s \in PipeRec /\ Rs!Irq /\ ~panicked
  BY DEF MInv, Types, Rs!Handler, Rs!IdleStartTimeout, Rs!IdleStartAnswer, Rs!DmaTxComplete,
         Rs!NoDmaTxComplete, Rs!RecvComplete, Rs!PanicInReload
<1>2. ~Rs!IdleStartTimeout /\ ~Rs!PanicInReload
  BY OnlyPolls DEF Rs!IdleStartTimeout, Rs!PanicInReload
<1>3. UNCHANGED <<pc, seen, didRestoreSpi, didRestoreRs485, panicked>>
  BY <1>2 DEF Rs!Handler, Rs!IdleStartAnswer, Rs!DmaTxComplete, Rs!NoDmaTxComplete, Rs!RecvComplete,
              Rs!loopVars
<1>4. UNCHANGED RsPc
  BY <1>3 DEF RsPc, AfterUnmask
\* The handler leaves main and the other side of each pipe alone.
<1>5. ASSUME s2r' \in PipeRec, r2s' \in PipeRec, SlotsInv', s2r'.wr = s2r.wr, r2s'.rd = r2s.rd
      PROVE  Types' /\ SlotsInv' /\ SeenInv' /\ SpiTypes' /\ SpiInv'
  <2>1. Types' /\ SeenInv'
    BY <1>1, <1>3, <1>5 DEF Types, SeenInv
  <2>2. SpiTypes' /\ SpiInv'
    BY <1>3, <1>5, SpiHalfKept
  <2> QED BY <1>5, <2>1, <2>2
<1>6. ASSUME NEW rRxCap \in RxCaps, NEW rTxCap \in TxCaps, Rs!IdleStartAnswer(rRxCap, rTxCap)
      PROVE  /\ Types' /\ RsTypes' /\ SlotsInv' /\ SeenInv' /\ SpiTypes' /\ SpiInv'
             /\ ArmedInv' /\ CycleInv' /\ WordsInv'
  <2>1. /\ s2r' \in PipeRec /\ r2s' \in PipeRec
        /\ s2r'.frames = s2r.frames /\ s2r'.wr = s2r.wr /\ (s2r'.rd # IDLE => s2r.rd # IDLE)
        /\ r2s'.frames = r2s.frames /\ r2s'.rd = r2s.rd /\ (r2s'.wr # IDLE => r2s.wr # IDLE)
        /\ RsTypes' /\ ArmedInv' /\ CycleInv' /\ WordsInv'
    BY <1>6, AnswerKeeps
  <2>2. SlotsInv'
    BY <1>1, <2>1 DEF SlotsInv
  <2> QED BY <1>5, <2>1, <2>2
<1>7. CASE Rs!DmaTxComplete
  <2>1. /\ mode = "SEND_DMA" /\ s2r' = Rs!CompleteRd(s2r) /\ r2s' = r2s /\ Rs!StartRecv
        /\ ch4' = [ch4 EXCEPT !.on = FALSE, !.done = FALSE]
        /\ UNCHANGED <<recvAmt, cmie, cmf, tcie, tcf, txing, handed, router, wantTag, inTag>>
    BY <1>7 DEF Rs!DmaTxComplete, Rs!routerVars
  <2>2. /\ s2r.rd = BUSY /\ router.phase \notin {"reading", "polling"}
        /\ s2r.frames # <<>> /\ (s2r.wr # IDLE => Len(s2r.frames) < MaxFrames)
    BY <1>1, <2>1, TransmittedIs DEF SlotsInv
  <2>3. /\ s2r' \in PipeRec /\ s2r'.frames = Tail(s2r.frames) /\ s2r'.rd = IDLE /\ s2r'.wr = s2r.wr
        /\ s2r.wr # IDLE => Len(Tail(s2r.frames)) < MaxFrames
    BY <1>1, <2>1, <2>2, ReadEnds
  <2>4. SlotsInv'
    BY <1>1, <2>1, <2>3 DEF SlotsInv
  <2>5. /\ tcie' \in BOOLEAN
        /\ ch4' \in [on : BOOLEAN, frame : Rs!Frames \cup {Rs!NoFrame}, done : BOOLEAN]
    BY <1>1, <2>1 DEF RsTypes
  <2>6. RsTypes' /\ ArmedInv' /\ CycleInv' /\ WordsInv'
    BY <1>3, <1>4, <2>1, <2>2, <2>5, RecvBegins
  <2> QED BY <1>1, <1>5, <2>1, <2>3, <2>4, <2>6
<1>8. CASE Rs!NoDmaTxComplete
  <2>1. /\ mode = "SEND_NO_DMA" /\ s2r' = s2r /\ r2s' = r2s /\ Rs!StartRecv
        /\ tcie' = FALSE /\ ch4' = ch4
        /\ UNCHANGED <<recvAmt, cmie, cmf, tcf, txing, handed, router, wantTag, inTag>>
    BY <1>8 DEF Rs!NoDmaTxComplete, Rs!routerVars
  <2>2. router.phase \notin {"reading", "polling"}
    BY <1>1, <2>1, TransmittedIs
  <2>3. SlotsInv'
    BY <1>1, <2>1 DEF SlotsInv
  <2>4. RsTypes' /\ ArmedInv' /\ CycleInv' /\ WordsInv'
    BY <1>1, <1>3, <1>4, <2>1, <2>2, RecvBegins DEF RsTypes
  <2> QED BY <1>1, <1>5, <2>1, <2>3, <2>4
<1>9. CASE Rs!RecvComplete
  <2> DEFINE f == [len |-> recvAmt, tag |-> IF ch3.got \in Rs!Tags THEN ch3.got ELSE "mixed"]
  <2>1. /\ mode = "RECV" /\ r2s' = Rs!CompleteWr(r2s, f) /\ s2r' = s2r
        /\ ch3' = [ch3 EXCEPT !.on = FALSE, !.done = FALSE, !.fresh = FALSE]
        /\ mode' = "RELOAD" /\ recvAmt' = 0
        /\ UNCHANGED <<cmie, cmf, tcie, tcf, txing, fifo, ch4, handed, router, wantTag, inTag>>
    BY <1>9 DEF Rs!RecvComplete, Rs!routerVars
  <2>2. /\ router.phase = "idle" /\ recvAmt \in 1 .. MaxLen /\ ch3.got \in Tags /\ r2s.wr = BUSY
        /\ Len(r2s.frames) < MaxFrames
    BY <1>1, <2>1, ReceivedIs
  <2>3. f \in Frame
    BY <2>2 DEF Frame, Rs!Tags, Tags
  <2> HIDE DEF f
  <2>4. /\ r2s' \in PipeRec /\ r2s'.frames = Append(r2s.frames, f) /\ r2s'.wr = IDLE /\ r2s'.rd = r2s.rd
        /\ Append(r2s.frames, f) # <<>>
    BY <1>1, <2>1, <2>2, <2>3, WriteEnds
  <2>5. SlotsInv'
    BY <1>1, <2>1, <2>4 DEF SlotsInv
  <2>6. ch3' \in Ch3Type
    BY <1>1, <2>1 DEF RsTypes, Ch3Type
  <2>7. RsTypes'
    BY <1>1, <2>1, <2>6, ModemAssumption DEF RsTypes, Rs!Modes, Ch3Type
  <2>8. ArmedInv /\ ~cmie /\ pc \notin EnSteps
    BY <2>1, PortFacts DEF MInv, RsInv, ArmedInv
  <2>9. ArmedInv'
    BY <1>3, <1>4, <2>1, <2>8 DEF ArmedInv, EnSteps
  <2>10. CycleInv' /\ WordsInv'
    BY <2>1, <2>2 DEF CycleInv, WordsInv
  <2> QED BY <1>1, <1>5, <2>1, <2>4, <2>5, <2>7, <2>9, <2>10
<1> QED BY <1>2, <1>6, <1>7, <1>8, <1>9 DEF Rs!Handler

-----------------------------------------------------------------------------
(* The steps of the hardware of the bus and of the router.                  *)

LEMMA TxDoneKeeps ==
  ASSUME MInv, Rs!TxDone, UNCHANGED <<pc, RsPc>>
  PROVE  RsTypes' /\ ArmedInv' /\ CycleInv' /\ WordsInv'
<1>1. RsTypes /\ ArmedInv /\ CycleInv /\ WordsInv
  BY DEF MInv, RsInv
<1>2. /\ txing /\ txing' = FALSE /\ tcf' = TRUE
      /\ router' = IF router.phase = "reading" THEN Rs!AfterReading ELSE router
      /\ UNCHANGED <<mode, recvAmt, cmie, cmf, tcie, fifo, ch3, ch4, handed, wantTag, inTag>>
  BY DEF Rs!TxDone, Rs!dmaVars
<1>3. mode = "SEND_NO_DMA"
  BY <1>1, <1>2, PortFacts DEF MInv, RsInv, RsTypes, Rs!Modes, Between
<1>4. router.phase = "reading" /\ router.left = recvAmt /\ fifo = <<>> /\ recvAmt \in 0 .. MaxLen
  BY <1>1, <1>2, <1>3 DEF CycleInv, RsTypes
<1>5. /\ router' \in [phase : {"idle", "polling", "reading", "sending"}, left : 0 .. MaxLen]
      /\ router'.left = recvAmt
      /\ router'.phase = IF recvAmt > 0 THEN "sending" ELSE "idle"
  BY <1>1, <1>2, <1>4 DEF RsTypes, Rs!AfterReading
<1>6. RsTypes'
  BY <1>1, <1>2, <1>5 DEF RsTypes
<1>7. ArmedInv'
  <2>1. pc \notin EnSteps
    BY <1>2, <1>3, PortFacts DEF MInv, RsInv
  <2> QED BY <1>1, <1>2, <1>3, <2>1 DEF ArmedInv, EnSteps
<1>8. CycleInv'
  BY <1>1, <1>2, <1>3, <1>4, <1>5, ModemAssumption DEF CycleInv
<1>9. WordsInv'
  BY <1>2, <1>3, <1>4, <1>5, ModemAssumption DEF WordsInv, ToSend
<1> QED BY <1>6, <1>7, <1>8, <1>9

\* The end of a transmission with a frame: the router is listening and has it.
LEMMA Ch4DoneIs ==
  ASSUME MInv, Rs!Ch4Done
  PROVE  /\ mode = "SEND_DMA" /\ router.phase = "reading" /\ router.left = recvAmt /\ fifo = <<>>
         /\ ~ch4.done /\ ch4' = [ch4 EXCEPT !.done = TRUE]
         /\ s2r.frames # <<>> /\ ch4.frame = Head(s2r.frames)
         /\ router' = Rs!AfterReading /\ wantTag' = Rs!NextTag(ch4.frame.tag)
<1>1. RsTypes /\ CycleInv
  BY DEF MInv, RsInv
<1>2. /\ ch4.on /\ ~ch4.done /\ ch4' = [ch4 EXCEPT !.done = TRUE]
      /\ router.phase = "reading" => router' = Rs!AfterReading /\ wantTag' = Rs!NextTag(ch4.frame.tag)
  BY DEF Rs!Ch4Done
<1>3. mode = "SEND_DMA"
  BY <1>1, <1>2, PortFacts DEF MInv, RsInv, RsTypes, Rs!Modes, Between
<1> QED BY <1>1, <1>2, <1>3, PortFacts DEF MInv, RsInv, CycleInv

LEMMA Ch4DoneKeeps ==
  ASSUME MInv, Rs!Ch4Done, UNCHANGED <<pc, RsPc>>
  PROVE  RsTypes' /\ ArmedInv' /\ CycleInv' /\ WordsInv'
<1>1. RsTypes /\ ArmedInv /\ CycleInv /\ WordsInv
  BY DEF MInv, RsInv
<1>2. /\ mode = "SEND_DMA" /\ router.phase = "reading" /\ router.left = recvAmt /\ fifo = <<>>
      /\ ch4' = [ch4 EXCEPT !.done = TRUE] /\ router' = Rs!AfterReading
      /\ wantTag' = Rs!NextTag(ch4.frame.tag)
  BY Ch4DoneIs
<1>3. UNCHANGED <<mode, recvAmt, cmie, cmf, tcie, tcf, txing, fifo, ch3, handed, inTag>>
  BY DEF Rs!Ch4Done, Rs!usartVars
<1>4. recvAmt \in 0 .. MaxLen /\ ch4'.done
  BY <1>1, <1>2 DEF RsTypes
<1>5. /\ router' \in [phase : {"idle", "polling", "reading", "sending"}, left : 0 .. MaxLen]
      /\ router'.left = recvAmt
      /\ router'.phase = IF recvAmt > 0 THEN "sending" ELSE "idle"
  BY <1>1, <1>2 DEF RsTypes, Rs!AfterReading
<1>6. RsTypes'
  <2>1. wantTag' \in Tags
    BY <1>2 DEF Rs!NextTag, Tags
  <2>2. ch4' \in [on : BOOLEAN, frame : Rs!Frames \cup {Rs!NoFrame}, done : BOOLEAN]
    BY <1>1, <1>2 DEF RsTypes
  <2> QED BY <1>1, <1>3, <1>5, <2>1, <2>2 DEF RsTypes
<1>7. ArmedInv'
  <2>1. pc \notin EnSteps
    BY <1>2, <1>3, PortFacts DEF MInv, RsInv
  <2> QED BY <1>1, <1>2, <1>3, <2>1 DEF ArmedInv, EnSteps
<1>8. CycleInv'
  BY <1>1, <1>2, <1>3, <1>4, <1>5, ModemAssumption DEF CycleInv
<1>9. WordsInv'
  BY <1>2, <1>3, <1>4, <1>5, ModemAssumption DEF WordsInv, ToSend
<1> QED BY <1>6, <1>7, <1>8, <1>9

\* A word of the router: to the frame that is received, or to a FIFO with room for it.
LEMMA RouterSendsKeeps ==
  ASSUME MInv, Rs!RouterSends, UNCHANGED <<pc, RsPc>>
  PROVE  RsTypes' /\ ArmedInv' /\ CycleInv' /\ WordsInv'
<1>1. RsTypes /\ ArmedInv /\ CycleInv /\ WordsInv
  BY DEF MInv, RsInv
<1>2. /\ router.phase = "sending" /\ Rs!Arrives(inTag)
      /\ Rs!Irq => Len(fifo) < UsartDepth
      /\ UNCHANGED <<mode, recvAmt, cmie, cmf, tcie, tcf, txing, ch4, handed, wantTag>>
  BY DEF Rs!RouterSends
<1>3. /\ router.left \in 1 .. recvAmt /\ recvAmt \in 1 .. MaxLen /\ MaxLen \in Nat
      /\ mode \in {"SEND_DMA", "SEND_NO_DMA", "RECV"}
      /\ inTag \in Tags /\ fifo \in Seq(Rs!Words) /\ ch3 \in Ch3Type
  BY <1>1, <1>2, ModemAssumption DEF CycleInv, RsTypes, Ch3Type
<1>4. ToSend = router.left /\ SentTag = inTag
  BY <1>2 DEF ToSend, SentTag
<1>5. /\ ToSend' = router.left - 1 /\ SentTag' = inTag /\ inTag' \in Tags
      /\ router' \in [phase : {"idle", "polling", "reading", "sending"}, left : 0 .. MaxLen]
      /\ router'.phase \in {"idle", "sending"}
      /\ router'.phase = "sending" => router'.left \in 1 .. recvAmt
  <2>1. CASE router.left = 1
    <3>1. router' = [phase |-> "idle", left |-> 0] /\ inTag' = Rs!NextTag(inTag)
      BY <2>1 DEF Rs!RouterSends
    <3>2. SentTag' = Rs!NextTag(inTag')
      BY <3>1 DEF SentTag, Rs!NextTag
    <3>3. SentTag' = inTag
      BY <1>3, <3>1, <3>2, NextTagIs
    <3>4. ToSend' = 0
      BY <3>1 DEF ToSend
    <3> QED BY <1>3, <2>1, <3>1, <3>3, <3>4, NextTagIs
  <2>2. CASE router.left # 1
    <3>1. router' = [router EXCEPT !.left = @ - 1] /\ inTag' = inTag
      BY <2>2 DEF Rs!RouterSends
    <3>2. /\ router' \in [phase : {"idle", "polling", "reading", "sending"}, left : 0 .. MaxLen]
          /\ router'.phase = "sending" /\ router'.left = router.left - 1
      BY <1>1, <1>2, <1>3, <2>2, <3>1 DEF RsTypes
    <3> QED BY <1>3, <2>2, <3>1, <3>2 DEF ToSend, SentTag
  <2> QED BY <2>1, <2>2
<1>6. ArmedInv'
  <2>1. pc \notin EnSteps
    BY <1>3, PortFacts DEF MInv, RsInv
  <2> QED BY <1>1, <1>2, <1>3, <2>1 DEF ArmedInv, EnSteps
<1>7. CycleInv'
  BY <1>1, <1>2, <1>3, <1>5 DEF CycleInv
<1>8. CASE mode = "RECV"
  <2>1. fifo = <<>> /\ ch3.on /\ ch3.left = router.left /\ ch3.got \in {"none", inTag}
    BY <1>1, <1>2, <1>3, <1>4, <1>8 DEF WordsInv
  <2>2. Rs!Merge(ch3.got, inTag) = inTag
    BY <1>3, <2>1 DEF Rs!Merge, Tags
  <2> DEFINE d == ch3.left = 1
  <2>3. ch3' = [ch3 EXCEPT !.left = @ - 1, !.got = inTag, !.done = d] /\ fifo' = fifo
    BY <1>2, <1>3, <2>1, <2>2 DEF Rs!Arrives, Rs!DmaTakes
  <2>4. d \in BOOLEAN /\ (d <=> router.left - 1 = 0)
    BY <1>3, <2>1
  <2> HIDE DEF d
  <2>5. /\ ch3' \in Ch3Type /\ ch3'.on = ch3.on /\ ch3'.left = router.left - 1 /\ ch3'.got = inTag
        /\ ch3'.done = d
    <3>1. router.left - 1 \in 0 .. MaxLen
      BY <1>3
    <3>2. ch3' = [ch3 EXCEPT !.left = router.left - 1, !.got = inTag, !.done = d]
      BY <2>1, <2>3
    <3> QED BY <1>3, <2>4, <3>1, <3>2 DEF Ch3Type
  <2>6. RsTypes'
    BY <1>1, <1>2, <1>5, <2>3, <2>5 DEF RsTypes, Ch3Type
  <2>7. WordsInv'
    BY <1>2, <1>3, <1>5, <1>8, <2>1, <2>3, <2>4, <2>5 DEF WordsInv
  <2> QED BY <1>6, <1>7, <2>6, <2>7
<1>9. CASE mode # "RECV"
  <2>1. ~ch3.on /\ Rs!Irq
    BY <1>1, <1>2, <1>3, <1>9, PortFacts DEF MInv, RsInv, CycleInv, Rs!Irq
  <2>2. ch3' = ch3 /\ fifo' = Append(fifo, inTag)
    BY <1>2, <2>1 DEF Rs!Arrives
  <2>3. /\ fifo' \in Seq(Rs!Words) /\ Len(fifo') = Len(fifo) + 1
        /\ \A i \in 1 .. Len(fifo) : fifo'[i] = fifo[i]
        /\ fifo'[Len(fifo) + 1] = inTag
    BY <1>3, <2>2 DEF Rs!Words, Rs!Tags, Tags
  <2>4. Len(fifo) = recvAmt - router.left /\ \A i \in 1 .. Len(fifo) : fifo[i] = inTag
    BY <1>1, <1>2, <1>3, <1>4, <1>9 DEF WordsInv
  <2>5. RsTypes'
    BY <1>1, <1>2, <1>5, <2>2, <2>3 DEF RsTypes
  <2>6. Len(fifo') = recvAmt - (router.left - 1)
    BY <1>3, <2>3, <2>4
  <2>7. \A i \in 1 .. Len(fifo') : fifo'[i] = inTag
    <3>1. Len(fifo) \in Nat
      BY <1>3
    <3>2. \A i \in 1 .. Len(fifo') : i \in 1 .. Len(fifo) \/ i = Len(fifo) + 1
      BY <2>3, <3>1
    <3>3. ASSUME NEW i \in 1 .. Len(fifo') PROVE fifo'[i] = inTag
      <4>1. CASE i \in 1 .. Len(fifo)
        BY <2>3, <2>4, <4>1
      <4>2. CASE i = Len(fifo) + 1
        BY <2>3, <4>2
      <4> QED BY <3>2, <4>1, <4>2
    <3> QED BY <3>3
  <2>8. WordsInv'
    BY <1>2, <1>5, <1>9, <2>6, <2>7 DEF WordsInv
  <2> QED BY <1>6, <1>7, <2>5, <2>8
<1> QED BY <1>8, <1>9

\* A poll finds the port between two cycles, with nothing in the FIFO once it is flushed.
LEMMA PollKeeps ==
  ASSUME MInv, RouterPoll, UNCHANGED <<pc, RsPc>>
  PROVE  RsTypes' /\ ArmedInv' /\ CycleInv' /\ WordsInv'
<1>1. RsTypes /\ ArmedInv /\ CycleInv /\ WordsInv
  BY DEF MInv, RsInv
<1>2. /\ ~Rs!Irq /\ ~(cmie /\ mode = "RELOAD") /\ ~(cmf /\ pc \in {"enStore", "enCmie", "enCr1"})
      /\ router.phase \in {"idle", "polling"} /\ router' = [phase |-> "polling", left |-> 0]
      /\ cmf' = TRUE /\ Rs!Arrives("poll")
      /\ UNCHANGED <<mode, recvAmt, cmie, tcie, tcf, txing, ch4, handed, wantTag, inTag>>
  BY DEF RouterPoll, Rs!PollAllowed, Rs!RouterPoll
<1>3. mode \in {"RELOAD", "READY"}
  <2>1. mode # "SEND_DMA"
    BY <1>1, <1>2 DEF CycleInv, Rs!Irq
  <2>2. mode # "SEND_NO_DMA"
    BY <1>1, <1>2 DEF CycleInv, Rs!Irq
  <2>3. mode # "RECV"
    BY <1>1, <1>2, PortFacts DEF CycleInv, WordsInv, ToSend, Rs!Irq, MInv, RsInv
  <2> QED BY <1>1, <2>1, <2>2, <2>3 DEF RsTypes, Rs!Modes
<1>4. recvAmt = 0 /\ ~ch3.on
  <2>1. recvAmt = 0
    BY <1>1, <1>3 DEF CycleInv, RsTypes
  <2> QED BY <1>3, <2>1, PortFacts DEF MInv, RsInv, Between
<1>5. ch3' = ch3 /\ fifo' \in {fifo, Append(fifo, "poll")}
  BY <1>2, <1>4 DEF Rs!Arrives
<1>6. mode = "READY" \/ pc = "enStore" => fifo' = <<"poll">>
  <2> SUFFICES ASSUME mode = "READY" \/ pc = "enStore" PROVE fifo' = <<"poll">>
    OBVIOUS
  <2>1. ~cmf /\ fifo = <<>>
    BY <1>1, <1>2 DEF ArmedInv, OnePoll, Rs!Irq
  <2>2. Len(fifo) < UsartDepth
    BY <2>1, ModemAssumption
  <2> QED BY <1>2, <1>4, <2>1, <2>2 DEF Rs!Arrives
<1>7. fifo' \in Seq(Rs!Words)
  <2>1. fifo \in Seq(Rs!Words) /\ "poll" \in Rs!Words
    BY <1>1 DEF RsTypes, Rs!Words
  <2> QED BY <1>5, <2>1
<1>8. RsTypes'
  BY <1>1, <1>2, <1>5, <1>7, ModemAssumption DEF RsTypes
<1>9. ArmedInv'
  BY <1>1, <1>2, <1>3, <1>6 DEF ArmedInv, OnePoll
<1>10. CycleInv'
  BY <1>2, <1>3, <1>4 DEF CycleInv
<1>11. WordsInv'
  BY <1>2, <1>4 DEF WordsInv
<1> QED BY <1>8, <1>9, <1>10, <1>11

LEMMA RsBusKeeps ==
  ASSUME MInv, RouterPoll \/ Bus
  PROVE  /\ Types' /\ RsTypes' /\ SlotsInv' /\ SeenInv' /\ SpiTypes' /\ SpiInv'
         /\ ArmedInv' /\ CycleInv' /\ WordsInv'
<1>1. UNCHANGED <<s2r, r2s, pc, seen, didRestoreSpi, didRestoreRs485, panicked, spiOwn>>
  BY DEF RouterPoll, Bus, Rs!RouterPoll, Rs!TxDone, Rs!Ch4Done, Rs!RouterSends, Rs!loopVars
<1>2. UNCHANGED RsPc
  BY <1>1 DEF RsPc, AfterUnmask
<1>3. Types' /\ SlotsInv' /\ SeenInv'
  BY <1>1 DEF MInv, Types, SlotsInv, SeenInv
<1>4. SpiTypes' /\ SpiInv'
  BY <1>1, SpiHalfKept
<1>5. RsTypes' /\ ArmedInv' /\ CycleInv' /\ WordsInv'
  BY <1>1, <1>2, TxDoneKeeps, Ch4DoneKeeps, RouterSendsKeeps, PollKeeps DEF Bus
<1> QED BY <1>3, <1>4, <1>5

-----------------------------------------------------------------------------
(* The steps of exti_isr and spi_isr.                                       *)

Ch1Type    == [on : BOOLEAN, left : 0 .. MaxLen, got : Tags \cup {"none", "mixed"}, fresh : BOOLEAN]
Ch2Type    == [on : BOOLEAN, fresh : BOOLEAN]
MasterType == [phase : {"idle", "clocking"}, left : Nat, sent : Nat, tag : Tags, saw : SUBSET Spi!Pins]

\* exti_isr ends the transaction: what it took is given back.
LEMMA ExtiLongKeeps ==
  ASSUME MInv, Spi!ExtiLong
  PROVE  s2r' \in PipeRec /\ r2s' \in PipeRec /\ SlotsInv' /\ SpiTypes' /\ SpiInv'
<1>1. /\ SpiTypes /\ SlotsInv /\ s2r \in PipeRec /\ r2s \in PipeRec /\ PhaseInv /\ PinInv /\ GrantInv
      /\ ~panicked
  BY DEF Spi!ExtiLong, MInv, Types, SpiInv
<1> DEFINE f == Spi!ReceivedFrame
           b == s2r.wr # BUSY
           c == r2s.rd # BUSY
           g == ch1.fresh /\ b
           h == ch2.fresh /\ c
<1>2. /\ extiPend /\ spiMode = "LONG" /\ extiPend' = FALSE /\ rxFifo' = <<>> /\ spiMode' = "IDLE"
      /\ s2r' = Spi!CompleteWr(s2r, f) /\ r2s' = Spi!CompleteRd(r2s)
      /\ ch1' = [ch1 EXCEPT !.on = FALSE, !.fresh = g]
      /\ ch2' = [ch2 EXCEPT !.on = FALSE, !.fresh = h]
      /\ cr2' = cr2 \ {"rxdmaen", "txdmaen"}
      /\ UNCHANGED <<pc, didRestoreSpi, panicked, spiPend, pins, seen, master>>
  BY DEF Spi!ExtiLong, Spi!loopVars
<1>3. s2r.wr = BUSY => f \in Frame
  <2> SUFFICES ASSUME s2r.wr = BUSY PROVE f \in Frame
    OBVIOUS
  <2> HIDE DEF f
  <2>1. /\ f = [len |-> AtMost(master.sent, MaxLen), tag |-> master.tag]
        /\ AtMost(master.sent, MaxLen) \in Lens
    BY <1>1, <1>2, CommitFacts DEF f
  <2>2. master.tag \in Tags
    BY <1>1 DEF SpiTypes
  <2> QED BY <2>1, <2>2, LensAre DEF Frame
<1> HIDE DEF f
<1>4. /\ s2r' \in PipeRec /\ s2r'.wr # BUSY /\ s2r'.rd = s2r.rd
      /\ s2r.wr # BUSY => s2r' = s2r
      /\ s2r.wr = BUSY => s2r'.wr = IDLE /\ s2r'.frames # <<>>
  <2>1. CASE s2r.wr = BUSY
    <3>1. /\ Spi!CompleteWr(s2r, f) = Rs!CompleteWr(s2r, f) /\ Rs!CompleteWr(s2r, f) \in PipeRec
          /\ Rs!CompleteWr(s2r, f).frames = Append(s2r.frames, f) /\ Rs!CompleteWr(s2r, f).wr = IDLE
          /\ Rs!CompleteWr(s2r, f).rd = s2r.rd /\ Append(s2r.frames, f) # <<>>
      BY <1>1, <1>3, <2>1, WriteEnds
    <3> QED BY <1>2, <2>1, <3>1
  <2>2. CASE s2r.wr # BUSY
    BY <1>1, <1>2, <2>2 DEF Spi!CompleteWr
  <2> QED BY <2>1, <2>2
<1>5. /\ r2s' \in PipeRec /\ r2s'.rd # BUSY /\ r2s'.wr = r2s.wr
      /\ r2s.rd # BUSY => r2s' = r2s
      /\ r2s.rd = BUSY => r2s'.rd = IDLE /\ (r2s.wr # IDLE => Len(r2s'.frames) < MaxFrames)
  <2>1. CASE r2s.rd = BUSY
    <3>1. r2s.frames # <<>> /\ (r2s.wr # IDLE => Len(r2s.frames) < MaxFrames)
      BY <1>1, <2>1 DEF SlotsInv
    <3> QED BY <1>1, <1>2, <2>1, <3>1, ReadEnds
  <2>2. CASE r2s.rd # BUSY
    BY <1>1, <1>2, <2>2 DEF Spi!CompleteRd
  <2> QED BY <2>1, <2>2
<1>6. SlotsInv'
  BY <1>1, <1>4, <1>5 DEF SlotsInv
<1>7. b \in BOOLEAN /\ c \in BOOLEAN /\ g \in BOOLEAN /\ h \in BOOLEAN /\ (s2r.wr # BUSY => g = ch1.fresh)
  BY <1>1 DEF SpiTypes
<1> HIDE DEF b, c, g, h
<1>8. ch1' \in Ch1Type /\ ch2' \in Ch2Type
  BY <1>1, <1>2, <1>7 DEF SpiTypes, Ch1Type, Ch2Type
<1>9. SpiTypes'
  <2>1. rxFifo' \in Seq(Spi!Bytes)
    BY <1>2, EmptySeq
  <2> QED BY <1>1, <1>2, <1>8, <2>1 DEF SpiTypes, Ch1Type, Ch2Type
<1>10. PhaseInv'
  BY <1>1, <1>2 DEF PhaseInv, Active
<1>11. PinInv'
  BY <1>1, <1>2, <1>4, <1>5 DEF PinInv, PhaseInv
<1>12. GrantInv'
  <2>1. ch1'.on = FALSE /\ (s2r.wr # BUSY => ch1'.fresh = ch1.fresh /\ ch1'.left = ch1.left /\ ch1'.got = ch1.got)
    BY <1>1, <1>2, <1>7 DEF SpiTypes
  <2> QED BY <1>1, <1>2, <1>4, <1>5, <2>1 DEF GrantInv
<1>13. BytesInv'
  BY <1>1, <1>2, <1>4 DEF BytesInv, PhaseInv
<1> QED BY <1>4, <1>5, <1>6, <1>9, <1>10, <1>11, <1>12, <1>13 DEF SpiInv

\* Channel 1 begins with the bytes that have come after the first.
LEMMA StartedIs ==
  ASSUME MInv, ~panicked, spiPend, spiMode = "IDLE", s2r.wr = READY
  PROVE  /\ Spi!Started(Spi!RestOfFifo).ch \in Ch1Type
         /\ Spi!Started(Spi!RestOfFifo).ch.on /\ Spi!Started(Spi!RestOfFifo).ch.fresh
         /\ Spi!Started(Spi!RestOfFifo).ch.left = MaxLen - AtMost(master.sent, MaxLen)
         /\ Spi!Started(Spi!RestOfFifo).ch.got = IF master.sent = 0 THEN "none" ELSE master.tag
         /\ Spi!Started(Spi!RestOfFifo).rest \in Seq(Spi!Bytes)
<1>1. SpiTypes /\ PhaseInv /\ PinInv /\ GrantInv /\ BytesInv
  BY DEF MInv, SpiInv
<1>2. pc \notin WrSteps
  BY <1>1 DEF PhaseInv, SpiPc, WrSteps, RsSteps, EnSteps
<1>3. ch1 \in Ch1Type /\ ch1.fresh /\ ch1.left = MaxLen /\ ch1.got = "none"
  BY <1>1, <1>2 DEF GrantInv, SpiTypes, Ch1Type
<1> DEFINE rest == Spi!RestOfFifo
<1>4. /\ Len(rxFifo) = 1 + master.sent /\ \A i \in 2 .. Len(rxFifo) : rxFifo[i] = master.tag
      /\ rxFifo \in Seq(Spi!Bytes) /\ master.sent \in Nat /\ master.tag \in Tags
      /\ MaxLen \in Nat \ {0}
  BY <1>1, ModemAssumption DEF BytesInv, SpiTypes
<1>5. rxFifo # <<>>
  BY <1>4
<1>6. rest = Tail(rxFifo)
  BY <1>5 DEF Spi!RestOfFifo
<1>7. rest \in Seq(Spi!Bytes) /\ Len(rest) = master.sent /\ \A i \in 1 .. Len(rest) : rest[i] = rxFifo[i + 1]
  BY <1>4, <1>5, <1>6
<1> HIDE DEF rest
<1>8. \A i \in 1 .. Len(rest) : rest[i] = master.tag
  BY <1>4, <1>7
<1> DEFINE n == IF Len(rest) < ch1.left THEN Len(rest) ELSE ch1.left
           g == Spi!AllOf(SubSeq(rest, 1, n))
           r == SubSeq(rest, n + 1, Len(rest))
<1>9. Spi!Started(rest).ch = [ch1 EXCEPT !.on = TRUE, !.left = @ - n, !.got = g] /\ Spi!Started(rest).rest = r
  BY DEF Spi!Started
<1>10. n = AtMost(master.sent, MaxLen) /\ n \in 0 .. MaxLen /\ n \in 0 .. Len(rest) /\ (n = 0 <=> master.sent = 0)
  BY <1>3, <1>4, <1>7 DEF AtMost
<1>11. r \in Seq(Spi!Bytes)
  <2>1. n + 1 \in Nat /\ Len(rest) \in Nat
    BY <1>7, <1>10
  <2> QED BY <1>7, <1>10, <2>1
<1>12. g = IF master.sent = 0 THEN "none" ELSE master.tag
  <2> HIDE DEF n
  <2> DEFINE q == SubSeq(rest, 1, n)
  <2>1. q \in Seq(Spi!Bytes) /\ Len(q) = n /\ \A i \in 1 .. n : q[i] = rest[i]
    BY <1>7, <1>10
  <2> HIDE DEF q
  <2>2. CASE master.sent = 0
    <3>1. q = <<>>
      BY <1>10, <2>1, <2>2
    <3> QED BY <2>2, <3>1 DEF Spi!AllOf, q
  <2>3. CASE master.sent # 0
    <3>1. n \in Nat \ {0}
      BY <1>10, <2>3
    <3>2. q # <<>> /\ DOMAIN q = 1 .. n
      BY <2>1, <3>1
    <3>3. \A i \in DOMAIN q : q[i] = master.tag
      BY <1>8, <1>10, <2>1, <3>2
    <3>4. 1 \in DOMAIN q
      BY <3>1, <3>2
    <3>5. Spi!AllOf(q) = master.tag
      BY <1>4, <3>2, <3>3, <3>4 DEF Spi!AllOf, Tags
    <3> QED BY <2>3, <3>5 DEF q
  <2> QED BY <2>2, <2>3
<1> HIDE DEF n, g, r
<1>13. g \in Tags \cup {"none", "mixed"} /\ MaxLen - n \in 0 .. MaxLen
  BY <1>4, <1>10, <1>12
<1>14. Spi!Started(rest).ch = [ch1 EXCEPT !.on = TRUE, !.left = MaxLen - n, !.got = g]
  BY <1>3, <1>9
<1>15. /\ Spi!Started(rest).ch \in Ch1Type /\ Spi!Started(rest).ch.on = TRUE
       /\ Spi!Started(rest).ch.fresh = ch1.fresh /\ Spi!Started(rest).ch.left = MaxLen - n
       /\ Spi!Started(rest).ch.got = g
  BY <1>3, <1>13, <1>14 DEF Ch1Type
<1> QED BY <1>3, <1>9, <1>10, <1>11, <1>12, <1>15 DEF rest

\* spi_isr begins a transaction: it takes the grants that wait.
LEMMA LongBeginsKeeps ==
  ASSUME MInv, Spi!LongBegins
  PROVE  s2r' \in PipeRec /\ r2s' \in PipeRec /\ SlotsInv' /\ SpiTypes' /\ SpiInv'
<1> DEFINE sends   == r2s.rd = READY /\ Head(r2s.frames).len # 0
           accepts == s2r.wr = READY
<1>1. /\ SpiTypes /\ SlotsInv /\ s2r \in PipeRec /\ r2s \in PipeRec
      /\ PhaseInv /\ PinInv /\ GrantInv /\ BytesInv /\ ~panicked
  BY DEF Spi!LongBegins, MInv, Types, SpiInv
<1>2. /\ spiPend /\ ~extiPend /\ spiMode = "IDLE" /\ spiPend' = FALSE /\ spiMode' = "LONG"
      /\ cr2' = (cr2 \ {"rxneie"}) \cup (IF sends THEN {"txdmaen"} ELSE {})
                                    \cup (IF accepts THEN {"rxdmaen"} ELSE {})
      /\ r2s' = Spi!PrepRd(r2s) /\ s2r' = Spi!PrepWr(s2r)
      /\ ch2' = IF sends THEN [ch2 EXCEPT !.on = TRUE] ELSE ch2
      /\ pins' = Spi!PinsAfter(sends, accepts)
      /\ IF accepts
           THEN ch1' = Spi!Started(Spi!RestOfFifo).ch /\ rxFifo' = Spi!Started(Spi!RestOfFifo).rest
           ELSE ch1' = ch1 /\ rxFifo' = Spi!RestOfFifo
      /\ UNCHANGED <<pc, didRestoreSpi, panicked, extiPend, seen, master>>
  BY DEF Spi!LongBegins, Spi!SpiIrq, Spi!loopVars
<1>3. sends <=> r2s.rd = READY
  <2>1. CASE r2s.rd = READY
    <3>1. r2s.frames \in Seq(Frame) /\ r2s.frames # <<>>
      BY <1>1, <2>1 DEF PipeRec, SlotsInv
    <3>2. Head(r2s.frames) \in Frame
      BY <3>1
    <3>3. Head(r2s.frames).len # 0
      BY <3>2, ModemAssumption DEF Frame
    <3> QED BY <2>1, <3>3
  <2> QED BY <2>1
<1> HIDE DEF sends
<1>4. /\ SpiPc = "check" /\ master.phase = "clocking"
      /\ s2r.wr = IF "rxrdy" \in master.saw THEN READY ELSE IDLE
  BY <1>1, <1>2 DEF PhaseInv, PinInv
<1>5. pc \notin WrSteps \cup PinSteps \cup RdSteps \cup ToUnmask \cup {"spiRd"}
  BY <1>4 DEF SpiPc, WrSteps, PinSteps, RdSteps, ToUnmask, RsSteps, EnSteps
<1>6. /\ s2r' \in PipeRec /\ s2r'.frames = s2r.frames /\ s2r'.rd = s2r.rd
      /\ s2r'.wr = IF accepts THEN BUSY ELSE s2r.wr
  BY <1>1, <1>2 DEF Spi!PrepWr, PipeRec, SlotState
<1>7. /\ r2s' \in PipeRec /\ r2s'.frames = r2s.frames /\ r2s'.wr = r2s.wr
      /\ r2s'.rd = IF sends THEN BUSY ELSE r2s.rd
  BY <1>1, <1>2, <1>3 DEF Spi!PrepRd, PipeRec, SlotState
<1>8. SlotsInv'
  BY <1>1, <1>3, <1>6, <1>7 DEF SlotsInv
\* The pins were active for the grants that are taken now, and for no other.
<1>9. pins' = {}
  <2>1. "rxrdy" \in pins => accepts
    BY <1>1 DEF PinInv
  <2>2. "txrdy" \in pins => sends
    BY <1>1, <1>3 DEF PinInv
  <2>3. pins \subseteq {"rxrdy", "txrdy"}
    BY <1>1 DEF SpiTypes, Spi!Pins
  <2> QED BY <1>2, <2>1, <2>2, <2>3 DEF Spi!PinsAfter
<1>10. accepts =>
         /\ ch1' \in Ch1Type /\ ch1'.on /\ ch1'.fresh
         /\ ch1'.left = MaxLen - AtMost(master.sent, MaxLen)
         /\ ch1'.got = IF master.sent = 0 THEN "none" ELSE master.tag
         /\ rxFifo' \in Seq(Spi!Bytes) /\ "rxdmaen" \in cr2'
  BY <1>1, <1>2, StartedIs
<1>11. ~accepts => ch1' = ch1 /\ rxFifo' \in Seq(Spi!Bytes)
  <2>1. rxFifo \in Seq(Spi!Bytes)
    BY <1>1 DEF SpiTypes
  <2>2. Spi!RestOfFifo \in Seq(Spi!Bytes)
    BY <2>1 DEF Spi!RestOfFifo
  <2> QED BY <1>2, <2>2
<1>12. ch2' \in Ch2Type
  BY <1>1, <1>2 DEF SpiTypes, Ch2Type
<1>13. SpiTypes'
  <2>1. cr2' \subseteq {"rxneie", "rxdmaen", "txdmaen"}
    BY <1>1, <1>2 DEF SpiTypes
  <2>2. ch1' \in Ch1Type /\ rxFifo' \in Seq(Spi!Bytes)
    BY <1>1, <1>10, <1>11 DEF SpiTypes, Ch1Type
  <2> QED BY <1>1, <1>2, <1>9, <1>12, <2>1, <2>2 DEF SpiTypes, Ch1Type, Ch2Type
<1>14. PhaseInv'
  BY <1>1, <1>2, <1>4 DEF PhaseInv, Active
<1>15. PinInv'
  BY <1>2, <1>4, <1>5, <1>6, <1>9 DEF PinInv, WrSteps, PinSteps, RdSteps, ToUnmask
<1>16. GrantInv'
  BY <1>1, <1>2, <1>4, <1>5, <1>6, <1>10, <1>11 DEF GrantInv, WrSteps, ToUnmask
<1>17. BytesInv'
  BY <1>2, <1>4, <1>6, <1>10 DEF BytesInv, AtMost
<1> QED BY <1>6, <1>7, <1>8, <1>13, <1>14, <1>15, <1>16, <1>17 DEF SpiInv

LEMMA SpiHandlerKeeps ==
  ASSUME MInv, Spi!Handler, UNCHANGED rsOwn
  PROVE  /\ Types' /\ RsTypes' /\ SlotsInv' /\ SeenInv' /\ SpiTypes' /\ SpiInv'
         /\ ArmedInv' /\ CycleInv' /\ WordsInv'
<1>1. Types /\ SlotsInv /\ SeenInv /\ SpiTypes
  BY DEF MInv
<1>2. ~Spi!ExtiSpurious /\ ~Spi!ExtiShort
  BY OnlyLong DEF Spi!ExtiSpurious, Spi!ExtiShort
<1>3. ASSUME NEW kind \in Spi!AllKinds, Spi!ShortBegins(kind)
      PROVE  FALSE
  BY <1>3, OnlyLong DEF Spi!ShortBegins, Spi!SpiIrq
<1>4. Spi!NotIdle \/ Spi!LongBegins \/ Spi!ExtiLong
  BY <1>2, <1>3 DEF Spi!Handler
<1>5. UNCHANGED <<pc, seen, didRestoreSpi, didRestoreRs485>>
  BY <1>4 DEF Spi!NotIdle, Spi!LongBegins, Spi!ExtiLong, Spi!loopVars
<1>6. RsTypes' /\ ArmedInv' /\ CycleInv' /\ WordsInv'
  <2>1. UNCHANGED RsPc
    BY <1>5 DEF RsPc, AfterUnmask
  <2> QED BY <1>5, <2>1, RsHalfKept
<1>7. s2r' \in PipeRec /\ r2s' \in PipeRec /\ SlotsInv' /\ SpiTypes' /\ SpiInv'
  <2>1. CASE Spi!NotIdle
    <3>1. /\ panicked' = TRUE /\ spiPend' = FALSE /\ cr2' = cr2 \ {"rxneie"}
          /\ UNCHANGED <<s2r, r2s, pc, spiMode, extiPend, rxFifo, ch1, ch2, pins, seen, master>>
      BY <2>1 DEF Spi!NotIdle, Spi!loopVars, Spi!dmaVars
    <3>2. SpiTypes'
      BY <1>1, <3>1 DEF SpiTypes
    <3> QED BY <1>1, <3>1, <3>2 DEF Types, SlotsInv, SpiInv
  <2> QED BY <1>4, <2>1, LongBeginsKeeps, ExtiLongKeeps
<1>8. panicked' \in BOOLEAN
  BY <1>1, <1>4 DEF Types, Spi!NotIdle, Spi!LongBegins, Spi!ExtiLong
<1>9. Types' /\ SeenInv'
  BY <1>1, <1>5, <1>7, <1>8 DEF Types, SeenInv
<1> QED BY <1>6, <1>7, <1>9

-----------------------------------------------------------------------------
(* The steps of the SPI master.                                             *)

\* A byte of the master, wherever it goes.
LEMMA ArrivesTypes ==
  ASSUME MInv, NEW b \in Spi!Bytes, Spi!Arrives(b)
  PROVE  ch1' \in Ch1Type /\ rxFifo' \in Seq(Spi!Bytes) /\ spiPend' \in BOOLEAN
<1>1. ch1 \in Ch1Type /\ rxFifo \in Seq(Spi!Bytes) /\ spiPend \in BOOLEAN /\ MaxLen \in Nat
  BY ModemAssumption DEF MInv, SpiTypes, Ch1Type
<1>2. spiPend' \in BOOLEAN
  <2>1. spiPend' = (spiPend \/ "rxneie" \in cr2)
    BY DEF Spi!Arrives
  <2> QED BY <2>1, Zenon
<1>3. CASE ch1.on /\ "rxdmaen" \in cr2 /\ ch1.left > 0
  <2> DEFINE g == IF b \in Tags /\ ch1.got \in {"none", b} THEN b ELSE "mixed"
  <2>1. ch1' = [ch1 EXCEPT !.left = @ - 1, !.got = g] /\ rxFifo' = rxFifo
    BY <1>3 DEF Spi!Arrives, Spi!DmaTakes
  <2>2. g \in Tags \cup {"none", "mixed"}
    BY DEF Tags, Tags
  <2> HIDE DEF g
  <2>3. ch1.left - 1 \in 0 .. MaxLen
    BY <1>1, <1>3 DEF Ch1Type
  <2> QED BY <1>1, <1>2, <2>1, <2>2, <2>3 DEF Ch1Type
<1>4. CASE ~(ch1.on /\ "rxdmaen" \in cr2 /\ ch1.left > 0)
  <2>1. ch1' = ch1 /\ (rxFifo' = rxFifo \/ rxFifo' = Append(rxFifo, b))
    BY <1>4 DEF Spi!Arrives
  <2> QED BY <1>1, <1>2, <2>1
<1> QED BY <1>3, <1>4

LEMMA BeginsKeeps ==
  ASSUME MInv, Begins
  PROVE  SpiTypes' /\ SpiInv'
<1>1. PICK n \in Clocked : Spi!MasterBegins("LONG", n)
  BY DEF Begins, Spi!Begins
<1>2. /\ ~spiPend /\ ~extiPend /\ SpiPc = "check" /\ pins # {} /\ master.phase = "idle"
      /\ Spi!Arrives("LONG")
      /\ master' = [phase |-> "clocking", left |-> n, sent |-> 0,
                    tag |-> IF "rxrdy" \in pins THEN Spi!NextTag(master.tag) ELSE master.tag,
                    saw |-> pins]
      /\ UNCHANGED <<s2r, r2s, pc, didRestoreSpi, panicked, spiMode, cr2, extiPend, ch2, pins, seen>>
  BY <1>1 DEF Begins, SpiAlone!MayBegin, SpiAlone!Settled, Spi!MasterBegins, Spi!loopVars
<1>3. SpiTypes
  BY DEF MInv
<1>4. "LONG" \in Spi!Bytes /\ n \in Nat
  BY ModemAssumption DEF Spi!Bytes, Spi!AllKinds
<1>5. SpiTypes'
  <2>1. ch1' \in Ch1Type /\ rxFifo' \in Seq(Spi!Bytes) /\ spiPend' \in BOOLEAN
    BY <1>2, <1>4, ArrivesTypes
  <2>2. (IF "rxrdy" \in pins THEN Spi!NextTag(master.tag) ELSE master.tag) \in Tags
    BY <1>3, NextTagIs DEF SpiTypes
  <2>3. master' \in MasterType
    BY <1>2, <1>3, <1>4, <2>2 DEF SpiTypes, MasterType
  <2> QED BY <1>2, <1>3, <2>1, <2>3 DEF SpiTypes, Ch1Type, MasterType
<1>6. ASSUME ~panicked PROVE PhaseInv' /\ PinInv' /\ GrantInv' /\ BytesInv'
  <2>1. PhaseInv /\ PinInv /\ GrantInv
    BY <1>6 DEF MInv, SpiInv
  <2>2. rxFifo = <<>> /\ spiMode = "IDLE"
    BY <1>2, <2>1 DEF PhaseInv, Active
  <2>3. pc \notin WrSteps \cup PinSteps \cup RdSteps \cup ToUnmask \cup {"spiRd"}
    BY <1>2 DEF SpiPc, WrSteps, PinSteps, RdSteps, ToUnmask, RsSteps, EnSteps
  <2>4. "rxneie" \in cr2 /\ spiPend' = TRUE
    BY <1>2, <2>1, <2>3 DEF PinInv, Spi!Arrives
  <2>5. s2r.wr # BUSY /\ ~ch1.on
    BY <2>1, <2>2 DEF GrantInv
  <2>6. ch1' = ch1 /\ rxFifo' = <<"LONG">>
    BY <1>2, <2>2, <2>5, ModemAssumption DEF Spi!Arrives
  <2>7. s2r.wr = IF "rxrdy" \in pins THEN READY ELSE IDLE
    BY <2>1, <2>3, <2>5 DEF PinInv, MInv, Types, PipeRec, SlotState
  <2>8. SpiPc' = SpiPc
    BY <1>2 DEF SpiPc
  <2>9. PhaseInv'
    BY <1>2, <1>4, <2>2, <2>4, <2>8 DEF PhaseInv, Active
  <2>10. PinInv'
    BY <1>2, <2>1, <2>2, <2>3, <2>4, <2>7 DEF PinInv, WrSteps, PinSteps, RdSteps, ToUnmask
  <2>11. GrantInv'
    BY <1>2, <2>1, <2>6 DEF GrantInv
  <2>12. BytesInv'
    BY <1>2, <2>2, <2>5, <2>6 DEF BytesInv
  <2> QED BY <2>9, <2>10, <2>11, <2>12
<1> QED BY <1>2, <1>5, <1>6 DEF SpiInv

LEMMA ClocksKeeps ==
  ASSUME MInv, Spi!MasterClocks
  PROVE  SpiTypes' /\ SpiInv'
<1>1. /\ master.phase = "clocking" /\ master.left > 0 /\ (spiPend => Len(rxFifo) < SpiDepth)
      /\ Spi!Arrives(master.tag)
      /\ master' = [master EXCEPT !.left = @ - 1, !.sent = @ + 1]
      /\ UNCHANGED <<s2r, r2s, pc, didRestoreSpi, panicked, spiMode, cr2, extiPend, ch2, pins, seen>>
  BY DEF Spi!MasterClocks, Spi!loopVars
<1>2. SpiTypes /\ master.left \in Nat /\ master.sent \in Nat /\ master.tag \in Tags
  BY DEF MInv, SpiTypes
<1>3. /\ master' \in MasterType
      /\ master'.phase = "clocking" /\ master'.left = master.left - 1 /\ master'.sent = master.sent + 1
      /\ master'.tag = master.tag /\ master'.saw = master.saw
  <2>1. master.left - 1 \in Nat /\ master.sent + 1 \in Nat
    BY <1>1, <1>2
  <2> QED BY <1>1, <1>2, <2>1 DEF SpiTypes, MasterType
<1>4. SpiTypes'
  <2>1. master.tag \in Spi!Bytes
    BY <1>2 DEF Spi!Bytes, Tags
  <2>2. ch1' \in Ch1Type /\ rxFifo' \in Seq(Spi!Bytes) /\ spiPend' \in BOOLEAN
    BY <1>1, <2>1, ArrivesTypes
  <2> QED BY <1>1, <1>2, <1>3, <2>2 DEF SpiTypes, Ch1Type, MasterType
<1>5. ASSUME ~panicked PROVE PhaseInv' /\ PinInv' /\ GrantInv' /\ BytesInv'
  <2>1. PhaseInv /\ PinInv /\ GrantInv /\ BytesInv
    BY <1>5 DEF MInv, SpiInv
  <2>2. ~extiPend /\ Active /\ (spiMode = "IDLE" => spiPend) /\ spiMode \in {"IDLE", "LONG"}
    BY <1>1, <1>2, <2>1 DEF PhaseInv, Active, SpiTypes
  <2>3. spiPend => spiPend'
    BY <1>1 DEF Spi!Arrives
  <2>4. SpiPc' = SpiPc
    BY <1>1 DEF SpiPc
  <2>5. master'.sent + master'.left = master.sent + master.left
    BY <1>2, <1>3
  <2>6. spiPend' /\ spiMode = "IDLE" => spiPend
    BY <2>2
  <2>7. PhaseInv'
    BY <1>1, <1>3, <2>1, <2>2, <2>3, <2>4, <2>5, <2>6 DEF PhaseInv, Active
  <2>8. PinInv'
    BY <1>1, <1>3, <2>1, <2>2, <2>3 DEF PinInv
  <2>9. ch1'.on = ch1.on /\ ch1'.fresh = ch1.fresh /\ (s2r.wr # BUSY => ch1' = ch1)
    <3>1. ch1 \in Ch1Type
      BY <1>2 DEF SpiTypes, Ch1Type
    <3>2. CASE s2r.wr = BUSY
      BY <1>1, <3>1, <3>2 DEF Spi!Arrives, Spi!DmaTakes, Ch1Type
    <3>3. CASE s2r.wr # BUSY
      BY <1>1, <2>1, <3>3 DEF Spi!Arrives, GrantInv
    <3> QED BY <3>2, <3>3
  <2>10. GrantInv'
    BY <1>1, <2>1, <2>9 DEF GrantInv
  <2>11. CASE spiMode = "IDLE"
    <3>1. /\ s2r.wr # BUSY /\ ~ch1.on /\ Len(rxFifo) < SpiDepth /\ spiPend
          /\ Len(rxFifo) = 1 + master.sent /\ rxFifo[1] = "LONG" /\ rxFifo \in Seq(Spi!Bytes)
          /\ \A i \in 2 .. Len(rxFifo) : rxFifo[i] = master.tag
      BY <1>1, <1>2, <2>1, <2>2, <2>11 DEF GrantInv, BytesInv, SpiTypes
    <3>2. rxFifo' = Append(rxFifo, master.tag)
      BY <1>1, <3>1 DEF Spi!Arrives
    <3>3. master.tag \in Spi!Bytes
      BY <1>2 DEF Spi!Bytes, Tags
    <3>4. /\ Len(rxFifo') = Len(rxFifo) + 1
          /\ \A i \in 1 .. Len(rxFifo) : rxFifo'[i] = rxFifo[i]
          /\ rxFifo'[Len(rxFifo) + 1] = master.tag
      BY <3>1, <3>2, <3>3
    <3>5. Len(rxFifo') = 1 + master'.sent /\ rxFifo'[1] = "LONG"
      <4>1. 1 \in 1 .. Len(rxFifo)
        BY <1>2, <3>1
      <4>2. rxFifo'[1] = "LONG"
        BY <3>1, <3>4, <4>1
      <4>3. Len(rxFifo') = 1 + master'.sent
        BY <1>2, <1>3, <3>1, <3>4
      <4> QED BY <4>2, <4>3
    <3>6. ASSUME NEW i \in 2 .. Len(rxFifo') PROVE rxFifo'[i] = master.tag
      <4>1. Len(rxFifo) \in Nat \ {0} /\ (i \in 2 .. Len(rxFifo) \/ i = Len(rxFifo) + 1)
        BY <1>2, <3>1, <3>4
      <4>2. CASE i \in 2 .. Len(rxFifo)
        BY <3>1, <3>4, <4>1, <4>2
      <4> QED BY <3>4, <4>1, <4>2
    <3>7. BytesInv'
      BY <1>1, <1>3, <3>1, <3>5, <3>6 DEF BytesInv
    <3> QED BY <2>7, <2>8, <2>10, <3>7
  <2>12. CASE spiMode = "LONG" /\ s2r.wr = BUSY
    <3>1. /\ ch1.on /\ "rxdmaen" \in cr2 /\ ch1 \in Ch1Type /\ MaxLen \in Nat \ {0}
          /\ ch1.left = MaxLen - AtMost(master.sent, MaxLen)
          /\ ch1.got = IF master.sent = 0 THEN "none" ELSE master.tag
      BY <1>2, <2>1, <2>12, ModemAssumption DEF GrantInv, BytesInv, SpiTypes, Ch1Type
    <3>2. CASE ch1.left > 0
      <4>1. ch1' = Spi!DmaTakes(ch1, master.tag)
        BY <1>1, <3>1, <3>2 DEF Spi!Arrives
      <4>2. ch1'.left = ch1.left - 1 /\ ch1'.got = master.tag
        BY <1>2, <3>1, <4>1 DEF Spi!DmaTakes, Ch1Type
      <4>3. ch1.left - 1 = MaxLen - AtMost(master.sent + 1, MaxLen)
        BY <1>2, <3>1, <3>2 DEF AtMost
      <4> QED BY <1>1, <1>2, <1>3, <2>7, <2>8, <2>10, <2>12, <4>2, <4>3 DEF BytesInv, AtMost
    <3>3. CASE ~(ch1.left > 0)
      <4>1. ch1' = ch1
        BY <1>1, <3>3 DEF Spi!Arrives
      <4>2. ch1.left = MaxLen - AtMost(master.sent + 1, MaxLen) /\ master.sent # 0
        BY <1>2, <3>1, <3>3 DEF AtMost
      <4> QED BY <1>1, <1>2, <1>3, <2>7, <2>8, <2>10, <2>12, <3>1, <4>1, <4>2 DEF BytesInv, AtMost
    <3> QED BY <3>2, <3>3
  <2>13. CASE spiMode = "LONG" /\ s2r.wr # BUSY
    BY <1>1, <2>7, <2>8, <2>10, <2>13 DEF BytesInv
  <2> QED BY <2>2, <2>11, <2>12, <2>13
<1> QED BY <1>1, <1>4, <1>5 DEF SpiInv

LEMMA EndsKeeps ==
  ASSUME MInv, Spi!MasterEnds
  PROVE  SpiTypes' /\ SpiInv'
<1>1. /\ master.phase = "clocking" /\ master.left = 0 /\ ~spiPend
      /\ extiPend' = TRUE /\ master' = [master EXCEPT !.phase = "idle"]
      /\ UNCHANGED <<s2r, r2s, pc, didRestoreSpi, panicked, spiMode, cr2, spiPend, rxFifo, ch1, ch2, pins, seen>>
  BY DEF Spi!MasterEnds, Spi!loopVars, Spi!dmaVars
<1>2. /\ master' \in MasterType /\ master'.phase = "idle"
      /\ master'.left = master.left /\ master'.sent = master.sent
      /\ master'.tag = master.tag /\ master'.saw = master.saw
  BY <1>1 DEF MInv, SpiTypes, MasterType
<1>3. SpiTypes'
  BY <1>1, <1>2 DEF MInv, SpiTypes, MasterType
<1>4. ASSUME ~panicked PROVE PhaseInv' /\ PinInv' /\ GrantInv' /\ BytesInv'
  <2>1. PhaseInv /\ PinInv /\ GrantInv /\ BytesInv
    BY <1>4 DEF MInv, SpiInv
  <2>2. spiMode = "LONG"
    BY <1>1, <2>1 DEF PhaseInv, Active, MInv, SpiTypes
  <2>3. PhaseInv'
    BY <1>1, <1>2, <2>1, <2>2 DEF PhaseInv, Active
  <2>4. PinInv'
    BY <1>1, <1>2, <2>1 DEF PinInv
  <2>5. GrantInv' /\ BytesInv'
    BY <1>1, <1>2, <2>1 DEF GrantInv, BytesInv, AtMost
  <2> QED BY <2>3, <2>4, <2>5
<1> QED BY <1>1, <1>3, <1>4 DEF SpiInv

LEMMA MasterKeeps ==
  ASSUME MInv, Begins \/ Clocks
  PROVE  /\ Types' /\ RsTypes' /\ SlotsInv' /\ SeenInv' /\ SpiTypes' /\ SpiInv'
         /\ ArmedInv' /\ CycleInv' /\ WordsInv'
<1>1. UNCHANGED <<s2r, r2s, pc, seen, didRestoreSpi, didRestoreRs485, panicked, rsOwn>>
  BY DEF Begins, Clocks, Spi!Begins, Spi!MasterBegins, Spi!MasterClocks, Spi!MasterEnds, Spi!loopVars
<1>2. UNCHANGED RsPc
  BY <1>1 DEF RsPc, AfterUnmask
<1>3. Types' /\ SlotsInv' /\ SeenInv'
  BY <1>1 DEF MInv, Types, SlotsInv, SeenInv
<1>4. RsTypes' /\ ArmedInv' /\ CycleInv' /\ WordsInv'
  BY <1>1, <1>2, RsHalfKept
<1>5. SpiTypes' /\ SpiInv'
  BY BeginsKeeps, ClocksKeeps, EndsKeeps DEF Clocks
<1> QED BY <1>3, <1>4, <1>5

-----------------------------------------------------------------------------
(* The steps of main in the SPI half of idle_step.                          *)

LEMMA ServeIs ==
  ASSUME MInv, Spi!Serve
  PROVE  /\ ~panicked /\ ~spiPend /\ ~extiPend /\ pc \in SpiSteps
         /\ UNCHANGED <<spiMode, extiPend, rxFifo, master, panicked, didRestoreRs485>>
         /\ didRestoreSpi' \in BOOLEAN
         /\ pc' \in SpiSteps \cup {"check", "enLoad"}
         /\ pc' \in SpiSteps \/ (pc' = AfterUnmask(didRestoreRs485) /\ seen' = {})
         /\ pc' \notin ModifySteps => seen' = {}
         /\ \/ s2r' = s2r
            \/ s2r.wr = IDLE /\ Len(s2r.frames) < MaxFrames /\ s2r' = [s2r EXCEPT !.wr = READY]
         /\ \/ r2s' = r2s
            \/ r2s.rd = IDLE /\ r2s.frames # <<>> /\ r2s' = [r2s EXCEPT !.rd = READY]
            \/ r2s' = [r2s EXCEPT !.unresolved = FALSE]
<1>1. ~panicked /\ ~spiPend /\ ~extiPend /\ pc \in SpiSteps
  BY DEF SpiSteps, Spi!Steps, Spi!Serve, Spi!MainAt, Spi!Goto, Spi!ReadPins, Spi!RestoreWr, Spi!NoRoomOrNotIdle,
     Spi!SetUpCh1Read, Spi!SetUpCh1Write, Spi!SetUpCh1, Spi!SetRxrdy, Spi!RestoreRd,
     Spi!NothingToSend, Spi!SetUpCh2Read, Spi!SetUpCh2Write, Spi!SetUpCh2, Spi!SetTxrdy,
     Spi!ReadCr2, Spi!Unmask, Spi!intVars, Spi!dmaVars
<1>2. UNCHANGED <<spiMode, extiPend, rxFifo, master, panicked, didRestoreRs485>>
  BY DEF Spi!Serve, Spi!MainAt, Spi!Goto, Spi!ReadPins, Spi!RestoreWr, Spi!NoRoomOrNotIdle,
     Spi!SetUpCh1Read, Spi!SetUpCh1Write, Spi!SetUpCh1, Spi!SetRxrdy, Spi!RestoreRd,
     Spi!NothingToSend, Spi!SetUpCh2Read, Spi!SetUpCh2Write, Spi!SetUpCh2, Spi!SetTxrdy,
     Spi!ReadCr2, Spi!Unmask, Spi!intVars, Spi!dmaVars
<1>3. didRestoreSpi' \in BOOLEAN
  BY DEF MInv, Types, Spi!Serve, Spi!MainAt, Spi!Goto, Spi!ReadPins, Spi!RestoreWr, Spi!NoRoomOrNotIdle,
     Spi!SetUpCh1Read, Spi!SetUpCh1Write, Spi!SetUpCh1, Spi!SetRxrdy, Spi!RestoreRd,
     Spi!NothingToSend, Spi!SetUpCh2Read, Spi!SetUpCh2Write, Spi!SetUpCh2, Spi!SetTxrdy,
     Spi!ReadCr2, Spi!Unmask, Spi!intVars, Spi!dmaVars
<1>4. \/ pc' \in SpiSteps
      \/ pc' = AfterUnmask(didRestoreRs485) /\ seen' = {}
  BY DEF SpiSteps, Spi!Steps, Spi!AfterRd, Spi!AfterSpi, Spi!AfterUnmask, AfterUnmask,
     MInv, SeenInv, ModifySteps, Spi!Serve, Spi!MainAt, Spi!Goto, Spi!ReadPins, Spi!RestoreWr, Spi!NoRoomOrNotIdle,
     Spi!SetUpCh1Read, Spi!SetUpCh1Write, Spi!SetUpCh1, Spi!SetRxrdy, Spi!RestoreRd,
     Spi!NothingToSend, Spi!SetUpCh2Read, Spi!SetUpCh2Write, Spi!SetUpCh2, Spi!SetTxrdy,
     Spi!ReadCr2, Spi!Unmask, Spi!intVars, Spi!dmaVars
<1>5. pc' \in SpiSteps \cup {"check", "enLoad"}
  BY <1>4 DEF AfterUnmask
<1>6. pc' \notin ModifySteps => seen' = {}
  BY DEF Spi!AfterRd, Spi!AfterSpi, Spi!AfterUnmask, MInv, SeenInv, ModifySteps, Spi!Serve, Spi!MainAt, Spi!Goto, Spi!ReadPins, Spi!RestoreWr, Spi!NoRoomOrNotIdle,
     Spi!SetUpCh1Read, Spi!SetUpCh1Write, Spi!SetUpCh1, Spi!SetRxrdy, Spi!RestoreRd,
     Spi!NothingToSend, Spi!SetUpCh2Read, Spi!SetUpCh2Write, Spi!SetUpCh2, Spi!SetTxrdy,
     Spi!ReadCr2, Spi!Unmask, Spi!intVars, Spi!dmaVars
<1>7. \/ s2r' = s2r
      \/ s2r.wr = IDLE /\ Len(s2r.frames) < MaxFrames /\ s2r' = [s2r EXCEPT !.wr = READY]
  BY DEF Spi!CanGrantWr, Spi!ServiceWr, Spi!Serve, Spi!MainAt, Spi!Goto, Spi!ReadPins, Spi!RestoreWr, Spi!NoRoomOrNotIdle,
     Spi!SetUpCh1Read, Spi!SetUpCh1Write, Spi!SetUpCh1, Spi!SetRxrdy, Spi!RestoreRd,
     Spi!NothingToSend, Spi!SetUpCh2Read, Spi!SetUpCh2Write, Spi!SetUpCh2, Spi!SetTxrdy,
     Spi!ReadCr2, Spi!Unmask, Spi!intVars, Spi!dmaVars
<1>8. \/ r2s' = r2s
      \/ r2s.rd = IDLE /\ r2s.frames # <<>> /\ r2s' = [r2s EXCEPT !.rd = READY]
      \/ r2s' = [r2s EXCEPT !.unresolved = FALSE]
  BY DEF Spi!CanGrantRd, Spi!ServiceRd, Spi!ServiceRdNone, Spi!Serve, Spi!MainAt, Spi!Goto, Spi!ReadPins, Spi!RestoreWr, Spi!NoRoomOrNotIdle,
     Spi!SetUpCh1Read, Spi!SetUpCh1Write, Spi!SetUpCh1, Spi!SetRxrdy, Spi!RestoreRd,
     Spi!NothingToSend, Spi!SetUpCh2Read, Spi!SetUpCh2Write, Spi!SetUpCh2, Spi!SetTxrdy,
     Spi!ReadCr2, Spi!Unmask, Spi!intVars, Spi!dmaVars
<1> QED BY <1>1, <1>2, <1>3, <1>4, <1>5, <1>6, <1>7, <1>8

\* Between two steps main looks at what the step before has left.
LEMMA ServePhase ==
  ASSUME MInv, Spi!Serve
  PROVE  /\ PhaseInv' /\ spiPend' \in BOOLEAN /\ ~(spiPend' /\ spiMode' = "IDLE")
         /\ Active => spiMode = "LONG"
<1>1. /\ PhaseInv /\ SpiTypes /\ ~spiPend /\ ~extiPend
      /\ UNCHANGED <<spiMode, extiPend, rxFifo, master, panicked>>
  BY ServeIs DEF MInv, SpiInv
<1>2. Active => spiMode = "LONG"
  BY <1>1 DEF PhaseInv, SpiTypes
<1>3. spiPend' = spiPend \/ spiPend' = (rxFifo # <<>>)
  BY DEF Spi!Serve, Spi!MainAt, Spi!Goto, Spi!ReadPins, Spi!RestoreWr, Spi!NoRoomOrNotIdle,
     Spi!SetUpCh1Read, Spi!SetUpCh1Write, Spi!SetUpCh1, Spi!SetRxrdy, Spi!RestoreRd,
     Spi!NothingToSend, Spi!SetUpCh2Read, Spi!SetUpCh2Write, Spi!SetUpCh2, Spi!SetTxrdy,
     Spi!ReadCr2, Spi!Unmask, Spi!intVars, Spi!dmaVars
<1>4. spiPend' \in BOOLEAN
  BY <1>1, <1>3, Zenon DEF SpiTypes
<1>5. spiPend' => Active /\ spiMode = "LONG"
  BY <1>1, <1>2, <1>3 DEF PhaseInv
<1>6. PhaseInv'
  BY <1>1, <1>2, <1>5 DEF PhaseInv, Active
<1> QED BY <1>1, <1>2, <1>4, <1>5, <1>6

LEMMA ServeKeeps ==
  ASSUME MInv, Spi!Serve
  PROVE  SpiTypes' /\ SpiInv'
<1>1. /\ SpiTypes /\ PinInv /\ GrantInv /\ BytesInv /\ s2r \in PipeRec /\ r2s \in PipeRec
      /\ ~panicked /\ ~spiPend /\ ~extiPend
  BY ServeIs DEF MInv, Types, SpiInv
<1>2. /\ PhaseInv' /\ spiPend' \in BOOLEAN /\ ~(spiPend' /\ spiMode' = "IDLE")
      /\ UNCHANGED <<spiMode, extiPend, rxFifo, master, panicked>>
  BY ServeIs, ServePhase
<1>3. s2r'.wr = BUSY <=> s2r.wr = BUSY
  BY <1>1, ServeIs DEF PipeRec
<1>4. (s2r.wr = BUSY => ch1'.left = ch1.left /\ ch1'.got = ch1.got) => BytesInv'
  BY <1>1, <1>2, <1>3 DEF BytesInv, AtMost
<1>5. PhaseInv' /\ PinInv' /\ GrantInv' /\ BytesInv' => SpiInv'
  BY DEF SpiInv
<1>6. CASE Spi!ReadPins
  <2>1. SpiTypes'
    BY <1>1, <1>2, <1>6 DEF SpiTypes, Spi!ReadPins, Spi!MainAt, Spi!Goto, Spi!intVars, Spi!dmaVars
  <2>2. PinInv'
    BY <1>1, <1>2, <1>6 DEF PinInv, WrSteps, PinSteps, RdSteps, ToUnmask, Spi!ReadPins, Spi!MainAt, Spi!Goto, Spi!intVars, Spi!dmaVars
  <2>3. GrantInv'
    BY <1>1, <1>2, <1>6 DEF GrantInv, WrSteps, Spi!ReadPins, Spi!MainAt, Spi!Goto, Spi!intVars, Spi!dmaVars
  <2>4. BytesInv'
    BY <1>1, <1>4, <1>6 DEF Spi!ReadPins, Spi!MainAt, Spi!dmaVars, PinInv, WrSteps
  <2> QED BY <1>2, <1>5, <2>1, <2>2, <2>3, <2>4
<1>7. CASE Spi!RestoreWr
  <2>1. SpiTypes'
    BY <1>1, <1>2, <1>7 DEF SpiTypes, Spi!RestoreWr, Spi!MainAt, Spi!Goto, Spi!intVars, Spi!dmaVars, Spi!ServiceWr, Spi!CanGrantWr
  <2>2. PinInv'
    BY <1>1, <1>2, <1>7 DEF PinInv, WrSteps, PinSteps, RdSteps, ToUnmask, Spi!RestoreWr, Spi!MainAt, Spi!Goto, Spi!intVars, Spi!dmaVars, Spi!ServiceWr, Spi!CanGrantWr
  <2>3. GrantInv'
    BY <1>1, <1>2, <1>7 DEF GrantInv, WrSteps, Spi!RestoreWr, Spi!MainAt, Spi!Goto, Spi!intVars, Spi!dmaVars, Spi!ServiceWr, Spi!CanGrantWr
  <2>4. BytesInv'
    BY <1>1, <1>4, <1>7 DEF Spi!RestoreWr, Spi!MainAt, Spi!dmaVars, PinInv, WrSteps
  <2> QED BY <1>2, <1>5, <2>1, <2>2, <2>3, <2>4
<1>8. CASE Spi!NoRoomOrNotIdle
  <2>1. SpiTypes'
    BY <1>1, <1>2, <1>8 DEF SpiTypes, Spi!NoRoomOrNotIdle, Spi!MainAt, Spi!Goto, Spi!intVars, Spi!dmaVars
  <2>2. PinInv'
    BY <1>1, <1>2, <1>8 DEF PinInv, WrSteps, PinSteps, RdSteps, ToUnmask, Spi!NoRoomOrNotIdle, Spi!MainAt, Spi!Goto, Spi!intVars, Spi!dmaVars
  <2>3. GrantInv'
    BY <1>1, <1>2, <1>8 DEF GrantInv, WrSteps, Spi!NoRoomOrNotIdle, Spi!MainAt, Spi!Goto, Spi!intVars, Spi!dmaVars
  <2>4. BytesInv'
    BY <1>1, <1>4, <1>8 DEF Spi!NoRoomOrNotIdle, Spi!MainAt, Spi!dmaVars, PinInv, WrSteps
  <2> QED BY <1>2, <1>5, <2>1, <2>2, <2>3, <2>4
<1>9. CASE Spi!SetUpCh1Read
  <2>1. SpiTypes'
    BY <1>1, <1>2, <1>9 DEF SpiTypes, Spi!SetUpCh1Read, Spi!MainAt, Spi!Goto, Spi!intVars, Spi!dmaVars
  <2>2. PinInv'
    BY <1>1, <1>2, <1>9 DEF PinInv, WrSteps, PinSteps, RdSteps, ToUnmask, Spi!SetUpCh1Read, Spi!MainAt, Spi!Goto, Spi!intVars, Spi!dmaVars
  <2>3. GrantInv'
    BY <1>1, <1>2, <1>9 DEF PinInv, GrantInv, WrSteps, PinSteps, Spi!SetUpCh1Read, Spi!MainAt, Spi!Goto, Spi!intVars, Spi!dmaVars
  <2>4. BytesInv'
    BY <1>1, <1>4, <1>9 DEF Spi!SetUpCh1Read, Spi!MainAt, Spi!dmaVars, PinInv, WrSteps
  <2> QED BY <1>2, <1>5, <2>1, <2>2, <2>3, <2>4
<1>10. CASE Spi!SetUpCh1Write
  <2>1. /\ \/ pc = "spiWrCr" /\ pc' = "spiWrAddr"
           \/ pc = "spiWrDirCr" /\ pc' = "spiWrPin"
        /\ s2r.wr = READY /\ seen = {}
    BY <1>1, <1>10 DEF PinInv, GrantInv, WrSteps, PinSteps, Spi!SetUpCh1Write, Spi!MainAt, Spi!Goto
  <2>2. /\ ch1' = [ch1 EXCEPT !.on = FALSE] /\ seen' = {}
        /\ UNCHANGED <<s2r, r2s, didRestoreSpi, cr2, spiPend, ch2, pins>>
    <3>1. ("en" \in seen) = FALSE
      BY <2>1
    <3>2. ch1' = [ch1 EXCEPT !.on = "en" \in seen]
      BY <1>10 DEF Spi!SetUpCh1Write
    <3>3. ch1' = [ch1 EXCEPT !.on = FALSE]
      BY <3>1, <3>2, Zenon
    <3> QED BY <1>10, <3>3 DEF Spi!SetUpCh1Write, Spi!Goto, Spi!intVars
  <2>3. ch1' \in Ch1Type /\ ch1'.on = FALSE /\ ch1'.fresh = ch1.fresh /\ ch1'.left = ch1.left /\ ch1'.got = ch1.got
    BY <1>1, <2>2 DEF SpiTypes, Ch1Type
  <2>4. SpiTypes'
    BY <1>1, <1>2, <2>2, <2>3 DEF SpiTypes, Ch1Type
  <2>5. PinInv'
    BY <1>1, <1>2, <2>1, <2>2 DEF PinInv, WrSteps, PinSteps, RdSteps, ToUnmask
  <2>6. GrantInv'
    BY <1>1, <1>2, <2>1, <2>2, <2>3 DEF GrantInv, WrSteps
  <2>7. BytesInv'
    BY <1>4, <2>1
  <2> QED BY <1>2, <1>5, <2>4, <2>5, <2>6, <2>7
<1>11. CASE Spi!SetUpCh1
  <2>1. pc = "spiWrAddr" /\ s2r.wr = READY
    BY <1>1, <1>11 DEF PinInv, WrSteps, Spi!SetUpCh1, Spi!MainAt
  <2>2. ~ch1.on
    BY <1>1, <2>1 DEF GrantInv
  <2>3. /\ ch1' = [ch1 EXCEPT !.left = MaxLen, !.got = "none", !.fresh = TRUE] /\ pc' = "spiWrDir"
        /\ UNCHANGED <<s2r, r2s, didRestoreSpi, cr2, spiPend, ch2, pins, seen>>
    BY <1>11, <2>1, <2>2 DEF Spi!SetUpCh1, Spi!Goto, Spi!intVars
  <2>4. /\ ch1' \in Ch1Type /\ ch1'.on = ch1.on /\ ch1'.fresh = TRUE /\ ch1'.left = MaxLen
        /\ ch1'.got = "none"
    <3>1. MaxLen \in 0 .. MaxLen
      BY ModemAssumption
    <3>2. ch1 \in Ch1Type
      BY <1>1 DEF SpiTypes, Ch1Type
    <3> QED BY <2>3, <3>1, <3>2 DEF Ch1Type
  <2>5. SpiTypes'
    BY <1>1, <1>2, <2>3, <2>4 DEF SpiTypes, Ch1Type
  <2>6. PinInv'
    BY <1>1, <1>2, <2>1, <2>3 DEF PinInv, WrSteps, PinSteps, RdSteps, ToUnmask
  <2>7. GrantInv'
    BY <1>1, <1>2, <2>1, <2>3, <2>4 DEF GrantInv, WrSteps
  <2>8. BytesInv'
    BY <1>4, <2>1
  <2> QED BY <1>2, <1>5, <2>5, <2>6, <2>7, <2>8
<1>12. CASE Spi!SetRxrdy
  <2>1. SpiTypes'
    BY <1>1, <1>2, <1>12 DEF SpiTypes, PinInv, Spi!Pins, Spi!SetRxrdy, Spi!MainAt, Spi!Goto, Spi!intVars, Spi!dmaVars
  <2>2. PinInv'
    BY <1>1, <1>2, <1>12 DEF PinInv, WrSteps, PinSteps, RdSteps, ToUnmask, Spi!SetRxrdy, Spi!MainAt, Spi!Goto, Spi!intVars, Spi!dmaVars
  <2>3. GrantInv'
    BY <1>1, <1>2, <1>12 DEF GrantInv, WrSteps, Spi!SetRxrdy, Spi!MainAt, Spi!Goto, Spi!intVars, Spi!dmaVars
  <2>4. BytesInv'
    BY <1>1, <1>4, <1>12 DEF Spi!SetRxrdy, Spi!MainAt, Spi!dmaVars, PinInv, WrSteps
  <2> QED BY <1>2, <1>5, <2>1, <2>2, <2>3, <2>4
<1>13. CASE Spi!RestoreRd
  <2>1. SpiTypes'
    BY <1>1, <1>2, <1>13 DEF SpiTypes, Spi!RestoreRd, Spi!MainAt, Spi!Goto, Spi!intVars, Spi!dmaVars, Spi!ServiceRd, Spi!CanGrantRd
  <2>2. PinInv'
    BY <1>1, <1>2, <1>13 DEF PinInv, WrSteps, PinSteps, RdSteps, ToUnmask, Spi!RestoreRd, Spi!MainAt, Spi!Goto, Spi!intVars, Spi!dmaVars, Spi!ServiceRd, Spi!CanGrantRd
  <2>3. GrantInv'
    BY <1>1, <1>2, <1>13 DEF GrantInv, WrSteps, Spi!RestoreRd, Spi!MainAt, Spi!Goto, Spi!intVars, Spi!dmaVars, Spi!ServiceRd, Spi!CanGrantRd
  <2>4. BytesInv'
    BY <1>1, <1>4, <1>13 DEF Spi!RestoreRd, Spi!MainAt, Spi!dmaVars, PinInv, WrSteps
  <2> QED BY <1>2, <1>5, <2>1, <2>2, <2>3, <2>4
<1>14. CASE Spi!NothingToSend
  <2>1. SpiTypes'
    BY <1>1, <1>2, <1>14 DEF SpiTypes, Spi!NothingToSend, Spi!MainAt, Spi!Goto, Spi!intVars, Spi!dmaVars, Spi!ServiceRdNone, Spi!FindsNone, Spi!AfterRd, Spi!AfterSpi, Spi!AfterUnmask
  <2>2. PinInv'
    BY <1>1, <1>2, <1>14 DEF PinInv, WrSteps, PinSteps, RdSteps, ToUnmask, Spi!NothingToSend, Spi!MainAt, Spi!Goto, Spi!intVars, Spi!dmaVars, Spi!ServiceRdNone, Spi!FindsNone, Spi!AfterRd, Spi!AfterSpi, Spi!AfterUnmask
  <2>3. GrantInv'
    BY <1>1, <1>2, <1>14 DEF GrantInv, WrSteps, Spi!NothingToSend, Spi!MainAt, Spi!Goto, Spi!intVars, Spi!dmaVars, Spi!ServiceRdNone, Spi!FindsNone, Spi!AfterRd, Spi!AfterSpi, Spi!AfterUnmask
  <2>4. BytesInv'
    BY <1>1, <1>4, <1>14 DEF Spi!NothingToSend, Spi!MainAt, Spi!dmaVars, PinInv, WrSteps
  <2> QED BY <1>2, <1>5, <2>1, <2>2, <2>3, <2>4
<1>15. CASE Spi!SetUpCh2Read
  <2>1. SpiTypes'
    BY <1>1, <1>2, <1>15 DEF SpiTypes, Spi!SetUpCh2Read, Spi!MainAt, Spi!Goto, Spi!intVars, Spi!dmaVars
  <2>2. PinInv'
    BY <1>1, <1>2, <1>15 DEF PinInv, WrSteps, PinSteps, RdSteps, ToUnmask, Spi!SetUpCh2Read, Spi!MainAt, Spi!Goto, Spi!intVars, Spi!dmaVars
  <2>3. GrantInv'
    BY <1>1, <1>2, <1>15 DEF GrantInv, WrSteps, Spi!SetUpCh2Read, Spi!MainAt, Spi!Goto, Spi!intVars, Spi!dmaVars
  <2>4. BytesInv'
    BY <1>1, <1>4, <1>15 DEF Spi!SetUpCh2Read, Spi!MainAt, Spi!dmaVars, PinInv, WrSteps
  <2> QED BY <1>2, <1>5, <2>1, <2>2, <2>3, <2>4
<1>16. CASE Spi!SetUpCh2Write
  <2> DEFINE e == "en" \in seen
  <2>0. e \in BOOLEAN /\ ch2' = [ch2 EXCEPT !.on = e]
    BY <1>16 DEF Spi!SetUpCh2Write
  <2> HIDE DEF e
  <2>a. ch2' \in Ch2Type
    BY <1>1, <2>0 DEF SpiTypes, Ch2Type
  <2>1. SpiTypes'
    BY <2>a, <1>1, <1>2, <1>16 DEF SpiTypes, Ch2Type, Spi!SetUpCh2Write, Spi!MainAt, Spi!Goto, Spi!intVars, Spi!dmaVars
  <2>2. PinInv'
    BY <1>1, <1>2, <1>16 DEF PinInv, WrSteps, PinSteps, RdSteps, ToUnmask, Spi!SetUpCh2Write, Spi!MainAt, Spi!Goto, Spi!intVars, Spi!dmaVars
  <2>3. GrantInv'
    BY <1>1, <1>2, <1>16 DEF GrantInv, WrSteps, Spi!SetUpCh2Write, Spi!MainAt, Spi!Goto, Spi!intVars, Spi!dmaVars
  <2>4. BytesInv'
    BY <1>1, <1>4, <1>16 DEF Spi!SetUpCh2Write, Spi!MainAt, Spi!dmaVars, PinInv, WrSteps
  <2> QED BY <1>2, <1>5, <2>1, <2>2, <2>3, <2>4
<1>17. CASE Spi!SetUpCh2
  <2>1. SpiTypes'
    BY <1>1, <1>2, <1>17 DEF SpiTypes, Spi!SetUpCh2, Spi!MainAt, Spi!Goto, Spi!intVars, Spi!dmaVars
  <2>2. PinInv'
    BY <1>1, <1>2, <1>17 DEF PinInv, WrSteps, PinSteps, RdSteps, ToUnmask, Spi!SetUpCh2, Spi!MainAt, Spi!Goto, Spi!intVars, Spi!dmaVars
  <2>3. GrantInv'
    BY <1>1, <1>2, <1>17 DEF GrantInv, WrSteps, Spi!SetUpCh2, Spi!MainAt, Spi!Goto, Spi!intVars, Spi!dmaVars
  <2>4. BytesInv'
    BY <1>1, <1>4, <1>17 DEF Spi!SetUpCh2, Spi!MainAt, Spi!dmaVars, PinInv, WrSteps
  <2> QED BY <1>2, <1>5, <2>1, <2>2, <2>3, <2>4
<1>18. CASE Spi!SetTxrdy
  <2>1. SpiTypes'
    BY <1>1, <1>2, <1>18 DEF SpiTypes, PinInv, Spi!Pins, Spi!SetTxrdy, Spi!MainAt, Spi!Goto, Spi!intVars, Spi!dmaVars
  <2>2. PinInv'
    BY <1>1, <1>2, <1>18 DEF PinInv, WrSteps, PinSteps, RdSteps, ToUnmask, Spi!SetTxrdy, Spi!MainAt, Spi!Goto, Spi!intVars, Spi!dmaVars
  <2>3. GrantInv'
    BY <1>1, <1>2, <1>18 DEF GrantInv, WrSteps, Spi!SetTxrdy, Spi!MainAt, Spi!Goto, Spi!intVars, Spi!dmaVars
  <2>4. BytesInv'
    BY <1>1, <1>4, <1>18 DEF Spi!SetTxrdy, Spi!MainAt, Spi!dmaVars, PinInv, WrSteps
  <2> QED BY <1>2, <1>5, <2>1, <2>2, <2>3, <2>4
<1>19. CASE Spi!ReadCr2
  <2>1. SpiTypes'
    BY <1>1, <1>2, <1>19 DEF SpiTypes, Spi!ReadCr2, Spi!MainAt, Spi!Goto, Spi!intVars, Spi!dmaVars
  <2>2. PinInv'
    BY <1>1, <1>2, <1>19 DEF PinInv, WrSteps, PinSteps, RdSteps, ToUnmask, Spi!ReadCr2, Spi!MainAt, Spi!Goto, Spi!intVars, Spi!dmaVars
  <2>3. GrantInv'
    BY <1>1, <1>2, <1>19 DEF GrantInv, WrSteps, Spi!ReadCr2, Spi!MainAt, Spi!Goto, Spi!intVars, Spi!dmaVars
  <2>4. BytesInv'
    BY <1>1, <1>4, <1>19 DEF Spi!ReadCr2, Spi!MainAt, Spi!dmaVars, PinInv, WrSteps
  <2> QED BY <1>2, <1>5, <2>1, <2>2, <2>3, <2>4
<1>20. CASE Spi!Unmask
  <2>1. SpiTypes'
    BY <1>1, <1>2, <1>20 DEF SpiTypes, Spi!Unmask, Spi!MainAt, Spi!Goto, Spi!intVars, Spi!dmaVars, Spi!AfterUnmask
  <2>2. PinInv'
    BY <1>1, <1>2, <1>20 DEF PinInv, WrSteps, PinSteps, RdSteps, ToUnmask, Spi!Unmask, Spi!MainAt, Spi!Goto, Spi!intVars, Spi!dmaVars, Spi!AfterUnmask
  <2>3. GrantInv'
    BY <1>1, <1>2, <1>20 DEF GrantInv, WrSteps, Spi!Unmask, Spi!MainAt, Spi!Goto, Spi!intVars, Spi!dmaVars, Spi!AfterUnmask
  <2>4. BytesInv'
    BY <1>1, <1>4, <1>20 DEF Spi!Unmask, Spi!MainAt, Spi!dmaVars, PinInv, WrSteps
  <2> QED BY <1>2, <1>5, <2>1, <2>2, <2>3, <2>4
<1> QED BY <1>6, <1>7, <1>8, <1>9, <1>10, <1>11, <1>12, <1>13, <1>14, <1>15, <1>16, <1>17, <1>18, <1>19, <1>20 DEF Spi!Serve

LEMMA SpiMainKeeps ==
  ASSUME MInv, Spi!Serve, UNCHANGED rsOwn
  PROVE  /\ Types' /\ RsTypes' /\ SlotsInv' /\ SeenInv' /\ SpiTypes' /\ SpiInv'
         /\ ArmedInv' /\ CycleInv' /\ WordsInv'
<1>1. Types /\ SlotsInv /\ s2r \in PipeRec /\ r2s \in PipeRec
  BY DEF MInv, Types
<1>2. /\ ~panicked /\ pc \in SpiSteps /\ UNCHANGED <<panicked, didRestoreRs485>>
      /\ didRestoreSpi' \in BOOLEAN /\ pc' \in SpiSteps \cup {"check", "enLoad"}
      /\ pc' \in SpiSteps \/ (pc' = AfterUnmask(didRestoreRs485) /\ seen' = {})
      /\ pc' \notin ModifySteps => seen' = {}
  BY ServeIs
<1>3. /\ s2r' \in PipeRec /\ s2r'.frames = s2r.frames /\ s2r'.rd = s2r.rd
      /\ s2r'.wr # IDLE => s2r.wr # IDLE \/ Len(s2r.frames) < MaxFrames
  <2>1. \/ s2r' = s2r
        \/ s2r.wr = IDLE /\ Len(s2r.frames) < MaxFrames /\ s2r' = [s2r EXCEPT !.wr = READY]
    BY ServeIs
  <2> QED BY <1>1, <2>1 DEF PipeRec, SlotState
<1>4. /\ r2s' \in PipeRec /\ r2s'.frames = r2s.frames /\ r2s'.wr = r2s.wr
      /\ r2s'.rd # IDLE => r2s.rd # IDLE \/ r2s.frames # <<>>
  <2>1. \/ r2s' = r2s
        \/ r2s.rd = IDLE /\ r2s.frames # <<>> /\ r2s' = [r2s EXCEPT !.rd = READY]
        \/ r2s' = [r2s EXCEPT !.unresolved = FALSE]
    BY ServeIs
  <2> QED BY <1>1, <2>1 DEF PipeRec, SlotState
<1>5. SlotsInv' /\ SeenInv' /\ Types'
  <2>1. SlotsInv'
    BY <1>1, <1>3, <1>4 DEF SlotsInv
  <2>2. SeenInv'
    BY <1>2 DEF SeenInv
  <2>3. Types'
    BY <1>1, <1>2, <1>3, <1>4 DEF Types, EnSteps
  <2> QED BY <2>1, <2>2, <2>3
<1>6. RsTypes' /\ ArmedInv' /\ CycleInv' /\ WordsInv'
  <2>1. UNCHANGED RsPc
    BY <1>2 DEF RsPc, AfterUnmask, SpiSteps, Spi!Steps
  <2> QED BY <1>2, <2>1, RsHalfKept
<1> QED BY <1>5, <1>6, ServeKeeps

-----------------------------------------------------------------------------
(* The invariant.                                                           *)

LEMMA MInvInit == Init => MInv
<1> SUFFICES ASSUME Init PROVE MInv
  OBVIOUS
<1> USE DEF Init, Rs!Init, Spi!Init, Rs!PipesInit, Rs!EmptyPipe, Spi!PipesInit, Spi!EmptyPipe
<1>1. MaxLen \in Nat \ {0} /\ 0 \in 0 .. MaxLen
  BY ModemAssumption
<1>2. s2r \in PipeRec /\ r2s \in PipeRec
  <2>1. <<>> \in Seq(Frame)
    BY EmptySeq
  <2> QED BY <2>1 DEF PipeRec, SlotState
<1>3. Types
  BY <1>2 DEF Types
<1>4. RsTypes
  <2>1. fifo \in Seq(Rs!Words)
    BY EmptySeq
  <2> QED BY <1>1, <2>1 DEF RsTypes, Rs!Modes, Rs!NoFrame, Tags
<1>5. SpiTypes
  <2>1. rxFifo \in Seq(Spi!Bytes)
    BY EmptySeq
  <2> QED BY <1>1, <2>1 DEF SpiTypes, Spi!NextTag, Tags, Spi!Pins
<1>6. SlotsInv /\ SeenInv
  BY DEF SlotsInv, SeenInv
<1>7. ArmedInv /\ CycleInv /\ WordsInv
  BY DEF ArmedInv, CycleInv, WordsInv
<1>8. SpiInv
  <2>1. PhaseInv
    BY DEF PhaseInv, Active
  <2>2. PinInv
    BY DEF PinInv, WrSteps, PinSteps, RdSteps
  <2>3. GrantInv /\ BytesInv
    BY DEF GrantInv, BytesInv
  <2> QED BY <2>1, <2>2, <2>3 DEF SpiInv
<1> QED BY <1>3, <1>4, <1>5, <1>6, <1>7, <1>8, PortInvInit DEF MInv, RsInv

LEMMA MInvKept ==
  ASSUME 0 \notin TxCaps, MInv, [Next /\ ~RsAlone!Overlap']_vars
  PROVE  MInv'
<1> DEFINE Rest == /\ Types' /\ RsTypes' /\ SlotsInv' /\ SeenInv' /\ SpiTypes' /\ SpiInv'
                   /\ ArmedInv' /\ CycleInv' /\ WordsInv'
<1>1. ASSUME Rs!Handler, ~RsAlone!Overlap', UNCHANGED spiOwn PROVE Rest
  BY <1>1, RsHandlerKeeps
<1>2. ASSUME Spi!Handler, UNCHANGED rsOwn PROVE Rest
  BY <1>2, SpiHandlerKeeps
<1>3. ASSUME Rs!Main, UNCHANGED spiOwn, ~spiPend PROVE Rest
  BY <1>3, RsMainKeeps
<1>4. ASSUME Spi!Serve, UNCHANGED rsOwn PROVE Rest
  BY <1>4, SpiMainKeeps
<1>5. ASSUME RouterPoll \/ Bus PROVE Rest
  BY <1>5, RsBusKeeps
<1>6. ASSUME Begins \/ Clocks PROVE Rest
  BY <1>6, MasterKeeps
<1>7. ASSUME UNCHANGED vars PROVE Rest
  <2> USE <1>7 DEF vars, loopVars, rsOwn, spiOwn
  <2>1. UNCHANGED RsPc
    BY DEF RsPc, AfterUnmask
  <2>2. RsTypes' /\ ArmedInv' /\ CycleInv' /\ WordsInv'
    BY <2>1, RsHalfKept
  <2>3. SpiTypes' /\ SpiInv'
    BY SpiHalfKept
  <2>4. Types' /\ SlotsInv' /\ SeenInv'
    BY DEF MInv, Types, SlotsInv, SeenInv
  <2> QED BY <2>2, <2>3, <2>4
<1> HIDE DEF Rest
<1>8. Rest
  BY <1>1, <1>2, <1>3, <1>4, <1>5, <1>6, <1>7
     DEF Next, Handler, Exti, Spi1, Dma, Usart1, Main
<1>9. Port485!Inv'
  BY PortInvKept
<1> QED BY <1>8, <1>9 DEF MInv, RsInv, Rest

\* The invariant of the modem as a whole: each port keeps what its own proof asks of it,
\* and its peer and its hardware are where its handlers expect them, as long as no cycle
\* overlaps main's re-arming.  A router that announces a frame of no words would be
\* answered with an empty reception.
THEOREM ModemInvariant ==
  ASSUME 0 \notin TxCaps
  PROVE  Undisturbed => []MInv
<1>1. MInv /\ [Next /\ ~RsAlone!Overlap']_vars => MInv'
  BY MInvKept
<1> QED BY <1>1, MInvInit, PTL DEF Undisturbed

\* ImplementsRs485Port: seen from the RS-485 port, the rest of the modem, its SPI master
\* included, takes only steps of the environment that the port's own module assumes, as
\* long as no cycle overlaps main's re-arming.
THEOREM ModemImplementsRs485Port ==
  ASSUME 0 \notin TxCaps
  PROVE  Undisturbed => ImplementsRs485Port
<1>1. Init => RsAlone!Init
  BY DEF Init, Rs!Init, Spi!Init, RsAlone!Init, Rs!PipesInit, RsAlone!PipesInit, Rs!EmptyPipe,
     RsAlone!EmptyPipe, RsS2r, RsR2s, RsPc, RsSeen, SpiSteps, Spi!Steps, CommitTag, Spi!NextTag,
     Rs!NoFrame, RsAlone!NoFrame, Tags
<1>2. MInv /\ [Next /\ ~RsAlone!Overlap']_vars => [RsAlone!Next /\ ~RsAlone!Overlap']_(RsAlone!vars)
  BY RsNext
<1> QED BY <1>1, <1>2, ModemInvariant, PTL DEF Undisturbed, ImplementsRs485Port, RsAlone!Undisturbed

-----------------------------------------------------------------------------
(* The frames and their tags.                                               *)

\* One frame more at the end, one less at the front.
LEMMA AlternateAppend ==
  ASSUME NEW fs \in Seq(Frame), NEW f \in Frame, NEW first, NEW next,
         Alternate(fs, first, next), f.tag = next
  PROVE  Alternate(Append(fs, f), first, Rs!NextTag(next))
<1> DEFINE gs == Append(fs, f)
<1>1. /\ gs # <<>> /\ Len(gs) = Len(fs) + 1 /\ Len(fs) \in Nat
      /\ \A i \in 1 .. Len(fs) : gs[i] = fs[i]
      /\ gs[Len(fs) + 1] = f
  OBVIOUS
<1> HIDE DEF gs
<1>2. ASSUME NEW i \in 1 .. Len(gs)
      PROVE  gs[i].tag = IF i = 1 THEN first ELSE Rs!NextTag(gs[i - 1].tag)
  <2>1. CASE i \in 1 .. Len(fs)
    <3>1. gs[i] = fs[i] /\ (i # 1 => i - 1 \in 1 .. Len(fs) /\ gs[i - 1] = fs[i - 1])
      BY <1>1, <2>1
    <3>2. fs[i].tag = IF i = 1 THEN first ELSE Rs!NextTag(fs[i - 1].tag)
      BY <2>1 DEF Alternate
    <3> QED BY <3>1, <3>2
  <2>2. CASE i = Len(fs) + 1 /\ fs = <<>>
    BY <1>1, <2>2 DEF Alternate
  <2>3. CASE i = Len(fs) + 1 /\ fs # <<>>
    <3>1. i # 1 /\ i - 1 = Len(fs) /\ gs[i - 1] = fs[Len(fs)] /\ gs[i] = f
      BY <1>1, <2>3
    <3>2. next = Rs!NextTag(fs[Len(fs)].tag)
      BY <2>3 DEF Alternate
    <3> QED BY <3>1, <3>2
  <2> QED BY <1>1, <2>1, <2>2, <2>3
<1>3. Rs!NextTag(next) = IF gs = <<>> THEN first ELSE Rs!NextTag(gs[Len(gs)].tag)
  BY <1>1
<1> QED BY <1>2, <1>3 DEF Alternate, gs

LEMMA AlternateTail ==
  ASSUME NEW fs \in Seq(Frame), fs # <<>>, NEW first, NEW next, Alternate(fs, first, next)
  PROVE  Alternate(Tail(fs), Rs!NextTag(Head(fs).tag), next)
<1> DEFINE gs == Tail(fs)
<1>1. /\ Len(fs) \in Nat \ {0} /\ Len(gs) = Len(fs) - 1 /\ gs \in Seq(Frame)
      /\ \A i \in 1 .. Len(gs) : gs[i] = fs[i + 1]
      /\ Head(fs) = fs[1]
  OBVIOUS
<1> HIDE DEF gs
<1>2. ASSUME NEW i \in 1 .. Len(gs)
      PROVE  gs[i].tag = IF i = 1 THEN Rs!NextTag(Head(fs).tag) ELSE Rs!NextTag(gs[i - 1].tag)
  <2>1. i + 1 \in 1 .. Len(fs) /\ i + 1 # 1 /\ (i + 1) - 1 = i
    BY <1>1
  <2>2. fs[i + 1].tag = Rs!NextTag(fs[i].tag)
    BY <2>1 DEF Alternate
  <2>3. i # 1 => gs[i - 1] = fs[i]
    <3> SUFFICES ASSUME i # 1 PROVE gs[i - 1] = fs[i]
      OBVIOUS
    <3>1. i - 1 \in 1 .. Len(gs) /\ (i - 1) + 1 = i
      BY <1>1
    <3> QED BY <1>1, <3>1
  <2> QED BY <1>1, <2>2, <2>3
<1>3. next = IF gs = <<>> THEN Rs!NextTag(Head(fs).tag) ELSE Rs!NextTag(gs[Len(gs)].tag)
  <2>1. next = Rs!NextTag(fs[Len(fs)].tag)
    BY DEF Alternate
  <2>2. CASE gs = <<>>
    <3>1. Len(fs) = 1
      BY <1>1, <2>2
    <3> QED BY <1>1, <2>1, <2>2, <3>1
  <2>3. CASE gs # <<>>
    <3>1. Len(gs) \in 1 .. Len(gs)
      BY <1>1, <2>3
    <3>2. gs[Len(gs)] = fs[Len(fs)]
      BY <1>1, <3>1
    <3> QED BY <2>1, <2>3, <3>2
  <2> QED BY <2>2, <2>3
<1> QED BY <1>2, <1>3 DEF Alternate, gs

\* What rs485_isr does to the frames, and the tag of the one it commits.
LEMMA RsHandlerFrames ==
  ASSUME MInv, Rs!Handler
  PROVE  /\ wantTag' = wantTag
         /\ \/ s2r'.frames = s2r.frames /\ ch4'.done = ch4.done
            \/ ch4.done /\ ~ch4'.done /\ s2r.frames # <<>> /\ s2r'.frames = Tail(s2r.frames)
         /\ \/ r2s'.frames = r2s.frames /\ DeliverTag' = DeliverTag
            \/ \E f \in Frame : /\ f.tag = DeliverTag /\ r2s'.frames = Append(r2s.frames, f)
                                /\ DeliverTag' = Rs!NextTag(DeliverTag)
<1>1. RsTypes /\ SlotsInv /\ s2r \in PipeRec /\ r2s \in PipeRec /\ Rs!Irq /\ CycleInv
  BY DEF MInv, RsInv, Types, Rs!Handler, Rs!IdleStartTimeout, Rs!IdleStartAnswer, Rs!DmaTxComplete,
         Rs!NoDmaTxComplete, Rs!RecvComplete, Rs!PanicInReload
<1>2. ~Rs!IdleStartTimeout /\ ~Rs!PanicInReload
  BY OnlyPolls DEF Rs!IdleStartTimeout, Rs!PanicInReload
<1>3. ASSUME NEW rRxCap \in RxCaps, NEW rTxCap \in TxCaps, Rs!IdleStartAnswer(rRxCap, rTxCap)
      PROVE  /\ wantTag' = wantTag /\ s2r'.frames = s2r.frames /\ ch4'.done = ch4.done
             /\ r2s'.frames = r2s.frames /\ DeliverTag' = DeliverTag
  <2>1. s2r'.frames = s2r.frames /\ r2s'.frames = r2s.frames
    BY <1>3, AnswerKeeps
  <2>2. mode = "READY" /\ router.phase = "polling"
    BY <1>3, OnlyPolls DEF Rs!IdleStartAnswer
  <2>3. recvAmt = 0 /\ ~ch4.done
    BY <1>1, <2>2, PortFacts DEF CycleInv, RsTypes, MInv, RsInv, Between
  <2>4. /\ wantTag' = wantTag /\ inTag' = inTag /\ router'.phase = "reading"
        /\ ch4' = ch4 \/ ch4' = [ch4 EXCEPT !.on = TRUE, !.done = FALSE]
    BY <1>3, <2>2 DEF Rs!IdleStartAnswer
  <2>5. ch4'.done = ch4.done
    BY <1>1, <2>3, <2>4 DEF RsTypes
  <2>6. DeliverTag' = inTag /\ DeliverTag = inTag
    BY <2>3, <2>4 DEF DeliverTag
  <2> QED BY <2>1, <2>4, <2>5, <2>6
<1>4. CASE Rs!DmaTxComplete
  <2>1. /\ mode = "SEND_DMA" /\ s2r' = Rs!CompleteRd(s2r) /\ r2s' = r2s
        /\ ch4' = [ch4 EXCEPT !.on = FALSE, !.done = FALSE]
        /\ UNCHANGED <<recvAmt, router, wantTag, inTag>>
    BY <1>4 DEF Rs!DmaTxComplete, Rs!routerVars
  <2>2. ch4.done /\ s2r.rd = BUSY
    BY <1>1, <2>1, TransmittedIs
  <2>3. s2r.frames # <<>> /\ (s2r.wr # IDLE => Len(s2r.frames) < MaxFrames)
    BY <1>1, <2>2 DEF SlotsInv
  <2>4. s2r'.frames = Tail(s2r.frames)
    BY <1>1, <2>1, <2>2, <2>3, ReadEnds
  <2>5. ~ch4'.done
    BY <1>1, <2>1 DEF RsTypes
  <2> QED BY <2>1, <2>2, <2>3, <2>4, <2>5 DEF DeliverTag, Rs!NextTag
<1>5. CASE Rs!NoDmaTxComplete
  BY <1>5 DEF Rs!NoDmaTxComplete, Rs!routerVars, DeliverTag, Rs!NextTag
<1>6. CASE Rs!RecvComplete
  <2> DEFINE f == [len |-> recvAmt, tag |-> IF ch3.got \in Rs!Tags THEN ch3.got ELSE "mixed"]
  <2>1. /\ mode = "RECV" /\ r2s' = Rs!CompleteWr(r2s, f) /\ recvAmt' = 0
        /\ UNCHANGED <<s2r, ch4, router, wantTag, inTag>>
    BY <1>6 DEF Rs!RecvComplete, Rs!routerVars
  <2>2. /\ router.phase = "idle" /\ recvAmt \in 1 .. MaxLen /\ ch3.got \in Tags /\ r2s.wr = BUSY
        /\ ch3.got = Rs!NextTag(inTag)
    BY <1>1, <2>1, ReceivedIs
  <2>3. f \in Frame /\ f.tag = Rs!NextTag(inTag)
    BY <2>2 DEF Frame, Rs!Tags, Tags
  <2> HIDE DEF f
  <2>4. r2s'.frames = Append(r2s.frames, f)
    BY <1>1, <2>1, <2>2, <2>3, WriteEnds
  <2>5. DeliverTag = Rs!NextTag(inTag) /\ DeliverTag' = inTag
    BY <2>1, <2>2 DEF DeliverTag, Rs!NextTag
  <2>6. inTag = Rs!NextTag(Rs!NextTag(inTag))
    BY <1>1, NextTagIs DEF RsTypes
  <2> QED BY <2>1, <2>3, <2>4, <2>5, <2>6
<1> QED BY <1>2, <1>3, <1>4, <1>5, <1>6 DEF Rs!Handler

LEMMA RsMainFrames ==
  ASSUME MInv, Rs!Main
  PROVE  /\ wantTag' = wantTag /\ DeliverTag' = DeliverTag /\ ch4'.done = ch4.done
         /\ s2r'.frames = s2r.frames /\ r2s'.frames = r2s.frames
<1>1. RsTypes /\ s2r \in PipeRec /\ r2s \in PipeRec
  BY DEF MInv, Types
<1>2. /\ UNCHANGED <<recvAmt, router, wantTag, inTag>>
      /\ \/ s2r' = s2r
         \/ s2r' = [s2r EXCEPT !.rd = READY]
         \/ s2r' = [s2r EXCEPT !.unresolved = FALSE]
      /\ r2s' = r2s \/ r2s' = [r2s EXCEPT !.wr = READY]
  BY RsMainIs
<1>3. s2r'.frames = s2r.frames /\ r2s'.frames = r2s.frames
  BY <1>1, <1>2 DEF PipeRec
<1>4. \/ ch4' = ch4 \/ ch4' = [ch4 EXCEPT !.on = "en" \in seen]
      \/ ch4' = [ch4 EXCEPT !.frame = handed]
  BY DEF Rs!Main, Rs!MainAt, Rs!Check, Rs!RestoreRd, Rs!NothingToSend, Rs!SetUpCh4Read, Rs!SetUpCh4Write,
     Rs!SetUpCh4, Rs!RestoreWr, Rs!NoRoomOrNotIdle, Rs!SetUpCh3Read, Rs!SetUpCh3Write, Rs!SetUpCh3,
     Rs!EnableLoad, Rs!EnableFlush, Rs!EnableStore, Rs!EnableReadCr1, Rs!EnableCmie, Rs!usartVars,
     Rs!dmaVars, Rs!routerVars
<1>5. ch4'.done = ch4.done
  <2> DEFINE e == "en" \in seen
  <2>1. ch4' = ch4 \/ ch4' = [ch4 EXCEPT !.on = e] \/ ch4' = [ch4 EXCEPT !.frame = handed]
    BY <1>4
  <2> HIDE DEF e
  <2> QED BY <1>1, <2>1 DEF RsTypes
<1> QED BY <1>2, <1>3, <1>5 DEF DeliverTag, Rs!NextTag

LEMMA RsBusFrames ==
  ASSUME MInv, RouterPoll \/ Bus
  PROVE  /\ UNCHANGED <<s2r, r2s, CommitTag, DeliverTag>>
         /\ \/ wantTag' = wantTag /\ ch4'.done = ch4.done
            \/ /\ ~ch4.done /\ ch4'.done /\ s2r.frames # <<>>
               /\ wantTag' = Rs!NextTag(Head(s2r.frames).tag)
<1>1. RsTypes /\ CycleInv
  BY DEF MInv, RsInv
<1>2. UNCHANGED <<s2r, r2s, spiOwn, recvAmt>>
  BY DEF RouterPoll, Bus, Rs!RouterPoll, Rs!TxDone, Rs!Ch4Done, Rs!RouterSends, Rs!usartVars
<1>3. UNCHANGED CommitTag
  BY <1>2, CommitTagKept
<1>4. CASE RouterPoll
  <2>1. /\ router.phase \in {"idle", "polling"} /\ router'.phase = "polling"
        /\ UNCHANGED <<ch4, wantTag, inTag>>
    BY <1>4 DEF RouterPoll, Rs!RouterPoll
  <2> QED BY <1>2, <1>3, <2>1 DEF DeliverTag, Rs!NextTag
<1>5. CASE Rs!TxDone
  <2>1. /\ router' = IF router.phase = "reading" THEN Rs!AfterReading ELSE router
        /\ UNCHANGED <<ch4, wantTag, inTag>>
    BY <1>5 DEF Rs!TxDone, Rs!dmaVars
  <2>2. router'.phase # router.phase =>
          router.phase = "reading" /\ router'.phase = IF recvAmt > 0 THEN "sending" ELSE "idle"
    BY <1>1, <2>1 DEF CycleInv, RsTypes, Rs!AfterReading
  <2>3. DeliverTag' = DeliverTag
    BY <1>2, <2>1, <2>2 DEF DeliverTag, Rs!NextTag
  <2> QED BY <1>2, <1>3, <2>1, <2>3
<1>6. CASE Rs!Ch4Done
  <2>1. /\ ~ch4.done /\ ch4' = [ch4 EXCEPT !.done = TRUE] /\ s2r.frames # <<>>
        /\ wantTag' = Rs!NextTag(Head(s2r.frames).tag) /\ inTag' = inTag
        /\ router.phase = "reading" /\ router.left = recvAmt /\ router' = Rs!AfterReading
    BY <1>6, Ch4DoneIs DEF Rs!Ch4Done
  <2>2. router'.phase = IF recvAmt > 0 THEN "sending" ELSE "idle"
    BY <1>1, <2>1 DEF RsTypes, Rs!AfterReading
  <2>3. DeliverTag' = DeliverTag
    BY <1>2, <2>1, <2>2 DEF DeliverTag
  <2>4. ch4'.done
    BY <1>1, <2>1 DEF RsTypes
  <2> QED BY <1>2, <1>3, <2>1, <2>3, <2>4
<1>7. CASE Rs!RouterSends
  <2>1. /\ router.phase = "sending" /\ recvAmt > 0 /\ UNCHANGED <<ch4, wantTag>>
    BY <1>1, <1>7, ModemAssumption DEF Rs!RouterSends, CycleInv, RsTypes
  <2>2. \/ router'.phase = "idle" /\ inTag' = Rs!NextTag(inTag)
        \/ router'.phase = "sending" /\ inTag' = inTag
    BY <1>1, <1>7 DEF Rs!RouterSends, RsTypes
  <2>3. DeliverTag = inTag
    BY <2>1 DEF DeliverTag
  <2>4. DeliverTag' = IF router'.phase = "idle" THEN Rs!NextTag(inTag') ELSE inTag'
    BY <1>2, <2>1, <2>2 DEF DeliverTag, Rs!NextTag
  <2>5. Rs!NextTag(Rs!NextTag(inTag)) = inTag
    BY <1>1, NextTagIs DEF RsTypes
  <2> QED BY <1>2, <1>3, <2>1, <2>2, <2>3, <2>4, <2>5
<1> QED BY <1>4, <1>5, <1>6, <1>7 DEF Bus

\* What exti_isr does to the frames, and the tag of the one it commits.
LEMMA ExtiLongFrames ==
  ASSUME MInv, Spi!ExtiLong
  PROVE  /\ \/ s2r'.frames = s2r.frames /\ CommitTag' = CommitTag
            \/ \E f \in Frame : /\ f.tag = CommitTag /\ s2r'.frames = Append(s2r.frames, f)
                                /\ CommitTag' = Rs!NextTag(CommitTag)
         /\ \/ r2s'.frames = r2s.frames
            \/ r2s.frames # <<>> /\ r2s'.frames = Tail(r2s.frames)
<1>1. /\ ~panicked /\ extiPend /\ extiPend' = FALSE /\ UNCHANGED master
      /\ s2r' = Spi!CompleteWr(s2r, Spi!ReceivedFrame) /\ r2s' = Spi!CompleteRd(r2s)
  BY DEF Spi!ExtiLong
<1>2. /\ s2r \in PipeRec /\ r2s \in PipeRec /\ SlotsInv
      /\ master.phase = "idle" /\ master.tag \in Tags
      /\ s2r.wr = BUSY <=> "rxrdy" \in master.saw
  BY <1>1 DEF MInv, Types, SpiInv, PhaseInv, PinInv, SpiTypes
<1>3. \/ s2r'.frames = s2r.frames /\ CommitTag' = CommitTag
      \/ \E f \in Frame : /\ f.tag = CommitTag /\ s2r'.frames = Append(s2r.frames, f)
                          /\ CommitTag' = Rs!NextTag(CommitTag)
  <2>1. CASE s2r.wr # BUSY
    <3>1. s2r' = s2r
      BY <1>1, <2>1 DEF Spi!CompleteWr
    <3>2. CommitTag' = CommitTag
      BY <1>1, <1>2, <2>1 DEF CommitTag, Spi!NextTag
    <3> QED BY <3>1, <3>2
  <2>2. CASE s2r.wr = BUSY
    <3> DEFINE f == Spi!ReceivedFrame
    <3>1. /\ f = [len |-> AtMost(master.sent, MaxLen), tag |-> master.tag]
          /\ AtMost(master.sent, MaxLen) \in Lens
      BY <1>1, <2>2, CommitFacts
    <3> HIDE DEF f
    <3>2. f \in Frame /\ f.tag = master.tag
      BY <1>2, <3>1, LensAre DEF Frame
    <3>3. s2r'.frames = Append(s2r.frames, f)
      <4>1. Spi!CompleteWr(s2r, f) = Rs!CompleteWr(s2r, f)
            /\ Rs!CompleteWr(s2r, f).frames = Append(s2r.frames, f)
        BY <1>2, <2>2, <3>2, WriteEnds
      <4> QED BY <1>1, <4>1 DEF f
    <3>4. CommitTag = master.tag /\ CommitTag' = Rs!NextTag(CommitTag)
      BY <1>1, <1>2, <2>2, NextTagIs DEF CommitTag
    <3> QED BY <3>2, <3>3, <3>4
  <2> QED BY <2>1, <2>2
<1>4. \/ r2s'.frames = r2s.frames
      \/ r2s.frames # <<>> /\ r2s'.frames = Tail(r2s.frames)
  <2>1. CASE r2s.rd # BUSY
    BY <1>1, <2>1 DEF Spi!CompleteRd
  <2>2. CASE r2s.rd = BUSY
    <3>1. r2s.frames # <<>> /\ (r2s.wr # IDLE => Len(r2s.frames) < MaxFrames)
      BY <1>2, <2>2 DEF SlotsInv
    <3> QED BY <1>1, <1>2, <2>2, <3>1, ReadEnds
  <2> QED BY <2>1, <2>2
<1> QED BY <1>3, <1>4

LEMMA SpiFrames ==
  ASSUME MInv, (Spi!Handler \/ Spi!Serve) /\ UNCHANGED rsOwn
  PROVE  /\ UNCHANGED <<wantTag, DeliverTag, ch4>>
         /\ \/ s2r'.frames = s2r.frames /\ CommitTag' = CommitTag
            \/ \E f \in Frame : /\ f.tag = CommitTag /\ s2r'.frames = Append(s2r.frames, f)
                                /\ CommitTag' = Rs!NextTag(CommitTag)
         /\ \/ r2s'.frames = r2s.frames
            \/ r2s.frames # <<>> /\ r2s'.frames = Tail(r2s.frames)
<1>1. UNCHANGED <<wantTag, DeliverTag, ch4>>
  BY DEF rsOwn, DeliverTag, Rs!NextTag
<1>2. s2r \in PipeRec /\ r2s \in PipeRec
  BY DEF MInv, Types
<1>3. UNCHANGED <<master, extiPend>> => UNCHANGED CommitTag
  BY DEF CommitTag, Spi!NextTag
<1>4. CASE Spi!Serve
  <2>1. /\ UNCHANGED <<master, extiPend>>
        /\ s2r' = s2r \/ s2r' = [s2r EXCEPT !.wr = READY]
        /\ \/ r2s' = r2s
           \/ r2s' = [r2s EXCEPT !.rd = READY]
           \/ r2s' = [r2s EXCEPT !.unresolved = FALSE]
    BY <1>4, ServeIs
  <2>2. s2r'.frames = s2r.frames /\ r2s'.frames = r2s.frames
    BY <1>2, <2>1 DEF PipeRec
  <2> QED BY <1>1, <1>3, <2>1, <2>2
<1>5. CASE Spi!Handler
  <2>1. ~Spi!ExtiSpurious /\ ~Spi!ExtiShort /\ \A kind \in Spi!AllKinds : ~Spi!ShortBegins(kind)
    <3>1. ASSUME NEW kind \in Spi!AllKinds, Spi!ShortBegins(kind)
          PROVE  FALSE
      BY <3>1, OnlyLong DEF Spi!ShortBegins, Spi!SpiIrq
    <3> QED BY <3>1, OnlyLong DEF Spi!ExtiSpurious, Spi!ExtiShort
  <2>2. CASE Spi!NotIdle
    BY <1>1, <1>3, <2>2 DEF Spi!NotIdle
  <2>3. CASE Spi!LongBegins
    <3>1. UNCHANGED <<master, extiPend>> /\ r2s' = Spi!PrepRd(r2s) /\ s2r' = Spi!PrepWr(s2r)
      BY <2>3 DEF Spi!LongBegins
    <3>2. s2r'.frames = s2r.frames /\ r2s'.frames = r2s.frames
      BY <1>2, <3>1 DEF PipeRec, Spi!PrepRd, Spi!PrepWr
    <3> QED BY <1>1, <1>3, <3>1, <3>2
  <2>4. CASE Spi!ExtiLong
    BY <1>1, <2>4, ExtiLongFrames
  <2> QED BY <1>5, <2>1, <2>2, <2>3, <2>4 DEF Spi!Handler
<1> QED BY <1>4, <1>5

\* The two directions, of what a step does to the frames.
LEMMA OutboundKept ==
  ASSUME OutboundEndToEnd, s2r.frames \in Seq(Frame), ch4.done => s2r.frames # <<>>,
         \/ UNCHANGED <<wantTag, CommitTag>> /\ s2r'.frames = s2r.frames /\ ch4'.done = ch4.done
         \/ /\ UNCHANGED <<wantTag, CommitTag>>
            /\ ch4.done /\ ~ch4'.done /\ s2r'.frames = Tail(s2r.frames)
         \/ /\ s2r'.frames = s2r.frames /\ CommitTag' = CommitTag
            /\ ~ch4.done /\ ch4'.done /\ s2r.frames # <<>>
            /\ wantTag' = Rs!NextTag(Head(s2r.frames).tag)
         \/ /\ wantTag' = wantTag /\ ch4' = ch4
            /\ \E f \in Frame : /\ f.tag = CommitTag /\ s2r'.frames = Append(s2r.frames, f)
                                /\ CommitTag' = Rs!NextTag(CommitTag)
  PROVE  OutboundEndToEnd'
<1> DEFINE fs == IF ch4.done THEN Tail(s2r.frames) ELSE s2r.frames
<1>1. fs \in Seq(Frame) /\ Alternate(fs, wantTag, CommitTag)
  BY DEF OutboundEndToEnd
<1>2. ASSUME NEW gs, NEW first, NEW next, Alternate(gs, first, next),
             (IF ch4'.done THEN Tail(s2r'.frames) ELSE s2r'.frames) = gs,
             wantTag' = first, CommitTag' = next
      PROVE  OutboundEndToEnd'
  BY <1>2 DEF OutboundEndToEnd, Alternate, Rs!NextTag
<1>3. CASE UNCHANGED <<wantTag, CommitTag>> /\ s2r'.frames = s2r.frames /\ ch4'.done = ch4.done
  BY <1>1, <1>2, <1>3
<1>4. CASE /\ UNCHANGED <<wantTag, CommitTag>>
           /\ ch4.done /\ ~ch4'.done /\ s2r'.frames = Tail(s2r.frames)
  BY <1>1, <1>2, <1>4
<1>5. CASE /\ s2r'.frames = s2r.frames /\ CommitTag' = CommitTag
           /\ ~ch4.done /\ ch4'.done /\ s2r.frames # <<>>
           /\ wantTag' = Rs!NextTag(Head(s2r.frames).tag)
  <2>1. Alternate(Tail(s2r.frames), Rs!NextTag(Head(s2r.frames).tag), CommitTag)
    BY <1>1, <1>5, AlternateTail
  <2> QED BY <1>2, <1>5, <2>1
<1>6. ASSUME wantTag' = wantTag, ch4' = ch4,
             NEW f \in Frame, f.tag = CommitTag, s2r'.frames = Append(s2r.frames, f),
             CommitTag' = Rs!NextTag(CommitTag)
      PROVE  OutboundEndToEnd'
  <2>1. Alternate(Append(fs, f), wantTag, CommitTag')
    BY <1>1, <1>6, AlternateAppend
  <2>2. (IF ch4'.done THEN Tail(s2r'.frames) ELSE s2r'.frames) = Append(fs, f)
    <3>1. s2r.frames # <<>> => Tail(Append(s2r.frames, f)) = Append(Tail(s2r.frames), f)
      OBVIOUS
    <3> QED BY <1>6, <3>1
  <2> QED BY <1>2, <1>6, <2>1, <2>2
<1> QED BY <1>3, <1>4, <1>5, <1>6

LEMMA InboundKept ==
  ASSUME InboundEndToEnd, r2s.frames \in Seq(Frame),
         \/ r2s'.frames = r2s.frames /\ DeliverTag' = DeliverTag
         \/ r2s.frames # <<>> /\ r2s'.frames = Tail(r2s.frames) /\ DeliverTag' = DeliverTag
         \/ \E f \in Frame : /\ f.tag = DeliverTag /\ r2s'.frames = Append(r2s.frames, f)
                             /\ DeliverTag' = Rs!NextTag(DeliverTag)
  PROVE  InboundEndToEnd'
<1> DEFINE fs == r2s.frames
           first == IF fs = <<>> THEN DeliverTag ELSE Head(fs).tag
<1>1. fs \in Seq(Frame) /\ Alternate(fs, first, DeliverTag)
  BY DEF InboundEndToEnd
<1>2. ASSUME NEW gs, NEW g, NEW next, Alternate(gs, g, next), r2s'.frames = gs, DeliverTag' = next,
             g = IF gs = <<>> THEN next ELSE Head(gs).tag
      PROVE  InboundEndToEnd'
  BY <1>2 DEF InboundEndToEnd, Alternate, Rs!NextTag
<1>3. CASE r2s'.frames = r2s.frames /\ DeliverTag' = DeliverTag
  BY <1>1, <1>2, <1>3
<1>4. CASE r2s.frames # <<>> /\ r2s'.frames = Tail(r2s.frames) /\ DeliverTag' = DeliverTag
  <2> DEFINE gs == Tail(fs)
             g  == Rs!NextTag(Head(fs).tag)
  <2>1. Alternate(gs, g, DeliverTag)
    BY <1>1, <1>4, AlternateTail
  <2>2. g = IF gs = <<>> THEN DeliverTag ELSE Head(gs).tag
    <3>0. gs \in Seq(Frame)
      BY <1>1, <1>4
    <3> HIDE DEF gs, g
    <3>1. gs # <<>> => Len(gs) \in Nat \ {0} /\ Head(gs) = gs[1]
      BY <3>0
    <3>2. CASE gs = <<>>
      BY <2>1, <3>2 DEF Alternate
    <3>3. CASE gs # <<>>
      <4>1. 1 \in 1 .. Len(gs)
        BY <3>1, <3>3
      <4> QED BY <2>1, <3>1, <3>3, <4>1 DEF Alternate
    <3> QED BY <3>2, <3>3
  <2> QED BY <1>2, <1>4, <2>1, <2>2
<1>5. ASSUME NEW f \in Frame, f.tag = DeliverTag, r2s'.frames = Append(r2s.frames, f),
             DeliverTag' = Rs!NextTag(DeliverTag)
      PROVE  InboundEndToEnd'
  <2> DEFINE gs == Append(fs, f)
  <2>1. Alternate(gs, first, DeliverTag')
    BY <1>1, <1>5, AlternateAppend
  <2>2. gs # <<>> /\ Head(gs) = IF fs = <<>> THEN f ELSE Head(fs)
    <3>1. /\ gs \in Seq(Frame) /\ Len(gs) = Len(fs) + 1 /\ Len(fs) \in Nat
          /\ gs[1] = IF Len(fs) = 0 THEN f ELSE fs[1]
      BY <1>1
    <3>2. (fs = <<>>) <=> (Len(fs) = 0)
      BY <1>1
    <3>3. gs # <<>>
      BY <1>1, <3>1
    <3> HIDE DEF gs
    <3>4. Head(gs) = gs[1]
      BY <3>1, <3>3
    <3>5. fs # <<>> => Head(fs) = fs[1]
      BY <1>1
    <3> QED BY <3>1, <3>2, <3>3, <3>4, <3>5
  <2>3. first = IF gs = <<>> THEN DeliverTag' ELSE Head(gs).tag
    BY <1>5, <2>2
  <2> QED BY <1>2, <1>5, <2>1, <2>3
<1> QED BY <1>3, <1>4, <1>5

LEMMA EndToEndKept ==
  ASSUME MInv, EndToEnd, [Next /\ ~RsAlone!Overlap']_vars
  PROVE  EndToEnd'
<1>1. /\ s2r.frames \in Seq(Frame) /\ r2s.frames \in Seq(Frame)
      /\ OutboundEndToEnd /\ InboundEndToEnd
  BY DEF MInv, Types, PipeRec, EndToEnd
<1>2. ch4.done => s2r.frames # <<>>
  BY PortFacts DEF MInv, RsInv, RsTypes, Rs!Modes, Between
<1>3. CASE Rs!Handler /\ UNCHANGED spiOwn
  <2>1. CommitTag' = CommitTag
    BY <1>3, CommitTagKept
  <2> QED BY <1>1, <1>2, <1>3, <2>1, RsHandlerFrames, OutboundKept, InboundKept DEF EndToEnd
<1>4. CASE Rs!Main /\ UNCHANGED spiOwn
  <2>1. CommitTag' = CommitTag
    BY <1>4, CommitTagKept
  <2> QED BY <1>1, <1>2, <1>4, <2>1, RsMainFrames, OutboundKept, InboundKept DEF EndToEnd
<1>5. CASE RouterPoll \/ Bus
  BY <1>1, <1>2, <1>5, RsBusFrames, OutboundKept, InboundKept DEF EndToEnd
<1>6. CASE (Spi!Handler \/ Spi!Serve) /\ UNCHANGED rsOwn
  BY <1>1, <1>2, <1>6, SpiFrames, OutboundKept, InboundKept DEF EndToEnd
<1>7. CASE Begins \/ Clocks
  <2>1. UNCHANGED <<s2r, r2s, rsOwn>>
    BY <1>7 DEF Begins, Clocks, Spi!Begins, Spi!MasterBegins, Spi!MasterClocks, Spi!MasterEnds
  <2>2. CommitTag' = CommitTag
    BY <1>7, RsSeesMaster DEF RsAlone!vars, RsAlone!routerVars
  <2>3. UNCHANGED <<wantTag, ch4, DeliverTag>>
    BY <2>1 DEF rsOwn, DeliverTag, Rs!NextTag
  <2> QED BY <1>1, <1>2, <2>1, <2>2, <2>3, OutboundKept, InboundKept DEF EndToEnd
<1>8. CASE UNCHANGED vars
  <2>1. UNCHANGED <<s2r, r2s, wantTag, ch4, DeliverTag, CommitTag>>
    BY <1>8 DEF vars, rsOwn, spiOwn, DeliverTag, CommitTag, Rs!NextTag, Spi!NextTag
  <2> QED BY <1>1, <1>2, <2>1, OutboundKept, InboundKept DEF EndToEnd
<1> QED BY <1>3, <1>4, <1>5, <1>6, <1>7, <1>8
        DEF Next, Handler, Exti, Spi1, Dma, Usart1, Main

\* EndToEnd: frames cross the modem in both directions once, in order and unmixed,
\* as long as no cycle overlaps main's re-arming.
THEOREM ModemEndToEnd ==
  ASSUME 0 \notin TxCaps
  PROVE  Undisturbed => []EndToEnd
<1>1. Init => EndToEnd
  <2> SUFFICES ASSUME Init PROVE EndToEnd
    OBVIOUS
  <2>1. /\ s2r.frames = <<>> /\ r2s.frames = <<>> /\ ~ch4.done
        /\ wantTag = "a" /\ CommitTag = "a"
    BY DEF Init, Rs!Init, Spi!Init, Rs!PipesInit, Rs!EmptyPipe, CommitTag, Spi!NextTag, Tags
  <2> QED BY <2>1 DEF EndToEnd, OutboundEndToEnd, InboundEndToEnd, Alternate
<1> QED BY <1>1, EndToEndKept, ModemInvariant, PTL DEF Undisturbed


-----------------------------------------------------------------------------
(* The same of the SPI port.                                                *)

\* The SPI side's functions, with the slot of the RS-485 side hidden ...
LEMMA SpiHidesS2r ==
  ASSUME s2r \in PipeRec
  PROVE  /\ SpiS2r.frames = s2r.frames /\ SpiS2r.wr = s2r.wr /\ SpiS2r.unresolved = s2r.unresolved
         /\ SpiS2r.rd = IDLE
         /\ [Spi!PrepWr(s2r) EXCEPT !.rd = IDLE] = SpiAlone!PrepWr(SpiS2r)
         /\ \A f : [Spi!CompleteWr(s2r, f) EXCEPT !.rd = IDLE] = SpiAlone!CompleteWr(SpiS2r, f)
         /\ [Spi!ServiceWr(s2r) EXCEPT !.rd = IDLE] = SpiAlone!ServiceWr(SpiS2r)
         /\ SpiAlone!CanGrantWr(SpiS2r) <=> Spi!CanGrantWr(s2r)
         /\ SpiAlone!MayRefuseWr(SpiS2r) <=> Spi!MayRefuseWr(s2r)
<1> USE DEF PipeRec, SpiS2r
<1>1. [Spi!PrepWr(s2r) EXCEPT !.rd = IDLE] = SpiAlone!PrepWr(SpiS2r)
  BY DEF Spi!PrepWr, SpiAlone!PrepWr
<1>2. ASSUME NEW f
      PROVE  [Spi!CompleteWr(s2r, f) EXCEPT !.rd = IDLE] = SpiAlone!CompleteWr(SpiS2r, f)
  BY DEF Spi!CompleteWr, SpiAlone!CompleteWr
<1>3. [Spi!ServiceWr(s2r) EXCEPT !.rd = IDLE] = SpiAlone!ServiceWr(SpiS2r)
  BY DEF Spi!ServiceWr, SpiAlone!ServiceWr
<1>4. /\ SpiAlone!CanGrantWr(SpiS2r) <=> Spi!CanGrantWr(s2r)
      /\ SpiAlone!MayRefuseWr(SpiS2r) <=> Spi!MayRefuseWr(s2r)
  BY DEF Spi!CanGrantWr, SpiAlone!CanGrantWr, Spi!MayRefuseWr, SpiAlone!MayRefuseWr
<1>5. /\ SpiS2r.frames = s2r.frames /\ SpiS2r.wr = s2r.wr /\ SpiS2r.unresolved = s2r.unresolved
      /\ SpiS2r.rd = IDLE
  OBVIOUS
<1> QED BY <1>1, <1>2, <1>3, <1>4, <1>5

\* ... in the other pipe with the wrap that only its writer minds.
HiddenR2s(p) == [p EXCEPT !.wr = IDLE, !.unresolved = FALSE]

LEMMA SpiHidesR2s ==
  ASSUME r2s \in PipeRec
  PROVE  /\ SpiR2s.frames = r2s.frames /\ SpiR2s.rd = r2s.rd
         /\ SpiR2s = HiddenR2s(r2s)
         /\ HiddenR2s(Spi!PrepRd(r2s)) = SpiAlone!PrepRd(SpiR2s)
         /\ HiddenR2s(Spi!CompleteRd(r2s)) = SpiAlone!CompleteRd(SpiR2s)
         /\ HiddenR2s(Spi!ServiceRd(r2s)) = SpiAlone!ServiceRd(SpiR2s)
         /\ HiddenR2s(Spi!ServiceRdNone(r2s)) = SpiR2s
         /\ SpiAlone!ServiceRdNone(SpiR2s) = SpiR2s
         /\ SpiAlone!CanGrantRd(SpiR2s) <=> Spi!CanGrantRd(r2s)
         /\ SpiAlone!FindsNone(SpiR2s) <=> Spi!FindsNone(r2s)
<1> USE DEF PipeRec, SpiR2s, HiddenR2s
<1>1. HiddenR2s(Spi!PrepRd(r2s)) = SpiAlone!PrepRd(SpiR2s)
  BY DEF Spi!PrepRd, SpiAlone!PrepRd
<1>2. HiddenR2s(Spi!CompleteRd(r2s)) = SpiAlone!CompleteRd(SpiR2s)
  BY DEF Spi!CompleteRd, SpiAlone!CompleteRd
<1>3. HiddenR2s(Spi!ServiceRd(r2s)) = SpiAlone!ServiceRd(SpiR2s)
  BY DEF Spi!ServiceRd, SpiAlone!ServiceRd
<1>4. /\ HiddenR2s(Spi!ServiceRdNone(r2s)) = SpiR2s
      /\ SpiAlone!ServiceRdNone(SpiR2s) = SpiR2s
  BY DEF Spi!ServiceRdNone, SpiAlone!ServiceRdNone
<1>5. /\ SpiAlone!CanGrantRd(SpiR2s) <=> Spi!CanGrantRd(r2s)
      /\ SpiAlone!FindsNone(SpiR2s) <=> Spi!FindsNone(r2s)
  BY DEF Spi!CanGrantRd, SpiAlone!CanGrantRd, Spi!FindsNone, SpiAlone!FindsNone
<1>6. SpiR2s.frames = r2s.frames /\ SpiR2s.rd = r2s.rd /\ SpiR2s = HiddenR2s(r2s)
  OBVIOUS
<1> QED BY <1>1, <1>2, <1>3, <1>4, <1>5, <1>6

\* What the other port does only to its own slots and to main between two SPI halves.
LEMMA SpiBlind ==
  /\ UNCHANGED s2r => UNCHANGED SpiS2r
  /\ UNCHANGED r2s => UNCHANGED SpiR2s
  /\ UNCHANGED <<pc, seen>> => UNCHANGED SpiPc /\ UNCHANGED SpiSeen
  /\ UNCHANGED rsOwn => UNCHANGED DeliverTag
  /\ SpiS2r' = [s2r' EXCEPT !.rd = IDLE]
  /\ SpiR2s' = HiddenR2s(r2s')
BY DEF SpiS2r, SpiR2s, HiddenR2s, SpiPc, SpiSeen, rsOwn, DeliverTag, Rs!NextTag

\* Where main is, as the port sees it.
LEMMA SpiSees ==
  /\ pc \in SpiSteps => SpiPc = pc /\ SpiSeen = seen
  /\ pc \in RsSteps => SpiPc = "spiWr" /\ SpiSeen = {}
  /\ pc \in {"check"} \cup EnSteps => SpiPc = "check" /\ SpiSeen = {}
BY DEF SpiPc, SpiSeen, SpiSteps, RsSteps, EnSteps, Spi!Steps

LEMMA SpiSeesNext ==
  /\ pc' \in SpiSteps => SpiPc' = pc' /\ SpiSeen' = seen'
  /\ pc' \in RsSteps => SpiPc' = "spiWr" /\ SpiSeen' = {}
  /\ pc' \in {"check"} \cup EnSteps => SpiPc' = "check" /\ SpiSeen' = {}
BY DEF SpiPc, SpiSeen, SpiSteps, RsSteps, EnSteps, Spi!Steps

LEMMA SpiHandlerMaps ==
  ASSUME MInv, Spi!Handler, UNCHANGED rsOwn
  PROVE  SpiAlone!Handler
<1>1. s2r \in PipeRec /\ r2s \in PipeRec /\ DeliverTag' = DeliverTag
  BY SpiBlind DEF MInv, Types
<1>2. UNCHANGED loopVars /\ UNCHANGED seen
  BY DEF Spi!Handler, Spi!ExtiSpurious, Spi!ExtiShort, Spi!ExtiLong, Spi!NotIdle, Spi!LongBegins,
     Spi!ShortBegins, Spi!loopVars, loopVars
<1>3. UNCHANGED <<SpiPc, SpiSeen, didRestoreSpi>>
  BY <1>2, SpiBlind DEF loopVars
<1>4. SpiAlone!TakenFor = Spi!TakenFor /\ SpiAlone!RestOfFifo = Spi!RestOfFifo
  BY DEF Spi!TakenFor, SpiAlone!TakenFor, Spi!RestOfFifo, SpiAlone!RestOfFifo, Spi!AllKinds,
     SpiAlone!AllKinds
<1> USE <1>1, <1>3, <1>4, SpiBlind
<1> USE DEF Spi!loopVars, SpiAlone!loopVars, Spi!intVars, SpiAlone!intVars, Spi!dmaVars, SpiAlone!dmaVars,
            Spi!SpiIrq, SpiAlone!SpiIrq
<1>5. ASSUME Spi!ExtiSpurious PROVE SpiAlone!ExtiSpurious
  BY <1>5 DEF Spi!ExtiSpurious, SpiAlone!ExtiSpurious
<1>6. ASSUME Spi!ExtiShort PROVE SpiAlone!ExtiShort
  BY <1>6 DEF Spi!ExtiShort, SpiAlone!ExtiShort
<1>7. ASSUME Spi!NotIdle PROVE SpiAlone!NotIdle
  BY <1>7 DEF Spi!NotIdle, SpiAlone!NotIdle
<1>8. ASSUME NEW kind \in Spi!AllKinds, Spi!ShortBegins(kind)
      PROVE  kind \in SpiAlone!AllKinds /\ SpiAlone!ShortBegins(kind)
  BY <1>8 DEF Spi!ShortBegins, SpiAlone!ShortBegins, Spi!AllKinds, SpiAlone!AllKinds
<1>9. ASSUME Spi!ExtiLong PROVE SpiAlone!ExtiLong
  <2>1. SpiAlone!ReceivedFrame = Spi!ReceivedFrame
    BY DEF Spi!ReceivedFrame, SpiAlone!ReceivedFrame
  <2>2. /\ SpiS2r' = SpiAlone!CompleteWr(SpiS2r, SpiAlone!ReceivedFrame)
        /\ SpiR2s' = SpiAlone!CompleteRd(SpiR2s)
    BY <1>9, <2>1, SpiHidesS2r, SpiHidesR2s DEF Spi!ExtiLong
  <2> QED BY <1>9, <2>2, SpiHidesS2r, SpiHidesR2s DEF Spi!ExtiLong, SpiAlone!ExtiLong
<1>10. ASSUME Spi!LongBegins PROVE SpiAlone!LongBegins
  <2>1. SpiS2r' = SpiAlone!PrepWr(SpiS2r) /\ SpiR2s' = SpiAlone!PrepRd(SpiR2s)
    BY <1>10, SpiHidesS2r, SpiHidesR2s DEF Spi!LongBegins
  <2>2. SpiR2s.rd = r2s.rd /\ SpiR2s.frames = r2s.frames /\ SpiS2r.wr = s2r.wr
    BY SpiHidesS2r, SpiHidesR2s
  <2>3. /\ \A x, y : SpiAlone!PinsAfter(x, y) = Spi!PinsAfter(x, y)
        /\ \A fs : SpiAlone!Started(fs) = Spi!Started(fs)
    BY DEF Spi!PinsAfter, SpiAlone!PinsAfter, Spi!Started, SpiAlone!Started, Spi!AllOf, SpiAlone!AllOf
  <2> QED BY <1>10, <2>1, <2>2, <2>3 DEF Spi!LongBegins, SpiAlone!LongBegins
<1> QED BY <1>5, <1>6, <1>7, <1>8, <1>9, <1>10 DEF Spi!Handler, SpiAlone!Handler

LEMMA SpiServeMaps ==
  ASSUME MInv, Spi!Serve, UNCHANGED rsOwn
  PROVE  SpiAlone!Main
<1>1. s2r \in PipeRec /\ r2s \in PipeRec /\ DeliverTag' = DeliverTag
  BY SpiBlind DEF MInv, Types
<1>2. /\ ~panicked /\ ~spiPend /\ ~extiPend /\ pc \in SpiSteps
      /\ SpiPc = pc /\ SpiSeen = seen
  BY ServeIs, SpiSees
<1>3. \A x : /\ Spi!AfterRd(x) = IF x THEN "unmask" ELSE AfterUnmask(didRestoreRs485)
             /\ SpiAlone!AfterRd(x) = IF x THEN "unmask" ELSE "check"
  BY DEF Spi!AfterRd, SpiAlone!AfterRd, Spi!AfterSpi, SpiAlone!AfterSpi, Spi!AfterUnmask,
     SpiAlone!AfterUnmask, AfterUnmask
<1>4. AfterUnmask(didRestoreRs485) \in {"check"} \cup EnSteps
  BY DEF AfterUnmask, EnSteps
<1>5. pc \notin ModifySteps => seen = {}
  BY DEF MInv, SeenInv
<1>6. \A s \in Spi!Steps \ {"check"} : s \in SpiSteps
  BY DEF SpiSteps
<1> USE <1>1, <1>2, SpiBlind, SpiSeesNext
<1> USE DEF Spi!MainAt, SpiAlone!MainAt, Spi!Goto, SpiAlone!Goto, Spi!intVars, SpiAlone!intVars,
            Spi!dmaVars, SpiAlone!dmaVars, Spi!Steps
<1>7. ASSUME Spi!ReadPins PROVE SpiAlone!ReadPins
  BY <1>6, <1>7 DEF Spi!ReadPins, SpiAlone!ReadPins
<1>8. ASSUME Spi!RestoreWr PROVE SpiAlone!RestoreWr
  BY <1>6, <1>8, SpiHidesS2r DEF Spi!RestoreWr, SpiAlone!RestoreWr
<1>9. ASSUME Spi!NoRoomOrNotIdle PROVE SpiAlone!NoRoomOrNotIdle
  BY <1>6, <1>9, SpiHidesS2r DEF Spi!NoRoomOrNotIdle, SpiAlone!NoRoomOrNotIdle
<1>10. ASSUME Spi!SetUpCh1Read PROVE SpiAlone!SetUpCh1Read
  BY <1>6, <1>10 DEF Spi!SetUpCh1Read, SpiAlone!SetUpCh1Read
<1>11. ASSUME Spi!SetUpCh1Write PROVE SpiAlone!SetUpCh1Write
  BY <1>6, <1>11 DEF Spi!SetUpCh1Write, SpiAlone!SetUpCh1Write
<1>12. ASSUME Spi!SetUpCh1 PROVE SpiAlone!SetUpCh1
  BY <1>6, <1>12, SpiHidesS2r DEF Spi!SetUpCh1, SpiAlone!SetUpCh1
<1>13. ASSUME Spi!SetRxrdy PROVE SpiAlone!SetRxrdy
  BY <1>6, <1>13 DEF Spi!SetRxrdy, SpiAlone!SetRxrdy
<1>14. ASSUME Spi!RestoreRd PROVE SpiAlone!RestoreRd
  BY <1>6, <1>14, SpiHidesR2s DEF Spi!RestoreRd, SpiAlone!RestoreRd
<1>15. ASSUME Spi!NothingToSend PROVE SpiAlone!NothingToSend
  <2>1. /\ pc = "spiRd" /\ ~SpiAlone!CanGrantRd(SpiR2s) /\ pc' = Spi!AfterRd(didRestoreSpi)
        /\ UNCHANGED <<s2r, didRestoreSpi, panicked, Spi!intVars, Spi!dmaVars, pins, seen, master>>
    BY <1>15, SpiHidesR2s DEF Spi!NothingToSend
  <2>2. SpiPc' = SpiAlone!AfterRd(didRestoreSpi) /\ SpiSeen' = SpiSeen
    BY <1>3, <1>4, <1>5, <1>6, <2>1 DEF ModifySteps
  <2>3. SpiR2s' = SpiR2s
    BY <1>15, SpiHidesR2s DEF Spi!NothingToSend
  <2>4. SpiR2s' = IF SpiAlone!FindsNone(SpiR2s) THEN SpiAlone!ServiceRdNone(SpiR2s) ELSE SpiR2s
    BY <2>3, SpiHidesR2s
  <2> QED BY <2>1, <2>2, <2>4 DEF SpiAlone!NothingToSend
<1>16. ASSUME Spi!SetUpCh2Read PROVE SpiAlone!SetUpCh2Read
  BY <1>6, <1>16 DEF Spi!SetUpCh2Read, SpiAlone!SetUpCh2Read
<1>17. ASSUME Spi!SetUpCh2Write PROVE SpiAlone!SetUpCh2Write
  BY <1>6, <1>17 DEF Spi!SetUpCh2Write, SpiAlone!SetUpCh2Write
<1>18. ASSUME Spi!SetUpCh2 PROVE SpiAlone!SetUpCh2
  BY <1>6, <1>18, SpiHidesR2s DEF Spi!SetUpCh2, SpiAlone!SetUpCh2
<1>19. ASSUME Spi!SetTxrdy PROVE SpiAlone!SetTxrdy
  BY <1>6, <1>19 DEF Spi!SetTxrdy, SpiAlone!SetTxrdy
<1>20. ASSUME Spi!ReadCr2 PROVE SpiAlone!ReadCr2
  BY <1>6, <1>20 DEF Spi!ReadCr2, SpiAlone!ReadCr2
<1>21. ASSUME Spi!Unmask PROVE SpiAlone!Unmask
  <2>1. SpiPc' = "check" /\ SpiSeen' = {}
    BY <1>4, <1>21 DEF Spi!Unmask, Spi!AfterUnmask, AfterUnmask
  <2>2. SpiAlone!AfterUnmask(FALSE) = "check"
    BY DEF SpiAlone!AfterUnmask
  <2> QED BY <1>21, <2>1, <2>2 DEF Spi!Unmask, SpiAlone!Unmask
<1>22. SpiAlone!Serve
  BY <1>7, <1>8, <1>9, <1>10, <1>11, <1>12, <1>13, <1>14, <1>15, <1>16, <1>17, <1>18, <1>19, <1>20, <1>21
     DEF Spi!Serve, SpiAlone!Serve
<1> QED BY <1>22 DEF SpiAlone!Main

LEMMA SpiMasterMaps ==
  ASSUME MInv, Begins \/ Clocks
  PROVE  SpiAlone!Begins \/ SpiAlone!MasterClocks \/ SpiAlone!MasterEnds
<1>1. UNCHANGED <<s2r, r2s, pc, seen, didRestoreSpi, rsOwn, panicked>>
  BY DEF Begins, Spi!Begins, Spi!MasterBegins, Clocks, Spi!MasterClocks, Spi!MasterEnds, Spi!loopVars
<1>2. UNCHANGED <<SpiS2r, SpiR2s, SpiPc, SpiSeen, DeliverTag>>
  BY <1>1, SpiBlind
<1>3. \A b : SpiAlone!Arrives(b) <=> Spi!Arrives(b)
  BY DEF Spi!Arrives, SpiAlone!Arrives, Spi!DmaTakes, SpiAlone!DmaTakes
<1>4. \A t : SpiAlone!NextTag(t) = Spi!NextTag(t)
  BY DEF Spi!NextTag, SpiAlone!NextTag
<1> USE <1>1, <1>2, <1>3, <1>4
<1> USE DEF Spi!loopVars, SpiAlone!loopVars, Spi!intVars, SpiAlone!intVars, Spi!dmaVars, SpiAlone!dmaVars
<1>5. ASSUME Begins PROVE SpiAlone!Begins
  <2>1. PICK n \in Clocked : Spi!MasterBegins("LONG", n)
    BY <1>5 DEF Begins, Spi!Begins
  <2>2. SpiAlone!MasterBegins("LONG", n)
    BY <1>5, <2>1 DEF Begins, Spi!MasterBegins, SpiAlone!MasterBegins
  <2> QED BY <2>2 DEF SpiAlone!Begins
<1>6. ASSUME Spi!MasterClocks PROVE SpiAlone!MasterClocks
  BY <1>6 DEF Spi!MasterClocks, SpiAlone!MasterClocks
<1>7. ASSUME Spi!MasterEnds PROVE SpiAlone!MasterEnds
  BY <1>7 DEF Spi!MasterEnds, SpiAlone!MasterEnds
<1> QED BY <1>5, <1>6, <1>7 DEF Clocks

-----------------------------------------------------------------------------
(* The steps of the RS-485 port are those of the environment the module of  *)
(* the SPI port assumes, or it does not see them.                           *)

\* What it takes is a step of that environment ...
LEMMA SpiSeesTaken ==
  ASSUME MInv, UNCHANGED spiOwn, ~panicked,
         UNCHANGED <<SpiPc, SpiSeen, didRestoreSpi, panicked, SpiR2s, DeliverTag>>,
         s2r' \in PipeRec, s2r'.wr = s2r.wr,
         \/ s2r'.frames = s2r.frames /\ s2r'.unresolved = s2r.unresolved
         \/ s2r.frames = <<>> /\ s2r'.frames = <<>> /\ s2r'.unresolved = FALSE
         \/ s2r.frames # <<>> /\ s2r'.frames = Tail(s2r.frames) /\ s2r'.unresolved = s2r.unresolved
  PROVE  SpiAlone!Rs485Takes \/ UNCHANGED SpiAlone!vars
<1>1. /\ s2r \in PipeRec /\ SpiS2r = [s2r EXCEPT !.rd = IDLE] /\ SpiS2r' = [s2r' EXCEPT !.rd = IDLE]
      /\ SpiS2r.frames = s2r.frames
  BY SpiHidesS2r, SpiBlind DEF MInv, Types, SpiS2r
<1> USE DEF spiOwn, SpiAlone!loopVars, SpiAlone!intVars, SpiAlone!dmaVars
<1>2. CASE s2r'.frames = s2r.frames /\ s2r'.unresolved = s2r.unresolved
  <2>1. SpiS2r' = SpiS2r
    BY <1>1, <1>2 DEF PipeRec
  <2> QED BY <2>1 DEF SpiAlone!vars
<1>3. CASE s2r.frames = <<>> /\ s2r'.frames = <<>> /\ s2r'.unresolved = FALSE
  <2>1. SpiS2r' = SpiAlone!ServiceRdNone(SpiS2r)
    BY <1>1, <1>3 DEF PipeRec, SpiAlone!ServiceRdNone
  <2> QED BY <1>1, <1>3, <2>1 DEF SpiAlone!Rs485Takes, SpiAlone!Rs485May
<1>4. CASE s2r.frames # <<>> /\ s2r'.frames = Tail(s2r.frames) /\ s2r'.unresolved = s2r.unresolved
  <2>1. SpiS2r' = [SpiS2r EXCEPT !.frames = Tail(@)]
    BY <1>1, <1>4 DEF PipeRec
  <2> QED BY <1>1, <1>4, <2>1 DEF SpiAlone!Rs485Takes, SpiAlone!Rs485May
<1> QED BY <1>2, <1>3, <1>4

LEMMA SpiSeesRsHandler ==
  ASSUME MInv, Rs!Handler, UNCHANGED spiOwn
  PROVE  SpiAlone!Next \/ UNCHANGED SpiAlone!vars
<1>1. /\ SlotsInv /\ s2r \in PipeRec /\ r2s \in PipeRec /\ Rs!Irq /\ ~panicked
  BY DEF MInv, Types, Rs!Handler, Rs!IdleStartTimeout, Rs!IdleStartAnswer, Rs!DmaTxComplete,
         Rs!NoDmaTxComplete, Rs!RecvComplete, Rs!PanicInReload
<1>2. ~Rs!IdleStartTimeout /\ ~Rs!PanicInReload
  BY OnlyPolls DEF Rs!IdleStartTimeout, Rs!PanicInReload
<1>3. UNCHANGED <<pc, seen, didRestoreSpi, panicked>>
  BY <1>2 DEF Rs!Handler, Rs!IdleStartAnswer, Rs!DmaTxComplete, Rs!NoDmaTxComplete, Rs!RecvComplete,
              Rs!loopVars
<1>4. UNCHANGED <<SpiPc, SpiSeen>>
  BY <1>3, SpiBlind
<1>5. r2s' \in PipeRec /\ r2s'.frames = r2s.frames /\ r2s'.rd = r2s.rd => UNCHANGED SpiR2s
  BY <1>1, SpiBlind, SpiHidesR2s DEF PipeRec, HiddenR2s
<1>6. \A f : Append(r2s.frames, f) # r2s.frames
  BY <1>1 DEF PipeRec
<1>7. ASSUME NEW rRxCap \in RxCaps, NEW rTxCap \in TxCaps, Rs!IdleStartAnswer(rRxCap, rTxCap)
      PROVE  SpiAlone!Rs485Takes \/ UNCHANGED SpiAlone!vars
  <2>1. /\ s2r' \in PipeRec /\ r2s' \in PipeRec
        /\ s2r'.frames = s2r.frames /\ s2r'.wr = s2r.wr
        /\ r2s'.frames = r2s.frames /\ r2s'.rd = r2s.rd
    BY <1>7, AnswerKeeps
  <2>2. s2r'.unresolved = s2r.unresolved
    BY <1>1, <1>7 DEF Rs!IdleStartAnswer, Rs!PrepRd, Rs!AbortRd, PipeRec
  <2>3. DeliverTag' = DeliverTag
    BY <1>6, <2>1, RsHandlerFrames
  <2> QED BY <1>1, <1>3, <1>4, <1>5, <2>1, <2>2, <2>3, SpiSeesTaken
<1>8. CASE Rs!DmaTxComplete
  <2>1. mode = "SEND_DMA" /\ s2r' = Rs!CompleteRd(s2r) /\ r2s' = r2s
    BY <1>8 DEF Rs!DmaTxComplete
  <2>2. s2r.rd = BUSY /\ s2r.frames # <<>>
    BY <1>1, <2>1, TransmittedIs DEF SlotsInv
  <2>3. s2r' \in PipeRec /\ s2r'.frames = Tail(s2r.frames) /\ s2r'.wr = s2r.wr
    BY <1>1, <2>1, <2>2, ReadEnds DEF SlotsInv
  <2>4. s2r'.unresolved = s2r.unresolved
    BY <1>1, <2>1, <2>2 DEF Rs!CompleteRd, PipeRec
  <2>5. DeliverTag' = DeliverTag
    BY <1>6, <2>1, RsHandlerFrames
  <2>6. SpiAlone!Rs485Takes \/ UNCHANGED SpiAlone!vars
    BY <1>1, <1>3, <1>4, <1>5, <2>1, <2>2, <2>3, <2>4, <2>5, SpiSeesTaken
  <2> QED BY <2>6 DEF SpiAlone!Next
<1>9. CASE Rs!NoDmaTxComplete
  <2>1. s2r' = s2r /\ r2s' = r2s
    BY <1>9 DEF Rs!NoDmaTxComplete
  <2>2. DeliverTag' = DeliverTag
    BY <1>6, <2>1, RsHandlerFrames
  <2>3. SpiAlone!Rs485Takes \/ UNCHANGED SpiAlone!vars
    BY <1>1, <1>3, <1>4, <1>5, <2>1, <2>2, SpiSeesTaken
  <2> QED BY <2>3 DEF SpiAlone!Next
<1>10. CASE Rs!RecvComplete
  <2>1. mode = "RECV" /\ s2r' = s2r
    BY <1>10 DEF Rs!RecvComplete
  <2>2. PICK f : /\ r2s.wr = BUSY /\ Len(r2s.frames) < MaxFrames
                 /\ r2s' = [r2s EXCEPT !.wr = IDLE, !.frames = Append(@, f), !.unresolved = FALSE]
    BY <1>1, <1>10, <2>1, ReceivedIs DEF Rs!RecvComplete, Rs!CompleteWr
  <2>3. r2s'.frames = Append(r2s.frames, f)
    BY <1>1, <2>2 DEF PipeRec
  <2>4. PICK g \in Frame : /\ g.tag = DeliverTag /\ r2s'.frames = Append(r2s.frames, g)
                           /\ DeliverTag' = Rs!NextTag(DeliverTag)
    BY <1>6, <2>3, RsHandlerFrames
  <2>5. g.len \in 1 .. MaxLen /\ g = [len |-> g.len, tag |-> DeliverTag]
    BY <2>4 DEF Frame
  <2>6. SpiR2s' = [SpiR2s EXCEPT !.frames = Append(@, g), !.unresolved = FALSE]
    BY <1>1, <2>2, <2>3, <2>4, SpiBlind, SpiHidesR2s DEF PipeRec, HiddenR2s
  <2>7. SpiS2r' = SpiS2r /\ Len(SpiR2s.frames) < MaxFrames
    BY <1>1, <2>1, <2>2, SpiBlind, SpiHidesR2s
  <2>8. DeliverTag' = SpiAlone!NextTag(DeliverTag)
    BY <2>4 DEF SpiAlone!NextTag, Rs!NextTag, Tags
  <2>9. SpiAlone!Rs485Delivers(g.len)
    BY <1>1, <1>3, <1>4, <2>5, <2>6, <2>7, <2>8
       DEF SpiAlone!Rs485Delivers, SpiAlone!Rs485May, spiOwn, SpiAlone!loopVars, SpiAlone!intVars,
           SpiAlone!dmaVars
  <2> QED BY <2>5, <2>9 DEF SpiAlone!Next
<1> QED BY <1>2, <1>7, <1>8, <1>9, <1>10 DEF Rs!Handler, SpiAlone!Next

LEMMA SpiSeesRsMain ==
  ASSUME MInv, Rs!Main, UNCHANGED spiOwn, ~spiPend, ~extiPend
  PROVE  SpiAlone!Next \/ UNCHANGED SpiAlone!vars
<1>1. s2r \in PipeRec /\ r2s \in PipeRec
  BY DEF MInv, Types
<1>2. ~panicked /\ panicked' = panicked /\ pc \in OutsideSpi \ {"spiWr"} /\ pc' \in OutsideSpi
  BY RsMainIs
<1>3. DeliverTag' = DeliverTag
  BY RsMainFrames
<1>4. UNCHANGED SpiR2s
  <2>1. r2s' = r2s \/ r2s' = [r2s EXCEPT !.wr = READY]
    BY RsMainIs
  <2> QED BY <1>1, <2>1, SpiBlind, SpiHidesR2s DEF PipeRec, HiddenR2s
<1>5. CASE Rs!Check
  <2>1. /\ pc = "check" /\ pc' \in {"rsRd", "spiWr"} /\ didRestoreSpi' = FALSE
        /\ UNCHANGED <<s2r, r2s>>
    BY <1>5, ModemAssumption DEF Rs!Check, Rs!MainAt, Rs!AfterRs485
  <2>2. SpiPc = "check" /\ SpiSeen = {}
    BY <2>1, SpiSees
  <2>3. seen' = {}
    BY <2>1, RsMainIs DEF ModifySteps
  <2>4. SpiPc' = "spiWr" /\ SpiSeen' = {}
    BY <2>1, <2>3, SpiSeesNext DEF RsSteps, SpiSteps, Spi!Steps
  <2>5. SpiAlone!Check
    BY <1>2, <1>3, <1>4, <2>1, <2>2, <2>4, SpiBlind
       DEF SpiAlone!Check, SpiAlone!MainAt, SpiAlone!Goto, spiOwn, SpiAlone!intVars, SpiAlone!dmaVars
  <2> QED BY <2>5 DEF SpiAlone!Main, SpiAlone!Next
<1>6. CASE ~Rs!Check
  <2>1. /\ didRestoreSpi' = didRestoreSpi
        /\ \/ pc \in RsSteps /\ pc' \in RsSteps \cup {"spiWr"}
           \/ pc \in EnSteps /\ pc' \in EnSteps \cup {"check"}
    BY <1>6, ModemAssumption
       DEF RsSteps, EnSteps, Rs!Main, Rs!MainAt, Rs!RestoreRd, Rs!NothingToSend, Rs!SetUpCh4Read,
           Rs!SetUpCh4Write, Rs!SetUpCh4, Rs!RestoreWr, Rs!NoRoomOrNotIdle, Rs!SetUpCh3Read,
           Rs!SetUpCh3Write, Rs!SetUpCh3, Rs!EnableLoad, Rs!EnableFlush, Rs!EnableStore,
           Rs!EnableReadCr1, Rs!EnableCmie, Rs!AfterRs485
  <2>2. seen' = {} \/ pc' \in RsSteps \cup EnSteps
    BY <2>1, RsMainIs DEF ModifySteps
  <2>3. UNCHANGED <<SpiPc, SpiSeen>>
    BY <2>1, <2>2, SpiSees, SpiSeesNext DEF SpiSteps, Spi!Steps
  <2>4. \/ s2r' = s2r \/ s2r' = [s2r EXCEPT !.rd = READY]
        \/ s2r.frames = <<>> /\ s2r' = [s2r EXCEPT !.unresolved = FALSE]
    BY DEF Rs!FindsNone, Rs!CanGrantRd, Rs!ServiceRd, Rs!ServiceRdNone, Rs!Main, Rs!Check, Rs!RestoreRd,
           Rs!NothingToSend, Rs!SetUpCh4Read, Rs!SetUpCh4Write, Rs!SetUpCh4, Rs!RestoreWr,
           Rs!NoRoomOrNotIdle, Rs!SetUpCh3Read, Rs!SetUpCh3Write, Rs!SetUpCh3, Rs!EnableLoad,
           Rs!EnableFlush, Rs!EnableStore, Rs!EnableReadCr1, Rs!EnableCmie
  <2>5. /\ s2r' \in PipeRec /\ s2r'.wr = s2r.wr
        /\ \/ s2r'.frames = s2r.frames /\ s2r'.unresolved = s2r.unresolved
           \/ s2r.frames = <<>> /\ s2r'.frames = <<>> /\ s2r'.unresolved = FALSE
    BY <1>1, <2>4 DEF PipeRec, SlotState
  <2>6. SpiAlone!Rs485Takes \/ UNCHANGED SpiAlone!vars
    BY <1>2, <1>3, <1>4, <2>1, <2>3, <2>5, SpiSeesTaken
  <2> QED BY <2>6 DEF SpiAlone!Next
<1> QED BY <1>5, <1>6

LEMMA SpiNext ==
  ASSUME MInv, [Next /\ ~RsAlone!Overlap']_vars
  PROVE  SpiAlone!Next \/ UNCHANGED SpiAlone!vars
<1>1. CASE Rs!Handler /\ UNCHANGED spiOwn
  BY <1>1, SpiSeesRsHandler
<1>2. CASE Spi!Handler /\ UNCHANGED rsOwn
  BY <1>2, SpiHandlerMaps DEF SpiAlone!Next
<1>3. CASE ~extiPend /\ ~spiPend /\ Rs!Main /\ UNCHANGED spiOwn
  BY <1>3, SpiSeesRsMain
<1>4. CASE Spi!Serve /\ UNCHANGED rsOwn
  BY <1>4, SpiServeMaps DEF SpiAlone!Next
<1>5. CASE RouterPoll \/ Bus
  <2>1. UNCHANGED <<s2r, r2s, DeliverTag>>
    BY <1>5, RsBusFrames
  <2>2. UNCHANGED <<pc, seen, didRestoreSpi, panicked, spiOwn>>
    BY <1>5 DEF RouterPoll, Bus, Rs!RouterPoll, Rs!TxDone, Rs!Ch4Done, Rs!RouterSends, Rs!loopVars
  <2> QED BY <2>1, <2>2, SpiBlind
          DEF SpiAlone!vars, spiOwn, SpiAlone!loopVars, SpiAlone!intVars, SpiAlone!dmaVars
<1>6. CASE Begins \/ Clocks
  BY <1>6, SpiMasterMaps DEF SpiAlone!Next
<1>7. CASE UNCHANGED vars
  BY <1>7, SpiBlind DEF vars, loopVars, spiOwn, SpiAlone!vars, SpiAlone!loopVars, SpiAlone!intVars,
     SpiAlone!dmaVars
<1> QED BY <1>1, <1>2, <1>3, <1>4, <1>5, <1>6, <1>7
        DEF Next, Handler, Exti, Spi1, Dma, Usart1, Main

\* ImplementsSpiPort: seen from the SPI port, the rest of the modem, its router included,
\* takes only steps of the environment that the port's own module assumes, as long as no
\* cycle overlaps main's re-arming.
THEOREM ModemImplementsSpiPort ==
  ASSUME 0 \notin TxCaps
  PROVE  Undisturbed => ImplementsSpiPort
<1>1. Init => SpiAlone!Init
  <2> SUFFICES ASSUME Init PROVE SpiAlone!Init
    OBVIOUS
  <2> USE DEF Init, Rs!Init, Spi!Init, Rs!PipesInit, Spi!PipesInit, Rs!EmptyPipe, Spi!EmptyPipe
  <2>1. SpiPc = "check" /\ SpiSeen = {} /\ DeliverTag = "a"
    BY DEF SpiPc, SpiSeen, SpiSteps, RsSteps, EnSteps, Spi!Steps, DeliverTag
  <2>2. SpiAlone!PipesInit
    <3> DEFINE e == [frames |-> <<>>, wr |-> IDLE, rd |-> IDLE, unresolved |-> FALSE]
    <3>1. s2r = e /\ r2s = e /\ SpiAlone!EmptyPipe = e
      BY DEF SpiAlone!EmptyPipe
    <3>2. SpiS2r = e
      BY <3>1 DEF SpiS2r
    <3>3. SpiR2s = e
      <4>1. r2s \in PipeRec
        BY MInvInit DEF MInv, Types
      <4>2. r2s.wr = IDLE /\ r2s.unresolved = FALSE
        BY <3>1
      <4>3. SpiR2s = r2s
        BY <4>1, <4>2 DEF SpiR2s, PipeRec
      <4> QED BY <3>1, <4>3
    <3>4. didRestoreSpi = FALSE /\ panicked = FALSE
      OBVIOUS
    <3> HIDE DEF e
    <3> QED BY <3>1, <3>2, <3>3, <3>4 DEF SpiAlone!PipesInit
  <2> QED BY <2>1, <2>2 DEF SpiAlone!Init, Spi!NextTag, SpiAlone!NextTag
<1>2. MInv /\ [Next /\ ~RsAlone!Overlap']_vars => [SpiAlone!Next]_(SpiAlone!vars)
  BY SpiNext
<1> QED BY <1>1, <1>2, ModemInvariant, PTL DEF Undisturbed, ImplementsSpiPort, SpiAlone!Spec

\* The RS-485 side leaves the slot of a frame that goes out by the SPI alone.
LEMMA RsKeepsReader ==
  ASSUME MInv, Rs!Handler \/ Rs!Main
  PROVE  r2s'.rd = r2s.rd
<1>1. r2s \in PipeRec
  BY DEF MInv, Types
<1>2. CASE Rs!Main
  <2>1. r2s' = r2s \/ r2s' = [r2s EXCEPT !.wr = READY]
    BY <1>2, RsMainIs
  <2> QED BY <1>1, <2>1 DEF PipeRec
<1>3. CASE Rs!Handler
  <2>1. ~Rs!IdleStartTimeout /\ ~Rs!PanicInReload
    BY OnlyPolls DEF Rs!IdleStartTimeout, Rs!PanicInReload
  <2>2. ASSUME NEW rRxCap \in RxCaps, NEW rTxCap \in TxCaps, Rs!IdleStartAnswer(rRxCap, rTxCap)
        PROVE  r2s'.rd = r2s.rd
    BY <2>2, AnswerKeeps
  <2>3. Rs!RecvComplete => r2s'.rd = r2s.rd
    BY <1>1 DEF Rs!RecvComplete, Rs!CompleteWr, PipeRec
  <2> QED BY <1>3, <2>1, <2>2, <2>3 DEF Rs!Handler, Rs!DmaTxComplete, Rs!NoDmaTxComplete
<1> QED BY <1>2, <1>3

-----------------------------------------------------------------------------
(* The frame a transaction sends, which nothing above depends on.           *)

Ch2Steps == {"spiRdDma", "spiRdCr", "spiRdAddr"}

\* The pin the transaction began with was active for the grant it takes, and channel 2 is
\* set up for a grant that waits and runs exactly for one that is taken.
SendInv ==
  ~panicked =>
    /\ spiPend /\ spiMode = "IDLE" /\ "txrdy" \in master.saw => r2s.rd = READY
    /\ spiMode = "LONG" /\ "txrdy" \in master.saw => r2s.rd = BUSY
    /\ r2s.rd = BUSY => ch2.fresh /\ "txdmaen" \in cr2
    /\ ch2.on <=> r2s.rd = BUSY
    /\ r2s.rd = READY => ch2.fresh \/ pc \in Ch2Steps
    /\ pc \in {"spiRdCr", "spiRdDirCr"} => seen = {}
    /\ pc = "unmaskCr2" /\ r2s.rd = BUSY => "txdmaen" \in seen

LEMMA LongBeginsSends ==
  ASSUME MInv, SendInv, Spi!LongBegins
  PROVE  SendInv'
<1> DEFINE sends   == r2s.rd = READY /\ Head(r2s.frames).len # 0
           accepts == s2r.wr = READY
<1>1. /\ SpiTypes /\ SlotsInv /\ r2s \in PipeRec /\ PhaseInv /\ ~panicked
  BY DEF Spi!LongBegins, MInv, Types, SpiInv
<1>2. /\ spiPend /\ spiMode = "IDLE" /\ spiPend' = FALSE /\ spiMode' = "LONG"
      /\ cr2' = (cr2 \ {"rxneie"}) \cup (IF sends THEN {"txdmaen"} ELSE {})
                                    \cup (IF accepts THEN {"rxdmaen"} ELSE {})
      /\ r2s' = Spi!PrepRd(r2s)
      /\ ch2' = IF sends THEN [ch2 EXCEPT !.on = TRUE] ELSE ch2
      /\ UNCHANGED <<pc, panicked, seen, master>>
  BY DEF Spi!LongBegins, Spi!SpiIrq, Spi!loopVars
<1>3. sends <=> r2s.rd = READY
  <2>1. CASE r2s.rd = READY
    <3>1. r2s.frames \in Seq(Frame) /\ r2s.frames # <<>>
      BY <1>1, <2>1 DEF PipeRec, SlotsInv
    <3>2. Head(r2s.frames) \in Frame
      BY <3>1
    <3>3. Head(r2s.frames).len # 0
      BY <3>2, ModemAssumption DEF Frame
    <3> QED BY <2>1, <3>3
  <2> QED BY <2>1
<1> HIDE DEF sends, accepts
<1>4. pc \notin Ch2Steps \cup {"spiRdDirCr", "unmaskCr2"}
  BY <1>1, <1>2 DEF PhaseInv, SpiPc, Ch2Steps, RsSteps, EnSteps
<1>5. r2s'.rd = IF sends THEN BUSY ELSE r2s.rd
  BY <1>1, <1>2, <1>3 DEF Spi!PrepRd, PipeRec
<1>6. /\ ch2'.on <=> sends \/ ch2.on
      /\ ch2'.fresh = ch2.fresh
  BY <1>1, <1>2 DEF SpiTypes
<1>7. sends => "txdmaen" \in cr2'
  BY <1>2
<1>8. ~sends => r2s.rd # BUSY
  BY <1>1, <1>2, <1>3 DEF PhaseInv, SendInv, MInv, SpiInv, GrantInv
<1> QED BY <1>1, <1>2, <1>3, <1>4, <1>5, <1>6, <1>7, <1>8 DEF SendInv, Ch2Steps

LEMMA ExtiLongSends ==
  ASSUME MInv, SendInv, Spi!ExtiLong
  PROVE  SendInv'
<1> DEFINE h == ch2.fresh /\ r2s.rd # BUSY
<1>1. /\ SpiTypes /\ r2s \in PipeRec /\ PhaseInv /\ ~panicked /\ h \in BOOLEAN
  BY DEF Spi!ExtiLong, MInv, Types, SpiInv, SpiTypes
<1>2. /\ extiPend /\ spiMode' = "IDLE" /\ r2s' = Spi!CompleteRd(r2s)
      /\ ch2' = [ch2 EXCEPT !.on = FALSE, !.fresh = h]
      /\ UNCHANGED <<pc, panicked, spiPend, seen, master>>
  BY DEF Spi!ExtiLong, Spi!loopVars
<1>3. ~spiPend
  BY <1>1, <1>2 DEF PhaseInv
<1>4. r2s'.rd = IF r2s.rd = BUSY THEN IDLE ELSE r2s.rd
  BY <1>1, <1>2 DEF Spi!CompleteRd, PipeRec
<1>5. r2s.rd # BUSY => h = ch2.fresh
  BY <1>1 DEF SpiTypes
<1> HIDE DEF h
<1>6. ch2'.on = FALSE /\ ch2'.fresh = h
  BY <1>1, <1>2 DEF SpiTypes
<1> QED BY <1>1, <1>2, <1>3, <1>4, <1>5, <1>6 DEF SendInv

\* What main does in its half of idle_step.
LEMMA ServeSends ==
  ASSUME MInv, SendInv, Spi!Serve
  PROVE  SendInv'
<1>1. /\ SpiTypes /\ r2s \in PipeRec /\ ~panicked
      /\ UNCHANGED <<spiMode, master, panicked>>
      /\ ~(spiPend' /\ spiMode' = "IDLE")
  BY ServeIs, ServePhase DEF MInv, Types
<1>2. r2s'.rd = BUSY <=> r2s.rd = BUSY
  BY <1>1, ServeIs DEF PipeRec
<1>3. SendInv' <=>
        /\ spiMode = "LONG" /\ "txrdy" \in master.saw => r2s.rd = BUSY
        /\ r2s.rd = BUSY => ch2'.fresh /\ "txdmaen" \in cr2'
        /\ ch2'.on <=> r2s.rd = BUSY
        /\ r2s'.rd = READY => ch2'.fresh \/ pc' \in Ch2Steps
        /\ pc' \in {"spiRdCr", "spiRdDirCr"} => seen' = {}
        /\ pc' = "unmaskCr2" /\ r2s.rd = BUSY => "txdmaen" \in seen'
  BY <1>1, <1>2 DEF SendInv, Ch2Steps
<1>4. /\ spiMode = "LONG" /\ "txrdy" \in master.saw => r2s.rd = BUSY
      /\ r2s.rd = BUSY => ch2.fresh /\ "txdmaen" \in cr2
      /\ ch2.on <=> r2s.rd = BUSY
      /\ r2s.rd = READY => ch2.fresh \/ pc \in Ch2Steps
      /\ pc \in {"spiRdCr", "spiRdDirCr"} => seen = {}
      /\ pc = "unmaskCr2" /\ r2s.rd = BUSY => "txdmaen" \in seen
  BY <1>1 DEF SendInv
<1>5. PinInv /\ (pc \in RdSteps => r2s.rd = READY)
  BY <1>1 DEF MInv, SpiInv, PinInv
<1> USE <1>1, <1>3, <1>4 DEF Spi!MainAt, Spi!Goto, Spi!intVars, Spi!dmaVars, Ch2Steps
<1>6. CASE Spi!ReadPins
  BY <1>6 DEF Spi!ReadPins
<1>7. CASE Spi!RestoreWr \/ Spi!NoRoomOrNotIdle
  BY <1>7 DEF Spi!RestoreWr, Spi!NoRoomOrNotIdle
<1>8. CASE Spi!SetUpCh1Read \/ Spi!SetUpCh1Write \/ Spi!SetUpCh1
  BY <1>8 DEF Spi!SetUpCh1Read, Spi!SetUpCh1Write, Spi!SetUpCh1
<1>9. CASE Spi!SetRxrdy \/ Spi!SetTxrdy
  BY <1>9 DEF Spi!SetRxrdy, Spi!SetTxrdy
<1>10. CASE Spi!RestoreRd
  <2>1. /\ pc' = "spiRdDma" /\ UNCHANGED <<ch2, cr2, seen>>
    BY <1>10 DEF Spi!RestoreRd
  <2> QED BY <2>1
<1>11. CASE Spi!NothingToSend
  <2>1. pc = "spiRd" /\ pc' = Spi!AfterRd(didRestoreSpi) /\ UNCHANGED <<ch2, cr2, seen>>
    BY <1>11 DEF Spi!NothingToSend
  <2>2. pc' \notin {"spiRdCr", "spiRdDirCr", "unmaskCr2"}
    BY <2>1 DEF Spi!AfterRd, Spi!AfterSpi, Spi!AfterUnmask
  <2>3. r2s'.rd = r2s.rd
    BY <1>11 DEF Spi!NothingToSend, Spi!ServiceRdNone, PipeRec
  <2> QED BY <2>1, <2>2, <2>3
<1>12. CASE Spi!SetUpCh2Read
  BY <1>5, <1>12 DEF Spi!SetUpCh2Read, RdSteps
<1>13. CASE Spi!SetUpCh2Write
  <2>1. /\ \/ pc = "spiRdCr" /\ pc' = "spiRdAddr"
           \/ pc = "spiRdDirCr" /\ pc' = "spiRdPin"
        /\ ch2' = [ch2 EXCEPT !.on = "en" \in seen] /\ seen' = {}
        /\ UNCHANGED <<r2s, cr2>>
    BY <1>13 DEF Spi!SetUpCh2Write
  <2>2. r2s.rd = READY /\ ~("en" \in seen)
    BY <1>5, <2>1 DEF RdSteps
  <2>3. ch2'.on = FALSE /\ ch2'.fresh = ch2.fresh
    BY <2>1, <2>2 DEF SpiTypes
  <2> QED BY <2>1, <2>2, <2>3
<1>14. CASE Spi!SetUpCh2
  <2>1. /\ pc = "spiRdAddr" /\ UNCHANGED <<r2s, cr2, seen>> /\ pc' = "spiRdDir"
        /\ ch2' = IF ch2.on THEN ch2 ELSE [ch2 EXCEPT !.fresh = r2s.rd # IDLE]
    BY <1>14 DEF Spi!SetUpCh2
  <2>2. r2s.rd = READY /\ ~ch2.on
    BY <1>5, <2>1 DEF RdSteps
  <2>3. ch2'.on = ch2.on /\ ch2'.fresh
    BY <2>1, <2>2 DEF SpiTypes
  <2> QED BY <2>1, <2>2, <2>3
<1>15. CASE Spi!ReadCr2
  BY <1>15 DEF Spi!ReadCr2
<1>16. CASE Spi!Unmask
  <2>1. /\ pc = "unmaskCr2" /\ pc' = Spi!AfterUnmask(didRestoreRs485) /\ UNCHANGED <<r2s, ch2>>
        /\ cr2' = seen \cup {"rxneie"} /\ seen' = {}
    BY <1>16 DEF Spi!Unmask
  <2>2. pc' \notin {"spiRdCr", "spiRdDirCr", "unmaskCr2"}
    BY <2>1 DEF Spi!AfterUnmask
  <2> QED BY <2>1, <2>2
<1> QED BY <1>6, <1>7, <1>8, <1>9, <1>10, <1>11, <1>12, <1>13, <1>14, <1>15, <1>16 DEF Spi!Serve

LEMMA MasterSends ==
  ASSUME MInv, SendInv, Begins \/ Clocks
  PROVE  SendInv'
<1>1. UNCHANGED <<r2s, pc, seen, panicked, cr2, ch2, spiMode>>
  BY DEF Begins, Spi!Begins, Spi!MasterBegins, Clocks, Spi!MasterClocks, Spi!MasterEnds, Spi!loopVars,
     Spi!dmaVars
<1> SUFFICES ASSUME ~panicked PROVE SendInv'
  BY <1>1 DEF SendInv
<1>2. PhaseInv /\ PinInv /\ SpiTypes
  BY DEF MInv, SpiInv
<1>3. CASE Begins
  <2>1. master.phase = "idle" /\ SpiPc = "check" /\ extiPend = FALSE
    BY <1>2, <1>3 DEF Begins, SpiAlone!MayBegin, SpiAlone!Settled, Spi!Begins, Spi!MasterBegins, SpiTypes
  <2>2. spiMode = "IDLE"
    BY <1>1, <1>2, <1>3, <2>1 DEF PhaseInv, Active
  <2>3. master'.saw = pins
    BY <1>3 DEF Begins, Spi!Begins, Spi!MasterBegins
  <2>4. "txrdy" \in pins => r2s.rd = READY
    BY <1>1, <1>2 DEF PinInv
  <2> QED BY <1>1, <2>2, <2>3, <2>4 DEF SendInv
<1>4. CASE Clocks
  <2>1. spiMode = "IDLE" => spiPend
    <3>1. master.phase = "clocking"
      BY <1>4 DEF Clocks, Spi!MasterClocks, Spi!MasterEnds
    <3> QED BY <1>2, <3>1 DEF PhaseInv, Active
  <2>2. master'.saw = master.saw
    BY <1>2, <1>4 DEF SpiTypes, Clocks, Spi!MasterClocks, Spi!MasterEnds
  <2>3. spiPend' /\ spiMode' = "IDLE" => spiPend /\ spiMode = "IDLE"
    BY <1>1, <2>1
  <2> QED BY <1>1, <1>4, <2>2, <2>3 DEF SendInv
<1> QED BY <1>3, <1>4

LEMMA SendKept ==
  ASSUME MInv, SendInv, [Next /\ ~RsAlone!Overlap']_vars
  PROVE  SendInv'
<1>1. CASE Rs!Handler /\ UNCHANGED spiOwn
  <2>1. ~Rs!IdleStartTimeout /\ ~Rs!PanicInReload
    BY OnlyPolls DEF Rs!IdleStartTimeout, Rs!PanicInReload
  <2>2. UNCHANGED <<pc, seen, panicked>>
    BY <1>1, <2>1 DEF Rs!Handler, Rs!IdleStartAnswer, Rs!DmaTxComplete, Rs!NoDmaTxComplete, Rs!RecvComplete,
                Rs!loopVars
  <2>3. r2s'.rd = r2s.rd
    BY <1>1, RsKeepsReader
  <2> QED BY <1>1, <2>2, <2>3 DEF SendInv, spiOwn
<1>2. CASE Rs!Main /\ UNCHANGED spiOwn
  <2>1. panicked' = panicked /\ pc \in OutsideSpi \ {"spiWr"} /\ pc' \in OutsideSpi
    BY <1>2, RsMainIs
  <2>2. r2s'.rd = r2s.rd
    BY <1>2, RsKeepsReader
  <2>3. /\ pc \notin Ch2Steps \cup {"spiRdDirCr", "unmaskCr2"} /\ pc' \notin Ch2Steps \cup {"spiRdDirCr", "unmaskCr2"}
    BY <2>1 DEF OutsideSpi, RsSteps, EnSteps, Ch2Steps
  <2> QED BY <1>2, <2>1, <2>2, <2>3 DEF SendInv, spiOwn, Ch2Steps
<1>3. CASE RouterPoll \/ Bus
  BY <1>3 DEF SendInv, spiOwn, RouterPoll, Bus, Rs!RouterPoll, Rs!TxDone, Rs!Ch4Done, Rs!RouterSends,
     Rs!loopVars
<1>4. CASE Spi!Handler /\ UNCHANGED rsOwn
  <2>1. ~Spi!ExtiSpurious /\ ~Spi!ExtiShort
    BY OnlyLong DEF Spi!ExtiSpurious, Spi!ExtiShort
  <2>2. ASSUME NEW kind \in Spi!AllKinds, Spi!ShortBegins(kind)
        PROVE  FALSE
    BY <2>2, OnlyLong DEF Spi!ShortBegins, Spi!SpiIrq
  <2>3. Spi!NotIdle => SendInv'
    BY DEF Spi!NotIdle, SendInv
  <2> QED BY <1>4, <2>1, <2>2, <2>3, LongBeginsSends, ExtiLongSends DEF Spi!Handler
<1>5. CASE Spi!Serve
  BY <1>5, ServeSends
<1>6. CASE Begins \/ Clocks
  BY <1>6, MasterSends
<1>7. CASE UNCHANGED vars
  BY <1>7 DEF SendInv, vars, loopVars, spiOwn
<1> QED BY <1>1, <1>2, <1>3, <1>4, <1>5, <1>6, <1>7
        DEF Next, Handler, Exti, Spi1, Dma, Usart1, Main

LEMMA SendInit == Init => SendInv
BY DEF Init, Rs!Init, Spi!Init, Rs!PipesInit, Rs!EmptyPipe, SendInv

\* ChannelsServeTheirGrants: as long as no cycle overlaps main's re-arming, a channel of
\* either port moves words only for the grant it was set up for, although frames come and
\* go in the middle of a transaction.
THEOREM ModemChannelsServe ==
  ASSUME 0 \notin TxCaps
  PROVE  Undisturbed => []ChannelsServeTheirGrants
<1>1. MInv /\ SendInv => ChannelsServeTheirGrants
  <2> SUFFICES ASSUME MInv, SendInv PROVE ChannelsServeTheirGrants
    OBVIOUS
  <2>1. RsAlone!DmaRunsOnItsGrant
    BY DEF MInv, RsInv, Port485!Inv, Port485!Shapes, Port485!Modes, Port485!ModeInv,
       Port485!BetweenCycles, Port485!SendingFrame, Port485!SendingNone, Port485!Receiving,
       Port485!Ch3Off, Port485!Ch4Off, RsAlone!DmaRunsOnItsGrant
  <2>2. SpiS2r.wr = s2r.wr /\ SpiR2s.rd = r2s.rd
    BY SpiHidesS2r, SpiHidesR2s DEF MInv, Types
  <2>3. ~panicked => SpiAlone!GrantsAreServed
    BY <2>2 DEF MInv, SpiInv, GrantInv, SendInv, SpiAlone!GrantsAreServed
  <2> QED BY <2>1, <2>3 DEF ChannelsServeTheirGrants
<1> QED BY <1>1, SendInit, SendKept, ModemInvariant, PTL DEF Undisturbed

\* Only the end of a transaction makes the pipe to the router longer.
LEMMA FramesComeFromExti ==
  ASSUME MInv, [Next /\ ~RsAlone!Overlap']_vars, Len(s2r'.frames) > Len(s2r.frames)
  PROVE  Spi!ExtiLong
<1>1. s2r \in PipeRec /\ s2r.frames \in Seq(Frame)
  BY DEF MInv, Types, PipeRec
<1>2. s2r'.frames # s2r.frames /\ ~(s2r.frames # <<>> /\ s2r'.frames = Tail(s2r.frames))
  <2>1. Len(s2r.frames) \in Nat
    BY <1>1
  <2>2. s2r.frames # <<>> => ~(Len(Tail(s2r.frames)) > Len(s2r.frames))
    BY <1>1
  <2>3. s2r'.frames # s2r.frames
    BY <2>1
  <2>4. ~(s2r.frames # <<>> /\ s2r'.frames = Tail(s2r.frames))
    <3> DEFINE t == Tail(s2r.frames)
    <3>1. s2r.frames # <<>> => ~(Len(t) > Len(s2r.frames))
      BY <2>2
    <3> HIDE DEF t
    <3>2. ~(s2r.frames # <<>> /\ s2r'.frames = t)
      BY <3>1
    <3> QED BY <3>2 DEF t
  <2> QED BY <2>3, <2>4
<1>3. ~(Rs!Handler /\ UNCHANGED spiOwn) /\ ~(Rs!Main /\ UNCHANGED spiOwn)
  BY <1>2, RsHandlerFrames, RsMainFrames
<1>4. ~(RouterPoll \/ Bus)
  BY <1>2, RsBusFrames
<1>5. ~Spi!Serve
  <2>1. ASSUME Spi!Serve PROVE s2r'.frames = s2r.frames
    BY <1>1, <2>1, ServeIs DEF PipeRec
  <2> QED BY <1>2, <2>1
<1>6. ~(Begins \/ Clocks) /\ ~UNCHANGED vars
  BY <1>2 DEF Begins, Spi!Begins, Spi!MasterBegins, Clocks, Spi!MasterClocks, Spi!MasterEnds, vars
<1>7. ASSUME Spi!Handler PROVE Spi!ExtiLong
  <2>1. Spi!LongBegins => s2r'.frames = s2r.frames
    BY <1>1 DEF Spi!LongBegins, Spi!PrepWr, PipeRec
  <2> QED BY <1>2, <1>7, <2>1 DEF Spi!Handler, Spi!ExtiSpurious, Spi!ExtiShort, Spi!NotIdle, Spi!ShortBegins
<1> QED BY <1>3, <1>4, <1>5, <1>6, <1>7 DEF Next, Handler, Exti, Spi1, Dma, Usart1, Main

\* TransactionsAreFrames: while frames come from the other side and are taken by it, each
\* channel serves its grant, what the master clocks becomes one frame of that length, and
\* what a pin promised happens, as long as no cycle overlaps main's re-arming.
THEOREM ModemTransactionsAreFrames ==
  ASSUME 0 \notin TxCaps
  PROVE  Undisturbed => TransactionsAreFrames
<1> DEFINE Last == SpiS2r'.frames[Len(SpiS2r'.frames)]
           Longer == Len(SpiS2r'.frames) > Len(SpiS2r.frames) =>
             LET f == SpiS2r'.frames[Len(SpiS2r'.frames)]
             IN /\ f.len = IF master.sent < MaxLen THEN master.sent ELSE MaxLen
                /\ f.tag = IF f.len = 0 THEN "none" ELSE master.tag
           Word == SpiAlone!ExtiLong =>
             /\ "rxrdy" \in master.saw => Len(SpiS2r'.frames) = Len(SpiS2r.frames) + 1
             /\ "txrdy" \in master.saw => Len(SpiR2s'.frames) = Len(SpiR2s.frames) - 1
<1>1. MInv /\ [Next /\ ~RsAlone!Overlap']_vars /\ MInv' => Longer
  <2> SUFFICES ASSUME MInv, [Next /\ ~RsAlone!Overlap']_vars, MInv', Len(SpiS2r'.frames) > Len(SpiS2r.frames)
               PROVE  /\ Last.len = IF master.sent < MaxLen THEN master.sent ELSE MaxLen
                      /\ Last.tag = IF Last.len = 0 THEN "none" ELSE master.tag
    OBVIOUS
  <2>1. /\ s2r \in PipeRec /\ s2r' \in PipeRec /\ s2r.frames \in Seq(Frame)
        /\ SpiS2r.frames = s2r.frames /\ SpiS2r'.frames = s2r'.frames
    BY SpiHidesS2r DEF MInv, Types, PipeRec, SpiS2r
  <2>2. Spi!ExtiLong
    BY <2>1, FramesComeFromExti
  <2> DEFINE f == Spi!ReceivedFrame
  <2>3. s2r' = Spi!CompleteWr(s2r, f) /\ ~panicked
    BY <2>2 DEF Spi!ExtiLong
  <2>4. s2r.wr = BUSY /\ s2r'.frames = Append(s2r.frames, f)
    BY <2>1, <2>3 DEF Spi!CompleteWr, PipeRec
  <2>5. f = [len |-> AtMost(master.sent, MaxLen), tag |-> master.tag] /\ AtMost(master.sent, MaxLen) \in Lens
    BY <2>2, <2>3, <2>4, CommitFacts DEF Spi!ExtiLong, MInv, SpiInv, PhaseInv
  <2> HIDE DEF f
  <2>6. Last = f
    BY <2>1, <2>4
  <2> HIDE DEF Last
  <2> QED BY <2>5, <2>6, LensAre DEF AtMost
<1>2. MInv /\ SendInv => Word
  <2> SUFFICES ASSUME MInv, SendInv, SpiAlone!ExtiLong
               PROVE  /\ "rxrdy" \in master.saw => Len(SpiS2r'.frames) = Len(SpiS2r.frames) + 1
                      /\ "txrdy" \in master.saw => Len(SpiR2s'.frames) = Len(SpiR2s.frames) - 1
    OBVIOUS
  <2>1. /\ ~panicked /\ spiMode = "LONG"
        /\ SpiS2r' = SpiAlone!CompleteWr(SpiS2r, SpiAlone!ReceivedFrame)
        /\ SpiR2s' = SpiAlone!CompleteRd(SpiR2s)
    BY DEF SpiAlone!ExtiLong
  <2>2. /\ SpiS2r \in PipeRec /\ SpiR2s \in PipeRec
        /\ SpiS2r.wr = s2r.wr /\ SpiR2s.rd = r2s.rd /\ SpiR2s.frames = r2s.frames
    BY SpiHidesS2r, SpiHidesR2s DEF MInv, Types, SpiS2r, SpiR2s, PipeRec, SlotState
  <2>3. /\ "rxrdy" \in master.saw => SpiS2r.wr = BUSY
        /\ "txrdy" \in master.saw => SpiR2s.rd = BUSY /\ SpiR2s.frames # <<>>
    BY <2>1, <2>2 DEF MInv, SpiInv, PinInv, SendInv, SlotsInv
  <2>4. SpiS2r.frames \in Seq(Frame) /\ SpiR2s.frames \in Seq(Frame)
    BY <2>2 DEF PipeRec
  <2>5. SpiS2r.wr = BUSY => SpiS2r'.frames = Append(SpiS2r.frames, SpiAlone!ReceivedFrame)
    BY <2>1, <2>2 DEF SpiAlone!CompleteWr, PipeRec
  <2>6. SpiR2s.rd = BUSY => SpiR2s'.frames = Tail(SpiR2s.frames)
    BY <2>1, <2>2 DEF SpiAlone!CompleteRd, PipeRec
  <2>7. ASSUME NEW s \in Seq(Frame), NEW x PROVE Len(Append(s, x)) = Len(s) + 1
    OBVIOUS
  <2>8. ASSUME NEW s \in Seq(Frame), s # <<>> PROVE Len(Tail(s)) = Len(s) - 1
    BY <2>8
  <2>9. SpiS2r.wr = BUSY => Len(SpiS2r'.frames) = Len(SpiS2r.frames) + 1
    BY <2>4, <2>5, <2>7
  <2>10. SpiR2s.rd = BUSY /\ SpiR2s.frames # <<>> => Len(SpiR2s'.frames) = Len(SpiR2s.frames) - 1
    BY <2>4, <2>6, <2>8
  <2> QED BY <2>3, <2>9, <2>10
<1> HIDE DEF Longer, Word
<1>3. Undisturbed => [](MInv /\ SendInv)
  BY SendInit, SendKept, ModemInvariant, PTL DEF Undisturbed
<1>4. Undisturbed => [][Longer]_(SpiAlone!vars)
  BY <1>1, ModemInvariant, PTL DEF Undisturbed
<1>5. Undisturbed => [][Word]_(SpiAlone!vars)
  BY <1>2, <1>3, PTL
<1> QED BY <1>4, <1>5, ModemChannelsServe, PTL DEF TransactionsAreFrames, SpiAlone!FrameIsTheTransaction,
       SpiAlone!PinsKeepTheirWord, Longer, Word

\* A transaction that is in progress is masked.
Masked == spiMode = "LONG" => ~spiPend /\ "rxneie" \notin cr2

\* StopsOnlyAtOverlaps: a handler of the RS-485 port is entered in no mode it panics in,
\* main arms the port in none, and a transaction stays masked unless main unmasks it.
THEOREM ModemStopsOnlyAtOverlaps ==
  ASSUME 0 \notin TxCaps
  PROVE  Undisturbed => StopsOnlyAtOverlaps
<1>1. Init => ~panicked /\ Masked
  BY DEF Init, Rs!Init, Spi!Init, Rs!PipesInit, Masked
<1>2. ASSUME MInv, ~UnmaskOverlap, ~panicked, Masked, [Next /\ ~RsAlone!Overlap']_vars
      PROVE  ~panicked' /\ Masked'
  <2>1. CASE Rs!Handler /\ UNCHANGED spiOwn
    <3>1. ~Rs!PanicInReload
      BY <1>2, <2>1, OnlyPolls DEF Rs!PanicInReload
    <3>2. UNCHANGED panicked
      BY <2>1, <3>1 DEF Rs!Handler, Rs!IdleStartTimeout, Rs!IdleStartAnswer, Rs!DmaTxComplete,
                        Rs!NoDmaTxComplete, Rs!RecvComplete
    <3> QED BY <1>2, <2>1, <3>2 DEF Masked, spiOwn
  <2>2. CASE Rs!Main /\ UNCHANGED spiOwn
    BY <1>2, <2>2, RsMainIs DEF Masked, spiOwn
  <2>3. CASE RouterPoll \/ Bus
    BY <1>2, <2>3 DEF Masked, spiOwn, RouterPoll, Bus, Rs!RouterPoll, Rs!TxDone, Rs!Ch4Done, Rs!RouterSends
  <2>4. CASE Spi!Handler
    <3>1. ~Spi!NotIdle
      BY <1>2 DEF Masked, Spi!NotIdle, Spi!SpiIrq, MInv, SpiTypes
    <3> QED BY <1>2, <2>4, <3>1 DEF Masked, Spi!Handler, Spi!ExtiSpurious, Spi!ExtiShort, Spi!ExtiLong,
                                    Spi!LongBegins, Spi!ShortBegins, Spi!AllKinds
  <2>5. CASE Spi!Serve
    <3>1. UNCHANGED <<spiMode, panicked>>
      BY <1>2, <2>5, ServeIs
    <3>2. CASE Spi!Unmask
      <4>1. spiMode = "IDLE"
        BY <1>2, <3>2 DEF Spi!Unmask, Spi!MainAt, UnmaskOverlap, MInv, SpiInv, PhaseInv, Active
      <4> QED BY <1>2, <3>1, <4>1 DEF Masked
    <3>3. CASE ~Spi!Unmask
      <4>1. UNCHANGED <<spiPend, cr2>>
        BY <2>5, <3>3 DEF Spi!Serve, Spi!MainAt, Spi!Goto, Spi!ReadPins, Spi!RestoreWr, Spi!NoRoomOrNotIdle,
           Spi!SetUpCh1Read, Spi!SetUpCh1Write, Spi!SetUpCh1, Spi!SetRxrdy, Spi!RestoreRd,
           Spi!NothingToSend, Spi!SetUpCh2Read, Spi!SetUpCh2Write, Spi!SetUpCh2, Spi!SetTxrdy,
           Spi!ReadCr2, Spi!intVars, Spi!dmaVars
      <4> QED BY <1>2, <3>1, <4>1 DEF Masked
    <3> QED BY <3>2, <3>3
  <2>6. CASE Begins \/ Clocks
    <3>1. UNCHANGED <<spiMode, panicked, cr2>>
      BY <2>6 DEF Begins, Spi!Begins, Spi!MasterBegins, Clocks, Spi!MasterClocks, Spi!MasterEnds
    <3>2. "rxneie" \notin cr2 /\ ~spiPend => ~spiPend'
      BY <2>6 DEF Begins, Spi!Begins, Spi!MasterBegins, Clocks, Spi!MasterClocks, Spi!MasterEnds, Spi!Arrives
    <3> QED BY <1>2, <3>1, <3>2 DEF Masked
  <2>7. CASE UNCHANGED vars
    BY <1>2, <2>7 DEF vars, spiOwn, Masked
  <2> QED BY <1>2, <2>1, <2>2, <2>3, <2>4, <2>5, <2>6, <2>7
          DEF Next, Handler, Exti, Spi1, Dma, Usart1, Main
<1> QED BY <1>1, <1>2, ModemInvariant, PTL DEF Undisturbed, StopsOnlyAtOverlaps
=============================================================================
