------------------------------- MODULE Modem -------------------------------
(***************************************************************************)
(* The modem as firmware/src/bin/modem.rs builds it: both ports on the two  *)
(* pipes, one main loop that serves them in turn (DataPipes::idle_step) and *)
(* the interrupts of both.  The steps are those of Rs485Port and SpiPort;   *)
(* here the environment one had for the other is gone, and the router and   *)
(* the SPI master drive the modem at the same time.                         *)
(***************************************************************************)
EXTENDS Pipes

CONSTANTS
  MaxLen,           \* the frame size the slots ask grants for (256 in the code)
  RxCaps, TxCaps,   \* what the router may announce
  Clocked,          \* how many bytes the master clocks after the first
  UsartDepth, SpiDepth    \* words and bytes the receive FIFOs keep

ASSUME ModemAssumption ==
  /\ Ports = {"rs485", "spi"}
  /\ MaxFrames \in Nat /\ MaxLen \in Nat \ {0}
  /\ RxCaps \subseteq Nat /\ TxCaps \subseteq Nat
  /\ Clocked \subseteq Nat \ {0}
  /\ UsartDepth \in Nat \ {0} /\ SpiDepth \in Nat \ {0}

VARIABLES
  seen,             \* main's local: the bits it read in the register it modifies
  mode, recvAmt, cmie, cmf, tcie, tcf, txing, fifo, ch3, ch4, handed,
  router, wantTag, inTag,
  spiMode, cr2, spiPend, extiPend, rxFifo, ch1, ch2, pins, master

rsOwn  == <<mode, recvAmt, cmie, cmf, tcie, tcf, txing, fifo, ch3, ch4, handed,
            router, wantTag, inTag>>
spiOwn == <<spiMode, cr2, spiPend, extiPend, rxFifo, ch1, ch2, pins, master>>
vars   == <<s2r, r2s, loopVars, panicked, seen, rsOwn, spiOwn>>

Tags == {"a", "b"}
Lens == {IF n < MaxLen THEN n ELSE MaxLen : n \in Clocked}

\* The tags that the environments of the two ports give to frames are the
\* master's and the router's; here those two do it themselves.  When the master
\* begins is said below, of where main is for its port.
Rs  == INSTANCE Rs485Port WITH
         FifoDepth <- UsartDepth, SpiLens <- Lens, spiTag <- "a", RouterReliable <- TRUE
Spi == INSTANCE SpiPort WITH
         FifoDepth <- SpiDepth, Kinds <- {"LONG"}, RsLens <- 1 .. MaxLen, rsTag <- "a",
         MasterCareful <- FALSE, MasterPaced <- TRUE, Rs485Waits <- FALSE

Init == Rs!Init /\ Spi!Init

-----------------------------------------------------------------------------
(* Each port with the other as its environment: what happens in the other   *)
(* half of idle_step is to a port as if main were between two of its own    *)
(* steps, and of a pipe it sees the slot of its own side.                   *)

RsSteps  == {"rsRd", "rsRdDma", "rsRdCr", "rsRdAddr", "rsRdDir", "rsRdDirCr",
             "rsWr", "rsWrDma", "rsWrCr", "rsWrAddr", "rsWrDir", "rsWrDirCr"}
EnSteps  == {"enLoad", "enFlush", "enStore", "enCmie", "enCr1"}
SpiSteps == Spi!Steps \ {"check"}

\* The tag of the next frame the master commits: that of the transaction in
\* progress, or of the next one.
CommitTag ==
  IF "rxrdy" \in master.saw /\ (master.phase = "clocking" \/ extiPend)
    THEN master.tag ELSE Spi!NextTag(master.tag)

RsPc   == IF pc \in SpiSteps THEN AfterUnmask(didRestoreRs485) ELSE pc
RsSeen == IF pc \in SpiSteps THEN {} ELSE seen
RsS2r  == [s2r EXCEPT !.wr = IDLE]
RsR2s  == [r2s EXCEPT !.rd = IDLE]

RsAlone == INSTANCE Rs485Port WITH
  Ports <- {"rs485"}, FifoDepth <- UsartDepth, SpiLens <- Lens,
  RouterReliable <- TRUE,
  pc <- RsPc, seen <- RsSeen, s2r <- RsS2r, r2s <- RsR2s,
  didRestoreSpi <- FALSE, panicked <- FALSE, spiTag <- CommitTag

\* The tag of the next frame the router delivers: that of the frame it has sent
\* and the port has not yet committed, or of the one it sends next.
DeliverTag ==
  IF recvAmt > 0 /\ router.phase \notin {"reading", "sending"}
    THEN Rs!NextTag(inTag) ELSE inTag

SpiPc   == IF pc \in RsSteps THEN "spiWr" ELSE IF pc \in EnSteps THEN "check" ELSE pc
SpiSeen == IF pc \in SpiSteps THEN seen ELSE {}
SpiS2r  == [s2r EXCEPT !.rd = IDLE]
SpiR2s  == [r2s EXCEPT !.wr = IDLE, !.unresolved = FALSE]

SpiAlone == INSTANCE SpiPort WITH
  Ports <- {"spi"}, FifoDepth <- SpiDepth, Kinds <- {"LONG"}, RsLens <- 1 .. MaxLen,
  MasterCareful <- TRUE, MasterPaced <- TRUE, Rs485Waits <- FALSE,
  pc <- SpiPc, seen <- SpiSeen, s2r <- SpiS2r, r2s <- SpiR2s,
  didRestoreRs485 <- FALSE, rsTag <- DeliverTag

-----------------------------------------------------------------------------
(* The firmware.  One priority: of the interrupts that are pending the      *)
(* first in the vector table is taken: EXTI0_1, the DMA channels, SPI1,     *)
(* USART1.                                                                  *)

DmaIrq == ch3.done \/ ch4.done

Exti   == extiPend /\ Spi!Handler /\ UNCHANGED rsOwn
Spi1   == ~extiPend /\ ~DmaIrq /\ Spi!Handler /\ UNCHANGED rsOwn
Dma    == ~extiPend /\ DmaIrq /\ Rs!Handler /\ UNCHANGED spiOwn
Usart1 == ~extiPend /\ ~DmaIrq /\ ~spiPend /\ Rs!Handler /\ UNCHANGED spiOwn

Handler == Exti \/ Spi1 \/ Dma \/ Usart1

Main ==
  \/ ~extiPend /\ ~spiPend /\ Rs!Main /\ UNCHANGED spiOwn
  \/ ~Rs!Irq /\ Spi!Serve /\ UNCHANGED rsOwn

-----------------------------------------------------------------------------
(* The router and the SPI master.                                          *)

RouterPoll == Rs!RouterPoll /\ UNCHANGED spiOwn

Bus == (Rs!TxDone \/ Rs!Ch4Done \/ Rs!RouterSends) /\ UNCHANGED spiOwn

Begins == SpiAlone!MayBegin /\ Spi!Begins /\ UNCHANGED rsOwn

Clocks == (Spi!MasterClocks \/ Spi!MasterEnds) /\ UNCHANGED rsOwn

Next == Handler \/ Main \/ RouterPoll \/ Bus \/ Begins \/ Clocks

Spec == Init /\ [][Next]_vars

\* As for the port alone: the modem as long as no cycle overlaps main's re-arming,
\* which lasts here from the first grant restored to the end of idle_step.
Undisturbed == Init /\ [][Next /\ ~RsAlone!Overlap']_vars

\* As for the ports: interrupts are taken, the main loop runs, what the hardware,
\* the router and the master begin they finish, and both come again.
FairSpec ==
  /\ Undisturbed
  /\ WF_vars(Handler) /\ WF_vars(Main) /\ WF_vars(Bus) /\ WF_vars(Clocks)
  /\ SF_vars(RouterPoll) /\ SF_vars(Begins)

-----------------------------------------------------------------------------
(* Properties.                                                             *)

\* The composition behaves at each port as the port's own specification says: the
\* other port, main loop included, is no more than the environment it assumes.  For the
\* RS-485 port that is its specification as long as no cycle overlaps main's re-arming.
ImplementsRs485Port == RsAlone!Undisturbed
ImplementsSpiPort   == SpiAlone!Spec

\* The frames of `fs` follow each other from tag `first`, and `next` follows them.
Alternate(fs, first, next) ==
  /\ \A i \in 1 .. Len(fs) : fs[i].tag = IF i = 1 THEN first ELSE Rs!NextTag(fs[i - 1].tag)
  /\ next = IF fs = <<>> THEN first ELSE Rs!NextTag(fs[Len(fs)].tag)

\* From the master to the router: between what the router has got and what the
\* master hands over next the pipe holds every frame, once, in order and with
\* nothing else in it.  The frame channel 4 has handed over is still first in it.
OutboundEndToEnd ==
  Alternate(IF ch4.done THEN Tail(s2r.frames) ELSE s2r.frames, wantTag, CommitTag)

\* From the router to the master: the frames that wait to be fetched are the last
\* the router has sent, each once and in order.
InboundEndToEnd ==
  Alternate(r2s.frames, IF r2s.frames = <<>> THEN DeliverTag ELSE Head(r2s.frames).tag,
            DeliverTag)

\* The channels of both ports run only on grants that are taken, and were set up for
\* them, also when the other port delivers in the middle of a transaction.
ChannelsServeTheirGrants ==
  RsAlone!DmaRunsOnItsGrant /\ (~panicked => SpiAlone!GrantsAreServed)

\* While the other port works on the same pipes, and as long as no cycle overlaps main's
\* re-arming, each channel serves its grant, a transaction is
\* one frame of the length and with the bytes that were clocked, and the pins it began
\* with keep their word.
TransactionsAreFrames ==
  []ChannelsServeTheirGrants /\ SpiAlone!FrameIsTheTransaction /\ SpiAlone!PinsKeepTheirWord

\* Main enables the SPI interrupt again, for a grant that came in the middle of a
\* transaction: nothing in the code prevents it, and "Not idle?" asserts that no byte
\* of the transaction follows.
UnmaskOverlap == pc = "unmaskCr2" /\ (master.phase = "clocking" \/ extiPend)

\* Of the assertions of both ports only "What" and "Not idle?" stop the modem, and each
\* only by what it is there to exclude: with no cycle overlapping main's re-arming and
\* no transaction its unmasking nothing panics, "MODE_RELOAD" least of all.
StopsOnlyAtOverlaps == []~UnmaskOverlap => []~panicked

\* Frames cross the modem in both directions once, in order and unmixed, as long as no
\* cycle overlaps main's re-arming.
EndToEnd == OutboundEndToEnd /\ InboundEndToEnd

\* A frame the master has handed over reaches the router, unless an assertion
\* stops the modem.
OutboundDelivered ==
  \A t \in Tags : (s2r.frames # <<>> /\ wantTag = t) ~> (wantTag # t \/ panicked)

\* A frame the router has sent is fetched by the master.
InboundFetched ==
  \A t \in Tags :
    (r2s.frames # <<>> /\ Head(r2s.frames).tag = t)
      ~> (r2s.frames = <<>> \/ Head(r2s.frames).tag # t \/ panicked)

\* Whatever either peer hands over arrives at the other.
FramesArrive == OutboundDelivered /\ InboundFetched

\* A router that goes on polling is answered.
PollIsAnswered == Rs!PollIsAnswered
=============================================================================
