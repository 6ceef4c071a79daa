----------------------------- MODULE Rs485Port -----------------------------
(***************************************************************************)
(* firmware/src/modem/rs485.rs and the RS-485 half of idle_step: the modem  *)
(* answers the polls of a router on a half-duplex bus.  A poll carries what *)
(* the router can receive and what it wants to send; the modem answers with *)
(* what it sends and what it accepts, sends its frame by DMA channel 4, and *)
(* then receives the router's by DMA channel 3.                             *)
(*                                                                         *)
(* The SPI side of the pipes is an environment that commits frames to s2r   *)
(* and takes frames from r2s at any time.  A frame is its length and a tag  *)
(* that alternates from frame to frame, so that a lost or repeated frame    *)
(* shows; "mixed" tags a frame that holds words that were no payload.       *)
(***************************************************************************)
EXTENDS Pipes

CONSTANTS
  MaxLen,           \* the frame size the slots ask grants for (256 in the code)
  RxCaps, TxCaps,   \* what the router may announce: r_rx_cap and r_tx_cap
  SpiLens,          \* the lengths of the frames the SPI side commits
  FifoDepth,        \* bound: words the USART FIFO keeps while nobody reads
  RouterReliable    \* does the router finish what it starts?

ASSUME Rs485Assumption ==
  /\ MaxLen \in Nat \ {0}
  /\ RxCaps \subseteq Nat /\ TxCaps \subseteq Nat
  /\ SpiLens \subseteq 0 .. MaxLen
  /\ FifoDepth \in Nat \ {0}
  /\ RouterReliable \in BOOLEAN

VARIABLES
  mode,             \* static MODE
  recvAmt,          \* static RECV_AMT
  cmie, cmf,        \* address match: interrupt enable, flag
  tcie, tcf,        \* transmission complete: interrupt enable, flag
  txing,            \* an answer without a frame is being shifted out
  fifo,             \* receive FIFO: "poll" (the words of a poll) or payload
  ch3,              \* receive DMA: running, words left, what it got so far,
                    \* set up for the grant in the slot, transfer complete
  ch4,              \* transmit DMA: running, frame set up, transfer complete
  handed,           \* main's local: the frame service_lowprio_rd handed it
  seen,             \* main's local: the bits it read in the register it modifies
  router,           \* the router: phase, words it has still to send
  spiTag,           \* tag of the next frame of the SPI side
  wantTag,          \* tag of the frame the router expects next
  inTag             \* tag of the frame the router sends next

usartVars  == <<mode, recvAmt, cmie, cmf, tcie, tcf, txing, fifo>>
dmaVars    == <<ch3, ch4>>
routerVars == <<router, spiTag, wantTag, inTag>>
vars == <<s2r, r2s, loopVars, panicked, usartVars, dmaVars, handed, seen, routerVars>>

Tags == {"a", "b"}
NextTag(t) == IF t = "a" THEN "b" ELSE "a"

Frames  == [len : 0 .. MaxLen, tag : Tags \cup {"mixed"}]
NoFrame == [len |-> 0, tag |-> "none"]
Words   == {"poll"} \cup Tags

Modes == {"RELOAD", "READY", "SEND_NO_DMA", "SEND_DMA", "RECV"}
Steps == {"check", "rsRd", "rsRdDma", "rsRdCr", "rsRdAddr", "rsRdDir", "rsRdDirCr",
          "rsWr", "rsWrDma", "rsWrCr", "rsWrAddr", "rsWrDir", "rsWrDirCr",
          "enLoad", "enFlush", "enStore", "enCmie", "enCr1"}

TypeOK ==
  /\ PipesTypeOK
  /\ pc \in Steps
  /\ mode \in Modes /\ recvAmt \in 0 .. MaxLen
  /\ {cmie, cmf, tcie, tcf, txing} \subseteq BOOLEAN
  /\ fifo \in UNION {[1 .. n -> Words] : n \in 0 .. FifoDepth}
  /\ ch3 \in [on : BOOLEAN, left : 0 .. MaxLen, got : Tags \cup {"none", "mixed"},
              fresh : BOOLEAN, done : BOOLEAN]
  /\ ch4 \in [on : BOOLEAN, frame : Frames \cup {NoFrame}, done : BOOLEAN]
  /\ handed \in Frames \cup {NoFrame}
  /\ seen \subseteq {"en", "tcie"}
  /\ router \in [phase : {"idle", "polling", "reading", "sending"}, left : 0 .. MaxLen]
  /\ {spiTag, wantTag, inTag} \subseteq Tags

\* setup_rs485, which leaves the address match interrupt enabled.
Init ==
  /\ PipesInit /\ pc = "check"
  /\ mode = "RELOAD" /\ recvAmt = 0
  /\ cmie = TRUE /\ cmf = FALSE /\ tcie = FALSE /\ tcf = FALSE /\ txing = FALSE
  /\ fifo = <<>>
  /\ ch3 = [on |-> FALSE, left |-> 0, got |-> "none", fresh |-> FALSE, done |-> FALSE]
  /\ ch4 = [on |-> FALSE, frame |-> NoFrame, done |-> FALSE]
  /\ handed = NoFrame /\ seen = {}
  /\ router = [phase |-> "idle", left |-> 0]
  /\ spiTag = "a" /\ wantTag = "a" /\ inTag = "a"

\* USART1, DMA_CHANNEL2_3 and DMA_CHANNEL4_5_6_7 all call rs485_isr, which
\* looks at MODE and not at what raised it.
Irq == (cmf /\ cmie) \/ (tcf /\ tcie) \/ ch3.done \/ ch4.done

-----------------------------------------------------------------------------
(* Words on the bus: to memory while DMA channel 3 runs, else to the FIFO   *)
(* (a word that finds it full is lost).                                     *)

Merge(got, word) ==
  IF word = "poll" \/ got \notin {"none", word} THEN "mixed" ELSE word

DmaTakes(c, word) ==
  [c EXCEPT !.left = @ - 1, !.got = Merge(@, word), !.done = c.left = 1]

\* What a grant that got these words, and no others, holds.
AllOf(words) ==
  IF words = <<>> THEN "none"
  ELSE IF words[1] \in Tags /\ \A i \in DOMAIN words : words[i] = words[1]
         THEN words[1] ELSE "mixed"

Arrives(word) ==
  IF ch3.on /\ ch3.left > 0
    THEN ch3' = DmaTakes(ch3, word) /\ fifo' = fifo
    ELSE ch3' = ch3 /\ fifo' = IF Len(fifo) < FifoDepth THEN Append(fifo, word) ELSE fifo

-----------------------------------------------------------------------------
(* rs485_isr.                                                              *)

\* Mutation: the room is taken without a look at the slot.
RxCapUnasked == MaxLen

\* What get_prep_rd_dma and get_prep_wr_dma return in idle_start.
TxCap == IF s2r.rd = READY THEN Head(s2r.frames).len ELSE 0
RxCap == IF r2s.wr = READY THEN MaxLen ELSE 0

\* idle_start, when the words of the poll do not come within 8 microseconds.
IdleStartTimeout ==
  /\ ~panicked /\ Irq /\ mode = "READY"
  /\ fifo = <<>>
  /\ cmie' = FALSE
  /\ s2r' = AbortRd(PrepRd(s2r))
  /\ r2s' \in AbortWr(PrepWr(r2s))
  /\ ch3' = [ch3 EXCEPT !.fresh = FALSE]
  /\ UNCHANGED <<loopVars, panicked, mode, recvAmt, cmf, tcie, tcf, txing, fifo, ch4,
                 handed, seen, routerVars>>

\* idle_start, when they come: what the router cannot hold is not sent, what
\* the modem cannot hold is refused, and the answer says which.
IdleStartAnswer(rRxCap, rTxCap) ==
  LET sends   == rRxCap >= TxCap
      accepts == rTxCap <= RxCap
      txAmt   == IF sends THEN TxCap ELSE 0
      rxAmt   == IF accepts THEN rTxCap ELSE 0
  IN /\ ~panicked /\ Irq /\ mode = "READY"
     /\ fifo # <<>> /\ fifo' = Tail(fifo)
     /\ cmie' = FALSE
     /\ s2r' = IF sends THEN PrepRd(s2r) ELSE AbortRd(PrepRd(s2r))
     /\ r2s' \in IF accepts THEN {PrepWr(r2s)} ELSE AbortWr(PrepWr(r2s))
     /\ ch3' = [ch3 EXCEPT !.fresh = @ /\ accepts]
     /\ recvAmt' = rxAmt
     /\ tcf' = FALSE
     /\ IF txAmt # 0
          THEN /\ mode' = "SEND_DMA"
               /\ ch4' = [ch4 EXCEPT !.on = TRUE, !.done = FALSE]
               /\ UNCHANGED <<tcie, txing>>
          ELSE /\ mode' = "SEND_NO_DMA"
               /\ tcie' = TRUE /\ txing' = TRUE
               /\ UNCHANGED ch4
     /\ router' = IF router.phase = "polling" THEN [phase |-> "reading", left |-> rxAmt]
                                              ELSE router
     /\ UNCHANGED <<loopVars, panicked, cmf, handed, spiTag, wantTag, inTag, seen>>

\* start_recv: nothing to receive ends the cycle; otherwise channel 3 runs for
\* exactly the words accepted, beginning with what the FIFO holds.
StartRecv ==
  IF recvAmt = 0
    THEN mode' = "RELOAD" /\ UNCHANGED <<ch3, fifo>>
    ELSE /\ mode' = "RECV"
         /\ LET n == IF Len(fifo) < recvAmt THEN Len(fifo) ELSE recvAmt
            IN /\ ch3' = [ch3 EXCEPT !.on = TRUE, !.left = recvAmt - n,
                                     !.got = AllOf(SubSeq(fifo, 1, n)), !.done = n = recvAmt]
               /\ fifo' = SubSeq(fifo, n + 1, Len(fifo))

DmaTxComplete ==
  /\ ~panicked /\ Irq /\ mode = "SEND_DMA"
  /\ ch4' = [ch4 EXCEPT !.on = FALSE, !.done = FALSE]
  /\ s2r' = CompleteRd(s2r)
  /\ StartRecv
  /\ UNCHANGED <<r2s, loopVars, panicked, recvAmt, cmie, cmf, tcie, tcf, txing, handed,
                 seen, routerVars>>

\* Mutation: the interrupt of the end of transmission stays enabled.
NoDmaTxStaysEnabled ==
  /\ ~panicked /\ Irq /\ mode = "SEND_NO_DMA"
  /\ StartRecv
  /\ UNCHANGED <<s2r, r2s, loopVars, panicked, recvAmt, cmie, cmf, tcie, tcf, txing, ch4,
                 handed, seen, routerVars>>

NoDmaTxComplete ==
  /\ ~panicked /\ Irq /\ mode = "SEND_NO_DMA"
  /\ tcie' = FALSE
  /\ StartRecv
  /\ UNCHANGED <<s2r, r2s, loopVars, panicked, recvAmt, cmie, cmf, tcf, txing, ch4, handed,
                 seen, routerVars>>

RecvComplete ==
  /\ ~panicked /\ Irq /\ mode = "RECV"
  /\ ch3' = [ch3 EXCEPT !.on = FALSE, !.done = FALSE, !.fresh = FALSE]
  /\ r2s' = CompleteWr(r2s, [len |-> recvAmt, tag |-> IF ch3.got \in Tags THEN ch3.got
                                                                          ELSE "mixed"])
  /\ recvAmt' = 0
  /\ mode' = "RELOAD"
  /\ UNCHANGED <<s2r, loopVars, panicked, cmie, cmf, tcie, tcf, txing, fifo, ch4, handed,
                 seen, routerVars>>

\* "MODE_RELOAD | _ => defmt::panic!()".
PanicInReload ==
  /\ ~panicked /\ Irq /\ mode = "RELOAD"
  /\ panicked' = TRUE
  /\ UNCHANGED <<s2r, r2s, loopVars, usartVars, dmaVars, handed, seen, routerVars>>

Handler ==
  \/ IdleStartTimeout
  \/ \E rRxCap \in RxCaps, rTxCap \in TxCaps : IdleStartAnswer(rRxCap, rTxCap)
  \/ DmaTxComplete \/ NoDmaTxComplete \/ RecvComplete \/ PanicInReload

-----------------------------------------------------------------------------
(* The RS-485 half of idle_step and enable_rs485_addr_match.               *)

MainAt(step) == ~panicked /\ ~Irq /\ pc = step

\* Mutation: a cycle that timed out is not reloaded.
ReloadOnly == mode = "RELOAD"

ShouldReload == mode \in {"RELOAD", "READY"}

Check ==
  /\ MainAt("check")
  /\ pc' = IF ShouldReload THEN "rsRd" ELSE AfterRs485(FALSE, FALSE)
  /\ didRestoreSpi' = FALSE /\ didRestoreRs485' = FALSE
  /\ UNCHANGED <<s2r, r2s, panicked, usartVars, dmaVars, handed, seen, routerVars>>

\* The outgoing grant, published in the slot before the channel is set up.
RestoreRd ==
  /\ MainAt("rsRd") /\ CanGrantRd(s2r)
  /\ s2r' = ServiceRd(s2r)
  /\ handed' = Head(s2r.frames)
  /\ pc' = "rsRdDma"
  /\ UNCHANGED <<r2s, didRestoreSpi, didRestoreRs485, panicked, usartVars, dmaVars,
                 seen, routerVars>>

NothingToSend ==
  /\ MainAt("rsRd") /\ ~CanGrantRd(s2r)
  /\ s2r' = IF FindsNone(s2r) THEN ServiceRdNone(s2r) ELSE s2r
  /\ pc' = "rsWr"
  /\ UNCHANGED <<r2s, didRestoreSpi, didRestoreRs485, panicked, usartVars, dmaVars, handed,
                 seen, routerVars>>

\* Main configures a channel by reading its control register and writing it back
\* with other bits changed, by writing address and length, and by reading and
\* writing back the register once more for the direction.  A handler that ran
\* between a read and its write has its enable bit undone; a running channel
\* keeps its address and length.
SetUpCh4Read ==
  /\ \/ MainAt("rsRdDma") /\ pc' = "rsRdCr"
     \/ MainAt("rsRdDir") /\ pc' = "rsRdDirCr"
  /\ seen' = IF ch4.on THEN {"en"} ELSE {}
  /\ UNCHANGED <<s2r, r2s, didRestoreSpi, didRestoreRs485, panicked, usartVars, dmaVars,
                 handed, routerVars>>

SetUpCh4Write ==
  /\ \/ MainAt("rsRdCr") /\ pc' = "rsRdAddr"
     \/ MainAt("rsRdDirCr") /\ pc' = "rsWr"
  /\ ch4' = [ch4 EXCEPT !.on = "en" \in seen]
  /\ seen' = {}
  /\ UNCHANGED <<s2r, r2s, didRestoreSpi, didRestoreRs485, panicked, usartVars, ch3,
                 handed, routerVars>>

SetUpCh4 ==
  /\ MainAt("rsRdAddr")
  /\ ch4' = IF ch4.on THEN ch4 ELSE [ch4 EXCEPT !.frame = handed]
  /\ handed' = NoFrame
  /\ didRestoreRs485' = TRUE
  /\ pc' = "rsRdDir"
  /\ UNCHANGED <<s2r, r2s, didRestoreSpi, panicked, usartVars, ch3, seen, routerVars>>

RestoreWr ==
  /\ MainAt("rsWr") /\ CanGrantWr(r2s)
  /\ r2s' = ServiceWr(r2s)
  /\ pc' = "rsWrDma"
  /\ UNCHANGED <<s2r, didRestoreSpi, didRestoreRs485, panicked, usartVars, dmaVars, handed,
                 seen, routerVars>>

NoRoomOrNotIdle ==
  /\ MainAt("rsWr") /\ (r2s.wr # IDLE \/ MayRefuseWr(r2s))
  /\ pc' = AfterRs485(didRestoreSpi, didRestoreRs485)
  /\ UNCHANGED <<s2r, r2s, didRestoreSpi, didRestoreRs485, panicked, usartVars, dmaVars,
                 handed, seen, routerVars>>

SetUpCh3Read ==
  /\ \/ MainAt("rsWrDma") /\ pc' = "rsWrCr"
     \/ MainAt("rsWrDir") /\ pc' = "rsWrDirCr"
  /\ seen' = IF ch3.on THEN {"en"} ELSE {}
  /\ UNCHANGED <<s2r, r2s, didRestoreSpi, didRestoreRs485, panicked, usartVars, dmaVars,
                 handed, routerVars>>

SetUpCh3Write ==
  /\ \/ MainAt("rsWrCr") /\ pc' = "rsWrAddr"
     \/ MainAt("rsWrDirCr") /\ pc' = AfterRs485(didRestoreSpi, didRestoreRs485)
  /\ ch3' = [ch3 EXCEPT !.on = "en" \in seen]
  /\ seen' = {}
  /\ UNCHANGED <<s2r, r2s, didRestoreSpi, didRestoreRs485, panicked, usartVars, ch4,
                 handed, routerVars>>

\* What is set up for a grant that has gone meanwhile is set up for nothing.
SetUpCh3 ==
  /\ MainAt("rsWrAddr")
  /\ ch3' = IF ch3.on THEN ch3 ELSE [ch3 EXCEPT !.fresh = r2s.wr # IDLE]
  /\ didRestoreRs485' = TRUE
  /\ pc' = "rsWrDir"
  /\ UNCHANGED <<s2r, r2s, didRestoreSpi, panicked, usartVars, ch4, handed, seen,
                 routerVars>>

\* enable_rs485_addr_match: MODE is loaded, judged, and stored three steps later.
EnableLoad ==
  /\ MainAt("enLoad")
  /\ IF ShouldReload THEN pc' = "enFlush" /\ UNCHANGED panicked
                     ELSE panicked' = TRUE /\ UNCHANGED pc      \* "What"
  /\ UNCHANGED <<s2r, r2s, didRestoreSpi, didRestoreRs485, usartVars, dmaVars, handed,
                 seen, routerVars>>

\* Mutation: the receive FIFO is not flushed.
EnableKeepsFifo ==
  /\ MainAt("enFlush")
  /\ cmf' = FALSE
  /\ pc' = "enStore"
  /\ UNCHANGED <<s2r, r2s, didRestoreSpi, didRestoreRs485, panicked, mode, recvAmt, cmie,
                 tcie, tcf, txing, fifo, dmaVars, handed, seen, routerVars>>

EnableFlush ==
  /\ MainAt("enFlush")
  /\ cmf' = FALSE /\ fifo' = <<>>
  /\ pc' = "enStore"
  /\ UNCHANGED <<s2r, r2s, didRestoreSpi, didRestoreRs485, panicked, mode, recvAmt, cmie,
                 tcie, tcf, txing, dmaVars, handed, seen, routerVars>>

EnableStore ==
  /\ MainAt("enStore")
  /\ mode' = "READY"
  /\ pc' = "enCmie"
  /\ UNCHANGED <<s2r, r2s, didRestoreSpi, didRestoreRs485, panicked, recvAmt, cmie, cmf,
                 tcie, tcf, txing, fifo, dmaVars, handed, seen, routerVars>>

\* The interrupt is enabled by a read and a write of CR1, which also holds tcie.
EnableReadCr1 ==
  /\ MainAt("enCmie")
  /\ seen' = IF tcie THEN {"tcie"} ELSE {}
  /\ pc' = "enCr1"
  /\ UNCHANGED <<s2r, r2s, didRestoreSpi, didRestoreRs485, panicked, usartVars, dmaVars,
                 handed, routerVars>>

\* Mutation: CR1 is written back as it was read.
EnableForgets ==
  /\ MainAt("enCr1")
  /\ tcie' = ("tcie" \in seen)
  /\ seen' = {}
  /\ pc' = "check"
  /\ UNCHANGED <<s2r, r2s, didRestoreSpi, didRestoreRs485, panicked, mode, recvAmt, cmie,
                 cmf, tcf, txing, fifo, dmaVars, handed, routerVars>>

EnableCmie ==
  /\ MainAt("enCr1")
  /\ cmie' = TRUE /\ tcie' = ("tcie" \in seen)
  /\ seen' = {}
  /\ pc' = "check"
  /\ UNCHANGED <<s2r, r2s, didRestoreSpi, didRestoreRs485, panicked, mode, recvAmt, cmf,
                 tcf, txing, fifo, dmaVars, handed, routerVars>>

Main ==
  \/ Check
  \/ RestoreRd \/ NothingToSend \/ SetUpCh4Read \/ SetUpCh4Write \/ SetUpCh4
  \/ RestoreWr \/ NoRoomOrNotIdle \/ SetUpCh3Read \/ SetUpCh3Write \/ SetUpCh3
  \/ EnableLoad \/ EnableFlush \/ EnableStore \/ EnableReadCr1 \/ EnableCmie

-----------------------------------------------------------------------------
(* The hardware and the router.                                            *)

AfterReading == IF router.left > 0 THEN [router EXCEPT !.phase = "sending"]
                                   ELSE [router EXCEPT !.phase = "idle"]

TxDone ==
  /\ txing /\ txing' = FALSE
  /\ tcf' = TRUE
  /\ router' = IF router.phase = "reading" THEN AfterReading ELSE router
  /\ UNCHANGED <<s2r, r2s, loopVars, panicked, mode, recvAmt, cmie, cmf, tcie, fifo,
                 dmaVars, handed, spiTag, wantTag, inTag, seen>>

\* Channel 4 has handed the frame to the transmitter; a listening router has it.
Ch4Done ==
  /\ ch4.on /\ ~ch4.done
  /\ ch4' = [ch4 EXCEPT !.done = TRUE]
  /\ IF router.phase = "reading"
       THEN router' = AfterReading /\ wantTag' = NextTag(ch4.frame.tag)
       ELSE UNCHANGED <<router, wantTag>>
  /\ UNCHANGED <<s2r, r2s, loopVars, panicked, usartVars, ch3, handed, spiTag, inTag, seen>>

\* When the router may poll.  It sees nothing of main; but a poll is microseconds
\* of words, so that it does not come again before the handler had the time to
\* answer.  Those of a reliable router are also further apart than the last few
\* instructions of arming the port, and it waits until the port has been armed a
\* first time.
PollAllowed ==
  /\ ~Irq
  /\ RouterReliable => /\ ~(cmf /\ pc \in {"enStore", "enCmie", "enCr1"})
                       /\ ~(cmie /\ mode = "RELOAD")

\* A poll, or its repetition when no answer came.
RouterPoll ==
  /\ router.phase \in {"idle", "polling"} /\ PollAllowed
  /\ router' = [phase |-> "polling", left |-> 0]
  /\ cmf' = TRUE
  /\ Arrives("poll")
  /\ UNCHANGED <<s2r, r2s, loopVars, panicked, mode, recvAmt, cmie, tcie, tcf, txing, ch4,
                 handed, spiTag, wantTag, inTag, seen>>

\* A poll whose address is all that arrives, at first.
RouterShortPoll ==
  /\ ~RouterReliable
  /\ router.phase \in {"idle", "polling"} /\ PollAllowed
  /\ router' = [phase |-> "polling", left |-> 1]
  /\ cmf' = TRUE
  /\ UNCHANGED <<s2r, r2s, loopVars, panicked, mode, recvAmt, cmie, tcie, tcf, txing, fifo,
                 dmaVars, handed, spiTag, wantTag, inTag, seen>>

\* Its other words, at any time later: the address has unmuted the receiver.
RouterLateWords ==
  /\ router.phase = "polling" /\ router.left = 1
  /\ Arrives("poll")
  /\ router' = [router EXCEPT !.left = 0]
  /\ UNCHANGED <<s2r, r2s, loopVars, panicked, mode, recvAmt, cmie, cmf, tcie, tcf, txing,
                 ch4, handed, spiTag, wantTag, inTag, seen>>

\* A reliable router does not overrun the FIFO that rs485_isr is about to read.
RouterSends ==
  /\ router.phase = "sending"
  /\ RouterReliable /\ Irq => Len(fifo) < FifoDepth
  /\ Arrives(inTag)
  /\ IF router.left = 1
       THEN router' = [phase |-> "idle", left |-> 0] /\ inTag' = NextTag(inTag)
       ELSE router' = [router EXCEPT !.left = @ - 1] /\ inTag' = inTag
  /\ UNCHANGED <<s2r, r2s, loopVars, panicked, mode, recvAmt, cmie, cmf, tcie, tcf, txing,
                 ch4, handed, spiTag, wantTag, seen>>

RouterGivesUp ==
  /\ ~RouterReliable
  /\ router.phase # "idle"
  /\ router' = [phase |-> "idle", left |-> 0]
  /\ UNCHANGED <<s2r, r2s, loopVars, panicked, usartVars, dmaVars, handed, spiTag, wantTag,
                 inTag, seen>>

Bus == TxDone \/ Ch4Done \/ RouterPoll \/ RouterShortPoll \/ RouterLateWords \/ RouterSends
       \/ RouterGivesUp

-----------------------------------------------------------------------------
(* The SPI side of the pipes.                                              *)

SpiCommits(len) ==
  /\ ~panicked
  /\ Len(s2r.frames) < MaxFrames
  /\ s2r' = [s2r EXCEPT !.frames = Append(@, [len |-> len, tag |-> spiTag]),
                        !.unresolved = FALSE]
  /\ spiTag' = NextTag(spiTag)
  /\ UNCHANGED <<r2s, loopVars, panicked, usartVars, dmaVars, handed, router, wantTag, inTag, seen>>

Fetched(p) == IF p.frames = <<>> THEN ServiceRdNone(p) ELSE [p EXCEPT !.frames = Tail(@)]

SpiTakes ==
  /\ ~panicked
  /\ r2s' = Fetched(r2s)
  /\ UNCHANGED <<s2r, loopVars, panicked, usartVars, dmaVars, handed, seen, routerVars>>

\* One transaction that does both.
SpiExchanges(len) ==
  /\ ~panicked
  /\ Len(s2r.frames) < MaxFrames /\ r2s.frames # <<>>
  /\ s2r' = [s2r EXCEPT !.frames = Append(@, [len |-> len, tag |-> spiTag]),
                        !.unresolved = FALSE]
  /\ r2s' = Fetched(r2s)
  /\ spiTag' = NextTag(spiTag)
  /\ UNCHANGED <<loopVars, panicked, usartVars, dmaVars, handed, seen, router, wantTag, inTag>>

Spi == SpiTakes \/ \E len \in SpiLens : SpiCommits(len) \/ SpiExchanges(len)

Next == Handler \/ Main \/ Bus \/ Spi

Spec == Init /\ [][Next]_vars

\* Main has restored a grant in this pass and not yet armed the port for it.
Rearming == pc # "check" /\ (didRestoreRs485 \/ pc \notin {"rsRd", "rsWr"})

\* A poll that main answers meanwhile, or a grant it restores while the answer to
\* a poll is under way: nothing in the code prevents it, and "What" asserts at one
\* point that it has not happened.
Overlap == Rearming /\ mode \notin {"RELOAD", "READY"}

\* The port as long as no cycle overlaps main's re-arming.
Undisturbed == Init /\ [][Next /\ ~Overlap']_vars

\* Interrupts are taken, the main loop runs, the hardware finishes what it
\* does, the router polls again and again and sends what it announced, and the
\* SPI master fetches what is there.
Fairness ==
  /\ WF_vars(Handler) /\ WF_vars(Main)
  /\ WF_vars(TxDone) /\ WF_vars(Ch4Done)
  /\ SF_vars(RouterPoll) /\ WF_vars(RouterSends)
  /\ WF_vars(SpiTakes)

FairSpec == Undisturbed /\ Fairness

-----------------------------------------------------------------------------
(* Properties.                                                             *)

\* As long as no cycle overlaps main's re-arming, the panic of MODE_RELOAD is all a
\* router can drive the modem into, and only before the port is armed for the first
\* time, through the interrupt setup_rs485 leaves enabled: what it breaks off,
\* repeats, forgets or sends to a port that is not armed never does.
PanicsOnlyBeforeArming == panicked => mode = "RELOAD" /\ cmie

\* A grant an interrupt handler has taken belongs to a step of the handshake
\* whose end gives it back.
BusyGrantsAreOwned ==
  /\ s2r.rd = BUSY => mode = "SEND_DMA" /\ ch4.on
  /\ r2s.wr = BUSY => mode \in {"SEND_DMA", "SEND_NO_DMA", "RECV"} /\ recvAmt > 0

\* A channel runs only on a grant that is taken and only for it.
DmaRunsOnItsGrant ==
  /\ ch4.on => s2r.rd = BUSY /\ ch4.frame = Head(s2r.frames)
  /\ ch3.on => r2s.wr = BUSY /\ ch3.fresh /\ mode = "RECV"

\* A router that goes on polling is answered, whatever became of its earlier polls.
PollIsAnswered == (router.phase = "polling") ~> (router.phase # "polling" \/ panicked)

\* A poll that breaks off leaves the port armed again for the next one.
Rearmed == (mode = "READY" /\ ~cmie) ~> cmie

\* Every grant an interrupt handler takes is given back, also of a cycle the router
\* has left in the middle.
GrantsComeBack ==
  /\ (s2r.rd = BUSY) ~> (s2r.rd # BUSY \/ panicked)
  /\ (r2s.wr = BUSY) ~> (r2s.wr # BUSY \/ panicked)

\* The assertion "What": enable_rs485_addr_match is called in no other mode
\* than the two should_reload has seen.
EnabledOnlyBetweenCycles == MainAt("enLoad") => ShouldReload
=============================================================================
