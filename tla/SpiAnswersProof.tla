--------------------------- MODULE SpiAnswersProof ---------------------------
(***************************************************************************)
(* What the SPI port promises, for every frame size, depth of the FIFOs and *)
(* length of a transaction.  Whatever the master does, its channels run     *)
(* only on grants that are taken.  With a master that begins only when a    *)
(* pin invites it and main has nothing to restore, that is slow enough for  *)
(* the handlers, and an RS-485 side that neither delivers nor takes during  *)
(* a transaction, what the pins announce is done, the frames are those the  *)
(* master sent, and the answers those it asked for.                         *)
(***************************************************************************)
EXTENDS SpiAnswers, SequenceTheorems, TLAPS

-----------------------------------------------------------------------------
(* The port alone: the ownership of its grants, for every master, every set *)
(* of lengths and every depth of the FIFO.  No assumption on the constants  *)
(* is used.                                                                 *)

\* The records keep their fields.
Shapes ==
  /\ s2r = [frames |-> s2r.frames, wr |-> s2r.wr, rd |-> s2r.rd, unresolved |-> s2r.unresolved]
  /\ r2s = [frames |-> r2s.frames, wr |-> r2s.wr, rd |-> r2s.rd, unresolved |-> r2s.unresolved]
  /\ ch1 = [on |-> ch1.on, left |-> ch1.left, got |-> ch1.got, fresh |-> ch1.fresh]
  /\ ch2 = [on |-> ch2.on, fresh |-> ch2.fresh]

\* What main holds from a register it is in the middle of modifying may be of a
\* transaction that has ended since.  It then undoes that end for one of the channel and
\* the peripheral, and never for both.
SeenInv ==
  /\ pc \in {"spiWrCr", "spiWrDirCr"} /\ "en" \in seen /\ "rxdmaen" \in cr2 => s2r.wr = BUSY
  /\ pc \in {"spiRdCr", "spiRdDirCr"} /\ "en" \in seen /\ "txdmaen" \in cr2 => r2s.rd = BUSY
  /\ pc = "unmaskCr2" /\ "rxdmaen" \in seen /\ ch1.on => s2r.wr = BUSY
  /\ pc = "unmaskCr2" /\ "txdmaen" \in seen /\ ch2.on => r2s.rd = BUSY

OwnInv == Shapes /\ GrantsAreOwned /\ SeenInv

\* Memory is written and read by a channel only while a handler owns the grant.
THEOREM GrantsStayOwned == Spec => []GrantsAreOwned
<1> USE DEF IDLE, READY, BUSY
<1>1. Init => OwnInv
  BY DEF Init, PipesInit, EmptyPipe, OwnInv, Shapes, GrantsAreOwned, SeenInv
<1>2. OwnInv /\ [Next]_vars => OwnInv'
  <2> SUFFICES ASSUME OwnInv, [Next]_vars PROVE OwnInv'
    OBVIOUS
  <2> USE DEF OwnInv, GrantsAreOwned, SeenInv
  \* A transaction takes grants and starts their channels together ...
  <2>1. CASE LongBegins
    <3> DEFINE sends   == r2s.rd = READY /\ Head(r2s.frames).len # 0
               accepts == s2r.wr = READY
    <3>1. UNCHANGED <<pc, seen>> /\ spiMode = "IDLE" /\ spiMode' = "LONG"
      BY <2>1 DEF LongBegins, loopVars
    <3>2. s2r' = (IF accepts THEN [s2r EXCEPT !.wr = BUSY] ELSE s2r)
      BY <2>1 DEF LongBegins, PrepWr
    <3>3. r2s' = (IF r2s.rd = READY THEN [r2s EXCEPT !.rd = BUSY] ELSE r2s)
      BY <2>1 DEF LongBegins, PrepRd
    <3>4. cr2' = (cr2 \ {"rxneie"}) \cup (IF sends THEN {"txdmaen"} ELSE {})
                                    \cup (IF accepts THEN {"rxdmaen"} ELSE {})
      BY <2>1 DEF LongBegins
    <3>5. ch2' = (IF sends THEN [ch2 EXCEPT !.on = TRUE] ELSE ch2)
      BY <2>1 DEF LongBegins
    <3>6. /\ ch1' = [on |-> ch1'.on, left |-> ch1'.left, got |-> ch1'.got, fresh |-> ch1'.fresh]
          /\ ~accepts => ch1' = ch1
      BY <2>1 DEF LongBegins, Started, Shapes
    <3>7. Shapes'
      BY <3>2, <3>3, <3>5, <3>6 DEF Shapes
    <3> HIDE DEF sends, accepts
    <3>8. (accepts => s2r'.wr = BUSY) /\ (sends => r2s'.rd = BUSY)
      BY <3>2, <3>3 DEF Shapes, sends, accepts
    <3>9. /\ "rxdmaen" \in cr2' => "rxdmaen" \in cr2 \/ accepts
          /\ "txdmaen" \in cr2' => "txdmaen" \in cr2 \/ sends
          /\ ~accepts => s2r' = s2r /\ ch1' = ch1
          /\ ~sends => ch2' = ch2
          /\ r2s.rd = BUSY => r2s'.rd = BUSY
      BY <3>2, <3>3, <3>4, <3>5, <3>6 DEF Shapes
    <3> QED BY <3>1, <3>7, <3>8, <3>9
  \* ... and its end stops them before it gives the grants back.
  <2>2. CASE ExtiLong
    <3>1. UNCHANGED <<pc, seen>>
      BY <2>2 DEF ExtiLong, loopVars
    <3>2. "rxdmaen" \notin cr2' /\ "txdmaen" \notin cr2'
      BY <2>2 DEF ExtiLong
    <3>3. Shapes' /\ ch1'.on = FALSE /\ ch2'.on = FALSE
      BY <2>2 DEF ExtiLong, Shapes, CompleteWr, CompleteRd
    <3>4. s2r'.wr # BUSY /\ r2s'.rd # BUSY
      BY <2>2 DEF ExtiLong, Shapes, CompleteWr, CompleteRd
    <3> QED BY <3>1, <3>2, <3>3, <3>4
  \* The other handlers leave the grants and their channels alone.
  <2>3. CASE \/ ExtiSpurious \/ ExtiShort \/ NotIdle
             \/ \E kind \in AllKinds : ShortBegins(kind)
    <3>1. UNCHANGED <<pc, seen, s2r, r2s, ch1, ch2>> /\ cr2' \subseteq cr2
      BY <2>3 DEF ExtiSpurious, ExtiShort, NotIdle, ShortBegins, loopVars, dmaVars
    <3>2. spiMode' = spiMode \/ spiMode # "LONG"
      BY <2>3 DEF ExtiSpurious, ExtiShort, NotIdle, ShortBegins
    <3> QED BY <3>1, <3>2 DEF Shapes
  \* Main publishes grants and moves on.
  <2>4. CASE Check \/ RestoreWr \/ NoRoomOrNotIdle \/ ReadPins \/ SetRxrdy \/ RestoreRd
             \/ NothingToSend \/ SetUpCh1 \/ SetUpCh2 \/ SetTxrdy
    <3>1. UNCHANGED <<spiMode, cr2>> 
          /\ pc' \notin {"spiWrCr", "spiWrDirCr", "spiRdCr", "spiRdDirCr", "unmaskCr2"}
      BY <2>4 DEF Check, RestoreWr, NoRoomOrNotIdle, ReadPins, SetRxrdy, RestoreRd, NothingToSend,
                  SetUpCh1, SetUpCh2, SetTxrdy, Goto, intVars, AfterRd, AfterSpi, AfterUnmask
    <3>2. Shapes' /\ ch1'.on = ch1.on /\ ch2'.on = ch2.on
      BY <2>4 DEF Check, RestoreWr, NoRoomOrNotIdle, ReadPins, SetRxrdy, RestoreRd, NothingToSend,
                  SetUpCh1, SetUpCh2, SetTxrdy, dmaVars, Shapes, ServiceWr, ServiceRd,
                  ServiceRdNone
    <3>3. (s2r'.wr = BUSY) = (s2r.wr = BUSY) /\ (r2s'.rd = BUSY) = (r2s.rd = BUSY)
      BY <2>4 DEF Check, RestoreWr, NoRoomOrNotIdle, ReadPins, SetRxrdy, RestoreRd, NothingToSend,
                  SetUpCh1, SetUpCh2, SetTxrdy, Shapes, ServiceWr, ServiceRd, ServiceRdNone,
                  CanGrantWr, CanGrantRd
    <3> QED BY <3>1, <3>2, <3>3
  \* Main reads and writes back the registers the handlers write.
  <2>5. CASE SetUpCh1Read \/ SetUpCh2Read \/ ReadCr2
    BY <2>5 DEF SetUpCh1Read, SetUpCh2Read, ReadCr2, MainAt, Goto, intVars, dmaVars, Shapes
  <2>6. CASE SetUpCh1Write \/ SetUpCh2Write
    <3>1. UNCHANGED <<s2r, r2s, spiMode, cr2>> 
          /\ pc' \in {"spiWrAddr", "spiRdAddr", "spiWrPin", "spiRdPin"}
      BY <2>6 DEF SetUpCh1Write, SetUpCh2Write, Goto, intVars
    <3>2. Shapes'
      BY <2>6 DEF SetUpCh1Write, SetUpCh2Write, Shapes
    <3>3. CASE SetUpCh1Write
      BY <3>1, <3>2, <3>3 DEF SetUpCh1Write, MainAt, Shapes
    <3>4. CASE SetUpCh2Write
      BY <3>1, <3>2, <3>4 DEF SetUpCh2Write, MainAt, Shapes
    <3> QED BY <2>6, <3>3, <3>4
  <2>7. CASE Unmask
    BY <2>7 DEF Unmask, MainAt, Goto, AfterUnmask, dmaVars, Shapes
  \* The master's bytes, and the other side of the pipes.
  <2>8. CASE Begins \/ MasterClocks \/ MasterEnds
    <3>1. UNCHANGED <<pc, seen, s2r, r2s, spiMode, cr2, ch2>>
      BY <2>8 DEF Begins, MasterBegins, MasterClocks, MasterEnds, loopVars, dmaVars
    <3>2. ch1' = ch1 \/ \E byte : ch1' = DmaTakes(ch1, byte)
      BY <2>8 DEF Begins, MasterBegins, MasterClocks, MasterEnds, Arrives, dmaVars
    <3>3. Shapes' /\ ch1'.on = ch1.on
      BY <3>1, <3>2 DEF Shapes, DmaTakes
    <3> QED BY <3>1, <3>3
  <2>9. CASE Rs485Takes \/ \E len \in RsLens : Rs485Delivers(len)
    <3>1. UNCHANGED <<pc, seen, spiMode, cr2, ch1, ch2>>
      BY <2>9 DEF Rs485Takes, Rs485Delivers, loopVars, intVars, dmaVars
    <3>2. Shapes' /\ s2r'.wr = s2r.wr /\ r2s'.rd = r2s.rd
      BY <2>9, <3>1 DEF Rs485Takes, Rs485Delivers, Shapes, ServiceRdNone
    <3> QED BY <3>1, <3>2
  <2>10. CASE UNCHANGED vars
    BY <2>10 DEF vars, loopVars, intVars, dmaVars, Shapes
  <2> QED
    BY <2>1, <2>2, <2>3, <2>4, <2>5, <2>6, <2>7, <2>8, <2>9, <2>10 DEF Next, Handler, Main, Serve
<1>3. OwnInv => GrantsAreOwned
  BY DEF OwnInv
<1> QED BY <1>1, <1>2, <1>3, PTL DEF Spec

-----------------------------------------------------------------------------
(* The port with a careful master and an RS-485 side that waits for it.     *)

\* The master starts when a pin invites it and main has nothing to restore, does not overrun
\* the handlers, and the RS-485 side waits; the FIFOs hold an answer of two bytes.
Careful ==
  /\ MasterCareful /\ MasterPaced /\ Rs485Waits
  /\ FifoDepth >= 2 /\ TxDepth >= 2

-----------------------------------------------------------------------------
(* The inductive invariant.                                                *)

InFrame  == [len : 1 .. MaxLen, tag : Tags]
OutFrame == [len : 0 .. MaxLen, tag : Tags \cup {"none", "mixed"}]

AnswerByte == [reg : Tags \cup {"init", "mixed"}] \cup [len : Nat] \cup [data : Tags \cup {"mixed"}]

\* What the proof needs of the types.
Types ==
  /\ s2r \in [frames : Seq(OutFrame), wr : SlotState, rd : SlotState, unresolved : BOOLEAN]
  /\ r2s \in [frames : Seq(InFrame), wr : SlotState, rd : SlotState, unresolved : BOOLEAN]
  /\ ch1 \in [on : BOOLEAN, left : 0 .. MaxLen, got : Tags \cup {"none", "mixed"}, fresh : BOOLEAN]
  /\ ch2 \in [on : BOOLEAN, fresh : BOOLEAN]
  /\ master \in [phase : {"idle", "clocking"}, left : Nat, sent : Nat, tag : Tags, saw : SUBSET Pins]
  /\ heard \in [kind : AllKinds \cup {"none"}, bytes : Seq(AnswerByte)]
  /\ txFifo \in Seq(AnswerByte)
  /\ rxFifo \in Seq(Bytes) /\ Len(rxFifo) <= FifoDepth
  /\ reg \in Tags \cup {"init", "mixed"} /\ wrote \in Tags \cup {"init", "mixed"}
  /\ moved \in Nat /\ listens \in BOOLEAN /\ rsTag \in Tags /\ pins \subseteq Pins
  /\ spiMode \in Modes /\ extiPend \in BOOLEAN /\ spiPend \in BOOLEAN
  /\ cr2 \subseteq {"rxneie", "rxdmaen", "txdmaen"}
  /\ didRestoreRs485 = FALSE /\ panicked = FALSE

\* A transaction is in progress from its first byte until exti_isr has seen its end.
Active == master.phase = "clocking" \/ extiPend

\* The two interrupts come one after the other, and the mode is IDLE except between them.
PhaseInv ==
  /\ spiPend => master.phase = "clocking" /\ ~extiPend /\ spiMode = "IDLE"
  /\ extiPend => master.phase = "idle" /\ master.left = 0
  /\ Active /\ ~spiPend <=> spiMode # "IDLE"
  /\ ~Active => rxFifo = <<>>
  /\ spiMode # "IDLE" => "rxneie" \notin cr2
  /\ spiMode # "LONG" => s2r.wr # BUSY /\ r2s.rd # BUSY /\ cr2 \subseteq {"rxneie"} /\ ~ch1.on /\ ~ch2.on

WrSteps == {"spiWrDma", "spiWrCr", "spiWrAddr"}
RdSteps == {"spiRdDma", "spiRdCr", "spiRdAddr"}

\* Main restores nothing in the middle of a transaction, and what it holds of a register is
\* what is in it.
MainInv ==
  /\ Active => /\ pc \in {"check", "spiWr", "spiRd"}
               /\ pc = "check" \/ ~didRestoreSpi
               /\ ~CanGrantWr(s2r) /\ ~CanGrantRd(r2s)
  /\ pc \in WrSteps \cup {"spiWrDir", "spiWrDirCr", "spiWrPin", "spiWrOdr"} => s2r.wr = READY
  /\ pc \in RdSteps \cup {"spiRdDir", "spiRdDirCr", "spiRdPin", "spiRdOdr"} => r2s.rd = READY
  /\ pc \in {"spiWrCr", "spiWrDirCr", "spiRdCr", "spiRdDirCr"} => "en" \notin seen
  /\ pc \in {"spiWrOdr", "spiRdOdr"} => seen = pins
  /\ pc = "unmaskCr2" => seen = cr2

\* A grant that waits is one whose channel is set up; the channel of one that is taken runs.
GrantInv ==
  /\ s2r.wr = READY => pc \in WrSteps \/ (ch1.fresh /\ ch1.left = MaxLen /\ ch1.got = "none")
  /\ r2s.rd = READY => pc \in RdSteps \/ (ch2.fresh /\ (listens => moved = 0))
  /\ s2r.wr = BUSY => ch1.on /\ ch1.fresh /\ "rxdmaen" \in cr2
  /\ r2s.rd = BUSY => ch2.on /\ ch2.fresh /\ "txdmaen" \in cr2
  /\ "txdmaen" \in cr2 => r2s.rd = BUSY
  /\ "rxdmaen" \in cr2 => s2r.wr = BUSY
  /\ r2s.rd # IDLE => r2s.frames # <<>>

\* The pins are active for grants that wait, and a transaction takes what they promised.
PinInv ==
  /\ "rxrdy" \in pins => s2r.wr = READY
  /\ "txrdy" \in pins => r2s.rd = READY
  /\ spiPend => /\ "rxrdy" \in master.saw => s2r.wr = READY
                /\ "txrdy" \in master.saw => r2s.rd = READY
  /\ spiMode = "LONG" => /\ "rxrdy" \in master.saw => s2r.wr = BUSY
                         /\ "txrdy" \in master.saw => r2s.rd = BUSY

AtMost(a, b) == IF a < b THEN a ELSE b

\* Until spi_isr runs, the FIFO has all the master sent; then a grant has it, or, of a write,
\* the FIFO, as far as there is room.
FifoInv ==
  /\ spiPend => /\ Len(rxFifo) = 1 + master.sent /\ rxFifo[1] \in AllKinds
                /\ \A i \in 2 .. Len(rxFifo) : rxFifo[i] = master.tag
  /\ spiMode = "LONG" /\ s2r.wr = BUSY =>
       /\ ch1.left = MaxLen - AtMost(master.sent, MaxLen)
       /\ ch1.got = IF master.sent = 0 THEN "none" ELSE master.tag
  /\ spiMode = "WRITE" => /\ Len(rxFifo) = AtMost(master.sent, FifoDepth)
                          /\ \A i \in 1 .. Len(rxFifo) : rxFifo[i] = master.tag

\* What the modem answers to the transaction: all of it, and what it has put into the FIFO so far.
SentLen  == IF r2s.rd = BUSY THEN Head(r2s.frames).len ELSE 0
SentData == IF r2s.rd = BUSY THEN moved ELSE 0
Need(kind) == CASE kind = "READ" -> 2 [] kind = "LONG" -> 2 + SentLen [] OTHER -> 0
Answer ==
  CASE spiMode = "READ" -> <<Reg(wrote), Reg(wrote)>>
    [] spiMode = "LONG" -> <<Size(SentLen), Size(SentLen)>> \o
                           [i \in 1 .. SentData |-> Data(Head(r2s.frames).tag)]
    [] OTHER -> <<>>

\* A master that listens hears it byte by byte, and the modem is never behind.
HeardInv ==
  /\ ~listens => heard.kind = "none" /\ txFifo = <<>>
  /\ spiMode = "IDLE" => txFifo = <<>>
  /\ listens =>
       /\ IF extiPend /\ spiMode = "WRITE" /\ master.sent >= 2 THEN wrote = master.tag ELSE reg = wrote
       /\ spiPend => /\ heard = [kind |-> rxFifo[1], bytes |-> <<>>] /\ master.sent = 0
                     /\ master.left >= AnswerLen(rxFifo[1])
       /\ spiMode # "IDLE" =>
            /\ heard.kind = spiMode
            /\ master.sent + master.left >= Need(spiMode)
            /\ heard.bytes \o txFifo = Answer
            /\ SentData <= SentLen
            /\ \/ Len(heard.bytes) = master.sent
               \/ txFifo = <<>> /\ (spiMode = "LONG" => SentData = SentLen)

AInv == /\ Types /\ PhaseInv /\ MainInv /\ GrantInv /\ PinInv /\ FifoInv /\ HeardInv

-----------------------------------------------------------------------------
LEMMA TagsAre == "a" \in Tags /\ Tags \subseteq {"a", "b"} /\ \A t : NextTag(t) \in Tags
BY SpiAssumption DEF NextTag

\* The invariant holds to begin with, ...
LEMMA AnswersInitInv == AnswersInit => AInv
<1> SUFFICES ASSUME AnswersInit PROVE AInv
  OBVIOUS
<1> USE DEF AnswersInit, Init, PipesInit, EmptyPipe, IDLE, READY, BUSY
<1>1. Types
  <2>1. /\ s2r \in [frames : Seq(OutFrame), wr : SlotState, rd : SlotState, unresolved : BOOLEAN]
        /\ r2s \in [frames : Seq(InFrame), wr : SlotState, rd : SlotState, unresolved : BOOLEAN]
    BY DEF SlotState
  <2>2. /\ ch1 \in [on : BOOLEAN, left : 0 .. MaxLen, got : Tags \cup {"none", "mixed"}, fresh : BOOLEAN]
        /\ ch2 \in [on : BOOLEAN, fresh : BOOLEAN]
    BY SpiAssumption
  <2>3. master \in [phase : {"idle", "clocking"}, left : Nat, sent : Nat, tag : Tags, saw : SUBSET Pins]
    BY TagsAre
  <2>4. rxFifo \in Seq(Bytes) /\ Len(rxFifo) <= FifoDepth
    BY SpiAssumption
  <2>5. heard \in [kind : AllKinds \cup {"none"}, bytes : Seq(AnswerByte)] /\ txFifo \in Seq(AnswerByte)
    BY DEF AllKinds
  <2>6. /\ reg \in Tags \cup {"init", "mixed"} /\ wrote \in Tags \cup {"init", "mixed"}
        /\ moved \in Nat /\ listens \in BOOLEAN /\ rsTag \in Tags /\ pins \subseteq Pins
        /\ spiMode \in Modes /\ extiPend \in BOOLEAN /\ spiPend \in BOOLEAN
        /\ cr2 \subseteq {"rxneie", "rxdmaen", "txdmaen"}
        /\ didRestoreRs485 = FALSE /\ panicked = FALSE
    BY TagsAre DEF Modes
  <2> QED BY <2>1, <2>2, <2>3, <2>4, <2>5, <2>6 DEF Types
<1>2. PhaseInv /\ MainInv
  BY DEF PhaseInv, MainInv, Active, WrSteps, RdSteps
<1>3. GrantInv /\ PinInv /\ FifoInv
  BY DEF GrantInv, PinInv, FifoInv
<1>4. HeardInv
  BY DEF HeardInv
<1> QED BY <1>1, <1>2, <1>3, <1>4 DEF AInv

-----------------------------------------------------------------------------
(* The steps of main.                                                      *)

\* Between two transactions there is nothing to disturb.
LEMMA Quiet ==
  ASSUME AInv, ~Active
  PROVE  /\ spiMode = "IDLE" /\ ~spiPend /\ ~extiPend /\ rxFifo = <<>> /\ txFifo = <<>>
         /\ s2r.wr # BUSY /\ r2s.rd # BUSY /\ cr2 \subseteq {"rxneie"} /\ ~ch1.on /\ ~ch2.on
         /\ master.phase = "idle" /\ (listens => reg = wrote)
         /\ listens \/ heard.kind = "none"
BY DEF AInv, Types, PhaseInv, HeardInv, Active, Modes

\* What keeps the invariant from one state between transactions to the next.
LEMMA StaysQuiet ==
  ASSUME AInv, ~Active,
         UNCHANGED <<panicked, didRestoreRs485, spiMode, spiPend, extiPend, rxFifo, master,
                     reg, txFifo, heard, wrote, listens>>,
         rsTag' \in Tags,
         s2r' \in [frames : Seq(OutFrame), wr : {IDLE, READY}, rd : SlotState, unresolved : BOOLEAN],
         r2s' \in [frames : Seq(InFrame), wr : SlotState, rd : {IDLE, READY}, unresolved : BOOLEAN],
         ch1' \in [on : {FALSE}, left : 0 .. MaxLen, got : Tags \cup {"none", "mixed"}, fresh : BOOLEAN],
         ch2' \in [on : {FALSE}, fresh : BOOLEAN],
         cr2' \subseteq {"rxneie"}, pins' \subseteq Pins, moved' \in Nat,
         MainInv', PinInv',
         s2r'.wr = READY => pc' \in WrSteps \/ (ch1'.fresh /\ ch1'.left = MaxLen /\ ch1'.got = "none"),
         r2s'.rd = READY => pc' \in RdSteps \/ (ch2'.fresh /\ (listens => moved' = 0)),
         r2s'.rd # IDLE => r2s'.frames # <<>>
  PROVE  AInv'
<1>1. Types'
  BY DEF AInv, Types, SlotState, IDLE, READY, BUSY
<1>2. PhaseInv'
  BY Quiet DEF PhaseInv, Active, IDLE, READY, BUSY
<1>3. GrantInv'
  BY DEF GrantInv, IDLE, READY, BUSY
<1>4. FifoInv'
  BY Quiet DEF FifoInv
<1>5. HeardInv'
  BY Quiet DEF HeardInv
<1> QED BY <1>1, <1>2, <1>3, <1>4, <1>5 DEF AInv

\* What main does not touch.
LEMMA MainLeaves ==
  AnswersMain => UNCHANGED <<panicked, didRestoreRs485, spiMode, extiPend, rxFifo, master, rsTag,
                             reg, txFifo, heard, wrote, listens>>
BY DEF AnswersMain, Main, Serve, Check, ReadPins, RestoreWr, NoRoomOrNotIdle, SetUpCh1Read,
       SetUpCh1Write, SetUpCh1, SetRxrdy, RestoreRd, NothingToSend, SetUpCh2Read, SetUpCh2Write,
       SetUpCh2, SetTxrdy, ReadCr2, Unmask, Goto, intVars

LEMMA MainQuiet == AInv /\ ~Active /\ AnswersMain => AInv'
<1> SUFFICES ASSUME AInv, ~Active, AnswersMain PROVE AInv'
  OBVIOUS
<1> USE DEF IDLE, READY, BUSY
<1>0. /\ spiMode = "IDLE" /\ ~spiPend /\ ~extiPend /\ rxFifo = <<>>
      /\ s2r.wr # BUSY /\ r2s.rd # BUSY /\ cr2 \subseteq {"rxneie"} /\ ~ch1.on /\ ~ch2.on
  BY Quiet
<1>1. UNCHANGED <<panicked, didRestoreRs485, spiMode, extiPend, rxFifo, master, rsTag,
                  reg, txFifo, heard, wrote, listens>>
  BY MainLeaves
<1>2. /\ s2r \in [frames : Seq(OutFrame), wr : {IDLE, READY}, rd : SlotState, unresolved : BOOLEAN]
      /\ r2s \in [frames : Seq(InFrame), wr : SlotState, rd : {IDLE, READY}, unresolved : BOOLEAN]
      /\ ch1 \in [on : {FALSE}, left : 0 .. MaxLen, got : Tags \cup {"none", "mixed"}, fresh : BOOLEAN]
      /\ ch2 \in [on : {FALSE}, fresh : BOOLEAN]
      /\ pins \subseteq Pins /\ moved \in Nat /\ rsTag' \in Tags
  BY <1>0, <1>1 DEF AInv, Types, SlotState
<1>3. /\ s2r.wr = READY => pc \in WrSteps \/ (ch1.fresh /\ ch1.left = MaxLen /\ ch1.got = "none")
      /\ r2s.rd = READY => pc \in RdSteps \/ (ch2.fresh /\ (listens => moved = 0))
      /\ r2s.rd # IDLE => r2s.frames # <<>>
  BY DEF AInv, GrantInv
<1>4. /\ "rxrdy" \in pins => s2r.wr = READY
      /\ "txrdy" \in pins => r2s.rd = READY
  BY DEF AInv, PinInv
<1>5. ~Active' /\ spiMode' = "IDLE"
  BY <1>0, <1>1 DEF Active
<1>6. moved' = IF listens /\ pc = "spiRdAddr" THEN Rewound ELSE moved
  BY DEF AnswersMain
\* Steps that only look.
<1>7. CASE \/ Check \/ NoRoomOrNotIdle \/ NothingToSend \/ ReadPins
           \/ SetUpCh1Read \/ SetUpCh2Read \/ ReadCr2
  <2>1. UNCHANGED <<s2r, ch1, ch2, cr2, pins, spiPend>>
    BY <1>7 DEF Check, NoRoomOrNotIdle, NothingToSend, ReadPins, SetUpCh1Read, SetUpCh2Read, ReadCr2,
                intVars, dmaVars
  <2>2. r2s' = r2s \/ r2s' = [r2s EXCEPT !.unresolved = FALSE]
    BY <1>7 DEF Check, NoRoomOrNotIdle, NothingToSend, ReadPins, SetUpCh1Read, SetUpCh2Read, ReadCr2,
                ServiceRdNone
  <2>3. /\ r2s' \in [frames : Seq(InFrame), wr : SlotState, rd : {IDLE, READY}, unresolved : BOOLEAN]
        /\ r2s'.rd = r2s.rd /\ r2s'.frames = r2s.frames
    BY <1>2, <2>2
  <2>4. /\ pc' \in {"check", "spiWr", "spiRd", "unmask", "spiWrOdr", "spiRdOdr", "spiWrCr",
                   "spiWrDirCr", "spiRdCr", "spiRdDirCr", "unmaskCr2"}
        /\ pc' = "spiWrOdr" => pc = "spiWrPin" /\ seen' = pins
        /\ pc' = "spiRdOdr" => pc = "spiRdPin" /\ seen' = pins
        /\ pc' = "spiWrCr" => pc = "spiWrDma" /\ seen' = (IF ch1.on THEN {"en"} ELSE {})
        /\ pc' = "spiRdCr" => pc = "spiRdDma" /\ seen' = (IF ch2.on THEN {"en"} ELSE {})
        /\ pc' = "spiWrDirCr" => pc = "spiWrDir" /\ seen' = (IF ch1.on THEN {"en"} ELSE {})
        /\ pc' = "spiRdDirCr" => pc = "spiRdDir" /\ seen' = (IF ch2.on THEN {"en"} ELSE {})
        /\ pc' = "unmaskCr2" => seen' = cr2
        /\ pc \notin WrSteps \cup RdSteps \/ (pc = "spiWrDma" /\ pc' = "spiWrCr")
                                          \/ (pc = "spiRdDma" /\ pc' = "spiRdCr")
    BY <1>7 DEF Check, NoRoomOrNotIdle, NothingToSend, ReadPins, SetUpCh1Read, SetUpCh2Read, ReadCr2,
                MainAt, Goto, AfterRd, AfterSpi, AfterUnmask, AInv, Types, WrSteps, RdSteps
  <2>5. MainInv'
    BY <1>0, <1>5, <2>1, <2>3, <2>4 DEF MainInv, AInv, WrSteps, RdSteps
  <2>6. PinInv'
    BY <1>0, <1>1, <1>4, <1>5, <2>1, <2>3 DEF PinInv
  <2>7. /\ s2r'.wr = READY => pc' \in WrSteps \/ (ch1'.fresh /\ ch1'.left = MaxLen /\ ch1'.got = "none")
        /\ r2s'.rd = READY => pc' \in RdSteps \/ (ch2'.fresh /\ (listens => moved' = 0))
        /\ moved' \in Nat
    BY <1>2, <1>3, <1>6, <2>1, <2>3, <2>4 DEF WrSteps, RdSteps, Rewound
  <2> QED BY <1>0, <1>1, <1>2, <1>3, <2>1, <2>3, <2>5, <2>6, <2>7, StaysQuiet
\* Grants are restored, ...
<1>8. CASE RestoreWr
  <2>1. /\ s2r' = [s2r EXCEPT !.wr = READY] /\ pc' = "spiWrDma" /\ pc = "spiWr"
        /\ UNCHANGED <<r2s, ch1, ch2, cr2, pins, spiPend, seen>>
    BY <1>8 DEF RestoreWr, MainAt, Goto, ServiceWr, intVars, dmaVars
  <2>2. /\ s2r' \in [frames : Seq(OutFrame), wr : {IDLE, READY}, rd : SlotState, unresolved : BOOLEAN]
        /\ s2r'.wr = READY
    BY <1>2, <2>1
  <2>3. MainInv'
    BY <1>5, <2>1, <2>2 DEF MainInv, WrSteps, RdSteps
  <2>4. PinInv'
    BY <1>0, <1>1, <1>4, <1>5, <2>1, <2>2 DEF PinInv
  <2> QED BY <1>0, <1>1, <1>2, <1>3, <1>6, <2>1, <2>2, <2>3, <2>4, StaysQuiet DEF WrSteps, RdSteps
<1>9. CASE RestoreRd
  <2>1. /\ r2s' = [r2s EXCEPT !.rd = READY] /\ pc' = "spiRdDma" /\ pc = "spiRd" /\ r2s.frames # <<>>
        /\ UNCHANGED <<s2r, ch1, ch2, cr2, pins, spiPend, seen>>
    BY <1>9 DEF RestoreRd, MainAt, Goto, ServiceRd, CanGrantRd, intVars, dmaVars
  <2>2. /\ r2s' \in [frames : Seq(InFrame), wr : SlotState, rd : {IDLE, READY}, unresolved : BOOLEAN]
        /\ r2s'.rd = READY /\ r2s'.frames = r2s.frames
    BY <1>2, <2>1
  <2>3. MainInv'
    BY <1>5, <2>1, <2>2 DEF MainInv, WrSteps, RdSteps
  <2>4. PinInv'
    BY <1>0, <1>1, <1>4, <1>5, <2>1, <2>2 DEF PinInv
  <2> QED BY <1>0, <1>1, <1>2, <1>3, <1>6, <2>1, <2>2, <2>3, <2>4, StaysQuiet DEF WrSteps, RdSteps
\* ... their channels set up, ...
<1>10. CASE SetUpCh1Write \/ SetUpCh2Write
  <2>1. /\ \/ /\ \/ pc = "spiWrCr" /\ pc' = "spiWrAddr"
                 \/ pc = "spiWrDirCr" /\ pc' = "spiWrPin"
              /\ ch2' = ch2 /\ ch1' = [ch1 EXCEPT !.on = "en" \in seen]
           \/ /\ \/ pc = "spiRdCr" /\ pc' = "spiRdAddr"
                 \/ pc = "spiRdDirCr" /\ pc' = "spiRdPin"
              /\ ch1' = ch1 /\ ch2' = [ch2 EXCEPT !.on = "en" \in seen]
        /\ UNCHANGED <<s2r, r2s, cr2, pins, spiPend>>
    <3>1. CASE SetUpCh1Write
      BY <3>1 DEF SetUpCh1Write, MainAt, Goto, intVars
    <3>2. CASE SetUpCh2Write
      BY <3>2 DEF SetUpCh2Write, MainAt, Goto, intVars
    <3> QED BY <1>10, <3>1, <3>2
  <2>0. ("en" \in seen) = FALSE
    BY <2>1 DEF AInv, MainInv
  <2>2. /\ ch1' \in [on : {FALSE}, left : 0 .. MaxLen, got : Tags \cup {"none", "mixed"}, fresh : BOOLEAN]
        /\ ch2' \in [on : {FALSE}, fresh : BOOLEAN]
        /\ ch1'.fresh = ch1.fresh /\ ch1'.left = ch1.left /\ ch1'.got = ch1.got /\ ch2'.fresh = ch2.fresh
    BY <1>2, <2>0, <2>1
  <2>3. MainInv'
    BY <1>5, <2>1 DEF MainInv, AInv, WrSteps, RdSteps
  <2>4. PinInv'
    BY <1>0, <1>1, <1>4, <1>5, <2>1 DEF PinInv
  <2> QED BY <1>0, <1>1, <1>2, <1>3, <1>6, <2>1, <2>2, <2>3, <2>4, StaysQuiet DEF WrSteps, RdSteps
<1>11. CASE SetUpCh1
  <2>1. /\ ch1' = [ch1 EXCEPT !.left = MaxLen, !.got = "none", !.fresh = s2r.wr # IDLE]
        /\ pc = "spiWrAddr" /\ pc' = "spiWrDir"
        /\ UNCHANGED <<s2r, r2s, ch2, cr2, pins, spiPend, seen>>
    BY <1>0, <1>11 DEF SetUpCh1, MainAt, Goto, intVars
  <2>2. s2r.wr = READY
    BY <2>1 DEF AInv, MainInv, WrSteps
  <2>3. /\ ch1' \in [on : {FALSE}, left : 0 .. MaxLen, got : Tags \cup {"none", "mixed"}, fresh : BOOLEAN]
        /\ ch1'.fresh /\ ch1'.left = MaxLen /\ ch1'.got = "none"
    <3>1. MaxLen \in 0 .. MaxLen /\ (s2r.wr # IDLE) = TRUE
      BY <2>2, SpiAssumption
    <3> QED BY <1>2, <2>1, <3>1
  <2>4. MainInv'
    BY <1>5, <2>1, <2>2 DEF MainInv, WrSteps, RdSteps
  <2>5. PinInv'
    BY <1>0, <1>1, <1>4, <1>5, <2>1 DEF PinInv
  <2> QED BY <1>0, <1>1, <1>2, <1>3, <1>6, <2>1, <2>3, <2>4, <2>5, StaysQuiet DEF WrSteps, RdSteps
<1>12. CASE SetUpCh2
  <2>1. /\ ch2' = [ch2 EXCEPT !.fresh = r2s.rd # IDLE]
        /\ pc = "spiRdAddr" /\ pc' = "spiRdDir"
        /\ UNCHANGED <<s2r, r2s, ch1, cr2, pins, spiPend, seen>>
    BY <1>0, <1>12 DEF SetUpCh2, MainAt, Goto, intVars
  <2>2. r2s.rd = READY /\ (listens => moved' = 0) /\ moved' \in Nat
    BY <1>0, <1>2, <1>6, <2>1 DEF AInv, MainInv, RdSteps, Rewound
  <2>3. ch2' \in [on : {FALSE}, fresh : BOOLEAN] /\ ch2'.fresh
    BY <1>2, <2>1, <2>2
  <2>4. MainInv'
    BY <1>5, <2>1, <2>2 DEF MainInv, WrSteps, RdSteps
  <2>5. PinInv'
    BY <1>0, <1>1, <1>4, <1>5, <2>1 DEF PinInv
  <2> QED BY <1>0, <1>1, <1>2, <1>3, <2>1, <2>2, <2>3, <2>4, <2>5, StaysQuiet DEF WrSteps, RdSteps
\* ... and announced.
<1>13. CASE SetRxrdy \/ SetTxrdy
  <2>1. /\ \/ pc = "spiWrOdr" /\ pc' = "spiRd" /\ pins' = seen \cup {"rxrdy"}
           \/ pc = "spiRdOdr" /\ pc' = "unmask" /\ pins' = seen \cup {"txrdy"}
        /\ UNCHANGED <<s2r, r2s, ch1, ch2, cr2, spiPend>>
    BY <1>13 DEF SetRxrdy, SetTxrdy, MainAt, Goto, intVars, dmaVars
  <2>2. \/ pc = "spiWrOdr" /\ s2r.wr = READY /\ pins' = pins \cup {"rxrdy"}
        \/ pc = "spiRdOdr" /\ r2s.rd = READY /\ pins' = pins \cup {"txrdy"}
    BY <2>1 DEF AInv, MainInv
  <2>3. pins' \subseteq Pins
    BY <1>2, <2>2 DEF Pins
  <2>4. MainInv'
    BY <1>5, <2>1 DEF MainInv, WrSteps, RdSteps
  <2>5. PinInv'
    BY <1>0, <1>1, <1>4, <1>5, <2>1, <2>2 DEF PinInv
  <2> QED BY <1>0, <1>1, <1>2, <1>3, <1>6, <2>1, <2>3, <2>4, <2>5, StaysQuiet DEF WrSteps, RdSteps
<1>14. CASE Unmask
  <2>1. /\ pc = "unmaskCr2" /\ pc' = AfterUnmask(didRestoreRs485)
        /\ cr2' = seen \cup {"rxneie"} /\ spiPend' = (rxFifo # <<>>)
        /\ UNCHANGED <<s2r, r2s, ch1, ch2, pins>>
    BY <1>14 DEF Unmask, MainAt, Goto, dmaVars
  <2>2. pc' = "check" /\ cr2' \subseteq {"rxneie"} /\ spiPend' = spiPend
    BY <1>0, <2>1 DEF AInv, MainInv, Types, AfterUnmask
  <2>3. MainInv'
    BY <1>5, <2>2 DEF MainInv, WrSteps, RdSteps
  <2>4. PinInv'
    BY <1>0, <1>1, <1>4, <1>5, <2>1, <2>2 DEF PinInv
  <2> QED BY <1>0, <1>1, <1>2, <1>3, <1>6, <2>1, <2>2, <2>3, <2>4, StaysQuiet DEF WrSteps, RdSteps
<1> QED BY <1>7, <1>8, <1>9, <1>10, <1>11, <1>12, <1>13, <1>14 DEF AnswersMain, Main, Serve

\* The invariant of what is heard does not depend on the rest of the pipes.
LEMMA HeardSame ==
  ASSUME HeardInv, r2s'.rd = r2s.rd, r2s'.frames = r2s.frames,
         UNCHANGED <<spiMode, spiPend, extiPend, rxFifo, master, reg, txFifo, heard, wrote, listens, moved>>
  PROVE  HeardInv'
<1>1. SentLen' = SentLen /\ SentData' = SentData
  BY DEF SentLen, SentData
<1>2. Answer' = Answer
  BY <1>1 DEF Answer
<1>3. \A k : (AnswerLen(k))' = AnswerLen(k) /\ (Need(k))' = Need(k)
  BY <1>1 DEF AnswerLen, Need, Announced
<1>4. (Need(spiMode))' = Need(spiMode) /\ (AnswerLen(rxFifo[1]))' = AnswerLen(rxFifo[1])
  BY <1>3
<1> QED BY <1>1, <1>2, <1>4 DEF HeardInv

LEMMA MainBusy == AInv /\ Active /\ AnswersMain => AInv'
<1> SUFFICES ASSUME AInv, Active, AnswersMain PROVE AInv'
  OBVIOUS
<1>1. UNCHANGED <<panicked, didRestoreRs485, spiMode, extiPend, rxFifo, master, rsTag,
                  reg, txFifo, heard, wrote, listens>>
  BY MainLeaves
<1>2. /\ pc \in {"check", "spiWr", "spiRd"} /\ (pc = "check" \/ ~didRestoreSpi)
      /\ ~CanGrantWr(s2r) /\ ~CanGrantRd(r2s) /\ didRestoreRs485 = FALSE
  BY DEF AInv, MainInv, Types
<1>3. CASE Check \/ NoRoomOrNotIdle \/ NothingToSend
  <2>1. UNCHANGED <<s2r, ch1, ch2, cr2, pins, spiPend>>
    BY <1>3 DEF Check, NoRoomOrNotIdle, NothingToSend, intVars, dmaVars
  <2>2. r2s' = r2s \/ r2s' = [r2s EXCEPT !.unresolved = FALSE]
    BY <1>3 DEF Check, NoRoomOrNotIdle, NothingToSend, ServiceRdNone
  <2>3. /\ r2s' \in [frames : Seq(InFrame), wr : SlotState, rd : SlotState, unresolved : BOOLEAN]
        /\ r2s'.rd = r2s.rd /\ r2s'.frames = r2s.frames
    BY <2>2 DEF AInv, Types
  <2>4. pc' \in {"check", "spiWr", "spiRd"} /\ (pc' = "check" \/ ~didRestoreSpi')
    BY <1>2, <1>3 DEF Check, NoRoomOrNotIdle, NothingToSend, MainAt, Goto, AfterRd, AfterSpi,
                      AfterUnmask
  <2>5. moved' = moved
    BY <1>2 DEF AnswersMain
  <2>6. Active' <=> Active
    BY <1>1 DEF Active
  <2>7. Types'
    BY <1>1, <2>1, <2>3, <2>5 DEF AInv, Types
  <2>8. PhaseInv'
    BY <1>1, <2>1, <2>3, <2>6 DEF AInv, PhaseInv
  <2>9. MainInv'
    BY <1>2, <2>1, <2>3, <2>4 DEF MainInv, WrSteps, RdSteps, CanGrantWr, CanGrantRd
  <2>10. GrantInv'
    BY <1>1, <1>2, <2>1, <2>3, <2>5 DEF AInv, GrantInv, WrSteps, RdSteps
  <2>11. PinInv' /\ FifoInv'
    BY <1>1, <2>1, <2>3 DEF AInv, PinInv, FifoInv
  <2>12. HeardInv'
    BY <1>1, <2>1, <2>3, <2>5, HeardSame DEF AInv
  <2> QED BY <2>7, <2>8, <2>9, <2>10, <2>11, <2>12 DEF AInv
<1>4. ~ \/ RestoreWr \/ RestoreRd \/ ReadPins \/ SetUpCh1Read \/ SetUpCh1Write \/ SetUpCh1 \/ SetRxrdy
        \/ SetUpCh2Read \/ SetUpCh2Write \/ SetUpCh2 \/ SetTxrdy \/ ReadCr2 \/ Unmask
  BY <1>2 DEF RestoreWr, RestoreRd, ReadPins, SetUpCh1Read, SetUpCh1Write, SetUpCh1, SetRxrdy,
              SetUpCh2Read, SetUpCh2Write, SetUpCh2, SetTxrdy, ReadCr2, Unmask, MainAt
<1> QED BY <1>3, <1>4 DEF AnswersMain, Main, Serve

-----------------------------------------------------------------------------
(* The handlers.                                                           *)

\* exti_isr comes only in a transaction, spi_isr only before one.
LEMMA NeverSpurious == AInv => ~ExtiSpurious /\ ~NotIdle
BY DEF AInv, PhaseInv, Active, ExtiSpurious, NotIdle, SpiIrq

\* The answer to a long transaction grows by a byte of the frame with each move.
LongAnswer(n, f) == <<Size(f.len), Size(f.len)>> \o [i \in 1 .. n |-> Data(f.tag)]

LEMMA LongAnswerGrows ==
  ASSUME NEW f \in [len : Nat, tag : Tags \cup {"mixed"}], NEW n \in Nat
  PROVE  /\ LongAnswer(n, f) \in Seq(AnswerByte) /\ Len(LongAnswer(n, f)) = 2 + n
         /\ LongAnswer(n + 1, f) = Append(LongAnswer(n, f), Data(f.tag))
         /\ LongAnswer(0, f) = <<Size(f.len), Size(f.len)>>
<1> DEFINE d(k) == [i \in 1 .. k |-> Data(f.tag)]
           z == <<Size(f.len), Size(f.len)>>
<1>1. z \in Seq(AnswerByte) /\ Len(z) = 2 /\ z[1] = Size(f.len) /\ z[2] = Size(f.len)
  BY DEF AnswerByte, Size
<1>2. Data(f.tag) \in AnswerByte
  BY DEF AnswerByte, Data
<1>3. \A k \in Nat : d(k) \in Seq(AnswerByte) /\ Len(d(k)) = k /\ \A i \in 1 .. k : d(k)[i] = Data(f.tag)
  BY <1>2
<1>4. \A k : LongAnswer(k, f) = z \o d(k)
  BY DEF LongAnswer
<1> HIDE DEF z, d
<1>5. \A k \in Nat : /\ LongAnswer(k, f) \in Seq(AnswerByte) /\ Len(LongAnswer(k, f)) = 2 + k
                     /\ \A i \in 1 .. 2 + k : LongAnswer(k, f)[i] = IF i <= 2 THEN z[i] ELSE Data(f.tag)
  <2> SUFFICES ASSUME NEW k \in Nat
               PROVE  /\ LongAnswer(k, f) \in Seq(AnswerByte) /\ Len(LongAnswer(k, f)) = 2 + k
                      /\ \A i \in 1 .. 2 + k : LongAnswer(k, f)[i] = IF i <= 2 THEN z[i] ELSE Data(f.tag)
    OBVIOUS
  <2>1. /\ z \o d(k) \in Seq(AnswerByte) /\ Len(z \o d(k)) = Len(z) + Len(d(k))
        /\ \A i \in 1 .. Len(z) + Len(d(k)) : (z \o d(k))[i] = IF i <= Len(z) THEN z[i] ELSE d(k)[i - Len(z)]
    <3>1. z \in Seq(AnswerByte) /\ d(k) \in Seq(AnswerByte)
      BY <1>1, <1>3
    <3> QED BY ONLY <3>1, ConcatProperties
  <2>2. \A i \in 1 .. 2 + k : i > 2 => d(k)[i - 2] = Data(f.tag)
    BY <1>3
  <2>3. Len(d(k)) = k /\ LongAnswer(k, f) = z \o d(k)
    BY <1>3, <1>4
  <2> QED BY <1>1, <2>1, <2>2, <2>3
<1> DEFINE s == LongAnswer(n, f)
           t == LongAnswer(n + 1, f)
           a == Append(s, Data(f.tag))
<1>6. /\ s \in Seq(AnswerByte) /\ Len(s) = 2 + n
      /\ \A i \in 1 .. 2 + n : s[i] = IF i <= 2 THEN z[i] ELSE Data(f.tag)
  BY <1>5
<1>7. /\ t \in Seq(AnswerByte) /\ Len(t) = 3 + n
      /\ \A i \in 1 .. 3 + n : t[i] = IF i <= 2 THEN z[i] ELSE Data(f.tag)
  <2>1. n + 1 \in Nat /\ 2 + (n + 1) = 3 + n
    OBVIOUS
  <2> QED BY <1>5, <2>1
<1>8. /\ a \in Seq(AnswerByte) /\ Len(a) = 3 + n /\ a[3 + n] = Data(f.tag)
      /\ \A i \in 1 .. 2 + n : a[i] = s[i]
  <2>1. /\ a \in Seq(AnswerByte) /\ Len(a) = Len(s) + 1
        /\ \A i \in 1 .. Len(s) : a[i] = s[i]
        /\ a[Len(s) + 1] = Data(f.tag)
    BY <1>2, <1>6, AppendProperties
  <2> QED BY <1>6, <2>1
<1>9. t = a
  <2> HIDE DEF s, t, a
  <2>1. \A i \in 1 .. Len(t) : t[i] = a[i]
    BY <1>6, <1>7, <1>8
  <2> QED BY <1>7, <1>8, <2>1, SeqEqual
<1>10. LongAnswer(0, f) = z
  <2> DEFINE e == LongAnswer(0, f)
  <2>1. 0 \in Nat /\ 2 + 0 = 2
    OBVIOUS
  <2>2. e \in Seq(AnswerByte) /\ Len(e) = 2 /\ \A i \in 1 .. 2 : e[i] = z[i]
    <3>1. /\ e \in Seq(AnswerByte) /\ Len(e) = 2 + 0
          /\ \A i \in 1 .. 2 + 0 : e[i] = IF i <= 2 THEN z[i] ELSE Data(f.tag)
      BY <1>5, <2>1
    <3> QED BY <2>1, <3>1
  <2> HIDE DEF e
  <2>3. e = z
    BY <1>1, <2>2, SeqEqual
  <2> QED BY <2>3 DEF e
<1> QED BY <1>6, <1>9, <1>10 DEF z

\* By the end of the transaction a master that listens has heard all of the answer.
LEMMA AnswerHeard ==
  ASSUME AInv, extiPend, listens
  PROVE  txFifo = <<>> /\ heard.bytes = Answer /\ SentData = SentLen /\ heard.kind = spiMode
<1>1. /\ spiMode # "IDLE" /\ master.left = 0 /\ master.sent \in Nat
      /\ heard.bytes \in Seq(AnswerByte) /\ txFifo \in Seq(AnswerByte) /\ spiMode \in Modes
  BY DEF AInv, Types, PhaseInv, Active
<1>2. /\ heard.kind = spiMode /\ master.sent >= Need(spiMode)
      /\ heard.bytes \o txFifo = Answer /\ SentData <= SentLen
      /\ \/ Len(heard.bytes) = master.sent
         \/ txFifo = <<>> /\ (spiMode = "LONG" => SentData = SentLen)
  <2>1. master.sent + master.left >= Need(spiMode) => master.sent >= Need(spiMode)
    BY <1>1
  <2> QED BY <1>1, <2>1 DEF AInv, HeardInv
<1>3. SentLen \in Nat /\ SentData \in Nat /\ (spiMode # "LONG" => SentLen = 0 /\ SentData = 0)
  <2>1. CASE r2s.rd = BUSY
    <3>1. r2s.frames # <<>> /\ r2s.frames \in Seq(InFrame) /\ spiMode = "LONG"
      BY <2>1 DEF AInv, GrantInv, Types, PhaseInv, BUSY, IDLE
    <3>2. Head(r2s.frames) \in InFrame
      BY <3>1
    <3> QED BY <2>1, <3>1, <3>2 DEF SentLen, SentData, AInv, Types, InFrame
  <2>2. CASE r2s.rd # BUSY
    BY <2>2 DEF SentLen, SentData
  <2> QED BY <2>1, <2>2
<1>4. Answer \in Seq(AnswerByte) /\ Len(heard.bytes) + Len(txFifo) = Len(Answer)
  BY <1>1, <1>2, ConcatProperties
<1>5. Len(Answer) <= Need(spiMode) /\ (Len(Answer) = Need(spiMode) => SentData = SentLen)
  <2>1. CASE spiMode = "LONG"
    <3>1. PICK f \in [len : Nat, tag : Tags \cup {"mixed"}] : Answer = LongAnswer(SentData, f)
      <4>1. CASE r2s.rd = BUSY
        <5>1. r2s.frames # <<>> /\ r2s.frames \in Seq(InFrame)
          BY <4>1 DEF AInv, GrantInv, Types, BUSY, IDLE
        <5>2. Head(r2s.frames) \in InFrame
          BY <5>1
        <5>3. /\ Head(r2s.frames) \in [len : Nat, tag : Tags \cup {"mixed"}]
              /\ SentLen = Head(r2s.frames).len
          BY <4>1, <5>2, SpiAssumption DEF SentLen, InFrame
        <5>4. Answer = LongAnswer(SentData, Head(r2s.frames))
          BY <2>1, <5>3 DEF Answer, LongAnswer
        <5> QED BY <5>3, <5>4
      <4>2. CASE r2s.rd # BUSY
        <5>1. SentLen = 0 /\ SentData = 0
          BY <4>2 DEF SentLen, SentData
        <5>2. Answer = LongAnswer(0, [len |-> 0, tag |-> "a"])
          BY <2>1, <5>1 DEF Answer, LongAnswer
        <5> QED BY <5>1, <5>2, TagsAre
      <4> QED BY <4>1, <4>2
    <3>3. Len(Answer) = 2 + SentData
      BY <1>3, <3>1, LongAnswerGrows
    <3> QED BY <1>2, <1>3, <2>1, <3>3 DEF Need
  <2>2. CASE spiMode # "LONG"
    BY <1>1, <1>3, <2>2 DEF Answer, Need
  <2> QED BY <2>1, <2>2
<1>6. Len(txFifo) = 0 /\ SentData = SentLen
  <2>0. Len(heard.bytes) \in Nat /\ Len(txFifo) \in Nat /\ Len(Answer) \in Nat /\ Need(spiMode) \in Nat
    BY <1>1, <1>3, <1>4 DEF Need, Modes, AllKinds
  <2>1. CASE Len(heard.bytes) = master.sent
    BY <1>1, <1>2, <1>4, <1>5, <2>0, <2>1
  <2>2. CASE txFifo = <<>> /\ (spiMode = "LONG" => SentData = SentLen)
    BY <1>3, <2>2
  <2> QED BY <1>2, <2>1, <2>2
<1>7. txFifo = <<>>
  BY <1>1, <1>6
<1>8. heard.bytes = Answer
  BY <1>1, <1>2, <1>7
<1> QED BY <1>2, <1>6, <1>7, <1>8
LEMMA ShortEndInv ==
  ASSUME Careful, AInv, ExtiShort, UNCHANGED <<txFifo, moved, heard, wrote, listens>>,
         reg' = IF listens /\ spiMode = "WRITE" /\ Len(rxFifo) >= 2 THEN Stored ELSE reg
  PROVE  AInv'
<1>1. /\ extiPend /\ ~spiPend /\ master.phase = "idle" /\ spiMode \in {"READ", "WRITE", "INVALID"}
      /\ s2r.wr # BUSY /\ r2s.rd # BUSY /\ cr2 \subseteq {"rxneie"} /\ ~ch1.on /\ ~ch2.on
  BY DEF ExtiShort, AInv, PhaseInv
<1>2. /\ ~extiPend' /\ rxFifo' = <<>> /\ spiMode' = "IDLE"
      /\ UNCHANGED <<s2r, r2s, pc, didRestoreSpi, didRestoreRs485, panicked, cr2, spiPend, ch1, ch2,
                     pins, seen, master, rsTag>>
  BY DEF ExtiShort, loopVars, dmaVars
<1>3. ~Active'
  BY <1>1, <1>2 DEF Active
<1>4. listens => reg' = wrote
  <2>1. CASE listens /\ spiMode = "WRITE" /\ master.sent >= 2
    <3>1. wrote = master.tag
      BY <1>1, <2>1 DEF AInv, HeardInv
    <3>2. Len(rxFifo) >= 2 /\ rxFifo[1] = master.tag /\ rxFifo[2] = master.tag
      <4>1. Len(rxFifo) = AtMost(master.sent, FifoDepth) /\ \A i \in 1 .. Len(rxFifo) : rxFifo[i] = master.tag
        BY <2>1 DEF AInv, FifoInv
      <4>2. Len(rxFifo) >= 2 /\ Len(rxFifo) \in Nat
        BY <2>1, <4>1 DEF AtMost, Careful, AInv, Types
      <4> QED BY <4>1, <4>2
    <3>3. master.tag \in Tags
      BY DEF AInv, Types
    <3> QED BY <2>1, <3>1, <3>2, <3>3 DEF Stored
  <2>2. CASE listens /\ spiMode = "WRITE" /\ ~(master.sent >= 2)
    <3>1. Len(rxFifo) = AtMost(master.sent, FifoDepth) /\ master.sent \in Nat
      BY <2>2 DEF AInv, FifoInv, Types
    <3>2. ~(Len(rxFifo) >= 2)
      BY <2>2, <3>1, SpiAssumption DEF AtMost, Careful
    <3> QED BY <2>2, <3>2 DEF AInv, HeardInv
  <2>3. CASE listens /\ spiMode # "WRITE"
    BY <2>3 DEF AInv, HeardInv
  <2> QED BY <2>1, <2>2, <2>3
<1>5. Types'
  <2>1. reg' \in Tags \cup {"init", "mixed"}
    BY DEF AInv, Types, Stored
  <2>2. /\ rxFifo' \in Seq(Bytes) /\ Len(rxFifo') <= FifoDepth
        /\ spiMode' \in Modes /\ extiPend' \in BOOLEAN
    <3>1. rxFifo' \in Seq(Bytes) /\ Len(rxFifo') <= FifoDepth
      BY <1>2, SpiAssumption
    <3> QED BY <1>2, <3>1 DEF ExtiShort, Modes
  <2>3. Types
    BY DEF AInv
  <2> QED BY <1>2, <2>1, <2>2, <2>3 DEF Types
<1>6. PhaseInv' /\ MainInv'
  BY <1>1, <1>2, <1>3 DEF AInv, PhaseInv, MainInv
<1>7. GrantInv' /\ PinInv' /\ FifoInv'
  BY <1>1, <1>2 DEF AInv, GrantInv, PinInv, FifoInv
<1>8. HeardInv'
  <2>1. txFifo = <<>>
    BY <1>1, AnswerHeard DEF AInv, HeardInv
  <2> QED BY <1>1, <1>2, <1>4, <2>1 DEF AInv, HeardInv
<1> QED BY <1>5, <1>6, <1>7, <1>8 DEF AInv

LEMMA LongEndInv ==
  ASSUME AInv, ExtiLong, UNCHANGED answerVars
  PROVE  AInv'
<1> USE DEF IDLE, READY, BUSY
<1>1. /\ extiPend /\ ~spiPend /\ master.phase = "idle" /\ spiMode = "LONG"
  BY DEF ExtiLong, AInv, PhaseInv
<1>2. /\ ~extiPend' /\ rxFifo' = <<>> /\ spiMode' = "IDLE"
      /\ s2r' = CompleteWr(s2r, ReceivedFrame) /\ r2s' = CompleteRd(r2s)
      /\ ch1' = [ch1 EXCEPT !.on = FALSE, !.fresh = @ /\ s2r.wr # BUSY]
      /\ ch2' = [ch2 EXCEPT !.on = FALSE, !.fresh = @ /\ r2s.rd # BUSY]
      /\ cr2' = cr2 \ {"rxdmaen", "txdmaen"}
      /\ UNCHANGED <<pc, didRestoreSpi, didRestoreRs485, panicked, spiPend, pins, seen, master, rsTag,
                     reg, txFifo, moved, heard, wrote, listens>>
  BY DEF ExtiLong, loopVars, answerVars
<1>3. ~Active'
  BY <1>1, <1>2 DEF Active
<1>4. /\ pc \in {"check", "spiWr", "spiRd"}
  BY <1>1 DEF AInv, MainInv, Active
<1>5. /\ s2r' \in [frames : Seq(OutFrame), wr : {IDLE, READY}, rd : SlotState, unresolved : BOOLEAN]
      /\ s2r'.wr = READY <=> s2r.wr = READY
  <2>1. ReceivedFrame \in OutFrame
    <3>1. ch1.left \in 0 .. MaxLen /\ ch1.got \in Tags \cup {"none", "mixed"} /\ MaxLen \in Nat
      BY SpiAssumption DEF AInv, Types
    <3>2. MaxLen - ch1.left \in 0 .. MaxLen
      BY <3>1
    <3> QED BY <3>1, <3>2 DEF ReceivedFrame, OutFrame
  <2>2. s2r \in [frames : Seq(OutFrame), wr : SlotState, rd : SlotState, unresolved : BOOLEAN]
    BY DEF AInv, Types
  <2>3. Append(s2r.frames, ReceivedFrame) \in Seq(OutFrame)
    BY <2>1, <2>2, AppendProperties
  <2> QED BY <1>2, <2>2, <2>3 DEF CompleteWr, SlotState
<1>6. /\ r2s' \in [frames : Seq(InFrame), wr : SlotState, rd : {IDLE, READY}, unresolved : BOOLEAN]
      /\ r2s'.rd = READY <=> r2s.rd = READY
      /\ r2s'.rd = READY => r2s'.frames # <<>>
  <2>1. r2s \in [frames : Seq(InFrame), wr : SlotState, rd : SlotState, unresolved : BOOLEAN]
    BY DEF AInv, Types
  <2>2. r2s.rd # IDLE => r2s.frames # <<>>
    BY DEF AInv, GrantInv
  <2>3. r2s.frames # <<>> => Tail(r2s.frames) \in Seq(InFrame)
    BY <2>1, HeadTailProperties
  <2> QED BY <1>2, <2>1, <2>2, <2>3 DEF CompleteRd, SlotState
<1>7. /\ ch1' \in [on : {FALSE}, left : 0 .. MaxLen, got : Tags \cup {"none", "mixed"}, fresh : BOOLEAN]
      /\ s2r.wr = READY => ch1'.fresh = ch1.fresh
      /\ ch1'.left = ch1.left /\ ch1'.got = ch1.got
  <2>1. ch1 \in [on : BOOLEAN, left : 0 .. MaxLen, got : Tags \cup {"none", "mixed"}, fresh : BOOLEAN]
    BY DEF AInv, Types
  <2>2. PICK b \in BOOLEAN : b = (ch1.fresh /\ s2r.wr # BUSY)
    OBVIOUS
  <2>3. ch1' = [ch1 EXCEPT !.on = FALSE, !.fresh = b]
    BY <1>2, <2>2
  <2>4. s2r.wr = READY => b = ch1.fresh
    BY <2>1, <2>2
  <2> QED BY <2>1, <2>3, <2>4
<1>8. /\ ch2' \in [on : {FALSE}, fresh : BOOLEAN]
      /\ r2s.rd = READY => ch2'.fresh = ch2.fresh
  <2>1. ch2 \in [on : BOOLEAN, fresh : BOOLEAN]
    BY DEF AInv, Types
  <2>2. PICK b \in BOOLEAN : b = (ch2.fresh /\ r2s.rd # BUSY)
    OBVIOUS
  <2>3. ch2' = [ch2 EXCEPT !.on = FALSE, !.fresh = b]
    BY <1>2, <2>2
  <2>4. r2s.rd = READY => b = ch2.fresh
    BY <2>1, <2>2
  <2> QED BY <2>1, <2>3, <2>4
<1>9. cr2' \subseteq {"rxneie"}
  BY <1>2 DEF AInv, Types
<1>10. Types'
  <2>1. rxFifo' \in Seq(Bytes) /\ Len(rxFifo') <= FifoDepth
    BY <1>2, SpiAssumption
  <2>2. /\ ch1' \in [on : BOOLEAN, left : 0 .. MaxLen, got : Tags \cup {"none", "mixed"}, fresh : BOOLEAN]
        /\ ch2' \in [on : BOOLEAN, fresh : BOOLEAN]
    BY <1>7, <1>8
  <2>3. /\ s2r' \in [frames : Seq(OutFrame), wr : SlotState, rd : SlotState, unresolved : BOOLEAN]
        /\ r2s' \in [frames : Seq(InFrame), wr : SlotState, rd : SlotState, unresolved : BOOLEAN]
    BY <1>5, <1>6 DEF SlotState
  <2>4. spiMode' \in Modes /\ extiPend' \in BOOLEAN
    BY <1>2 DEF ExtiLong, Modes
  <2>5. Types
    BY DEF AInv
  <2> QED BY <1>2, <1>9, <2>1, <2>2, <2>3, <2>4, <2>5 DEF Types
<1>11. PhaseInv'
  BY <1>1, <1>2, <1>3, <1>5, <1>6, <1>7, <1>8, <1>9 DEF PhaseInv
<1>12. MainInv'
  BY <1>2, <1>3, <1>4 DEF MainInv, WrSteps, RdSteps
<1>13. GrantInv'
  BY <1>2, <1>4, <1>5, <1>6, <1>7, <1>8, <1>9 DEF AInv, GrantInv, WrSteps, RdSteps
<1>14. PinInv' /\ FifoInv'
  BY <1>1, <1>2, <1>5, <1>6 DEF AInv, PinInv, FifoInv
<1>15. HeardInv'
  <2>1. txFifo = <<>>
    BY <1>1, AnswerHeard DEF AInv, HeardInv
  <2> QED BY <1>1, <1>2, <2>1 DEF AInv, HeardInv
<1> QED BY <1>10, <1>11, <1>12, <1>13, <1>14, <1>15 DEF AInv

LEMMA PushTwo ==
  ASSUME Careful, NEW b
  PROVE  Push(<<>>, b) = <<b, b>>
<1> DEFINE z == <<b, b>>
<1>1. z \in Seq({b}) /\ Len(z) = 2 /\ <<>> \o z = z
  BY ConcatEmptySeq
<1>2. (IF Len(<<>>) + 2 < TxDepth THEN Len(<<>>) + 2 ELSE TxDepth) = 2
  BY AnswersAssumption DEF Careful
<1>3. Push(<<>>, b) = SubSeq(<<>> \o z, 1, 2)
  BY <1>2 DEF Push
<1>4. SubSeq(z, 1, 2) = z
  BY <1>1, SubSeqFull
<1> QED BY <1>1, <1>3, <1>4

\* What spi_isr finds: the header, and whatever the master sent after it.
LEMMA HeaderWaits ==
  ASSUME AInv, spiPend
  PROVE  /\ master.phase = "clocking" /\ ~extiPend /\ spiMode = "IDLE" /\ Active
         /\ rxFifo # <<>> /\ rxFifo[1] \in AllKinds /\ TakenFor = {rxFifo[1]}
         /\ Tail(rxFifo) \in Seq(Bytes) /\ Len(Tail(rxFifo)) = master.sent /\ master.sent < FifoDepth
         /\ \A i \in 1 .. master.sent : Tail(rxFifo)[i] = master.tag
         /\ s2r.wr # BUSY /\ r2s.rd # BUSY /\ cr2 \subseteq {"rxneie"} /\ ~ch1.on /\ ~ch2.on
         /\ txFifo = <<>>
<1>1. /\ master.phase = "clocking" /\ ~extiPend /\ spiMode = "IDLE" /\ txFifo = <<>>
      /\ Len(rxFifo) = 1 + master.sent /\ rxFifo[1] \in AllKinds
      /\ \A i \in 2 .. Len(rxFifo) : rxFifo[i] = master.tag
  BY DEF AInv, PhaseInv, FifoInv, HeardInv
<1>2. rxFifo \in Seq(Bytes) /\ Len(rxFifo) <= FifoDepth /\ master.sent \in Nat
  BY DEF AInv, Types
<1>3. rxFifo # <<>> /\ Head(rxFifo) = rxFifo[1]
  BY <1>1, <1>2
<1>4. /\ Tail(rxFifo) \in Seq(Bytes) /\ Len(Tail(rxFifo)) = Len(rxFifo) - 1
      /\ \A i \in 1 .. Len(Tail(rxFifo)) : Tail(rxFifo)[i] = rxFifo[i + 1]
  BY <1>2, <1>3, HeadTailProperties
<1>5. Len(Tail(rxFifo)) = master.sent /\ master.sent < FifoDepth
  BY <1>1, <1>2, <1>4, SpiAssumption
<1>6. \A i \in 1 .. master.sent : Tail(rxFifo)[i] = master.tag
  <2> SUFFICES ASSUME NEW i \in 1 .. master.sent PROVE Tail(rxFifo)[i] = master.tag
    OBVIOUS
  <2>1. i + 1 \in 2 .. 1 + master.sent
    BY <1>2
  <2>2. i + 1 \in 2 .. Len(rxFifo) /\ i \in 1 .. Len(Tail(rxFifo))
    BY <1>1, <1>5, <2>1
  <2> QED BY <1>1, <1>4, <2>2
<1>7. TakenFor = {rxFifo[1]}
  BY <1>1, <1>3 DEF TakenFor
<1> QED BY <1>1, <1>3, <1>4, <1>5, <1>6, <1>7 DEF AInv, PhaseInv, Active

LEMMA ShortBeginsInv ==
  ASSUME Careful, AInv, NEW kind \in AllKinds, ShortBegins(kind),
         UNCHANGED <<reg, moved, heard, wrote, listens>>,
         txFifo' = IF listens /\ kind = "READ" THEN Push(txFifo, Reg(reg)) ELSE txFifo
  PROVE  AInv'
<1>1. spiPend /\ kind \in TakenFor \ {"LONG"}
  BY DEF ShortBegins, SpiIrq
<1>2. /\ master.phase = "clocking" /\ ~extiPend /\ spiMode = "IDLE" /\ Active
      /\ rxFifo # <<>> /\ TakenFor = {rxFifo[1]}
      /\ Tail(rxFifo) \in Seq(Bytes) /\ Len(Tail(rxFifo)) = master.sent /\ master.sent < FifoDepth
      /\ \A i \in 1 .. master.sent : Tail(rxFifo)[i] = master.tag
      /\ s2r.wr # BUSY /\ r2s.rd # BUSY /\ cr2 \subseteq {"rxneie"} /\ ~ch1.on /\ ~ch2.on
      /\ txFifo = <<>>
  BY <1>1, HeaderWaits
<1>3. kind = rxFifo[1] /\ kind \in {"READ", "WRITE", "INVALID"}
  BY <1>1, <1>2 DEF AllKinds
<1>4. /\ ~spiPend' /\ cr2' = {} /\ rxFifo' = Tail(rxFifo) /\ spiMode' = kind
      /\ UNCHANGED <<s2r, r2s, pc, didRestoreSpi, didRestoreRs485, panicked, extiPend, ch1, ch2,
                     pins, seen, master, rsTag>>
  BY <1>2 DEF ShortBegins, loopVars, dmaVars, RestOfFifo
<1>5. Active'
  BY <1>2, <1>4 DEF Active
<1>6. Types'
  <2>1. Types /\ spiPend' \in BOOLEAN
    BY DEF AInv, ShortBegins
  <2>2. rxFifo' \in Seq(Bytes) /\ Len(rxFifo') <= FifoDepth /\ spiMode' \in Modes
    BY <1>2, <1>3, <1>4, SpiAssumption DEF Modes, AInv, Types
  <2>3. txFifo' \in Seq(AnswerByte)
    <3>1. Reg(reg) \in AnswerByte
      BY <2>1 DEF Types, Reg, AnswerByte
    <3>2. Push(<<>>, Reg(reg)) = <<Reg(reg), Reg(reg)>>
      BY PushTwo
    <3>3. txFifo' = <<Reg(reg), Reg(reg)>> \/ txFifo' = <<>>
      BY <1>2, <3>2
    <3>4. <<Reg(reg), Reg(reg)>> \in Seq(AnswerByte) /\ <<>> \in Seq(AnswerByte)
      BY ONLY <3>1
    <3> QED BY <3>3, <3>4
  <2> QED BY <1>4, <2>1, <2>2, <2>3 DEF Types
<1>7. PhaseInv'
  BY <1>2, <1>3, <1>4, <1>5 DEF AInv, PhaseInv
<1>8. MainInv'
  <2>1. pc \in {"check", "spiWr", "spiRd"}
    BY <1>2 DEF AInv, MainInv
  <2> QED BY <1>2, <1>4, <1>5, <2>1 DEF AInv, MainInv
<1>9. GrantInv' /\ PinInv'
  BY <1>2, <1>3, <1>4 DEF AInv, GrantInv, PinInv
<1>10. FifoInv'
  BY <1>2, <1>3, <1>4, SpiAssumption DEF FifoInv, AtMost, AInv, Types
<1>11. HeardInv'
  <2>1. ~listens => heard.kind = "none" /\ txFifo' = <<>>
    BY <1>2 DEF AInv, HeardInv
  <2>2. ASSUME listens
        PROVE  /\ heard = [kind |-> kind, bytes |-> <<>>] /\ master.sent = 0 /\ reg = wrote
               /\ master.left >= AnswerLen(kind) /\ master.left \in Nat
    BY <1>1, <1>2, <1>3, <2>2 DEF AInv, HeardInv, Types
  <2>3. SentData' = 0 /\ SentLen' = 0
    BY <1>2, <1>4 DEF SentData, SentLen
  <2>4. ASSUME listens
        PROVE  heard.bytes \o txFifo' = Answer' /\ (Need(spiMode))' = AnswerLen(kind)
    <3>1. Answer' = IF kind = "READ" THEN <<Reg(wrote), Reg(wrote)>> ELSE <<>>
      BY <1>3, <1>4 DEF Answer
    <3>2. txFifo' = IF kind = "READ" THEN <<Reg(wrote), Reg(wrote)>> ELSE <<>>
      BY <1>2, <2>2, <2>4, PushTwo
    <3>3. <<>> \o txFifo' = txFifo'
      BY <1>6, ConcatEmptySeq DEF Types
    <3>4. (Need(spiMode))' = AnswerLen(kind)
      BY <1>3, <1>4 DEF Need, AnswerLen
    <3>5. heard.bytes = <<>>
      BY <2>2, <2>4
    <3> QED BY <3>1, <3>2, <3>3, <3>4, <3>5
  <2>5. ASSUME listens
        PROVE  /\ reg' = wrote' /\ heard'.kind = spiMode' /\ heard'.bytes \o txFifo' = Answer'
               /\ master'.sent + master'.left >= (Need(spiMode))'
               /\ SentData' <= SentLen' /\ Len(heard'.bytes) = master'.sent
    <3>1. Len(<<>>) = 0
      OBVIOUS
    <3>2. heard.kind = kind /\ heard.bytes = <<>>
      BY <2>2, <2>5
    <3> QED BY <1>4, <2>2, <2>3, <2>4, <2>5, <3>1, <3>2
  <2> QED BY <1>2, <1>3, <1>4, <2>1, <2>5 DEF HeardInv
<1> QED BY <1>6, <1>7, <1>8, <1>9, <1>10, <1>11 DEF AInv

\* The channel starts with all that waits, or with as much as the grant has room for.
LEMMA StartedHas ==
  ASSUME NEW fifo \in Seq(Bytes), NEW t \in Tags, \A i \in 1 .. Len(fifo) : fifo[i] = t,
         ch1 \in [on : BOOLEAN, left : {MaxLen}, got : Tags \cup {"none", "mixed"}, fresh : BOOLEAN]
  PROVE  /\ Started(fifo).ch = [on |-> TRUE, left |-> MaxLen - AtMost(Len(fifo), MaxLen),
                                got |-> IF Len(fifo) = 0 THEN "none" ELSE t, fresh |-> ch1.fresh]
         /\ Started(fifo).rest \in Seq(Bytes) /\ Len(Started(fifo).rest) <= Len(fifo)
<1> DEFINE n == AtMost(Len(fifo), MaxLen)
           taken == SubSeq(fifo, 1, n)
<1>0. MaxLen \in Nat /\ MaxLen >= 1 /\ Len(fifo) \in Nat
  BY SpiAssumption
<1>1. n \in 0 .. Len(fifo) /\ n <= MaxLen /\ (n = 0 <=> Len(fifo) = 0)
  BY <1>0 DEF AtMost
<1>2. (IF Len(fifo) < ch1.left THEN Len(fifo) ELSE ch1.left) = n /\ ch1.left = MaxLen
  BY DEF AtMost
<1> HIDE DEF n
<1>3. /\ Started(fifo).ch = [ch1 EXCEPT !.on = TRUE, !.left = @ - n, !.got = AllOf(taken)]
      /\ Started(fifo).rest = SubSeq(fifo, n + 1, Len(fifo))
  BY <1>2 DEF Started
<1>4. \A i \in 1 .. n : fifo[i] = t /\ fifo[i] \in Bytes
  BY <1>1 DEF Bytes
<1>5. taken \in Seq(Bytes) /\ Len(taken) = n /\ \A i \in 1 .. n : taken[i] = t
  <2>1. /\ taken \in Seq(Bytes) /\ Len(taken) = IF 1 <= n THEN n - 1 + 1 ELSE 0
        /\ \A i \in 1 .. n - 1 + 1 : taken[i] = fifo[1 + i - 1]
    BY <1>1, <1>4, SubSeqProperties
  <2> HIDE DEF taken
  <2> QED BY <1>1, <1>4, <2>1
<1>6. AllOf(taken) = IF Len(fifo) = 0 THEN "none" ELSE t
  <2> HIDE DEF taken
  <2>1. CASE n = 0
    <3>1. taken = <<>>
      BY <1>5, <2>1
    <3> QED BY <1>1, <2>1, <3>1 DEF AllOf
  <2>2. CASE n # 0
    <3>1. taken # <<>> /\ taken[1] = t /\ DOMAIN taken = 1 .. n
      BY <1>1, <1>5, <2>2
    <3> QED BY <1>1, <1>5, <2>2, <3>1 DEF AllOf
  <2> QED BY <2>1, <2>2
<1>7. /\ SubSeq(fifo, n + 1, Len(fifo)) \in Seq(Bytes)
      /\ Len(SubSeq(fifo, n + 1, Len(fifo))) <= Len(fifo)
  <2>1. n + 1 \in Int /\ Len(fifo) \in Int /\ \A i \in n + 1 .. Len(fifo) : fifo[i] \in Bytes
    BY <1>0, <1>1
  <2> DEFINE r == SubSeq(fifo, n + 1, Len(fifo))
  <2>2. /\ r \in Seq(Bytes)
        /\ Len(r) = IF n + 1 <= Len(fifo) THEN Len(fifo) - (n + 1) + 1 ELSE 0
    BY <2>1, SubSeqProperties
  <2> HIDE DEF r
  <2>3. Len(r) <= Len(fifo)
    BY <1>0, <1>1, <2>2
  <2> QED BY <2>2, <2>3 DEF r
<1>8. Started(fifo).ch = [on |-> TRUE, left |-> MaxLen - n,
                          got |-> IF Len(fifo) = 0 THEN "none" ELSE t, fresh |-> ch1.fresh]
  <2> DEFINE g == IF Len(fifo) = 0 THEN "none" ELSE t
  <2>1. Started(fifo).ch = [ch1 EXCEPT !.on = TRUE, !.left = @ - n, !.got = g]
    BY <1>3, <1>6
  <2> HIDE DEF g
  <2>2. Started(fifo).ch = [on |-> TRUE, left |-> MaxLen - n, got |-> g, fresh |-> ch1.fresh]
    BY <1>2, <2>1
  <2> QED BY <2>2 DEF g
<1> QED BY <1>3, <1>7, <1>8 DEF n

LEMMA LongBeginsInv ==
  ASSUME Careful, AInv, LongBegins, UNCHANGED <<reg, moved, heard, wrote, listens>>,
         txFifo' = IF listens THEN Push(txFifo, Size(Announced)) ELSE txFifo
  PROVE  AInv'
<1> USE DEF IDLE, READY, BUSY
<1>1. spiPend /\ "LONG" \in TakenFor
  BY DEF LongBegins, SpiIrq
<1>2. /\ master.phase = "clocking" /\ ~extiPend /\ spiMode = "IDLE" /\ Active
      /\ rxFifo # <<>> /\ TakenFor = {rxFifo[1]}
      /\ Tail(rxFifo) \in Seq(Bytes) /\ Len(Tail(rxFifo)) = master.sent /\ master.sent < FifoDepth
      /\ \A i \in 1 .. master.sent : Tail(rxFifo)[i] = master.tag
      /\ s2r.wr # BUSY /\ r2s.rd # BUSY /\ cr2 \subseteq {"rxneie"} /\ ~ch1.on /\ ~ch2.on
      /\ txFifo = <<>>
  BY <1>1, HeaderWaits
<1>3. rxFifo[1] = "LONG"
  BY <1>1, <1>2
<1>4. Types
  BY DEF AInv
<1>5. pc \in {"check", "spiWr", "spiRd"}
  BY <1>2 DEF AInv, MainInv
<1>6. r2s.rd = READY => r2s.frames # <<>> /\ Head(r2s.frames) \in InFrame
  BY <1>4, HeadTailProperties DEF AInv, GrantInv, Types
<1> DEFINE sends   == r2s.rd = READY
           accepts == s2r.wr = READY
<1>7. (r2s.rd = READY /\ Head(r2s.frames).len # 0) <=> sends
  BY <1>6, SpiAssumption DEF InFrame
<1>8. /\ ~spiPend' /\ spiMode' = "LONG"
      /\ cr2' = (IF sends THEN {"txdmaen"} ELSE {}) \cup (IF accepts THEN {"rxdmaen"} ELSE {})
      /\ r2s' = PrepRd(r2s) /\ s2r' = PrepWr(s2r)
      /\ ch2' = IF sends THEN [ch2 EXCEPT !.on = TRUE] ELSE ch2
      /\ pins' = pins \ ((IF sends THEN {"txrdy"} ELSE {}) \cup (IF accepts THEN {"rxrdy"} ELSE {}))
      /\ IF accepts
           THEN ch1' = Started(Tail(rxFifo)).ch /\ rxFifo' = Started(Tail(rxFifo)).rest
           ELSE ch1' = ch1 /\ rxFifo' = Tail(rxFifo)
      /\ UNCHANGED <<pc, didRestoreSpi, didRestoreRs485, panicked, extiPend, seen, master, rsTag>>
  <2>1. cr2 \ {"rxneie"} = {}
    BY <1>2
  <2> QED BY <1>2, <1>7, <2>1 DEF LongBegins, RestOfFifo, PinsAfter, loopVars
<1>9. Active'
  BY <1>2, <1>8 DEF Active
<1>10. accepts => ch1.fresh /\ ch1.left = MaxLen /\ ch1.got = "none"
  BY <1>5 DEF AInv, GrantInv, WrSteps
<1>11. sends => ch2.fresh /\ (listens => moved = 0)
  BY <1>5 DEF AInv, GrantInv, RdSteps
<1>12. /\ s2r' \in [frames : Seq(OutFrame), wr : SlotState, rd : SlotState, unresolved : BOOLEAN]
       /\ s2r'.wr = (IF accepts THEN BUSY ELSE s2r.wr) /\ s2r'.frames = s2r.frames
  BY <1>4, <1>8 DEF PrepWr, Types, SlotState
<1>13. /\ r2s' \in [frames : Seq(InFrame), wr : SlotState, rd : SlotState, unresolved : BOOLEAN]
       /\ r2s'.rd = (IF sends THEN BUSY ELSE r2s.rd) /\ r2s'.frames = r2s.frames
  BY <1>4, <1>8 DEF PrepRd, Types, SlotState
<1>14. accepts => /\ ch1' = [on |-> TRUE, left |-> MaxLen - AtMost(master.sent, MaxLen),
                             got |-> IF master.sent = 0 THEN "none" ELSE master.tag, fresh |-> TRUE]
                  /\ rxFifo' \in Seq(Bytes) /\ Len(rxFifo') <= master.sent
  <2> SUFFICES ASSUME accepts
               PROVE  /\ ch1' = [on |-> TRUE, left |-> MaxLen - AtMost(master.sent, MaxLen),
                                 got |-> IF master.sent = 0 THEN "none" ELSE master.tag, fresh |-> TRUE]
                      /\ rxFifo' \in Seq(Bytes) /\ Len(rxFifo') <= master.sent
    OBVIOUS
  <2>1. ch1 \in [on : BOOLEAN, left : {MaxLen}, got : Tags \cup {"none", "mixed"}, fresh : BOOLEAN]
    BY <1>4, <1>10 DEF Types
  <2>2. master.tag \in Tags
    BY <1>4 DEF Types
  <2>3. ch1.fresh = TRUE
    BY <1>10, <2>1
  <2>4. \A i \in 1 .. Len(Tail(rxFifo)) : Tail(rxFifo)[i] = master.tag
    BY <1>2
  <2> DEFINE f == Tail(rxFifo)
  <2>5. /\ Started(f).ch = [on |-> TRUE, left |-> MaxLen - AtMost(Len(f), MaxLen),
                            got |-> IF Len(f) = 0 THEN "none" ELSE master.tag, fresh |-> ch1.fresh]
        /\ Started(f).rest \in Seq(Bytes) /\ Len(Started(f).rest) <= Len(f)
    BY <1>2, <2>1, <2>2, <2>4, StartedHas
  <2>6. Len(f) = master.sent /\ ch1' = Started(f).ch /\ rxFifo' = Started(f).rest
    BY <1>2, <1>8
  <2> HIDE DEF f
  <2> QED BY <2>3, <2>5, <2>6
<1>15. rxFifo' \in Seq(Bytes) /\ Len(rxFifo') <= FifoDepth
  <2>1. rxFifo' \in Seq(Bytes) /\ Len(rxFifo') <= master.sent
    <3>1. CASE accepts
      BY <1>14, <3>1
    <3>2. CASE ~accepts
      <4>1. rxFifo' = Tail(rxFifo) /\ master.sent \in Nat
        BY <1>4, <1>8, <3>2 DEF Types
      <4> QED BY <1>2, <4>1
    <3> QED BY <3>1, <3>2
  <2>2. master.sent \in Nat /\ master.sent < FifoDepth
    BY <1>2, <1>4 DEF Types
  <2> QED BY <2>1, <2>2, SpiAssumption
<1>16. ch1' \in [on : BOOLEAN, left : 0 .. MaxLen, got : Tags \cup {"none", "mixed"}, fresh : BOOLEAN]
  <2>1. MaxLen - AtMost(master.sent, MaxLen) \in 0 .. MaxLen
    BY <1>4, SpiAssumption DEF AtMost, Types
  <2>2. ~accepts => ch1' = ch1
    BY <1>8
  <2>3. CASE accepts
    <3> DEFINE g == IF master.sent = 0 THEN "none" ELSE master.tag
               l == MaxLen - AtMost(master.sent, MaxLen)
    <3>1. g \in Tags \cup {"none", "mixed"} /\ l \in 0 .. MaxLen
      BY <1>4, <2>1 DEF Types
    <3>2. ch1' = [on |-> TRUE, left |-> l, got |-> g, fresh |-> TRUE]
      BY <1>14, <2>3
    <3> HIDE DEF g, l
    <3> QED BY <3>1, <3>2
  <2>4. CASE ~accepts
    BY <1>4, <2>2, <2>4 DEF Types
  <2> QED BY <2>3, <2>4
<1>17. ch2' \in [on : BOOLEAN, fresh : BOOLEAN] /\ (sends => ch2'.on /\ ch2'.fresh)
  BY <1>4, <1>8, <1>11 DEF Types
<1>18. txFifo' = (IF listens THEN <<Size(Announced), Size(Announced)>> ELSE <<>>) /\ Announced \in Nat
  <2>1. Push(<<>>, Size(Announced)) = <<Size(Announced), Size(Announced)>>
    BY PushTwo
  <2>2. Announced \in Nat
    BY <1>6, SpiAssumption DEF Announced, InFrame
  <2> QED BY <1>2, <2>1, <2>2
<1>19. Types'
  <2>1. txFifo' \in Seq(AnswerByte)
    <3>1. Size(Announced) \in AnswerByte
      BY <1>18 DEF Size, AnswerByte
    <3>2. <<Size(Announced), Size(Announced)>> \in Seq(AnswerByte) /\ <<>> \in Seq(AnswerByte)
      BY ONLY <3>1
    <3> QED BY <1>18, <3>2
  <2>2. spiPend' \in BOOLEAN /\ spiMode' \in Modes
    BY <1>8 DEF LongBegins, Modes, AllKinds
  <2>3. pins' \subseteq Pins /\ cr2' \subseteq {"rxneie", "rxdmaen", "txdmaen"}
    BY <1>4, <1>8 DEF Types
  <2> QED BY <1>4, <1>8, <1>12, <1>13, <1>15, <1>16, <1>17, <2>1, <2>2, <2>3 DEF Types
<1>20. PhaseInv'
  BY <1>2, <1>8, <1>9 DEF AInv, PhaseInv
<1>21. MainInv'
  BY <1>2, <1>5, <1>8, <1>9, <1>12, <1>13 DEF AInv, MainInv, CanGrantWr, CanGrantRd, WrSteps, RdSteps
<1>22. GrantInv'
  BY <1>2, <1>6, <1>8, <1>12, <1>13, <1>14, <1>17 DEF AInv, GrantInv
<1>23. PinInv'
  BY <1>1, <1>2, <1>8, <1>12, <1>13 DEF AInv, PinInv
<1>24. FifoInv'
  BY <1>2, <1>8, <1>12, <1>14 DEF FifoInv
<1>25. HeardInv'
  <2>1. ~listens => heard.kind = "none" /\ txFifo' = <<>>
    BY <1>18 DEF AInv, HeardInv
  <2>2. SentData' = 0 \/ ~listens
    BY <1>2, <1>8, <1>11, <1>13 DEF SentData
  <2>3. SentLen' = Announced
    BY <1>2, <1>13 DEF SentLen, Announced
  <2>4. ASSUME listens
        PROVE  /\ heard.kind = "LONG" /\ heard.bytes = <<>> /\ master.sent = 0 /\ reg = wrote
               /\ master.left >= 2 + Announced /\ master.left \in Nat
    <3>1. /\ heard = [kind |-> rxFifo[1], bytes |-> <<>>] /\ master.sent = 0 /\ reg = wrote
          /\ master.left >= AnswerLen(rxFifo[1])
      BY <1>1, <1>2, <2>4 DEF AInv, HeardInv
    <3>2. AnswerLen("LONG") = 2 + Announced
      BY DEF AnswerLen
    <3> QED BY <1>3, <1>4, <3>1, <3>2 DEF Types
  <2>5. ASSUME listens
        PROVE  Answer' = <<Size(Announced), Size(Announced)>>
    <3> DEFINE f == [len |-> Announced, tag |-> IF sends THEN Head(r2s.frames).tag ELSE "a"]
    <3>1. f \in [len : Nat, tag : Tags \cup {"mixed"}]
      BY <1>6, <1>18, TagsAre DEF InFrame
    <3>2. Answer' = LongAnswer(0, f)
      BY <1>8, <2>2, <2>3, <2>5 DEF Answer, LongAnswer
    <3> QED BY <3>1, <3>2, LongAnswerGrows
  <2>6. (Need(spiMode))' = 2 + Announced
    BY <1>8, <2>3 DEF Need
  <2>7. ASSUME listens
        PROVE  /\ reg' = wrote' /\ heard'.kind = spiMode' /\ heard'.bytes \o txFifo' = Answer'
               /\ master'.sent + master'.left >= (Need(spiMode))'
               /\ SentData' <= SentLen' /\ Len(heard'.bytes) = master'.sent
    <3>1. Len(<<>>) = 0 /\ <<>> \o txFifo' = txFifo'
      BY <1>19, ConcatEmptySeq DEF Types
    <3>2. heard'.kind = spiMode' /\ heard'.bytes = <<>> /\ txFifo' = Answer'
      BY <1>8, <1>18, <2>4, <2>5, <2>7
    <3>3. master'.sent + master'.left >= (Need(spiMode))' /\ reg' = wrote' /\ master'.sent = 0
      BY <1>8, <1>18, <2>4, <2>6, <2>7
    <3> QED BY <1>18, <2>2, <2>3, <2>7, <3>1, <3>2, <3>3
  <2> QED BY <1>2, <1>8, <2>1, <2>7 DEF HeardInv
<1> QED BY <1>19, <1>20, <1>21, <1>22, <1>23, <1>24, <1>25 DEF AInv

-----------------------------------------------------------------------------
(* The master, channel 2, and the RS-485 side.                             *)

LEMMA BeginsInv ==
  ASSUME Careful, AInv, NEW kind \in Kinds, NEW n \in Clocked, BeginsHearing(kind, n)
  PROVE  AInv'
<1> USE DEF IDLE, READY, BUSY
<1>1. ~Active
  BY DEF BeginsHearing, MasterBegins, MayBegin, Careful, Active
<1>2. /\ spiMode = "IDLE" /\ ~spiPend /\ ~extiPend /\ rxFifo = <<>> /\ txFifo = <<>>
      /\ s2r.wr # BUSY /\ r2s.rd # BUSY /\ cr2 \subseteq {"rxneie"} /\ ~ch1.on /\ ~ch2.on
      /\ (listens => reg = wrote) /\ (listens \/ heard.kind = "none")
  BY <1>1, Quiet
<1>3. Types
  BY DEF AInv
<1>4. /\ pc = "check" /\ ~CanGrantWr(s2r) /\ ~CanGrantRd(r2s) /\ "rxneie" \in cr2
      /\ (listens => n >= AnswerLen(kind)) /\ kind \in AllKinds /\ n \in Nat
  BY SpiAssumption DEF BeginsHearing, MasterBegins, MayBegin, Careful, Settled
<1>5. rxFifo' = <<kind>> /\ spiPend' /\ ch1' = ch1
  <2>1. Len(rxFifo) < FifoDepth /\ Append(rxFifo, kind) = <<kind>>
    BY <1>2, SpiAssumption
  <2> QED BY <1>2, <1>4, <2>1 DEF BeginsHearing, MasterBegins, Arrives
<1>6. /\ master'.phase = "clocking" /\ master'.left = n /\ master'.sent = 0 /\ master'.saw = pins
      /\ master' \in [phase : {"idle", "clocking"}, left : Nat, sent : Nat, tag : Tags, saw : SUBSET Pins]
  <2> DEFINE t == IF "rxrdy" \in pins THEN NextTag(master.tag) ELSE master.tag
  <2>1. t \in Tags /\ pins \in SUBSET Pins
    BY <1>3, TagsAre DEF Types
  <2>2. master' = [phase |-> "clocking", left |-> n, sent |-> 0, tag |-> t, saw |-> pins]
    BY DEF BeginsHearing, MasterBegins
  <2> HIDE DEF t
  <2> QED BY <1>4, <2>1, <2>2
<1>7. /\ heard' = (IF listens THEN [kind |-> kind, bytes |-> <<>>] ELSE heard)
      /\ txFifo' = <<>>
      /\ UNCHANGED <<s2r, r2s, pc, didRestoreSpi, didRestoreRs485, panicked, spiMode, cr2, extiPend,
                     ch2, pins, seen, rsTag, reg, moved, wrote, listens>>
  BY <1>2 DEF BeginsHearing, MasterBegins, loopVars
<1>8. Active' /\ ~extiPend'
  BY <1>2, <1>6, <1>7 DEF Active
<1>9. Types'
  <2>1. rxFifo' \in Seq(Bytes) /\ Len(rxFifo') <= FifoDepth
    BY <1>4, <1>5, SpiAssumption DEF Bytes
  <2>2. heard' \in [kind : AllKinds \cup {"none"}, bytes : Seq(AnswerByte)] /\ txFifo' \in Seq(AnswerByte)
    BY <1>3, <1>4, <1>7 DEF Types
  <2>3. spiPend' \in BOOLEAN
    BY <1>2, <1>4 DEF BeginsHearing, MasterBegins, Arrives
  <2> QED BY <1>3, <1>5, <1>6, <1>7, <2>1, <2>2, <2>3 DEF Types
<1>10. PhaseInv'
  BY <1>2, <1>5, <1>6, <1>7, <1>8 DEF PhaseInv
<1>11. MainInv'
  BY <1>4, <1>7, <1>8 DEF MainInv, WrSteps, RdSteps, CanGrantWr, CanGrantRd
<1>12. GrantInv'
  BY <1>2, <1>5, <1>7 DEF AInv, GrantInv
<1>13. PinInv'
  BY <1>2, <1>6, <1>7 DEF AInv, PinInv
<1>14. FifoInv'
  BY <1>2, <1>4, <1>5, <1>6, <1>7 DEF FifoInv
<1>15. HeardInv'
  <2>1. (AnswerLen(rxFifo[1]))' = AnswerLen(kind)
    BY <1>5, <1>7 DEF AnswerLen, Announced
  <2>2. rxFifo'[1] = kind
    BY <1>5
  <2> QED BY <1>2, <1>4, <1>6, <1>7, <2>1, <2>2 DEF HeardInv
<1> QED BY <1>9, <1>10, <1>11, <1>12, <1>13, <1>14, <1>15 DEF AInv

LEMMA EndsInv ==
  ASSUME Careful, AInv, EndsHearing
  PROVE  AInv'
<1>1. /\ master.phase = "clocking" /\ master.left = 0 /\ ~spiPend /\ ~extiPend /\ Active
      /\ spiMode # "IDLE"
  BY DEF EndsHearing, MasterEnds, Careful, AInv, PhaseInv, Active
<1>2. /\ extiPend' /\ master' = [master EXCEPT !.phase = "idle"]
      /\ UNCHANGED <<s2r, r2s, pc, didRestoreSpi, didRestoreRs485, panicked, spiMode, cr2, spiPend,
                     rxFifo, ch1, ch2, pins, seen, rsTag, reg, txFifo, moved, heard, listens>>
  BY DEF EndsHearing, MasterEnds, loopVars, dmaVars
<1>3. Types
  BY DEF AInv
<1>4. /\ master' \in [phase : {"idle", "clocking"}, left : Nat, sent : Nat, tag : Tags, saw : SUBSET Pins]
      /\ master'.phase = "idle" /\ master'.left = 0 /\ master'.sent = master.sent
      /\ master'.tag = master.tag /\ master'.saw = master.saw
  BY <1>1, <1>2, <1>3 DEF Types
<1>5. wrote' = (IF heard.kind = "WRITE" /\ master.sent >= 2 THEN master.tag ELSE wrote)
  BY DEF EndsHearing
<1>6. Active'
  BY <1>2 DEF Active
<1>7. Types'
  <2>1. extiPend' \in BOOLEAN /\ wrote' \in Tags \cup {"init", "mixed"}
    BY <1>3, <1>5 DEF EndsHearing, MasterEnds, Types
  <2> QED BY <1>2, <1>3, <1>4, <2>1 DEF Types
<1>8. PhaseInv'
  BY <1>1, <1>2, <1>4, <1>6 DEF AInv, PhaseInv
<1>9. MainInv' /\ GrantInv'
  BY <1>1, <1>2, <1>6 DEF AInv, MainInv, GrantInv
<1>10. PinInv' /\ FifoInv'
  BY <1>1, <1>2, <1>4 DEF AInv, PinInv, FifoInv
<1>11. HeardInv'
  <2>1. ~listens => heard.kind = "none" /\ txFifo = <<>>
    BY DEF AInv, HeardInv
  <2>2. ASSUME listens
        PROVE  /\ reg = wrote /\ heard.kind = spiMode /\ master.sent + master.left >= Need(spiMode)
               /\ heard.bytes \o txFifo = Answer /\ SentData <= SentLen
               /\ \/ Len(heard.bytes) = master.sent
                  \/ txFifo = <<>> /\ (spiMode = "LONG" => SentData = SentLen)
    BY <1>1, <2>2 DEF AInv, HeardInv
  <2>3. SentLen' = SentLen /\ SentData' = SentData
    BY <1>2 DEF SentLen, SentData
  <2>4. (Need(spiMode))' = Need(spiMode)
    BY <1>2, <2>3 DEF Need
  <2>5. listens => Answer' = Answer
    BY <1>2, <1>5, <2>2, <2>3 DEF Answer
  <2>6. listens => IF spiMode' = "WRITE" /\ master'.sent >= 2 THEN wrote' = master'.tag ELSE reg' = wrote'
    BY <1>2, <1>4, <1>5, <2>2
  <2> QED BY <1>1, <1>2, <1>4, <2>1, <2>2, <2>3, <2>4, <2>5, <2>6 DEF HeardInv
<1> QED BY <1>7, <1>8, <1>9, <1>10, <1>11 DEF AInv

LEMMA TakesInv ==
  ASSUME Careful, AInv, Rs485Takes, UNCHANGED answerVars
  PROVE  AInv'
<1> USE DEF IDLE, READY, BUSY
<1>1. ~Active
  BY DEF Rs485Takes, Rs485May, Careful, Active
<1>2. /\ spiMode = "IDLE" /\ ~spiPend /\ s2r.wr # BUSY /\ r2s.rd # BUSY /\ cr2 \subseteq {"rxneie"}
      /\ ~ch1.on /\ ~ch2.on
  BY <1>1, Quiet
<1>3. Types
  BY DEF AInv
<1>4. /\ UNCHANGED <<r2s, pc, didRestoreSpi, didRestoreRs485, panicked, spiMode, cr2, spiPend, extiPend,
                     rxFifo, ch1, ch2, pins, seen, master, rsTag, reg, txFifo, moved, heard, wrote, listens>>
      /\ s2r' = IF s2r.frames = <<>> THEN ServiceRdNone(s2r) ELSE [s2r EXCEPT !.frames = Tail(@)]
  BY DEF Rs485Takes, loopVars, intVars, dmaVars, answerVars
<1>5. /\ s2r' \in [frames : Seq(OutFrame), wr : {IDLE, READY}, rd : SlotState, unresolved : BOOLEAN]
      /\ s2r'.wr = s2r.wr
  <2>1. s2r.frames # <<>> => Tail(s2r.frames) \in Seq(OutFrame)
    BY <1>3, HeadTailProperties DEF Types
  <2> QED BY <1>2, <1>3, <1>4, <2>1 DEF Types, ServiceRdNone, SlotState
<1>6. ~Active'
  BY <1>1, <1>4 DEF Active
<1>7. MainInv' /\ PinInv'
  BY <1>2, <1>4, <1>5, <1>6 DEF AInv, MainInv, PinInv
<1>8. /\ r2s' \in [frames : Seq(InFrame), wr : SlotState, rd : {IDLE, READY}, unresolved : BOOLEAN]
      /\ ch1' \in [on : {FALSE}, left : 0 .. MaxLen, got : Tags \cup {"none", "mixed"}, fresh : BOOLEAN]
      /\ ch2' \in [on : {FALSE}, fresh : BOOLEAN]
      /\ cr2' \subseteq {"rxneie"} /\ pins' \subseteq Pins /\ moved' \in Nat /\ rsTag' \in Tags
  BY <1>2, <1>3, <1>4 DEF Types, SlotState
<1>9. /\ s2r'.wr = READY => pc' \in WrSteps \/ (ch1'.fresh /\ ch1'.left = MaxLen /\ ch1'.got = "none")
      /\ r2s'.rd = READY => pc' \in RdSteps \/ (ch2'.fresh /\ (listens => moved' = 0))
      /\ r2s'.rd # IDLE => r2s'.frames # <<>>
  BY <1>4, <1>5 DEF AInv, GrantInv
<1> QED BY <1>1, <1>4, <1>5, <1>7, <1>8, <1>9, StaysQuiet

LEMMA DeliversInv ==
  ASSUME Careful, AInv, NEW len \in RsLens, Rs485Delivers(len), UNCHANGED answerVars
  PROVE  AInv'
<1> USE DEF IDLE, READY, BUSY
<1>1. ~Active
  BY DEF Rs485Delivers, Rs485May, Careful, Active
<1>2. /\ spiMode = "IDLE" /\ ~spiPend /\ s2r.wr # BUSY /\ r2s.rd # BUSY /\ cr2 \subseteq {"rxneie"}
      /\ ~ch1.on /\ ~ch2.on
  BY <1>1, Quiet
<1>3. Types
  BY DEF AInv
<1>4. /\ UNCHANGED <<s2r, pc, didRestoreSpi, didRestoreRs485, panicked, spiMode, cr2, spiPend, extiPend,
                     rxFifo, ch1, ch2, pins, seen, master, reg, txFifo, moved, heard, wrote, listens>>
      /\ r2s' = [r2s EXCEPT !.frames = Append(@, [len |-> len, tag |-> rsTag]), !.unresolved = FALSE]
      /\ rsTag' = NextTag(rsTag)
  BY DEF Rs485Delivers, loopVars, intVars, dmaVars, answerVars
<1>5. /\ r2s' \in [frames : Seq(InFrame), wr : SlotState, rd : {IDLE, READY}, unresolved : BOOLEAN]
      /\ r2s'.rd = r2s.rd /\ r2s'.frames # <<>>
  <2> DEFINE q == Append(r2s.frames, [len |-> len, tag |-> rsTag])
  <2>1. [len |-> len, tag |-> rsTag] \in InFrame /\ r2s.frames \in Seq(InFrame)
    BY <1>3, SpiAssumption DEF Types, InFrame
  <2>2. q \in Seq(InFrame) /\ q # <<>>
    BY <2>1, AppendProperties
  <2>3. r2s' = [r2s EXCEPT !.frames = q, !.unresolved = FALSE]
    BY <1>4
  <2> HIDE DEF q
  <2> QED BY <1>2, <1>3, <2>2, <2>3 DEF Types, SlotState
<1>6. ~Active'
  BY <1>1, <1>4 DEF Active
<1>7. MainInv' /\ PinInv'
  BY <1>2, <1>4, <1>5, <1>6 DEF AInv, MainInv, PinInv
<1>8. /\ s2r' \in [frames : Seq(OutFrame), wr : {IDLE, READY}, rd : SlotState, unresolved : BOOLEAN]
      /\ ch1' \in [on : {FALSE}, left : 0 .. MaxLen, got : Tags \cup {"none", "mixed"}, fresh : BOOLEAN]
      /\ ch2' \in [on : {FALSE}, fresh : BOOLEAN]
      /\ cr2' \subseteq {"rxneie"} /\ pins' \subseteq Pins /\ moved' \in Nat /\ rsTag' \in Tags
  BY <1>2, <1>3, <1>4, TagsAre DEF Types, SlotState
<1>9. /\ s2r'.wr = READY => pc' \in WrSteps \/ (ch1'.fresh /\ ch1'.left = MaxLen /\ ch1'.got = "none")
      /\ r2s'.rd = READY => pc' \in RdSteps \/ (ch2'.fresh /\ (listens => moved' = 0))
  BY <1>4, <1>5 DEF AInv, GrantInv
<1> QED BY <1>1, <1>4, <1>5, <1>7, <1>8, <1>9, StaysQuiet

LEMMA ClocksInv ==
  ASSUME Careful, AInv, ClocksHearing
  PROVE  AInv'
<1> USE DEF IDLE, READY, BUSY
<1>1. /\ master.phase = "clocking" /\ ~extiPend /\ Active
      /\ (spiPend <=> spiMode = "IDLE") /\ (listens => ~spiPend)
  BY DEF ClocksHearing, MasterClocks, AInv, PhaseInv, Active
<1>2. Types
  BY DEF AInv
<1>3. /\ master.left \in Nat /\ master.left > 0 /\ master.sent \in Nat /\ master.tag \in Tags
      /\ MaxLen \in Nat /\ MaxLen >= 1 /\ FifoDepth \in Nat /\ Len(rxFifo) \in Nat
  BY <1>2, SpiAssumption DEF ClocksHearing, MasterClocks, Types
<1>4. /\ master' = [master EXCEPT !.left = @ - 1, !.sent = @ + 1]
      /\ UNCHANGED <<s2r, r2s, pc, didRestoreSpi, didRestoreRs485, panicked, spiMode, cr2, extiPend,
                     ch2, pins, seen, rsTag, reg, moved, wrote, listens>>
  BY DEF ClocksHearing, MasterClocks, loopVars
<1>5. /\ master' \in [phase : {"idle", "clocking"}, left : Nat, sent : Nat, tag : Tags, saw : SUBSET Pins]
      /\ master'.phase = "clocking" /\ master'.left = master.left - 1 /\ master'.sent = master.sent + 1
      /\ master'.tag = master.tag /\ master'.saw = master.saw
  <2>1. master.left - 1 \in Nat /\ master.sent + 1 \in Nat
    BY <1>3
  <2>2. master \in [phase : {"idle", "clocking"}, left : Nat, sent : Nat, tag : Tags, saw : SUBSET Pins]
    BY <1>2 DEF Types
  <2> QED BY <1>1, <1>4, <2>1, <2>2
<1>6. spiPend' = spiPend
  <2>1. spiPend' = (spiPend \/ "rxneie" \in cr2) /\ spiPend \in BOOLEAN
    BY <1>2 DEF ClocksHearing, MasterClocks, Arrives, Types
  <2>2. spiMode # "IDLE" => "rxneie" \notin cr2
    BY DEF AInv, PhaseInv
  <2> QED BY <1>1, <2>1, <2>2
<1>7. Active'
  BY <1>5 DEF Active
\* Where the byte goes.
<1> DEFINE room == Len(rxFifo) < FifoDepth
           dma  == s2r.wr = BUSY /\ ch1.left > 0
<1>8. /\ dma => ch1' = DmaTakes(ch1, master.tag) /\ rxFifo' = rxFifo
      /\ ~dma => /\ ch1' = ch1
                 /\ rxFifo' = IF room THEN Append(rxFifo, master.tag) ELSE rxFifo
  <2>1. (ch1.on /\ "rxdmaen" \in cr2 /\ ch1.left > 0) <=> dma
    BY DEF AInv, GrantInv
  <2>2. Arrives(master.tag)
    BY DEF ClocksHearing, MasterClocks
  <2> QED BY <2>1, <2>2 DEF Arrives
<1>9. /\ rxFifo' \in Seq(Bytes) /\ Len(rxFifo') <= FifoDepth
      /\ ~dma /\ room => /\ Len(rxFifo') = Len(rxFifo) + 1 /\ rxFifo'[Len(rxFifo) + 1] = master.tag
                         /\ \A i \in 1 .. Len(rxFifo) : rxFifo'[i] = rxFifo[i]
  <2>1. rxFifo \in Seq(Bytes) /\ Len(rxFifo) <= FifoDepth /\ master.tag \in Bytes
    BY <1>2, <1>3 DEF Types, Bytes
  <2>2. CASE ~dma /\ room
    <3> DEFINE q == Append(rxFifo, master.tag)
    <3>1. /\ q \in Seq(Bytes) /\ Len(q) = Len(rxFifo) + 1
          /\ \A i \in 1 .. Len(rxFifo) : q[i] = rxFifo[i]
          /\ q[Len(rxFifo) + 1] = master.tag
      BY <2>1, AppendProperties
    <3>2. rxFifo' = q
      BY <1>8, <2>2
    <3> HIDE DEF q
    <3> QED BY <1>3, <2>2, <3>1, <3>2
  <2>3. CASE ~(~dma /\ room)
    BY <1>8, <2>1, <2>3
  <2> QED BY <2>2, <2>3
<1>10. dma => /\ ch1'.on = ch1.on /\ ch1'.fresh = ch1.fresh /\ ch1'.left = ch1.left - 1
              /\ ch1'.got = (IF ch1.got \in {"none", master.tag} THEN master.tag ELSE "mixed")
              /\ ch1' \in [on : BOOLEAN, left : 0 .. MaxLen, got : Tags \cup {"none", "mixed"}, fresh : BOOLEAN]
  <2> SUFFICES ASSUME dma
               PROVE  /\ ch1'.on = ch1.on /\ ch1'.fresh = ch1.fresh /\ ch1'.left = ch1.left - 1
                      /\ ch1'.got = (IF ch1.got \in {"none", master.tag} THEN master.tag ELSE "mixed")
                      /\ ch1' \in [on : BOOLEAN, left : 0 .. MaxLen, got : Tags \cup {"none", "mixed"}, fresh : BOOLEAN]
    OBVIOUS
  <2>1. ch1 \in [on : BOOLEAN, left : 0 .. MaxLen, got : Tags \cup {"none", "mixed"}, fresh : BOOLEAN]
    BY <1>2 DEF Types
  <2> DEFINE g == IF ch1.got \in {"none", master.tag} THEN master.tag ELSE "mixed"
  <2>2. g \in Tags \cup {"none", "mixed"} /\ ch1.left - 1 \in 0 .. MaxLen
    BY <1>3, <2>1
  <2>3. ch1' = [ch1 EXCEPT !.left = @ - 1, !.got = g]
    BY <1>3, <1>8 DEF DmaTakes
  <2> HIDE DEF g
  <2>4. /\ ch1'.on = ch1.on /\ ch1'.fresh = ch1.fresh /\ ch1'.left = ch1.left - 1 /\ ch1'.got = g
        /\ ch1' \in [on : BOOLEAN, left : 0 .. MaxLen, got : Tags \cup {"none", "mixed"}, fresh : BOOLEAN]
    BY <2>1, <2>2, <2>3
  <2> QED BY <2>4 DEF g
\* What comes back.
<1>11. /\ txFifo = <<>> => heard' = heard /\ txFifo' = txFifo
       /\ txFifo # <<>> => /\ heard' = [heard EXCEPT !.bytes = Append(@, Head(txFifo))]
                           /\ txFifo' = Tail(txFifo)
  BY DEF ClocksHearing
<1>12. txFifo # <<>> =>
         /\ heard'.kind = heard.kind /\ heard' \in [kind : AllKinds \cup {"none"}, bytes : Seq(AnswerByte)]
         /\ txFifo' \in Seq(AnswerByte) /\ Len(heard'.bytes) = Len(heard.bytes) + 1
         /\ heard'.bytes \o txFifo' = heard.bytes \o txFifo
  <2> SUFFICES ASSUME txFifo # <<>>
               PROVE  /\ heard'.kind = heard.kind
                      /\ heard' \in [kind : AllKinds \cup {"none"}, bytes : Seq(AnswerByte)]
                      /\ txFifo' \in Seq(AnswerByte) /\ Len(heard'.bytes) = Len(heard.bytes) + 1
                      /\ heard'.bytes \o txFifo' = heard.bytes \o txFifo
    OBVIOUS
  <2> DEFINE h == heard.bytes
             x == Head(txFifo)
             r == Tail(txFifo)
  <2>1. /\ heard \in [kind : AllKinds \cup {"none"}, bytes : Seq(AnswerByte)] /\ h \in Seq(AnswerByte)
        /\ txFifo \in Seq(AnswerByte)
    BY <1>2 DEF Types
  <2>2. x \in AnswerByte /\ r \in Seq(AnswerByte)
    BY <2>1, HeadTailProperties
  <2>3. Append(h, x) \in Seq(AnswerByte) /\ Len(Append(h, x)) = Len(h) + 1 /\ Append(h, x) = h \o <<x>>
    BY <2>1, <2>2, AppendProperties, AppendIsConcat
  <2>4. txFifo = <<x>> \o r
    <3>1. txFifo = SubSeq(txFifo, 1, Len(txFifo)) /\ 1 \in 1 .. Len(txFifo) /\ Len(txFifo) \in 1 .. Len(txFifo)
      BY <2>1, SubSeqFull
    <3>2. SubSeq(txFifo, 1, Len(txFifo)) = <<txFifo[1]>> \o SubSeq(txFifo, 2, Len(txFifo))
      BY <2>1, <3>1, SubSeqRecursiveFirst
    <3>3. r = SubSeq(txFifo, 2, Len(txFifo)) /\ x = txFifo[1]
      BY <2>1, TailIsSubSeq
    <3> QED BY <3>1, <3>2, <3>3
  <2>5. (h \o <<x>>) \o r = h \o (<<x>> \o r)
    <3>1. <<x>> \in Seq(AnswerByte)
      BY <2>2
    <3> QED BY <2>1, <2>2, <3>1, ConcatAssociative
  <2>6. /\ heard' = [heard EXCEPT !.bytes = Append(h, x)] /\ txFifo' = r
    BY <1>11
  <2> HIDE DEF x, r
  <2>7. /\ heard'.kind = heard.kind /\ heard'.bytes = Append(h, x)
        /\ heard' \in [kind : AllKinds \cup {"none"}, bytes : Seq(AnswerByte)]
    BY <2>1, <2>3, <2>6
  <2> QED BY <2>2, <2>3, <2>4, <2>5, <2>6, <2>7
<1>13. Types'
  <2>1. ch1' \in [on : BOOLEAN, left : 0 .. MaxLen, got : Tags \cup {"none", "mixed"}, fresh : BOOLEAN]
    BY <1>2, <1>8, <1>10 DEF Types
  <2>2. heard' \in [kind : AllKinds \cup {"none"}, bytes : Seq(AnswerByte)] /\ txFifo' \in Seq(AnswerByte)
    BY <1>2, <1>11, <1>12 DEF Types
  <2> QED BY <1>2, <1>4, <1>5, <1>6, <1>9, <2>1, <2>2 DEF Types
<1>14. PhaseInv'
  <2>1. dma => spiMode = "LONG"
    BY DEF AInv, PhaseInv
  <2>2. spiMode # "LONG" => ch1' = ch1
    BY <1>8, <2>1
  <2> QED BY <1>1, <1>4, <1>5, <1>6, <1>7, <2>2 DEF AInv, PhaseInv
<1>15. MainInv'
  BY <1>1, <1>4, <1>7 DEF AInv, MainInv, CanGrantWr, CanGrantRd
<1>16. GrantInv'
  <2>1. ch1'.on = ch1.on /\ ch1'.fresh = ch1.fresh /\ (s2r.wr = READY => ch1' = ch1)
    BY <1>8, <1>10
  <2> QED BY <1>4, <2>1 DEF AInv, GrantInv
<1>17. PinInv'
  BY <1>4, <1>5, <1>6 DEF AInv, PinInv
<1>18. FifoInv'
  <2>1. ASSUME spiPend
        PROVE  /\ Len(rxFifo') = 1 + (master.sent + 1) /\ rxFifo'[1] \in AllKinds
               /\ \A i \in 2 .. Len(rxFifo') : rxFifo'[i] = master.tag
    <3>1. Len(rxFifo) < FifoDepth /\ ~dma
      BY <2>1 DEF ClocksHearing, MasterClocks, Careful, AInv, PhaseInv
    <3>2. Len(rxFifo) = 1 + master.sent /\ rxFifo[1] \in AllKinds /\ \A i \in 2 .. Len(rxFifo) : rxFifo[i] = master.tag
      BY <2>1 DEF AInv, FifoInv
    <3>3. /\ Len(rxFifo') = Len(rxFifo) + 1 /\ rxFifo'[Len(rxFifo) + 1] = master.tag
          /\ \A i \in 1 .. Len(rxFifo) : rxFifo'[i] = rxFifo[i]
      BY <1>9, <3>1
    <3>4. rxFifo'[1] \in AllKinds
      <4>1. 1 \in 1 .. Len(rxFifo)
        BY <1>3, <3>2
      <4> QED BY <3>2, <3>3, <4>1
    <3>5. ASSUME NEW i \in 2 .. Len(rxFifo') PROVE rxFifo'[i] = master.tag
      <4>1. i \in 2 .. Len(rxFifo) \/ i = Len(rxFifo) + 1
        BY <1>3, <3>3
      <4>2. i \in 2 .. Len(rxFifo) => i \in 1 .. Len(rxFifo)
        BY <1>3
      <4> QED BY <3>2, <3>3, <4>1, <4>2
    <3> QED BY <1>3, <3>2, <3>3, <3>4, <3>5
  <2>2. ASSUME spiMode = "LONG", s2r.wr = BUSY
        PROVE  /\ ch1'.left = MaxLen - AtMost(master.sent + 1, MaxLen)
               /\ ch1'.got = master.tag
    <3>1. /\ ch1.left = MaxLen - AtMost(master.sent, MaxLen)
          /\ ch1.got = IF master.sent = 0 THEN "none" ELSE master.tag
      BY <2>2 DEF AInv, FifoInv
    <3>2. CASE dma
      BY <1>3, <1>10, <3>1, <3>2 DEF AtMost
    <3>3. CASE ~dma
      <4>1. ch1' = ch1 /\ ~(ch1.left > 0) /\ ch1.left \in Nat
        BY <1>2, <1>8, <2>2, <3>3 DEF Types
      <4> QED BY <1>3, <3>1, <4>1 DEF AtMost
    <3> QED BY <3>2, <3>3
  <2>3. ASSUME spiMode = "WRITE"
        PROVE  /\ Len(rxFifo') = AtMost(master.sent + 1, FifoDepth)
               /\ \A i \in 1 .. Len(rxFifo') : rxFifo'[i] = master.tag
    <3>1. ~dma
      BY <2>3 DEF AInv, PhaseInv
    <3>2. Len(rxFifo) = AtMost(master.sent, FifoDepth) /\ \A i \in 1 .. Len(rxFifo) : rxFifo[i] = master.tag
      BY <2>3 DEF AInv, FifoInv
    <3>3. CASE room
      <4>1. /\ Len(rxFifo') = Len(rxFifo) + 1 /\ rxFifo'[Len(rxFifo) + 1] = master.tag
            /\ \A i \in 1 .. Len(rxFifo) : rxFifo'[i] = rxFifo[i]
        BY <1>9, <3>1, <3>3
      <4>2. Len(rxFifo') = AtMost(master.sent + 1, FifoDepth)
        BY <1>3, <3>2, <3>3, <4>1 DEF AtMost
      <4>3. \A i \in 1 .. Len(rxFifo') : i \in 1 .. Len(rxFifo) \/ i = Len(rxFifo) + 1
        BY <1>3, <4>1
      <4> QED BY <3>2, <4>1, <4>2, <4>3
    <3>4. CASE ~room
      <4>1. rxFifo' = rxFifo
        BY <1>8, <3>1, <3>4
      <4>2. AtMost(master.sent + 1, FifoDepth) = AtMost(master.sent, FifoDepth)
        BY <1>3, <3>2, <3>4 DEF AtMost
      <4> QED BY <3>2, <4>1, <4>2
    <3> QED BY <3>3, <3>4
  <2>4. master.sent + 1 # 0
    BY <1>3
  <2> QED BY <1>4, <1>5, <1>6, <2>1, <2>2, <2>3, <2>4 DEF FifoInv
<1>19. HeardInv'
  <2>1. ~listens => heard'.kind = "none" /\ txFifo' = <<>>
    BY <1>11 DEF AInv, HeardInv
  <2>2. spiMode = "IDLE" => txFifo' = <<>>
    BY <1>11 DEF AInv, HeardInv
  <2>3. SentLen' = SentLen /\ SentData' = SentData
    BY <1>4 DEF SentLen, SentData
  <2>4. Answer' = Answer /\ (Need(spiMode))' = Need(spiMode)
    BY <1>4, <2>3 DEF Answer, Need
  <2>5. ASSUME listens
        PROVE  /\ ~spiPend /\ spiMode # "IDLE" /\ reg = wrote /\ heard.kind = spiMode
               /\ master.sent + master.left >= Need(spiMode)
               /\ heard.bytes \o txFifo = Answer /\ SentData <= SentLen
               /\ \/ Len(heard.bytes) = master.sent
                  \/ txFifo = <<>> /\ (spiMode = "LONG" => SentData = SentLen)
    BY <1>1, <2>5 DEF AInv, HeardInv
  <2>6. ASSUME listens, txFifo = <<>>, spiMode = "LONG" PROVE SentData = SentLen
    <3>1. CASE r2s.rd = BUSY
      <4>1. ch2.on /\ "txdmaen" \in cr2 /\ r2s.frames # <<>>
        BY <3>1 DEF AInv, GrantInv
      <4>2. Head(r2s.frames) \in InFrame
        BY <1>2, <4>1, HeadTailProperties DEF Types
      <4>3. Len(txFifo) < TxDepth
        BY <2>6, AnswersAssumption
      <4>4. ~(moved < Head(r2s.frames).len)
        BY <2>6, <4>1, <4>3 DEF ClocksHearing, Ch2Asked, Ch2Length
      <4>5. SentData = moved /\ SentLen = Head(r2s.frames).len /\ moved \in Nat /\ SentLen \in Nat
        BY <1>2, <3>1, <4>2 DEF SentData, SentLen, Types, InFrame
      <4> QED BY <2>5, <2>6, <4>4, <4>5
    <3>2. CASE r2s.rd # BUSY
      BY <3>2 DEF SentData, SentLen
    <3> QED BY <3>1, <3>2
  <2>7. ASSUME listens
        PROVE  /\ heard'.kind = spiMode' /\ heard'.bytes \o txFifo' = Answer'
               /\ \/ Len(heard'.bytes) = master'.sent
                  \/ txFifo' = <<>> /\ (spiMode' = "LONG" => SentData' = SentLen')
    <3>1. CASE txFifo = <<>>
      BY <1>4, <1>11, <2>3, <2>4, <2>5, <2>6, <2>7, <3>1
    <3>2. CASE txFifo # <<>>
      BY <1>4, <1>5, <1>12, <2>4, <2>5, <2>7, <3>2
    <3> QED BY <3>1, <3>2
  <2>8. listens => master'.sent + master'.left >= (Need(spiMode))' /\ SentData' <= SentLen'
    <3>1. (master.sent + 1) + (master.left - 1) = master.sent + master.left
      BY <1>3
    <3>2. master'.sent + master'.left = master.sent + master.left
      BY <1>5, <3>1
    <3> QED BY <2>3, <2>4, <2>5, <3>2
  <2>9. listens => reg' = wrote' /\ ~spiPend'
    BY <1>4, <1>6, <2>5
  <2> QED BY <1>1, <1>4, <2>1, <2>2, <2>7, <2>8, <2>9 DEF HeardInv
<1> QED BY <1>13, <1>14, <1>15, <1>16, <1>17, <1>18, <1>19 DEF AInv

LEMMA Ch2MovesInv ==
  ASSUME AInv, Ch2Moves
  PROVE  AInv'
<1> USE DEF IDLE, READY, BUSY
<1>1. /\ listens /\ ch2.on /\ "txdmaen" \in cr2 /\ moved < Head(r2s.frames).len
      /\ UNCHANGED <<s2r, r2s, pc, didRestoreSpi, didRestoreRs485, panicked, spiMode, cr2, spiPend, extiPend,
                     rxFifo, ch1, ch2, pins, seen, master, rsTag, reg, heard, wrote, listens>>
      /\ moved' = moved + 1
  BY DEF Ch2Moves, Ch2Asked, Ch2Length, vars, loopVars, intVars, dmaVars
<1>2. Types
  BY DEF AInv
<1>3. r2s.rd = BUSY /\ spiMode = "LONG" /\ ch2.fresh /\ r2s.frames # <<>>
  BY <1>1 DEF AInv, GrantInv, PhaseInv
<1> DEFINE f == Head(r2s.frames)
<1>4. f \in InFrame /\ f \in [len : Nat, tag : Tags \cup {"mixed"}]
  <2>1. f \in InFrame
    BY <1>2, <1>3, HeadTailProperties DEF Types
  <2> QED BY <2>1, SpiAssumption DEF InFrame
<1>5. txFifo' = Append(txFifo, Data(f.tag)) /\ Data(f.tag) \in AnswerByte
  BY <1>3, <1>4 DEF Ch2Moves, Data, AnswerByte
<1>6. /\ heard.kind = spiMode /\ master.sent + master.left >= Need(spiMode)
      /\ heard.bytes \o txFifo = Answer /\ SentData <= SentLen
      /\ \/ Len(heard.bytes) = master.sent
         \/ txFifo = <<>> /\ (spiMode = "LONG" => SentData = SentLen)
      /\ IF extiPend /\ spiMode = "WRITE" /\ master.sent >= 2 THEN wrote = master.tag ELSE reg = wrote
      /\ ~spiPend
  BY <1>1, <1>3 DEF AInv, HeardInv, PhaseInv
<1>7. /\ SentData = moved /\ SentLen = f.len /\ SentData' = moved + 1 /\ SentLen' = f.len
      /\ moved \in Nat /\ f.len \in Nat
  BY <1>1, <1>2, <1>3, <1>4 DEF SentData, SentLen, Types
<1>8. Len(heard.bytes) = master.sent
  BY <1>1, <1>3, <1>6, <1>7
<1>9. heard.bytes \o txFifo' = Answer'
  <2>1. Answer = LongAnswer(moved, f)
    BY <1>3, <1>7 DEF Answer, LongAnswer
  <2>2. Answer' = LongAnswer(moved + 1, f)
    BY <1>1, <1>3, <1>7 DEF Answer, LongAnswer
  <2>3. LongAnswer(moved + 1, f) = Append(LongAnswer(moved, f), Data(f.tag))
    BY <1>4, <1>7, LongAnswerGrows
  <2> DEFINE h == heard.bytes
             x == Data(f.tag)
  <2>4. h \in Seq(AnswerByte) /\ txFifo \in Seq(AnswerByte) /\ x \in AnswerByte /\ <<x>> \in Seq(AnswerByte)
    BY <1>2, <1>5 DEF Types
  <2>5. txFifo' = txFifo \o <<x>> /\ h \o txFifo \in Seq(AnswerByte)
    BY <1>5, <2>4, AppendIsConcat, ConcatProperties
  <2>6. h \o (txFifo \o <<x>>) = (h \o txFifo) \o <<x>>
    <3> HIDE DEF h, x
    <3> QED BY <2>4, ConcatAssociative
  <2>7. Append(h \o txFifo, x) = (h \o txFifo) \o <<x>>
    BY <2>4, <2>5, AppendIsConcat
  <2> HIDE DEF h, x
  <2>8. h \o txFifo' = Append(h \o txFifo, x)
    BY <2>5, <2>6, <2>7
  <2>9. h \o txFifo = LongAnswer(moved, f)
    BY <1>6, <2>1 DEF h
  <2> QED BY <2>2, <2>3, <2>8, <2>9 DEF h, x
<1>10. Types'
  <2>1. txFifo' \in Seq(AnswerByte) /\ moved' \in Nat
    BY <1>1, <1>2, <1>5, AppendProperties DEF Types
  <2> QED BY <1>1, <1>2, <2>1 DEF Types
<1>11. PhaseInv' /\ MainInv' /\ PinInv' /\ FifoInv'
  <2>1. Active' <=> Active
    BY <1>1 DEF Active
  <2>2. PhaseInv' /\ MainInv'
    BY <1>1, <2>1 DEF AInv, PhaseInv, MainInv
  <2>3. PinInv' /\ FifoInv'
    BY <1>1 DEF AInv, PinInv, FifoInv
  <2> QED BY <2>2, <2>3
<1>12. GrantInv'
  BY <1>1, <1>3 DEF AInv, GrantInv
<1>13. HeardInv'
  <2>1. (Need(spiMode))' = Need(spiMode)
    BY <1>1, <1>7 DEF Need
  <2>2. SentData' <= SentLen'
    BY <1>1, <1>7
  <2> QED BY <1>1, <1>3, <1>6, <1>8, <1>9, <2>1, <2>2 DEF HeardInv
<1> QED BY <1>10, <1>11, <1>12, <1>13 DEF AInv

-----------------------------------------------------------------------------
(* What holds of every behaviour.                                          *)

LEMMA StaysInv ==
  ASSUME AInv, UNCHANGED <<vars, answerVars>>
  PROVE  AInv'
<1>1. UNCHANGED <<s2r, r2s, pc, didRestoreSpi, didRestoreRs485, panicked, spiMode, cr2, spiPend, extiPend,
                  rxFifo, ch1, ch2, pins, seen, master, rsTag, reg, txFifo, moved, heard, wrote, listens>>
  BY DEF vars, answerVars, loopVars, intVars, dmaVars
<1>2. Active' <=> Active
  BY <1>1 DEF Active
<1>3. Types' /\ PhaseInv' /\ MainInv'
  BY <1>1, <1>2 DEF AInv, Types, PhaseInv, MainInv
<1>4. GrantInv' /\ PinInv' /\ FifoInv'
  BY <1>1 DEF AInv, GrantInv, PinInv, FifoInv
<1>5. HeardInv'
  BY <1>1, HeardSame DEF AInv
<1> QED BY <1>3, <1>4, <1>5 DEF AInv

\* What a step is, once what the invariant excludes has been left out.
LEMMA HandlerIs ==
  ASSUME AInv, AnswersHandler
  PROVE  \/ /\ ExtiShort /\ UNCHANGED <<txFifo, moved, heard, wrote, listens>>
            /\ reg' = IF listens /\ spiMode = "WRITE" /\ Len(rxFifo) >= 2 THEN Stored ELSE reg
         \/ ExtiLong /\ UNCHANGED answerVars
         \/ /\ LongBegins /\ UNCHANGED <<reg, moved, heard, wrote, listens>>
            /\ txFifo' = IF listens THEN Push(txFifo, Size(Announced)) ELSE txFifo
         \/ \E kind \in AllKinds :
              /\ ShortBegins(kind) /\ UNCHANGED <<reg, moved, heard, wrote, listens>>
              /\ txFifo' = IF listens /\ kind = "READ" THEN Push(txFifo, Reg(reg)) ELSE txFifo
<1>1. ~ExtiSpurious /\ ~NotIdle
  BY NeverSpurious
<1>2. CASE listens
  <2>1. \/ ExtiShortStores
        \/ ExtiLong /\ UNCHANGED answerVars
        \/ LongAnswers
        \/ \E kind \in AllKinds : ShortAnswers(kind)
    BY <1>1, <1>2 DEF AnswersHandler, OtherEnds
  <2> QED BY <1>2, <2>1 DEF ExtiShortStores, LongAnswers, ShortAnswers
<1>3. CASE ~listens
  <2>1. /\ ExtiShort \/ ExtiLong \/ LongBegins \/ \E kind \in AllKinds : ShortBegins(kind)
        /\ UNCHANGED answerVars
    BY <1>1, <1>3 DEF AnswersHandler, Handler
  <2> QED BY <1>3, <2>1 DEF answerVars
<1> QED BY <1>2, <1>3

\* ... and every step keeps it.
LEMMA AnswersStepInv ==
  ASSUME Careful, AInv, [AnswersNext]_<<vars, answerVars>>
  PROVE  AInv'
<1>1. CASE AnswersHandler
  BY <1>1, HandlerIs, ShortEndInv, LongEndInv, LongBeginsInv, ShortBeginsInv
<1>2. CASE AnswersMain
  BY <1>2, MainQuiet, MainBusy
<1>3. CASE Ch2Moves
  BY <1>3, Ch2MovesInv
<1>4. CASE \E kind \in Kinds, n \in Clocked : BeginsHearing(kind, n)
  BY <1>4, BeginsInv
<1>5. CASE ClocksHearing \/ EndsHearing
  BY <1>5, ClocksInv, EndsInv
<1>6. CASE (Rs485Takes \/ \E len \in RsLens : Rs485Delivers(len)) /\ UNCHANGED answerVars
  BY <1>6, TakesInv, DeliversInv
<1>7. CASE UNCHANGED <<vars, answerVars>>
  BY <1>7, StaysInv
<1> QED BY <1>1, <1>2, <1>3, <1>4, <1>5, <1>6, <1>7 DEF AnswersNext

\* With a careful, paced master and a router that waits, the port keeps its invariant, whatever
\* the frame size, the depth of the FIFOs and the transactions.
THEOREM AnswersInvariant ==
  ASSUME Careful
  PROVE  AnswersSpec => []AInv
<1>1. AInv /\ [AnswersNext]_<<vars, answerVars>> => AInv'
  BY AnswersStepInv
<1> QED BY <1>1, AnswersInitInv, PTL DEF AnswersSpec

\* Frames enter s2r at the end of a long transaction and leave r2s there, and nowhere else in
\* the port.
LEMMA FramesMoveAtTheEnd ==
  ASSUME AInv, [AnswersNext]_<<vars, answerVars>>, ~ExtiLong
  PROVE  Len(s2r'.frames) <= Len(s2r.frames) /\ Len(r2s'.frames) >= Len(r2s.frames)
<1>0. /\ s2r \in [frames : Seq(OutFrame), wr : SlotState, rd : SlotState, unresolved : BOOLEAN]
      /\ r2s \in [frames : Seq(InFrame), wr : SlotState, rd : SlotState, unresolved : BOOLEAN]
      /\ rsTag \in Tags
  BY DEF AInv, Types
<1>1. s2r'.frames = s2r.frames /\ r2s'.frames = r2s.frames =>
        Len(s2r'.frames) <= Len(s2r.frames) /\ Len(r2s'.frames) >= Len(r2s.frames)
  BY <1>0
<1>2. CASE AnswersHandler
  <2>1. \/ s2r' = s2r /\ r2s' = r2s
        \/ s2r' = PrepWr(s2r) /\ r2s' = PrepRd(r2s)
    BY <1>2, HandlerIs DEF ExtiShort, LongBegins, ShortBegins
  <2> QED BY <1>0, <1>1, <2>1 DEF PrepWr, PrepRd
<1>3. CASE AnswersMain
  <2>1. /\ s2r' = s2r \/ s2r' = ServiceWr(s2r)
        /\ r2s' = r2s \/ r2s' = ServiceRd(r2s) \/ r2s' = ServiceRdNone(r2s)
    BY <1>3 DEF AnswersMain, Main, Serve, Check, ReadPins, RestoreWr, NoRoomOrNotIdle, SetUpCh1Read,
                SetUpCh1Write, SetUpCh1, SetRxrdy, RestoreRd, NothingToSend, SetUpCh2Read,
                SetUpCh2Write, SetUpCh2, SetTxrdy, ReadCr2, Unmask
  <2> QED BY <1>0, <1>1, <2>1 DEF ServiceWr, ServiceRd, ServiceRdNone
<1>4. CASE \/ Ch2Moves \/ (\E kind \in Kinds, n \in Clocked : BeginsHearing(kind, n))
           \/ ClocksHearing \/ EndsHearing
  <2>1. s2r' = s2r /\ r2s' = r2s
    BY <1>4 DEF Ch2Moves, BeginsHearing, MasterBegins, ClocksHearing, MasterClocks, EndsHearing,
                MasterEnds, vars
  <2> QED BY <1>0, <1>1, <2>1
<1>5. CASE Rs485Takes
  <2>1. /\ r2s' = r2s
        /\ s2r' = IF s2r.frames = <<>> THEN ServiceRdNone(s2r) ELSE [s2r EXCEPT !.frames = Tail(@)]
    BY <1>5 DEF Rs485Takes
  <2>2. s2r.frames # <<>> => Len(Tail(s2r.frames)) <= Len(s2r.frames)
    BY <1>0, HeadTailProperties
  <2> QED BY <1>0, <2>1, <2>2 DEF ServiceRdNone
<1>6. ASSUME NEW len \in RsLens, Rs485Delivers(len)
      PROVE  Len(s2r'.frames) <= Len(s2r.frames) /\ Len(r2s'.frames) >= Len(r2s.frames)
  <2> DEFINE x == [len |-> len, tag |-> rsTag]
  <2>1. s2r' = s2r /\ r2s' = [r2s EXCEPT !.frames = Append(@, x), !.unresolved = FALSE]
    BY <1>6 DEF Rs485Delivers
  <2>2. x \in InFrame
    BY <1>0, SpiAssumption DEF InFrame
  <2> HIDE DEF x
  <2>3. Len(Append(r2s.frames, x)) = Len(r2s.frames) + 1
    BY <1>0, <2>2, AppendProperties
  <2> QED BY <1>0, <2>1, <2>3
<1>7. CASE UNCHANGED <<vars, answerVars>>
  BY <1>0, <1>1, <1>7 DEF vars
<1> QED BY <1>2, <1>3, <1>4, <1>5, <1>6, <1>7 DEF AnswersNext

\* A grant that a long transaction takes is served: the channel set up for it runs.
THEOREM TakenGrantsAreServed ==
  ASSUME Careful
  PROVE  AnswersSpec => []GrantsAreServed
<1>1. AInv => GrantsAreServed
  BY DEF AInv, GrantInv, GrantsAreServed
<1> QED BY <1>1, AnswersInvariant, PTL

\* The pins mean what the comments at them say: a transaction that began with rxrdy active
\* commits a frame, one that began with txrdy active takes one.
THEOREM PinsKeptTheirWord ==
  ASSUME Careful
  PROVE  AnswersSpec => PinsKeepTheirWord
<1>1. ASSUME AInv, ExtiLong
      PROVE  /\ "rxrdy" \in master.saw => Len(s2r'.frames) = Len(s2r.frames) + 1
             /\ "txrdy" \in master.saw => Len(r2s'.frames) = Len(r2s.frames) - 1
  <2>1. /\ "rxrdy" \in master.saw => s2r.wr = BUSY
        /\ "txrdy" \in master.saw => r2s.rd = BUSY
        /\ r2s.rd = BUSY => r2s.frames # <<>>
    BY <1>1 DEF ExtiLong, AInv, PinInv, GrantInv, IDLE, BUSY
  <2>2. /\ s2r \in [frames : Seq(OutFrame), wr : SlotState, rd : SlotState, unresolved : BOOLEAN]
        /\ r2s \in [frames : Seq(InFrame), wr : SlotState, rd : SlotState, unresolved : BOOLEAN]
    BY <1>1 DEF AInv, Types
  <2>3. ReceivedFrame \in OutFrame
    <3>1. ch1.left \in 0 .. MaxLen /\ ch1.got \in Tags \cup {"none", "mixed"} /\ MaxLen \in Nat
      BY <1>1, SpiAssumption DEF AInv, Types
    <3>2. MaxLen - ch1.left \in 0 .. MaxLen
      BY <3>1
    <3> QED BY <3>1, <3>2 DEF ReceivedFrame, OutFrame
  <2>4. Len(Append(s2r.frames, ReceivedFrame)) = Len(s2r.frames) + 1
    BY <2>2, <2>3, AppendProperties
  <2>5. r2s.frames # <<>> => Len(Tail(r2s.frames)) = Len(r2s.frames) - 1
    BY <2>2, HeadTailProperties
  <2>6. s2r' = CompleteWr(s2r, ReceivedFrame) /\ r2s' = CompleteRd(r2s)
    BY <1>1 DEF ExtiLong
  <2>7. s2r.wr = BUSY => s2r'.frames = Append(s2r.frames, ReceivedFrame)
    BY <2>2, <2>6 DEF CompleteWr
  <2>8. r2s.rd = BUSY => r2s'.frames = Tail(r2s.frames)
    BY <2>2, <2>6 DEF CompleteRd
  <2> QED BY <2>1, <2>4, <2>5, <2>7, <2>8
<1>2. AInv => [ExtiLong => /\ "rxrdy" \in master.saw => Len(s2r'.frames) = Len(s2r.frames) + 1
                           /\ "txrdy" \in master.saw => Len(r2s'.frames) = Len(r2s.frames) - 1]_vars
  BY <1>1
<1> QED BY <1>2, AnswersInvariant, PTL DEF PinsKeepTheirWord

\* A frame of s2r is one transaction: as long as what the master clocked, up to the room
\* granted, and with nothing of another transaction in it.
THEOREM FramesAreTransactions ==
  ASSUME Careful
  PROVE  AnswersSpec => FrameIsTheTransaction
<1> DEFINE TheFrame(f) == /\ f.len = IF master.sent < MaxLen THEN master.sent ELSE MaxLen
                          /\ f.tag = IF f.len = 0 THEN "none" ELSE master.tag
<1>1. ASSUME AInv, [AnswersNext]_<<vars, answerVars>>, Len(s2r'.frames) > Len(s2r.frames)
      PROVE  TheFrame(s2r'.frames[Len(s2r'.frames)])
  <2>0. /\ s2r \in [frames : Seq(OutFrame), wr : SlotState, rd : SlotState, unresolved : BOOLEAN]
        /\ ch1 \in [on : BOOLEAN, left : 0 .. MaxLen, got : Tags \cup {"none", "mixed"}, fresh : BOOLEAN]
        /\ Len(s2r.frames) \in Nat /\ MaxLen \in Nat /\ MaxLen >= 1 /\ master.sent \in Nat
    BY <1>1, SpiAssumption DEF AInv, Types
  <2>1. ExtiLong
    <3>1. ASSUME ~ExtiLong PROVE FALSE
      <4>1. Len(s2r'.frames) <= Len(s2r.frames)
        BY <1>1, <3>1, FramesMoveAtTheEnd
      <4>2. s2r'.frames \in Seq(OutFrame)
        BY <1>1, AnswersStepInv DEF AInv, Types
      <4>3. Len(s2r'.frames) \in Nat
        BY <4>2
      <4> QED BY <1>1, <2>0, <4>1, <4>3
    <3> QED BY <3>1
  <2>2. s2r' = CompleteWr(s2r, ReceivedFrame) /\ spiMode = "LONG"
    BY <2>1 DEF ExtiLong
  <2>3. s2r.wr = BUSY
    BY <1>1, <2>0, <2>2 DEF CompleteWr
  <2>4. /\ ch1.left = MaxLen - AtMost(master.sent, MaxLen) /\ ch1.fresh
        /\ ch1.got = IF master.sent = 0 THEN "none" ELSE master.tag
    BY <1>1, <2>2, <2>3 DEF AInv, FifoInv, GrantInv
  <2>5. ReceivedFrame = [len |-> MaxLen - ch1.left, tag |-> ch1.got]
    BY <2>4 DEF ReceivedFrame
  <2>6. MaxLen - ch1.left = AtMost(master.sent, MaxLen) /\ MaxLen - ch1.left \in 0 .. MaxLen
    BY <2>0, <2>4 DEF AtMost
  <2>7. ReceivedFrame \in OutFrame
    BY <2>0, <2>5, <2>6 DEF OutFrame
  <2>8. s2r'.frames = Append(s2r.frames, ReceivedFrame)
    BY <2>0, <2>2, <2>3 DEF CompleteWr
  <2>9. s2r'.frames[Len(s2r'.frames)] = ReceivedFrame
    <3> DEFINE q == Append(s2r.frames, ReceivedFrame)
    <3>1. Len(q) = Len(s2r.frames) + 1 /\ q[Len(s2r.frames) + 1] = ReceivedFrame
      BY <2>0, <2>7, AppendProperties
    <3> HIDE DEF q
    <3>2. s2r'.frames = q
      BY <2>8 DEF q
    <3> QED BY <3>1, <3>2
  <2>10. TheFrame(ReceivedFrame)
    <3>1. ReceivedFrame.len = AtMost(master.sent, MaxLen) /\ ReceivedFrame.tag = ch1.got
      BY <2>5, <2>6
    <3>2. ReceivedFrame.len = 0 <=> master.sent = 0
      BY <2>0, <3>1 DEF AtMost
    <3> QED BY <2>4, <3>1, <3>2 DEF AtMost
  <2> QED BY <2>9, <2>10
<1>2. AInv /\ [AnswersNext]_<<vars, answerVars>> =>
        [Len(s2r'.frames) > Len(s2r.frames) => TheFrame(s2r'.frames[Len(s2r'.frames)])]_vars
  BY <1>1
<1>3. [][Len(s2r'.frames) > Len(s2r.frames) => TheFrame(s2r'.frames[Len(s2r'.frames)])]_vars
        => FrameIsTheTransaction
  BY DEF FrameIsTheTransaction
<1> QED BY <1>2, <1>3, AnswersInvariant, PTL DEF AnswersSpec

\* A register read returns what the last whole write of the register wrote, and nothing that an
\* earlier transaction left in the transmit FIFO.
THEOREM ReadsReturnLastWrite ==
  ASSUME Careful
  PROVE  AnswersSpec => []ReadsLastWrite
<1>1. ASSUME AInv, extiPend, heard.kind = "READ"
      PROVE  heard.bytes = <<Reg(wrote), Reg(wrote)>>
  <2>1. listens
    BY <1>1 DEF AInv, HeardInv
  <2>2. heard.bytes = Answer /\ spiMode = "READ"
    BY <1>1, <2>1, AnswerHeard
  <2> QED BY <2>2 DEF Answer
<1>2. AInv => ReadsLastWrite
  BY <1>1 DEF ReadsLastWrite
<1> QED BY <1>2, AnswersInvariant, PTL

\* A frame is taken out of the pipe only when the master has heard it: its length, then each of
\* its bytes, and nothing else.
THEOREM FramesAreHeardFirst ==
  ASSUME Careful
  PROVE  AnswersSpec => HeardBeforeReleased
<1> DEFINE Whole(f) ==
      heard.bytes = <<Size(f.len), Size(f.len)>> \o [i \in 1 .. f.len |-> Data(f.tag)]
<1>1. ASSUME AInv, [AnswersNext]_<<vars, answerVars>>, Len(r2s'.frames) < Len(r2s.frames), listens
      PROVE  Whole(Head(r2s.frames))
  <2>0. /\ r2s \in [frames : Seq(InFrame), wr : SlotState, rd : SlotState, unresolved : BOOLEAN]
        /\ Len(r2s.frames) \in Nat
    BY <1>1 DEF AInv, Types
  <2>1. ExtiLong
    <3>1. ASSUME ~ExtiLong PROVE FALSE
      <4>1. Len(r2s'.frames) >= Len(r2s.frames)
        BY <1>1, <3>1, FramesMoveAtTheEnd
      <4>2. r2s'.frames \in Seq(InFrame)
        BY <1>1, AnswersStepInv DEF AInv, Types
      <4>3. Len(r2s'.frames) \in Nat
        BY <4>2
      <4> QED BY <1>1, <2>0, <4>1, <4>3
    <3> QED BY <3>1
  <2>2. r2s' = CompleteRd(r2s) /\ spiMode = "LONG" /\ extiPend
    BY <2>1 DEF ExtiLong
  <2>3. r2s.rd = BUSY
    BY <1>1, <2>0, <2>2 DEF CompleteRd
  <2>4. heard.bytes = Answer /\ SentData = SentLen
    BY <1>1, <2>2, AnswerHeard
  <2> QED BY <2>2, <2>3, <2>4 DEF Answer, SentLen
<1>2. AInv /\ [AnswersNext]_<<vars, answerVars>> =>
        [Len(r2s'.frames) < Len(r2s.frames) => (listens => Whole(Head(r2s.frames)))]_<<vars, answerVars>>
  BY <1>1
<1>3. [][Len(r2s'.frames) < Len(r2s.frames) => (listens => Whole(Head(r2s.frames)))]_<<vars, answerVars>>
        => HeardBeforeReleased
  BY DEF HeardBeforeReleased
<1> QED BY <1>2, <1>3, AnswersInvariant, PTL DEF AnswersSpec

\* No byte of an answer is left in the transmit FIFO for the next transaction, although nothing
\* drains it.
THEOREM NothingLeftOver ==
  ASSUME Careful
  PROVE  AnswersSpec => []NothingIsLeftOver
<1>1. AInv => NothingIsLeftOver
  BY Quiet DEF NothingIsLeftOver, Active
<1> QED BY <1>1, AnswersInvariant, PTL
=============================================================================
