---------------------------- MODULE SpiAnswers ----------------------------
(***************************************************************************)
(* What the SPI master hears (firmware/src/modem/spi.rs): SpiPort with the  *)
(* register file, the transmit FIFO and channel 2's progress through the    *)
(* frame it sends.  Every step is one of SpiPort's, with what it does to    *)
(* these added; only the channel's own move is new.                         *)
(*                                                                         *)
(* One register stands for the 32: the number of a register is in its       *)
(* header byte and goes from there to the index unchanged.                  *)
(***************************************************************************)
EXTENDS SpiPort

CONSTANT TxDepth           \* bytes the transmit FIFO holds (4 in the part)

ASSUME AnswersAssumption == TxDepth \in Nat \ {0}

VARIABLES
  reg,              \* REGS: "init", the tag of what a transaction wrote, "mixed"
  txFifo,           \* transmit FIFO: values of a register, lengths, frame bytes
  moved,            \* bytes of the outgoing frame channel 2 has moved
  heard,            \* the transaction, to its master: kind, and the bytes heard
                    \* after the first
  wrote,            \* what the master's last whole write wrote
  listens           \* does the master clock whole answers?  What one that does not
                    \* hears is not followed.

answerVars == <<reg, txFifo, moved, heard, wrote, listens>>

AnswersInit ==
  /\ Init
  /\ reg = "init" /\ wrote = "init"
  /\ txFifo = <<>> /\ moved = 0
  /\ heard = [kind |-> "none", bytes |-> <<>>]
  /\ listens \in BOOLEAN

Reg(v)  == [reg |-> v]
Size(n) == [len |-> n]
Data(t) == [data |-> t]

\* A write of 16 bits to the data register: two bytes, as far as there is room.
Push(q, byte) == SubSeq(q \o <<byte, byte>>, 1,
                        IF Len(q) + 2 < TxDepth THEN Len(q) + 2 ELSE TxDepth)

-----------------------------------------------------------------------------
(* The handlers.                                                           *)

\* Two bytes are popped; a write of one byte stores nothing.
Stored ==
  IF rxFifo[1] = rxFifo[2] /\ rxFifo[1] \in Tags THEN rxFifo[1] ELSE "mixed"

ExtiShortStores ==
  /\ ExtiShort
  /\ reg' = IF spiMode = "WRITE" /\ Len(rxFifo) >= 2 THEN Stored ELSE reg
  /\ UNCHANGED <<txFifo, moved, heard, wrote, listens>>

\* The transmit FIFO is left as it is ("TODO: Drain TX FIFO?").
OtherEnds == (ExtiLong \/ ExtiSpurious \/ NotIdle) /\ UNCHANGED answerVars

ShortAnswers(kind) ==
  /\ ShortBegins(kind)
  /\ txFifo' = IF kind = "READ" THEN Push(txFifo, Reg(reg)) ELSE txFifo
  /\ UNCHANGED <<reg, moved, heard, wrote, listens>>

\* Mutation: the length announced is that of a whole grant.
AnnouncesRoom == IF r2s.rd = READY THEN MaxLen ELSE 0

\* tx_amt.
Announced == IF r2s.rd = READY THEN Head(r2s.frames).len ELSE 0

LongAnswers ==
  /\ LongBegins
  /\ txFifo' = Push(txFifo, Size(Announced))
  /\ UNCHANGED <<reg, moved, heard, wrote, listens>>

AnswersHandler ==
  IF listens
    THEN ExtiShortStores \/ OtherEnds \/ LongAnswers \/ \E kind \in AllKinds : ShortAnswers(kind)
    ELSE Handler /\ UNCHANGED answerVars

-----------------------------------------------------------------------------
(* The main loop, which sets channel 2 to the start of the new frame, and   *)
(* the channel, which fills the FIFO faster than the master empties it.     *)

Rewound == IF ch2.on THEN moved ELSE 0

AnswersMain ==
  /\ Main
  /\ moved' = IF listens /\ pc = "spiRdAddr" THEN Rewound ELSE moved
  /\ UNCHANGED <<reg, txFifo, heard, wrote, listens>>

\* Mutation: the channel is given the length of a whole grant.
Ch2WholeGrant == MaxLen

Ch2Length == Head(r2s.frames).len

Ch2Asked ==
  /\ listens /\ ch2.on /\ "txdmaen" \in cr2 /\ r2s.frames # <<>>
  /\ moved < Ch2Length /\ Len(txFifo) < TxDepth

Ch2Moves ==
  /\ Ch2Asked
  /\ txFifo' = Append(txFifo, Data(IF ch2.fresh THEN Head(r2s.frames).tag ELSE "mixed"))
  /\ moved' = moved + 1
  /\ UNCHANGED <<vars, reg, heard, wrote, listens>>

-----------------------------------------------------------------------------
(* The master.  Each byte it clocks brings one back; an empty FIFO gives a  *)
(* byte of no meaning, which is not recorded.                               *)

\* How many bytes the answer to a transaction of this kind has.
AnswerLen(kind) ==
  CASE kind = "READ" -> 2
    [] kind = "LONG" -> 2 + Announced
    [] OTHER -> 0

\* The master begins when the modem hears it.
BeginsHearing(kind, n) ==
  /\ "rxneie" \in cr2
  /\ listens => n >= AnswerLen(kind)
  /\ MasterBegins(kind, n)
  /\ heard' = IF listens THEN [kind |-> kind, bytes |-> <<>>] ELSE heard
  /\ txFifo' = IF txFifo = <<>> THEN <<>> ELSE Tail(txFifo)
  /\ UNCHANGED <<reg, moved, wrote, listens>>

ClocksHearing ==
  /\ ~Ch2Asked
  /\ listens => ~spiPend
  /\ MasterClocks
  /\ IF txFifo = <<>>
       THEN UNCHANGED <<heard, txFifo>>
       ELSE heard' = [heard EXCEPT !.bytes = Append(@, Head(txFifo))] /\ txFifo' = Tail(txFifo)
  /\ UNCHANGED <<reg, moved, wrote, listens>>

EndsHearing ==
  /\ MasterEnds
  /\ wrote' = IF heard.kind = "WRITE" /\ master.sent >= 2 THEN master.tag ELSE wrote
  /\ UNCHANGED <<reg, txFifo, moved, heard, listens>>

AnswersNext ==
  \/ AnswersHandler \/ AnswersMain \/ Ch2Moves
  \/ \E kind \in Kinds, n \in Clocked : BeginsHearing(kind, n)
  \/ ClocksHearing \/ EndsHearing
  \/ (Rs485Takes \/ \E len \in RsLens : Rs485Delivers(len)) /\ UNCHANGED answerVars

AnswersSpec == AnswersInit /\ [][AnswersNext]_<<vars, answerVars>>

\* As for SpiPort, but for the master: what it begins it ends, and it need not come
\* again.
AnswersFairSpec ==
  /\ AnswersSpec
  /\ WF_<<vars, answerVars>>(AnswersHandler) /\ WF_<<vars, answerVars>>(AnswersMain)
  /\ WF_<<vars, answerVars>>(Ch2Moves)
  /\ WF_<<vars, answerVars>>(ClocksHearing) /\ WF_<<vars, answerVars>>(EndsHearing)
  /\ WF_<<vars, answerVars>>(Rs485Takes /\ UNCHANGED answerVars)

-----------------------------------------------------------------------------
(* Properties.                                                             *)

\* A register read returns what the last whole write of the register wrote, and
\* nothing that an earlier transaction left in the transmit FIFO.
ReadsLastWrite ==
  extiPend /\ heard.kind = "READ" => heard.bytes = <<Reg(wrote), Reg(wrote)>>

\* A frame is taken out of the pipe only when the master has heard it: its length,
\* then each of its bytes, and nothing else.
HeardBeforeReleased ==
  [][ Len(r2s'.frames) < Len(r2s.frames) =>
        LET f == Head(r2s.frames)
        IN listens => heard.bytes = <<Size(f.len), Size(f.len)>> \o [i \in 1 .. f.len |-> Data(f.tag)]
    ]_<<vars, answerVars>>

\* No byte of an answer is left in the transmit FIFO for the next transaction,
\* although nothing drains it.
NothingIsLeftOver == master.phase = "idle" /\ ~extiPend /\ ~spiPend => txFifo = <<>>
=============================================================================
