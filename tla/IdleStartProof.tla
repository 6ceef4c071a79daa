--------------------------- MODULE IdleStartProof ---------------------------
(***************************************************************************)
(* Proofs about IdleStart, for a timer that wraps anywhere, any timeout,    *)
(* pace of the router and depth of the FIFO, of a router that polls when    *)
(* the port is armed.                                                       *)
(***************************************************************************)
EXTENDS IdleStart, TLAPS

Word(p, n) == [poll |-> p, word |-> n]
Message == [poll : Polls, word : Words]
Poll    == [poll : Polls, sent : 0 .. 4, ticks : 0 .. PollTicks]

Booleans == ran \in BOOLEAN /\ cmie \in BOOLEAN /\ cmf \in BOOLEAN

Values ==
  /\ clock \in 0 .. Wrap - 1 /\ start \in 0 .. Wrap - 1
  /\ mode \in {"RELOAD", "READY", "BUSY"}
  /\ pc \in {"out", "read", "timer"}
  /\ main \in {"load", "flag", "flush", "enable"}
  /\ fifo \in Seq(Message)
  /\ rxbuf \in Seq(Message)
  /\ router \in Poll

TypeInv == Booleans /\ Values

\* A poll interrupts, or the handler is at it.
Engaged == Irq \/ pc # "out"

\* What has been read and what waits are the words of one poll from the first,
\* while the router sends it as many as it has sent.
OneStream ==
  \E p \in Polls :
    /\ Len(rxbuf) < 5 /\ Len(rxbuf) + Len(fifo) <= 5
    /\ \A i \in 1 .. Len(rxbuf) : rxbuf[i] = Word(p, i)
    /\ \A i \in 1 .. Len(fifo) : fifo[i] = Word(p, Len(rxbuf) + i)
    /\ router.sent > 0 => p = router.poll /\ Len(rxbuf) + Len(fifo) = router.sent

\* The handler has waited no longer than the router has been sending, and one
\* tick more when it is about to look at the timer.
InTime ==
  /\ pc # "out" /\ router.sent > 0 => TicksSince(start) <= router.ticks
  /\ pc = "timer" /\ Len(rxbuf) + Len(fifo) = 5 =>
       TicksSince(start) <= PollTicks + (IF ran THEN 0 ELSE 1)

ControlInv ==
  /\ cmie => mode = "READY"
  /\ pc # "out" => ~cmie /\ mode = "READY"
  /\ pc = "out" => rxbuf = <<>>
  /\ main \in {"flush", "enable"} => ~cmf
  /\ main = "enable" => fifo = <<>>
  /\ Engaged => main = "load" /\ OneStream
  /\ ~Engaged => router.sent = 0
  /\ ~Engaged /\ cmie => fifo = <<>>

Inv == TypeInv /\ ControlInv /\ InTime /\ AnswersThePoll

-----------------------------------------------------------------------------
LEMMA EmptySeq == \A S : <<>> \in Seq(S)
OBVIOUS

LEMMA InitInv == ASSUME ~PollsAnytime PROVE Init => Inv
<1> SUFFICES ASSUME Init PROVE Inv
  OBVIOUS
<1>1. Booleans
  BY DEF Init, Booleans
<1>2. Values
  <2>1. /\ clock \in 0 .. Wrap - 1 /\ start = 0 /\ mode = "RELOAD" /\ pc = "out"
        /\ main = "load" /\ fifo = <<>> /\ rxbuf = <<>>
        /\ router = [poll |-> "a", sent |-> 0, ticks |-> 0]
    BY DEF Init
  <2> QED BY <2>1, IdleStartAssumption DEF Values, Poll, Polls
<1>3. ControlInv
  BY DEF Init, ControlInv, Engaged, Irq
<1>4. InTime /\ AnswersThePoll
  BY DEF Init, InTime, AnswersThePoll
<1> QED BY <1>1, <1>2, <1>3, <1>4 DEF Inv, TypeInv

LEMMA TickInv == ASSUME Inv, Tick PROVE Inv'
<1>1. TypeInv'
  <2>1. Booleans'
    BY DEF Inv, TypeInv, Booleans, Tick, handlerVars
  <2>2. Values'
    <3>1. clock' = IF clock = Wrap - 1 THEN 0 ELSE clock + 1
      BY DEF Tick
    <3>2. /\ router' = IF router.sent > 0 THEN [router EXCEPT !.ticks = @ + 1] ELSE router
          /\ router.sent > 0 => router.ticks < PollTicks
      BY DEF Tick
    <3>3. clock' \in 0 .. Wrap - 1
      BY <3>1, IdleStartAssumption DEF Inv, TypeInv, Values
    <3>4. router \in Poll
      BY DEF Inv, TypeInv, Values
    <3>5. router' \in Poll
      BY <3>2, <3>4, IdleStartAssumption DEF Poll
    <3> QED BY <3>3, <3>5 DEF Inv, TypeInv, Values, Tick, handlerVars
  <2> QED BY <2>1, <2>2 DEF TypeInv
<1>2. ControlInv'
  BY DEF Inv, TypeInv, Values, ControlInv, Engaged, OneStream, Irq, Tick, handlerVars
<1>3. InTime'
  <2>1. ~ran' /\ (pc # "out" => ran)
    BY DEF Tick
  <2>2. /\ clock' = IF clock = Wrap - 1 THEN 0 ELSE clock + 1
        /\ router' = IF router.sent > 0 THEN [router EXCEPT !.ticks = @ + 1] ELSE router
        /\ router.sent > 0 => router.ticks < PollTicks
        /\ UNCHANGED <<start, pc, fifo, rxbuf>>
    BY DEF Tick, handlerVars
  <2>3. TicksSince(start) < Wrap - 1 => TicksSince(start)' = TicksSince(start) + 1
    BY <2>2, IdleStartAssumption DEF Inv, TypeInv, Values, TicksSince
  <2>4. TicksSince(start) \in Nat
    BY IdleStartAssumption DEF Inv, TypeInv, Values, TicksSince
  <2>5. pc' # "out" /\ router'.sent > 0 => TicksSince(start)' <= router'.ticks
    BY <2>2, <2>3, <2>4, IdleStartAssumption DEF Inv, TypeInv, Values, Poll, InTime
  <2>6. pc' = "timer" /\ Len(rxbuf') + Len(fifo') = 5 => TicksSince(start)' <= PollTicks + 1
    BY <2>1, <2>2, <2>3, <2>4, IdleStartAssumption DEF Inv, InTime
  <2> QED BY <2>1, <2>2, <2>5, <2>6 DEF InTime, TicksSince
<1>4. AnswersThePoll'
  BY DEF Inv, AnswersThePoll, Tick
<1> QED BY <1>1, <1>2, <1>3, <1>4 DEF Inv

LEMMA EnterInv == ASSUME Inv, Enter PROVE Inv'
<1>1. TypeInv'
  <2>1. Booleans'
    BY DEF Inv, TypeInv, Booleans, Enter
  <2>2. Values'
    BY DEF Inv, TypeInv, Values, Enter
  <2> QED BY <2>1, <2>2 DEF TypeInv
<1>2. ControlInv'
  BY DEF Inv, TypeInv, Values, ControlInv, Engaged, OneStream, Irq, Enter
<1>3. InTime'
  BY IdleStartAssumption DEF Inv, TypeInv, Values, Poll, InTime, TicksSince, Enter
<1>4. AnswersThePoll'
  BY DEF Inv, AnswersThePoll, Enter
<1> QED BY <1>1, <1>2, <1>3, <1>4 DEF Inv

LEMMA ReadWordInv == ASSUME Inv, ReadWord PROVE Inv'
<1>1. TypeInv'
  <2>1. Booleans'
    BY DEF Inv, TypeInv, Booleans, ReadWord
  <2>2. Values'
    <3>1. /\ fifo # <<>> /\ fifo' = Tail(fifo)
          /\ rxbuf' = <<>> \/ rxbuf' = Append(rxbuf, Head(fifo))
          /\ pc' = "out" \/ pc' = pc
          /\ mode' = "BUSY" \/ mode' = mode
          /\ UNCHANGED <<clock, start, main, router>>
      BY DEF ReadWord
    <3>2. Append(rxbuf, Head(fifo)) \in Seq(Message) /\ Tail(fifo) \in Seq(Message)
      BY <3>1 DEF Inv, TypeInv, Values
    <3> QED BY <3>1, <3>2, EmptySeq, Zenon DEF Inv, TypeInv, Values
  <2> QED BY <2>1, <2>2 DEF TypeInv
<1>2. PICK p \in Polls :
        /\ Len(rxbuf) < 5 /\ Len(rxbuf) + Len(fifo) <= 5
        /\ \A i \in 1 .. Len(rxbuf) : rxbuf[i] = Word(p, i)
        /\ \A i \in 1 .. Len(fifo) : fifo[i] = Word(p, Len(rxbuf) + i)
        /\ router.sent > 0 => p = router.poll /\ Len(rxbuf) + Len(fifo) = router.sent
  BY DEF Inv, ControlInv, Engaged, OneStream, ReadWord
<1>3. /\ Len(fifo) \in Nat \ {0} /\ Len(rxbuf) \in Nat /\ Head(fifo) = fifo[1]
      /\ Len(fifo') = Len(fifo) - 1
      /\ \A i \in 1 .. Len(fifo) - 1 : fifo'[i] = fifo[i + 1]
  BY DEF Inv, TypeInv, Values, ReadWord
<1>4. CASE Len(rxbuf) = 4
  <2>1. router.sent = 0 /\ Len(fifo) = 1
    BY <1>2, <1>3, <1>4 DEF Inv, TypeInv, Values, Poll
  <2>2. answered' = WordsOf(p)
    <3>1. answered' = Append(rxbuf, fifo[1]) /\ fifo[1] = Word(p, 5)
      BY <1>2, <1>3, <1>4 DEF ReadWord
    <3>2. /\ Len(answered') = Len(rxbuf) + 1 /\ answered'[Len(rxbuf) + 1] = fifo[1]
          /\ \A i \in 1 .. Len(rxbuf) : answered'[i] = rxbuf[i]
      BY <3>1 DEF Inv, TypeInv, Values
    <3>4. Len(answered') = 5 /\ \A i \in 1 .. 5 : answered'[i] = Word(p, i)
      BY <1>2, <1>4, <3>1, <3>2
    <3>3. answered' \in Seq(Message)
      BY <1>3, <3>1 DEF Inv, TypeInv, Values, Message, Word, Words
    <3> QED BY <3>3, <3>4 DEF WordsOf, Words, Word
  <2>3. ControlInv'
    BY <1>4, <2>1 DEF Inv, TypeInv, Values, ControlInv, Engaged, Irq, ReadWord
  <2>4. InTime'
    BY <1>4 DEF ReadWord, InTime, Inv
  <2> QED BY <1>1, <2>2, <2>3, <2>4 DEF Inv, AnswersThePoll
<1>5. CASE Len(rxbuf) # 4
  <2>1. /\ Len(rxbuf') = Len(rxbuf) + 1
        /\ \A i \in 1 .. Len(rxbuf) : rxbuf'[i] = rxbuf[i]
        /\ rxbuf'[Len(rxbuf) + 1] = Head(fifo)
    <3>1. rxbuf' = Append(rxbuf, Head(fifo))
      BY <1>5 DEF ReadWord
    <3> QED BY <1>3, <3>1 DEF Inv, TypeInv, Values
  <2>2. OneStream'
    <3>1. \A i \in 1 .. Len(rxbuf') : rxbuf'[i] = Word(p, i)
      BY <1>2, <1>3, <2>1
    <3>2. \A i \in 1 .. Len(fifo') : fifo'[i] = Word(p, Len(rxbuf') + i)
      BY <1>2, <1>3, <2>1
    <3>3. Len(rxbuf') < 5 /\ Len(rxbuf') + Len(fifo') <= 5
      <4> DEFINE m == Len(rxbuf)
      <4>1. m \in Nat /\ m < 5 /\ m # 4 /\ m + Len(fifo) <= 5
        BY <1>2, <1>3, <1>5
      <4>2. Len(rxbuf') = m + 1
        BY <2>1
      <4> HIDE DEF m
      <4> QED BY <4>1, <4>2, <1>3
    <3>4. router'.sent > 0 => p = router'.poll /\ Len(rxbuf') + Len(fifo') = router'.sent
      BY <1>2, <1>3, <2>1 DEF ReadWord
    <3> QED BY <3>1, <3>2, <3>3, <3>4 DEF OneStream
  <2>3. ControlInv'
    BY <1>5, <2>2 DEF Inv, ControlInv, Engaged, Irq, ReadWord
  <2>4. InTime'
    BY <1>5 DEF Inv, InTime, TicksSince, ReadWord
  <2>5. AnswersThePoll'
    BY <1>5 DEF Inv, AnswersThePoll, ReadWord
  <2> QED BY <1>1, <2>3, <2>4, <2>5 DEF Inv
<1> QED BY <1>4, <1>5

LEMMA FifoIsEmptyInv == ASSUME Inv, FifoIsEmpty PROVE Inv'
<1>1. TypeInv'
  <2>1. Booleans'
    BY DEF Inv, TypeInv, Booleans, FifoIsEmpty
  <2>2. Values'
    BY DEF Inv, TypeInv, Values, FifoIsEmpty
  <2> QED BY <2>1, <2>2 DEF TypeInv
<1>2. ControlInv'
  BY DEF Inv, TypeInv, Values, ControlInv, Engaged, OneStream, Irq, FifoIsEmpty
<1>3. InTime'
  <2> DEFINE m == Len(rxbuf)
  <2>1. Len(rxbuf) + Len(fifo) # 5
    <3>1. m \in Nat /\ m < 5 /\ fifo = <<>>
      BY DEF Inv, TypeInv, Values, ControlInv, Engaged, OneStream, FifoIsEmpty
    <3>2. Len(fifo) = 0
      BY <3>1
    <3> HIDE DEF m
    <3>3. m + 0 # 5
      BY <3>1
    <3> QED BY <3>2, <3>3 DEF m
  <2> QED BY <2>1 DEF Inv, InTime, TicksSince, FifoIsEmpty
<1>4. AnswersThePoll'
  BY DEF Inv, AnswersThePoll, FifoIsEmpty
<1> QED BY <1>1, <1>2, <1>3, <1>4 DEF Inv

\* The deadline is behind every word of a poll the router has not broken off.
LEMMA GivesUpBrokenOff ==
  ASSUME Inv, LookAtTimer, pc' = "out"
  PROVE  router.sent = 0 /\ Len(rxbuf) + Len(fifo) < 5
<1>1. pc = "timer" /\ TicksSince(start) >= Timeout /\ TicksSince(start) \in Int
  BY IdleStartAssumption DEF LookAtTimer, TicksSince, Inv, TypeInv, Values
<1>2. Len(rxbuf) + Len(fifo) <= 5 /\ Len(rxbuf) \in Nat /\ Len(fifo) \in Nat
  BY <1>1 DEF Inv, TypeInv, Values, ControlInv, Engaged, OneStream
<1>3. router.sent = 0
  BY <1>1, IdleStartAssumption DEF Inv, TypeInv, Values, Poll, InTime
<1>4. Len(rxbuf) + Len(fifo) # 5
  BY <1>1, IdleStartAssumption DEF Inv, TypeInv, Values, InTime
<1> QED BY <1>2, <1>3, <1>4

LEMMA LookAtTimerInv == ASSUME Inv, LookAtTimer PROVE Inv'
<1>1. TypeInv'
  <2>1. Booleans'
    BY DEF Inv, TypeInv, Booleans, LookAtTimer
  <2>2. Values'
    <3>1. /\ rxbuf' = <<>> \/ rxbuf' = rxbuf
          /\ pc' \in {"out", "read"}
          /\ UNCHANGED <<clock, mode, fifo, start, main, router>>
      BY DEF LookAtTimer
    <3> QED BY <3>1, EmptySeq, Zenon DEF Inv, TypeInv, Values
  <2> QED BY <2>1, <2>2 DEF TypeInv
<1>2. AnswersThePoll'
  BY DEF Inv, AnswersThePoll, LookAtTimer
<1>3. CASE pc' = "out"
  <2>1. router.sent = 0
    BY <1>3, GivesUpBrokenOff
  <2>2. ControlInv'
    BY <1>3, <2>1 DEF Inv, ControlInv, Engaged, Irq, LookAtTimer
  <2>3. InTime'
    BY <1>3 DEF InTime
  <2> QED BY <1>1, <1>2, <2>2, <2>3 DEF Inv
<1>4. CASE pc' # "out"
  <2>1. ControlInv'
    BY <1>4 DEF Inv, ControlInv, Engaged, OneStream, Irq, LookAtTimer
  <2>2. InTime'
    BY <1>4 DEF Inv, InTime, TicksSince, LookAtTimer
  <2> QED BY <1>1, <1>2, <2>1, <2>2 DEF Inv
<1> QED BY <1>3, <1>4

\* The rest of the cycle, and main, which the handler does not let run.
LEMMA OutsideInv == ASSUME Inv, CycleEnds \/ Main PROVE Inv'
<1>1. TypeInv'
  <2>1. Booleans'
    BY DEF Inv, TypeInv, Booleans, CycleEnds, Main, Load, ClearFlag, Flush, Enable,
       MainAt, clockVars, handlerVars
  <2>2. Values'
    <3>1. /\ fifo' = <<>> \/ fifo' = fifo
          /\ mode' \in {"RELOAD", "READY"} \/ mode' = mode
          /\ main' \in {"load", "flag", "flush", "enable"}
          /\ UNCHANGED <<clock, pc, start, rxbuf, router>>
      BY DEF Inv, TypeInv, Values, CycleEnds, Main, Load, ClearFlag, Flush, Enable,
             clockVars, handlerVars
    <3> QED BY <3>1, EmptySeq, Zenon DEF Inv, TypeInv, Values
  <2> QED BY <2>1, <2>2 DEF TypeInv
<1>2. ControlInv'
  BY DEF Inv, TypeInv, Values, ControlInv, Engaged, Irq, CycleEnds, Main, Load, ClearFlag, Flush,
         Enable, MainAt, clockVars, handlerVars
<1>3. InTime'
  BY DEF Inv, ControlInv, InTime, CycleEnds, Main, Load, ClearFlag, Flush, Enable, MainAt,
         clockVars, handlerVars
<1>4. AnswersThePoll'
  BY DEF Inv, AnswersThePoll, CycleEnds, Main, Load, ClearFlag, Flush, Enable
<1> QED BY <1>1, <1>2, <1>3, <1>4 DEF Inv

LEMMA RouterPollsInv == ASSUME ~PollsAnytime, Inv, RouterPolls PROVE Inv'
<1>1. fifo = <<>> /\ rxbuf = <<>> /\ pc = "out" /\ main = "load" /\ cmie
  BY DEF Inv, ControlInv, Engaged, RouterPolls, Armed, MainAt
<1>2. fifo' = <<Word(router.poll, 1)>>
  BY <1>1, IdleStartAssumption DEF RouterPolls, Arrives, Word
<1>3. TypeInv'
  <2>1. Booleans'
    BY DEF Inv, TypeInv, Booleans, RouterPolls, clockVars, handlerVars, Word, Words
  <2>2. Values'
    <3>1. router' = [router EXCEPT !.sent = 1, !.ticks = 0] /\ router \in Poll
      BY DEF RouterPolls, Inv, TypeInv, Values
    <3>2. fifo' \in Seq(Message)
      BY <1>2, <3>1 DEF Message, Poll, Word, Words
    <3>3. router' = [poll |-> router.poll, sent |-> 1, ticks |-> 0] /\ router.poll \in Polls
      BY <3>1 DEF Poll
    <3>4. router' \in Poll
      BY <3>3, IdleStartAssumption DEF Poll
    <3> QED BY <3>2, <3>4, Zenon DEF Inv, TypeInv, Values, RouterPolls, clockVars, handlerVars
  <2> QED BY <2>1, <2>2 DEF TypeInv
<1>4. OneStream'
  <2>1. router'.sent = 1 /\ router'.poll = router.poll /\ router.poll \in Polls
    BY DEF Inv, TypeInv, Values, Poll, RouterPolls
  <2>2. rxbuf' = <<>>
    BY <1>1 DEF RouterPolls, handlerVars
  <2>3. /\ Len(rxbuf') < 5 /\ Len(rxbuf') + Len(fifo') <= 5
        /\ \A i \in 1 .. Len(rxbuf') : rxbuf'[i] = Word(router.poll, i)
        /\ \A i \in 1 .. Len(fifo') : fifo'[i] = Word(router.poll, Len(rxbuf') + i)
        /\ Len(rxbuf') + Len(fifo') = 1
    BY <1>2, <2>2
  <2> QED BY <2>1, <2>3 DEF OneStream
<1>5. ControlInv'
  BY <1>1, <1>4 DEF Inv, ControlInv, Engaged, Irq, RouterPolls, handlerVars
<1>6. InTime'
  BY <1>1 DEF InTime, RouterPolls, handlerVars
<1>7. AnswersThePoll'
  BY DEF Inv, AnswersThePoll, RouterPolls
<1> QED BY <1>3, <1>5, <1>6, <1>7 DEF Inv

LEMMA RouterSendsInv == ASSUME Inv, RouterSends PROVE Inv'
<1>1. Engaged /\ router.sent \in 1 .. 4
  BY DEF Inv, TypeInv, Values, Poll, ControlInv, RouterSends
<1>2. PICK p \in Polls :
        /\ Len(rxbuf) < 5 /\ Len(rxbuf) + Len(fifo) <= 5
        /\ \A i \in 1 .. Len(rxbuf) : rxbuf[i] = Word(p, i)
        /\ \A i \in 1 .. Len(fifo) : fifo[i] = Word(p, Len(rxbuf) + i)
        /\ p = router.poll /\ Len(rxbuf) + Len(fifo) = router.sent
  BY <1>1 DEF Inv, ControlInv, OneStream
<1>3. fifo' = Append(fifo, Word(p, router.sent + 1))
  BY <1>1, <1>2, IdleStartAssumption DEF RouterSends, Arrives, Word, Inv, TypeInv, Values
<1>4. TypeInv'
  <2>1. Booleans'
    BY DEF Inv, TypeInv, Booleans, RouterSends, clockVars, handlerVars, Word, Words,
       NextPoll, Polls
  <2>2. Values'
    <3>1. /\ router' = IF router.sent = 4
                         THEN [poll |-> NextPoll(router.poll), sent |-> 0, ticks |-> 0]
                         ELSE [router EXCEPT !.sent = @ + 1]
          /\ UNCHANGED <<clock, mode, pc, start, rxbuf, main>>
      BY DEF RouterSends, clockVars, handlerVars
    <3>2. Word(p, router.sent + 1) \in Message
      BY <1>1, <1>2 DEF Message, Word, Words
    <3>3. fifo' \in Seq(Message)
      BY <1>3, <3>2 DEF Inv, TypeInv, Values
    <3>4. router' \in Poll
      <4>1. CASE router.sent = 4
        BY <3>1, <4>1, IdleStartAssumption DEF Poll, NextPoll, Polls
      <4>2. CASE router.sent # 4
        BY <1>1, <3>1, <4>2 DEF Inv, TypeInv, Values, Poll
      <4> QED BY <4>1, <4>2
    <3> QED BY <3>1, <3>3, <3>4 DEF Inv, TypeInv, Values
  <2> QED BY <2>1, <2>2 DEF TypeInv
<1>5. /\ Len(fifo') = Len(fifo) + 1 /\ Len(fifo) \in Nat /\ Len(rxbuf) \in Nat
      /\ \A i \in 1 .. Len(fifo) : fifo'[i] = fifo[i]
      /\ fifo'[Len(fifo) + 1] = Word(p, router.sent + 1)
  BY <1>3 DEF Inv, TypeInv, Values
<1>6. OneStream'
  <2>1. \A i \in 1 .. Len(fifo') : fifo'[i] = Word(p, Len(rxbuf) + i)
    BY <1>2, <1>5
  <2>2. Len(rxbuf) + Len(fifo') = router.sent + 1
    BY <1>2, <1>5
  <2>3. router'.sent > 0 => router'.poll = p /\ router'.sent = router.sent + 1
    BY <1>1, <1>2 DEF RouterSends, Inv, TypeInv, Values
  <2> QED BY <1>1, <1>2, <2>1, <2>2, <2>3 DEF OneStream, RouterSends, handlerVars
<1>7. ControlInv'
  BY <1>1, <1>6 DEF Inv, ControlInv, Engaged, Irq, RouterSends, handlerVars
<1>8. InTime'
  BY <1>1, <1>2, <1>5, IdleStartAssumption
     DEF Inv, TypeInv, Values, Poll, InTime, TicksSince, RouterSends, clockVars, handlerVars
<1>9. AnswersThePoll'
  BY DEF Inv, AnswersThePoll, RouterSends
<1> QED BY <1>4, <1>7, <1>8, <1>9 DEF Inv

LEMMA RouterBreaksOffInv == ASSUME Inv, RouterBreaksOff PROVE Inv'
<1>1. TypeInv'
  <2>1. Booleans'
    BY DEF Inv, TypeInv, Booleans, RouterBreaksOff, clockVars, handlerVars, NextPoll,
       Polls
  <2>2. Values'
    BY IdleStartAssumption DEF Inv, TypeInv, Values, Poll, RouterBreaksOff, clockVars,
       handlerVars, NextPoll, Polls
  <2> QED BY <2>1, <2>2 DEF TypeInv
<1>2. ControlInv'
  BY DEF Inv, TypeInv, Values, ControlInv, Engaged, OneStream, Irq, RouterBreaksOff, handlerVars
<1>3. InTime'
  BY DEF Inv, InTime, TicksSince, RouterBreaksOff, clockVars, handlerVars
<1>4. AnswersThePoll'
  BY DEF Inv, AnswersThePoll, RouterBreaksOff
<1> QED BY <1>1, <1>2, <1>3, <1>4 DEF Inv

\* The inductive invariant is that of the specification.
THEOREM Inductive == ASSUME ~PollsAnytime PROVE Spec => []Inv
<1>1. Init => Inv
  BY InitInv
<1>2. Inv /\ [Next]_vars => Inv'
  <2>1. SUFFICES ASSUME Inv, [Next]_vars PROVE Inv'
    OBVIOUS
  <2>2. CASE UNCHANGED vars
    <3> USE <2>1, <2>2 DEF vars, handlerVars, clockVars, Inv
    <3>1. TypeInv'
      BY DEF TypeInv, Booleans, Values
    <3>2. ControlInv'
      BY DEF ControlInv, OneStream, Engaged, Irq
    <3>3. InTime' /\ AnswersThePoll'
      BY DEF InTime, TicksSince, AnswersThePoll
    <3> QED BY <3>1, <3>2, <3>3
  <2>3. CASE Next
    BY <2>1, <2>3, TickInv, EnterInv, ReadWordInv, FifoIsEmptyInv, LookAtTimerInv, OutsideInv,
       RouterPollsInv, RouterSendsInv, RouterBreaksOffInv DEF Next, Handler
  <2> QED BY <2>1, <2>2, <2>3
<1> QED BY <1>1, <1>2, PTL DEF Spec

\* What idle_start answers are the five words of one poll.
THEOREM OnlyOnePoll == ASSUME ~PollsAnytime PROVE Spec => []AnswersThePoll
<1>1. Inv => AnswersThePoll
  BY DEF Inv
<1> QED BY <1>1, Inductive, PTL

\* idle_start gives up no poll whose words come in time, wherever the timer wraps.
THEOREM NoCompletePollIsLost == ASSUME ~PollsAnytime PROVE Spec => CompletePollIsAnswered
<1>1. Inv /\ [Next]_vars =>
        [pc = "timer" /\ pc' = "out" => router.sent = 0 /\ Len(rxbuf) + Len(fifo) < 5]_vars
  <2>1. SUFFICES ASSUME Inv, Next, pc = "timer", pc' = "out"
                 PROVE  router.sent = 0 /\ Len(rxbuf) + Len(fifo) < 5
    BY DEF vars
  <2>2. LookAtTimer
    BY <2>1 DEF Next, Handler, Tick, Enter, ReadWord, FifoIsEmpty, CycleEnds, Main, Load,
                ClearFlag, Flush, Enable, MainAt, RouterPolls, RouterSends, RouterBreaksOff,
                handlerVars
  <2> QED BY <2>1, <2>2, GivesUpBrokenOff
<1> QED BY <1>1, Inductive, PTL DEF Spec, CompletePollIsAnswered
=============================================================================
