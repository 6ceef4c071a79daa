----------------------------- MODULE IdleStart -----------------------------
(***************************************************************************)
(* How idle_start (firmware/src/modem/rs485.rs) gets the five words of a    *)
(* poll: it blocks in the interrupt handler, reads the receive FIFO word by *)
(* word and gives up when the rolling timer says that 8 us have passed.     *)
(* Rs485Port takes all of this, and the arrival of a poll, as one step.     *)
(*                                                                         *)
(* The timer is TIM2, a 32 bit counter of microseconds that wraps; a time   *)
(* is measured by the wrapping difference of two of its values.             *)
(***************************************************************************)
EXTENDS Integers, Sequences

CONSTANTS
  Wrap,             \* the timer counts 0 .. Wrap - 1 (Wrap = 2^32 in the code)
  Timeout,          \* when idle_start gives up (8)
  PollTicks,        \* within how many ticks the router sends the words of a poll
                    \* (5.5 us for 44 bit periods: 6)
  FifoDepth,        \* words the receive FIFO holds (8 in the part)
  PollsAnytime,     \* does the router poll also while the port is not armed?
  RouterBreaks      \* does it break off polls?

\* Between the look at the FIFO and the look at the timer a tick may pass.
ASSUME IdleStartAssumption ==
  /\ PollTicks \in Nat /\ Timeout \in Nat /\ Wrap \in Nat
  /\ PollTicks + 1 < Timeout /\ Timeout < Wrap
  /\ FifoDepth \in Nat /\ FifoDepth >= 5
  /\ PollsAnytime \in BOOLEAN /\ RouterBreaks \in BOOLEAN

VARIABLES
  clock,            \* TIM2.cnt
  mode,             \* MODE: "BUSY" stands for the rest of the cycle
  cmie, cmf,        \* the address match interrupt: enabled, and its flag
  fifo,             \* receive FIFO
  pc,               \* the handler: "out" when it is not running, "read", "timer"
  start, rxbuf,     \* its locals
  main,             \* where main is in enable_rs485_addr_match
  router,           \* the poll: its number, words sent, ticks since its first word
  ran,              \* has the handler gone on since the last tick?
  answered          \* the words of the last answer

handlerVars == <<pc, start, rxbuf>>
clockVars   == <<clock, ran>>
vars == <<clockVars, mode, cmie, cmf, fifo, handlerVars, main, router, answered>>

Words == 1 .. 5                    \* the address, two bytes of each capacity
Polls == {"a", "b"}
NextPoll(p) == IF p = "a" THEN "b" ELSE "a"
WordsOf(p)  == [n \in Words |-> [poll |-> p, word |-> n]]

\* As a cycle leaves the port.
Init ==
  /\ clock \in 0 .. Wrap - 1 /\ ran = TRUE
  /\ mode = "RELOAD" /\ cmie = FALSE /\ cmf = FALSE /\ fifo = <<>>
  /\ pc = "out" /\ start = 0 /\ rxbuf = <<>>
  /\ main = "load"
  /\ router = [poll |-> "a", sent |-> 0, ticks |-> 0]
  /\ answered = <<>>

-----------------------------------------------------------------------------
(* The timer.                                                              *)

\* Mutations: the difference wraps always, or never.
TicksSinceAdds(t)  == clock - t + Wrap
TicksSinceStops(t) == IF clock >= t THEN clock - t ELSE 0

\* micros_since: the counter makes one tick a microsecond.
TicksSince(t) == IF clock >= t THEN clock - t ELSE clock - t + Wrap

\* The handler looks at the FIFO and at the timer more than once in a tick.
Tick ==
  /\ pc = "out" \/ ran
  /\ router.sent > 0 => router.ticks < PollTicks
  /\ clock' = IF clock = Wrap - 1 THEN 0 ELSE clock + 1
  /\ ran' = FALSE
  /\ router' = IF router.sent > 0 THEN [router EXCEPT !.ticks = @ + 1] ELSE router
  /\ UNCHANGED <<mode, cmie, cmf, fifo, handlerVars, main, answered>>

-----------------------------------------------------------------------------
(* idle_start.                                                             *)

Irq == cmie /\ cmf

Enter ==
  /\ pc = "out" /\ Irq /\ mode = "READY"
  /\ start' = clock /\ rxbuf' = <<>> /\ pc' = "read"
  /\ cmie' = FALSE
  /\ ran' = TRUE
  /\ UNCHANGED <<clock, mode, cmf, fifo, main, router, answered>>

ReadWord ==
  /\ pc = "read" /\ fifo # <<>>
  /\ fifo' = Tail(fifo) /\ ran' = TRUE
  /\ IF Len(rxbuf) = 4
       THEN pc' = "out" /\ rxbuf' = <<>> /\ answered' = Append(rxbuf, Head(fifo)) /\ mode' = "BUSY"
       ELSE rxbuf' = Append(rxbuf, Head(fifo)) /\ UNCHANGED <<pc, answered, mode>>
  /\ UNCHANGED <<clock, cmie, cmf, start, main, router>>

FifoIsEmpty ==
  /\ pc = "read" /\ fifo = <<>>
  /\ pc' = "timer" /\ ran' = TRUE
  /\ UNCHANGED <<clock, mode, cmie, cmf, fifo, start, rxbuf, main, router, answered>>

\* "RS485 timeout!": both grants are given back and the mode stays as it is.
LookAtTimer ==
  /\ pc = "timer" /\ ran' = TRUE
  /\ IF TicksSince(start) >= Timeout
       THEN pc' = "out" /\ rxbuf' = <<>>
       ELSE pc' = "read" /\ UNCHANGED rxbuf
  /\ UNCHANGED <<clock, mode, cmie, cmf, fifo, start, main, router, answered>>

Handler == Enter \/ ReadWord \/ FifoIsEmpty \/ LookAtTimer

\* The answer is sent, and the frames of the cycle.
CycleEnds ==
  /\ mode = "BUSY" /\ mode' = "RELOAD"
  /\ UNCHANGED <<clockVars, cmie, cmf, fifo, handlerVars, main, router, answered>>

-----------------------------------------------------------------------------
(* enable_rs485_addr_match, which main calls between cycles and whenever it *)
(* has restored a grant.                                                    *)

MainAt(step) == pc = "out" /\ ~Irq /\ main = step

Load ==
  /\ MainAt("load") /\ mode \in {"RELOAD", "READY"}
  /\ main' = "flag"
  /\ UNCHANGED <<clockVars, mode, cmie, cmf, fifo, handlerVars, router, answered>>

ClearFlag ==
  /\ MainAt("flag")
  /\ cmf' = FALSE /\ main' = "flush"
  /\ UNCHANGED <<clockVars, mode, cmie, fifo, handlerVars, router, answered>>

Flush ==
  /\ MainAt("flush")
  /\ fifo' = <<>> /\ main' = "enable"
  /\ UNCHANGED <<clockVars, mode, cmie, cmf, handlerVars, router, answered>>

Enable ==
  /\ MainAt("enable")
  /\ mode' = "READY" /\ cmie' = TRUE /\ main' = "load"
  /\ UNCHANGED <<clockVars, cmf, fifo, handlerVars, router, answered>>

Main == Load \/ ClearFlag \/ Flush \/ Enable

-----------------------------------------------------------------------------
(* The router sends the words of a poll one after the other, or breaks off. *)

Armed == MainAt("load") /\ cmie /\ ~cmf

Arrives(w) == fifo' = IF Len(fifo) < FifoDepth THEN Append(fifo, w) ELSE fifo

\* The first word is the address, which matches.  The router does not poll again
\* while the handler is at the last poll.
RouterPolls ==
  /\ router.sent = 0 /\ pc = "out" /\ ~Irq
  /\ PollsAnytime \/ Armed
  /\ Arrives([poll |-> router.poll, word |-> 1]) /\ cmf' = TRUE
  /\ router' = [router EXCEPT !.sent = 1, !.ticks = 0]
  /\ UNCHANGED <<clockVars, mode, cmie, handlerVars, main, answered>>

RouterSends ==
  /\ router.sent > 0
  /\ Arrives([poll |-> router.poll, word |-> router.sent + 1])
  /\ router' = IF router.sent = 4
                 THEN [poll |-> NextPoll(router.poll), sent |-> 0, ticks |-> 0]
                 ELSE [router EXCEPT !.sent = @ + 1]
  /\ UNCHANGED <<clockVars, mode, cmie, cmf, handlerVars, main, answered>>

RouterBreaksOff ==
  /\ RouterBreaks /\ router.sent > 0
  /\ router' = [poll |-> NextPoll(router.poll), sent |-> 0, ticks |-> 0]
  /\ UNCHANGED <<clockVars, mode, cmie, cmf, fifo, handlerVars, main, answered>>

Next ==
  \/ Tick \/ Handler \/ CycleEnds \/ Main
  \/ RouterPolls \/ RouterSends \/ RouterBreaksOff

Spec == Init /\ [][Next]_vars

\* Time goes on, the core runs the handler, and the router goes on or breaks off.
FairSpec ==
  Spec /\ WF_vars(Tick) /\ WF_vars(Handler) /\ WF_vars(RouterSends \/ RouterBreaksOff)

-----------------------------------------------------------------------------
(* Properties.                                                             *)

\* What idle_start judges and answers is the address and the two capacities of
\* one poll, never words of two.
AnswersThePoll == answered # <<>> => \E p \in Polls : answered = WordsOf(p)

\* The handler gives up only a poll that the router has broken off: one whose
\* words come in time is answered, wherever in it the timer wraps.
CompletePollIsAnswered ==
  [][ pc = "timer" /\ pc' = "out" => router.sent = 0 /\ Len(rxbuf) + Len(fifo) < 5 ]_vars

\* The handler returns, although it waits for words that may never come.
HandlerReturns == (pc # "out") ~> (pc = "out")
=============================================================================
