------------------------------- MODULE Pipes -------------------------------
(***************************************************************************)
(* What the two ports of the modem share (firmware/src/modem/pipes.rs and   *)
(* bin/modem.rs): the two pipes, the position of the main loop inside       *)
(* DataPipes::idle_step, and whether the firmware has panicked.  A panic    *)
(* stops the core, so every later step of the firmware is gone.             *)
(*                                                                         *)
(* The core is single and all interrupts have one priority: a handler runs  *)
(* to its end without another handler or the main loop in between, and the  *)
(* main loop does not advance while an interrupt is pending.  Handlers are  *)
(* therefore single steps and the main loop is a sequence of small ones.    *)
(***************************************************************************)
EXTENDS FramePipe

CONSTANT Ports           \* the ports idle_step serves in this model: one of the
                         \* two, the other an environment, or both

ASSUME PortsAssumption == Ports \subseteq {"rs485", "spi"} /\ Ports # {}

VARIABLES
  s2r,          \* PIPES.spi_to_rs485
  r2s,          \* PIPES.rs485_to_spi
  pc,           \* where the main loop is in idle_step
  didRestoreSpi, didRestoreRs485,   \* its two local flags
  panicked      \* BOOLEAN: a defmt::panic! was reached

pipesVars == <<s2r, r2s>>
loopVars  == <<pc, didRestoreSpi, didRestoreRs485>>

PipesTypeOK ==
  /\ s2r \in PipeState /\ r2s \in PipeState
  /\ didRestoreSpi \in BOOLEAN /\ didRestoreRs485 \in BOOLEAN
  /\ panicked \in BOOLEAN

\* The end of idle_step: the interrupt of a port is enabled when one of its grants
\* was restored, the SPI's first.
AfterUnmask(didRs485)        == IF didRs485 THEN "enLoad" ELSE "check"
\* Mutation: the two conditions made one if and its else.
AfterSpiElse(didSpi, didRs485) ==
  IF didRs485 THEN "enLoad" ELSE IF didSpi THEN "unmask" ELSE "check"

AfterSpi(didSpi, didRs485)   == IF didSpi THEN "unmask" ELSE AfterUnmask(didRs485)
AfterRs485(didSpi, didRs485) ==
  IF "spi" \in Ports THEN "spiWr" ELSE AfterSpi(didSpi, didRs485)

\* DataPipes::init, then the loop of imain.
PipesInit ==
  /\ s2r = EmptyPipe /\ r2s = EmptyPipe
  /\ didRestoreSpi = FALSE /\ didRestoreRs485 = FALSE
  /\ panicked = FALSE
=============================================================================
