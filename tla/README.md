# amodem in TLA+

The modem (`firmware/`) is an SPI slave on one side and a node of a polled,
half-duplex RS-485 bus on the other. Frames travel between the two through two
pipes, each a lock-free ring buffer (`crates/bbqueue-spicy/`). Everything is
moved by DMA; interrupt handlers start and end the transfers, and the main loop
prepares them. The core is a single-core Cortex-M0+, every interrupt has the
same priority, and `main` is preempted at any point.

## Inventory

| component | source | state | operations | interacts with |
| --- | --- | --- | --- | --- |
| byte ring | `bbqueue-spicy/src/bbbuffer.rs` | `write`, `read`, `last`, `reserve`, two in-progress flags, the bytes | `grant_exact`, `grant_max_remaining`, `commit`, `read`, `split_read`, `release`, drops | one producer and one consumer, concurrently, through atomics |
| framed ring | `bbqueue-spicy/src/framed.rs` | a two-byte header in each frame | `grant`, `commit`, `shrink`, `read`, `release`, `auto_release` | calls the byte ring |
| pipe | `modem/pipes.rs`, `Pipe` | two grant slots IDLE / READY / BUSY | `service_lowprio_*` (main), `get_prep_*`, `complete_*`, `abort_*` (handlers) | framed ring; shared memory between main and handlers |
| idle step | `modem/pipes.rs`, `DataPipes`; `bin/modem.rs` | position in the loop, two local flags | `idle_step`, forever | both pipes, all DMA channels, both ports |
| RS-485 port | `modem/rs485.rs` | `MODE`, `RECV_AMT`, USART flags and enables, channels 3 and 4 | `rs485_isr`, `should_reload`, `enable_rs485_addr_match` | the router, both pipes |
| SPI port | `modem/spi.rs`, `modem/gpios.rs` | `SPI_MODE`, `REGS`, SPI flags and enables, channels 1 and 2, pins | `spi_isr`, `exti_isr`, `spi_int_unmask` | the SPI master, both pipes |
| rolling timer | `lib.rs` | a 32-bit counter that wraps | `get_ticks`, `micros_since` | the timeout of `idle_start` |
| modem | `bin/modem.rs` | - | `imain`, the interrupt vectors | all of the above, on one core |
| spip | `bin/spip.rs` | `SPI_MODE`, `REGS`, a buffer, channel 1, the busy pin | `SPI1`, `EXTI0_1`, the loop of `imain` | its own SPI master; shares nothing with the modem |
| clock set-up | `modem/mod.rs` | - | register writes, once | - |
| experiments, jig | the other `bin/*.rs`, `jig/` | - | - | - |

What makes it hard: the two sides of a ring act on indices the other has moved
since; a slot is published before the DMA channel behind it is programmed; main
judges the state of a port and acts on it several steps later; main changes
hardware registers by a read and a write that handlers share; the router may be
late, absent or repeat itself; the master may start and end transactions at any
time. What makes each component correct: the ring is a byte queue and never
gives both sides the same byte; the framed ring is a frame queue; a pipe neither
leaks nor reuses a grant; each port moves every frame once, whole and in order,
gives back what it takes, answers its peer and never reaches one of its panics;
the modem moves every frame from the master to the router and back, once and in
order; `spip` sends each byte of an answer in the place where it is due.

## Modules

| module | models | kind |
| --- | --- | --- |
| `BBQueueOps` | the arithmetic of `bbbuffer.rs` as pure operators | shared by the next and `Pipe` |
| `BBBuffer` | the ring, a step per access to a shared index | detailed |
| `ByteFifo` | a bounded byte queue, a reader's view, and the bytes staged but not committed: a put appends exactly the first of what was staged | abstract; `BBBuffer` implements it |
| `Framed` | `framed.rs` on the steps of `BBBuffer` | detailed |
| `FrameFifo` | a queue of frames and the frame being staged: a put appends that frame, whole and once | abstract; `Framed` implements it |
| `Pipe` | `Pipe` on the ring, main preempted by handlers | detailed |
| `FramePipe`, `FramePipeSpec` | a pipe whose calls are single steps on a queue of frames | abstract; `Pipe` implements it |
| `Pipes` | what the ports share: both pipes, the position in `idle_step`, the panic | base of the ports |
| `Rs485Port` | `rs485.rs`, the RS-485 half of `idle_step`, the router | detailed, on `FramePipe` |
| `SpiPort` | `spi.rs`, the pins, the SPI half of `idle_step`, the master | detailed, on `FramePipe` |
| `Modem` | `bin/modem.rs`: both ports, one main loop, one priority, router and master at once | composes `Rs485Port` and `SpiPort`, and implements the specification of each |
| `SpiAnswers` | what the master hears: a register, the transmit FIFO, channel 2's progress | extends `SpiPort` step by step |
| `IdleStart` | the words of a poll, the wait of `idle_start`, the rolling timer, re-arming | detailed, of one step of `Rs485Port` |
| `Spip` | `bin/spip.rs` | detailed, stands alone |
| `MC*` | constants for TLC | |
| `BBBufferProof`, `FramedProof`, `PipeProof`, `IdleStartProof`, `Rs485PortProof`, `SpiAnswersProof`, `SpipProof`, `ModemProof` | theorems about the module each is named after | proofs, `FramedProof` on `BBBufferProof`, `ModemProof` on `Rs485PortProof` |

The layers meet at `FramePipe`: its operators are functions from pipe to pipe,
one per function of `Pipe`, and a handler that makes several calls composes them.
The constant `Ports` of `Pipes` says which halves of `idle_step` a model has: a port
alone has one half and the other port as an environment, `Modem` has both.
`Pipe` shows that the code takes only these steps (`ImplementsPipe`), and that a
pipe refuses a write grant only in the cases `MayRefuseWr` allows
(`RefusedOnlyWhenInUse`), so the ports do not have to model a ring.

### Correspondence to the code

- **Ring.** A call of the producer is `GrantBegin` (the flag), `GrantLoadRead`
  (the only load of a location the consumer writes), then `GrantOk` or
  `GrantRefused`. A commit is `CommitBegin`, `CommitStoreLast`,
  `CommitStoreWrite`, in the order of the stores. A read is `ReadBegin`,
  `ReadLoadLast`, then `ReadOk` or `ReadEmpty`, whose store of `read = 0` is part
  of the step. A drop is a commit or release of what `to_commit` / `to_release`
  says, so `CommitBegin` and `ReleaseGrant` take any amount. The orderings of the
  code are Acquire and Release on one core: the model is sequentially consistent.
- **Frames.** The header is two bytes, little-endian, with `Radix` values each.
  The bytes of a read beyond the first frame are cut off as in `read`.
- **Pipe.** Handlers' calls are one step, because main does not run during a
  handler and handlers do not preempt each other. `wip` and `rip` are the ring's
  in-progress flags.
- **Ports.** A handler is one step (for `idle_start` two: the words of the poll
  come, or they do not within 8 microseconds). A branch of `idle_step` is a
  sequence of steps: take the grant and publish the slot; read the channel's
  control register and write it back (`set_word_size`, `cr.modify`); write address and
  length; read the control register and write it back once more (`set_direction`, at the
  same step of the model in another position of main); read and write the pins' register; at
  the end, unmask or re-arm. Main does not step while an
  interrupt is pending. A DMA channel remembers whether it was set up for the
  grant in the slot (`fresh`, or the frame itself), which is what an address is
  for. A register changed by `modify` in main is a read into `seen` and a write
  from it, so that what a handler changes in between is undone, as on the part.
- **Modem.** `Modem` takes the steps of both ports through `INSTANCE`, with the
  variables they share (pipes, `pc`, `seen`, flags, panic) once. Of the interrupts
  that are pending the first in the vector table is taken. The step of the master
  that commits a frame in `SpiPort` is, to `Rs485Port`, its action `SpiCommits`, and so
  on: `RsAlone` and `SpiAlone` map the state of the whole to that of a port by hiding
  the slot, the flag and the position in `idle_step` that belong to the other. When the
  router polls is said there too (`Rs!PollAllowed`), and when the master begins
  (`SpiAlone!MayBegin`: a pin invites it and main has nothing to restore on its side).
- **Answers.** Every step of `SpiAnswers` is a step of `SpiPort` with what it does to the
  register, to the transmit FIFO and to `moved`; only `Ch2Moves` is new. The channel is faster
  than the master, who clocks when the FIFO is full or the channel has finished.
- **Poll.** In `IdleStart` the handler is a sequence of steps, because words arrive
  while it waits: read a word, find none, look at the timer. `Tick` is a microsecond.
  The handler looks at the FIFO and at the timer more than once in a tick (64 MHz
  against 1 MHz): a tick waits until it has (`ran`). The rest of a cycle is `CycleEnds`.
- **spip.** As for `SpiPort`: handlers are single steps, the main loop is one step
  per access. The dummies are pushed one by one.
- **Environment.** The router and the master are actions of their own, and the
  other port commits and fetches frames at any time. A frame is its length and a
  tag that alternates, so that a lost, repeated or mixed frame shows.

### What is assumed of the peers

Three assumptions speak of what no peer can see: where main is, and what the other port does.
They leave out behaviours that the hardware can show, so that what is checked and proved
under them holds of the others only.

- **No cycle overlaps main's re-arming** (`Undisturbed`, in `Rs485Port` and `Modem`). Main has
  restored a grant and not yet armed the port for it (`Rearming`), and meanwhile the mode
  is neither `RELOAD` nor `READY` (`Overlap`). The router itself polls at any time in
  `rs485_faulty`: also in the middle of re-arming, where a poll that comes before the FIFO is flushed
  is lost, one that comes later is answered once the port is armed, and one whose words are
  late ends with the timeout. Only the behaviours in which such a poll is *answered*
  before main is through, or in which main restores a grant during a cycle, are left out.
  `Spec` has them, and `rs485_what` shows that the code does not prevent them: it asserts
  ("What") at one point of the interval that there is none. With an overlap the ownership of the
  grants is not what the properties say. `FairSpec` stands on `Undisturbed`: it is silent
  about a behaviour that cannot go on without an overlap.
- **The master begins when main has nothing to restore** (`Settled`, under `MasterCareful`, in
  `spi_careful` and in `modem`): `pc = "check"` and nothing to be granted. A master
  sees the pins alone, which are set a few instructions before that. Of a master that
  waits for nothing `spi_any` says that grants stay owned and come back, and no more.
- **The RS-485 side waits for the end of a transaction** (`Rs485Waits`, in `spi_careful`
  alone). Without it main unmasks the SPI interrupt in a transaction, and `spi_isr` may
  panic (`spi_not_idle`). `modem` does not assume it.

A reliable router (`RouterReliable`, in the modem) also finishes what it begins, does not
poll before the port has been armed for the first time, and has its polls further apart than the
last instructions of arming. In `IdleStart` the router polls when the port is armed
and main is not at it (`~PollsAnytime`); what this leaves out is under "Disagreements".

## Runs

| run | what it explores | bounds |
| --- | --- | --- |
| `ring` | all interleavings of a producer and a consumer, both grant calls, one and two slices, partial commits and releases | N = 4, bytes 0 and 1, requests 0 .. N + 1 |
| `frames` | frames of zero to two bytes over the ring | N = 8, Radix = 2 |
| `pipe` | slots, main, handlers | N = 8, frames of at most 2 bytes |
| `rs485_faulty` | polls at any time, broken off, repeated, late, given up or too early | pipes of 2 frames of one byte, the router takes 0 or 1 and offers 1 or 2 |
| `spi_careful` | long transactions, register reads and writes of a master that starts when a pin invites it and main has nothing to restore, the RS-485 side waiting; with and without clocking the whole answer | pipes of 2 frames, 1 or 3 bytes from the RS-485 side, 0 to 5 bytes clocked, a receive FIFO of 3, so that a transaction overruns it, and a transmit FIFO of 4 |
| `spi_any` | a master that waits for nothing | pipes of one frame of one byte, FIFO of one |
| `modem` | both ports, router and master at any time | pipes of 2 frames of one byte; the router takes 1 and offers 1, the master clocks 1 |
| `idle_poll` | a poll word by word, the router may break off | the timer wraps at 11, a poll takes up to 6 ticks, the timeout is 8, FIFO of 8 words |
| `spip` | a master that waits until the port is armed, all kinds of transactions; one that waits for nothing, long ones | a buffer of 2 bytes, FIFOs of 4; 1 to 6 bytes clocked, or 0 and 2 |
| `rs485_what`, `rs485_zero_poll`, `spi_not_idle` | each a disagreement, see below | |

The bounds are enough for the cases that matter. A ring of four bytes wraps with
and without skipped bytes, fills up, and is inverted with the reader on either
end; requests of zero and of more than the ring are there. The frames run uses
`N = 8 = 2 * (2 + 2)`, the smallest ring in which the largest request, header
included, is half the ring: `AskedIsGranted` holds there and fails at `N = 7`. The code has
1024 and 258. Two frames in a pipe show loss and reordering; the lengths let a
peer offer less than, exactly and more than there is room for. `FifoDepth` keeps
the FIFOs finite as the part does. A paced master does not overrun the receive FIFO
before `spi_isr` has looked at the first byte: the handler is due within a few
bytes, and what a FIFO of the part loses before is a master faster than the pins allow.
In the same way a reliable router does not overrun the FIFO that `rs485_isr` is about to
read (`RouterSends`).

`rs485_faulty` turns off the deadlock check because the firmware really stops
there: a poll before the port is first armed panics (see below), and so may a cycle that
overlaps main's re-arming. `rs485_what` turns it off for the second reason.
In `modem` it is off for the same reason ("Not idle?"); in `spi_careful`, `spip` and
`idle_poll` because a master that waits for the modem, or for a bound it set itself,
may wait for good.

In the ports' runs a peer offers less than, exactly and more than there is room
for, and both pipes fill up; in `modem` it offers as much as there is room for or, with no
grant in the slot, more, and both pipes fill up. The timer of `idle_poll` starts at every value, so
that it wraps at every point of the wait; 6 and 8 are the code's numbers (5.5 and
8 microseconds) and a timer of 11 turns more than once in two waits. In `spip` a
`LONG_READ` fills the transmit FIFO twice over.
`spi_any` checks no fidelity of data: a master that ignores the pins
can overrun the FIFO, and what it loses is its own loss. For the same reason
`SpiAnswers` does not follow what a master hears that does not clock the whole answer,
nor `Spip` the data of a master that waits for nothing (`listens` and `waits`, which a
behaviour chooses in its initial state).

### Fairness

- Ring (`PollingSpec`): the consumer is called again and again and each call
  ends, as `idle_step` does. The producer needs none.
- Frames and pipe: main runs forever and serves both slots in each pass; each
  call ends; a frame read over and over is not given back every time (strong
  fairness of the release: the peer takes a frame in the end).
- Ports: interrupts are taken, the main loop runs, the hardware finishes what it
  does (weak fairness); the peer comes again and again (strong fairness of
  `RouterPoll` and `Begins`, whose enabledness depends on where main stands).
  In `Modem` the same, with one handler and one main loop for both. In
  `AnswersFairSpec` the master ends what it begins and need not come again: `HearsAgain`
  does not depend on it.
- `IdleStart`: time goes on, the core runs the handler, a router that began a poll
  sends its next word or breaks off.
- `Spip`: a transaction that has begun ends, the channel moves, the core gets round
  to the SPI interrupt and to main (strong fairness: the end of a transaction comes first
  each time, and the core is much faster than transactions follow each other).
- Ports, their peers: nothing is assumed of when the peer comes, except by the constants
  `RouterReliable`, `MasterCareful`, `MasterPaced` and
  `Rs485Waits`, which a run sets (see "What is assumed of the peers").

### What the runs show

The ring is a correct queue for every interleaving, and a consumer that polls
is never cut off from committed bytes. Frames are whole, and the firmware's sizes
do not starve. Slots and grants stay together. Whatever the router breaks off, repeats
or forgets, and whenever it polls, the RS-485 port keeps each channel on its grant, gives
the grants back, arms itself again, and reaches the panic of `MODE_RELOAD` only if it is
polled before it was armed at all, as long as no cycle overlaps main's re-arming.
Under a master that keeps its distance, the SPI port makes one frame of each
transaction and keeps its promises on the pins. Under any master, grants stay owned, come
back, and a channel moves bytes only while its grant is taken.

Put together, each port is to the other no more than the environment its own
module assumes (`ImplementsRs485Port`, `ImplementsSpiPort`), so what the runs
of a port show holds in the modem. Router and master do not wait for each
other there. Two overlaps are all that can stop the modem
(`StopsOnlyAtOverlaps`): that of a cycle and main's re-arming, which the run leaves out
and `rs485_what` shows, and that of a transaction and main's unmasking of its interrupt, which
is in this run as it is in `spi_not_idle`. Up to
that moment each channel serves its grant, also when a frame is delivered in the middle of a
transaction, which becomes a frame as it was clocked and finds what its pins promised
(`TransactionsAreFrames`); every frame
has crossed the modem once, in order and unmixed (`EndToEnd`); and
unless it comes every frame arrives and every poll is answered. While a pipe is full and its
writer's grant is refused nothing is restored on that side, and the port is silent until the
reader takes a frame.

Some hazards are beyond the passing runs, because of what these assume. A poll that is answered
between a grant's slot and its channel (`pipes.rs:269`), between main's load and store of
`MODE` (`rs485.rs:152`) or within its change of `CR1` (`rs485.rs:153`) is an overlap;
a transaction between a grant's slot and its channel (`pipes.rs:310`) begins before main is
settled. What happens to a register that main has read when a handler changes it
(`pipes.rs:309`, `gpios.rs:167`) is in `spi_any` for every master, and in
`modem` for a grant restored in the middle of a transaction, but not in `spi_careful`,
where nothing is restored meanwhile. Only runs that end in a violation speak of the re-check of
`should_reload` (`pipes.rs:255`) and of empty offers (`rs485.rs:228`), and none of empty
frames (`rs485.rs:302`) and torn polls (`rs485.rs:144`), for which "Disagreements" says what
TLC finds.

The transmit FIFO of the SPI, which the code leaves undrained, holds nothing at the
end of a transaction whose master clocked the whole answer, because channel 2 is given
exactly the length that was announced. `idle_start` answers what one poll says,
and gives up only polls that were broken off, wherever the timer wraps. `spip` gives
every answer in its place, and rearms.

### Disagreements

- `rs485_what`: `should_reload` is asked at the start of `idle_step`, the
  assertion on the same condition (`rs485.rs:136-137`) comes at its end, and the
  address match interrupt may be enabled all the while.
- `rs485_zero_poll`: "including if it wants to send zero bytes"
  (`rs485.rs:314-315`) leaves the write grant BUSY, and the port deaf until the
  other port commits a frame.
- `spi_not_idle`: a frame delivered during a transaction is restored as the
  outgoing grant, main unmasks the receive interrupt, and `spi_isr` panics
  (`spi.rs:168`).

Further divergences, without a run of their own:

- `FrameGrantW::shrink` cuts the slice but not the reservation (`bbbuffer.rs:742-747`), and
  the following commit publishes bytes nobody wrote, against "if a header is available,
  the whole frame will be" (`framed.rs:113-114`). The firmware does not call it. TLC shows it
  with `ShrinkingSpec` in place of `FramedFairSpec` in `Framed_frames.cfg`.
- "Router can hold what we're sending (including if we want to send zero bytes)"
  (`rs485.rs:300-301`): a frame of length zero, which a long transaction of its header alone
  commits, leaves its read grant BUSY, for `tx_amt` is 0, no channel is started and nothing
  completes the grant. The pipe to the router stops there. TLC shows it with `SpiLens = {0, 1}`
  in `Rs485_faulty.cfg`; `Modem` assumes a master that clocks at least one byte.
- `enable_rs485_addr_match` clears the match flag and flushes the FIFO in two
  writes. An address that matches between them raises the flag and is flushed. If main is held
  up there until the next poll begins, `idle_start`, which does not look at the address it has
  read, takes the capacities from words of both polls, where `rs485.rs:173` says it waits for
  `(addr_u16, Rrx_cap, Rtx_cap)`. TLC shows it with `PollsAnytime = TRUE` in
  `IdleStart_poll.cfg`. `Rs485Port` takes the arrival of a poll as one step.
- The jig reads, writes and reads a register in a row
  (`jig/src/bin/spi_regs.rs:80`, `104`, `127`). The modem's SPI interrupt stays masked after
  the first access, until a grant is restored: `HearsAgain` speaks of long transactions only,
  and fails when it is stated of register accesses too.
- The documentation of `last`
  (`bbbuffer.rs:30-36`) says the reader moves it back to the size of the buffer
  when it leaves the inverted condition; only the writer ever stores it, and
  `BBBuffer` models that.
- The table of header sizes (`framed.rs:60-70`) describes
  a variable header; the code's is always two bytes.
- The comment that SPI can
  interrupt `idle_start` (`rs485.rs:250-251`) does not hold while all priorities
  are equal (`bin/modem.rs:59`).
- `dma_tx_complete` enables `dmat` where its
  counterpart disables `dmar` (`rs485.rs:215`): without a running channel it moves nothing.
- A poll before the port is armed panics,
  because `setup_rs485` leaves `cmie` set (`rs485.rs:22`, `rs485.rs:183`);
  `PanicsOnlyBeforeArming` bounds when.

## Proofs

### The ring

`BBBufferProof` proves, for every ring size `N > 0`, every set of bytes and every
set of natural-number requests, from the three named assumptions only:

- `Inductive`: `Spec => []IndInv`
- `WritersAreDisjoint`: `Spec => []GrantsDisjoint`
- `ReadersSeeCommitted`: `Spec => []ReadGrantCommitted`
- `TypeCorrect`: `Spec => []TypeOK`
- `ReaderMovesForward`: `Spec => ReadMovesForward`
- `NothingIsSkipped`: `Spec => MaxRemainingSkipsNothing`
- `RingImplementsFifo`: `Spec => ImplementsFifo`

Neither safety property is inductive: that a grant is apart from what the reader
may take depends on the `read` the producer loaded, which is no longer there, and
on `last`, which is stored before `write`. `IndInv` says in which way the other
side can have moved:

- `IndexInv`: an inverted ring has `read <= last`, another `write <= last`.
- `SeenReadInv`: since the producer loaded `read`, it has only grown, or the ring
  has left its inversion, in which case `read` is behind `write`.
- `ProducerInv`: a grant goes on at `write` strictly below an inverted reader, or
  starts at 0 strictly below the reader of a ring that is not inverted, and
  between the two stores of a commit `last` already fits the new `write`.
- `SeenWriteInv`, `ConsumerInv`: a ring the consumer saw inverted still is, with
  the same `last`; otherwise the bytes up to the `write` it saw are still there,
  at worst in front of a wrap.
- `HeldInv`: the slices the consumer holds lie within committed bytes.

There is one lemma per action, or one step of the theorem where a single leaf is enough,
on top of lemmas about the arithmetic
(`ExactGrantBounds`, `MaxRemainingGrantBounds`, `ResolveBounds`). `NothingIsSkipped` needs
one conjunct more, `WrapsAtTheEnd`.

The refinement works with where each byte of the queue lies (`Place`), and not with the
queue itself. `IndInv` puts every place among the bytes the consumer may read, so a write
through the grant disturbs none (`WritersAreDisjoint` once more); the store of `last` moves none,
for it only moves `last` in a ring that is not inverted; the store of `write` adds the places of
the grant behind the others, on both sides of a wrap; the way of `read` back to 0 moves
none, for at the end of an inverted ring both readings of a place agree; and a release
shifts them. What the queue, the staged bytes and the reader's view then are follows
from the library's theorems about sequences.

### The framed ring

`FramedProof` proves, for every size of the ring, radix of a header byte and set of
sizes asked for that `FramedAssumption` and the ring's assumptions allow,

- `FramedInvariant`: `FramedSpec => []FInv`
- `NoTornFrames`: `FramedSpec => []FramesAreWhole`
- `FramedImplementsFifo`: `FramedSpec => ImplementsFrames`

It stands on the ring's proof: a step of `Framed` is a step of `BBBuffer`, or one that keeps
`IndInv` by the same lemma. `FInv` adds to `IndInv`

- `AskInv`: what the producer holds is room for a header and a frame it may ask for;
- `StagedInv`: what is being committed is nothing, or a header and as many bytes as it
  says, in two bytes that are read back as that length (`HeaderRoundTrip`, the only place
  where the radix counts);
- `FrontInv`, and that a read has one slice: the reader holds the first frame of the queue;
- `Framing`: the committed bytes can be cut into whole frames, and the places where the code
  looks at them are cuts: the end of an inverted ring, where the reader goes back to 0, and the
  end of what the consumer has seen with the `write` it loaded.

The last is what the theorem is about: the header of the next frame is looked for wherever the
reader happens to stand, and a commit between its two loads must not put that place into the
middle of a frame. `Cuts` is a set of positions and no sequence, for a set is kept by a commit
(it grows at the end) and by a release (it is shifted) without an induction. That the recursive
`FramesIn` finds the frames of these cuts is an induction, over the position from the end; it
is carried out as the greatest counterexample of a set (`GreatestNumber`, from the library's
theorem on the order of the natural numbers), for a theorem over predicates cannot be instantiated
with the provers at hand.

### The pipe

`PipeProof` proves, for every size of the ring and of the frames,

- `PipeInvariant`: `Spec => []IInv`
- `PipeTypeOK`: `Spec => []TypeOK`
- `GrantsAreInTheSlots`: `Spec => []SlotsHoldTheGrants`
- `PipeRefinement`: `Spec => ImplementsPipe`
- `RefusedOnlyInUse`: `Spec => RefusedOnlyWhenInUse`, if two of the largest frames fit the
  ring with their headers (516 of 1024 bytes in the code)

Main is interrupted between any two accesses to the ring, and only then do the handlers commit or
release. `IInv` says that a side main is taking a grant for has none in its slot, so
that no handler commits or releases it (`SlotInv`), that the frames lie one behind the other from
the reader to the writer (`IndexInv`), that a grant lies behind the writer or before the reader
(`GrantInv`), that a taken frame is the first one (`TakenInv`), and what may have changed since
main loaded an index (`SeenInv`): handlers only release while main asks for the write grant, and
only commit while it asks for the read grant.
Frames are headers that lead from one to the next (`Linked`), proved in the way of
`Framing` above. What the ports are built on, `FramePipe`, is by this no assumption.

### The wait for a poll

`IdleStartProof` proves, for every width of the timer, timeout, pace of the router
and depth of the FIFO that `IdleStartAssumption` allows (a poll takes at least two ticks
less than the timeout, the timeout is less than a turn of the timer, the FIFO holds a
poll), of a router that may break off polls and that polls when the port is
armed (`~PollsAnytime`; without this it does not hold, see above):

- `Inductive`: `Spec => []Inv`
- `OnlyOnePoll`: `Spec => []AnswersThePoll`
- `NoCompletePollIsLost`: `Spec => CompletePollIsAnswered`

`AnswersThePoll` speaks of the words already answered and says nothing of those on their
way. `Inv` adds to it and to the types (`Booleans`, `Values`):

- `OneStream`: what the handler has read, followed by what waits in the FIFO, is a
  prefix of the words of one poll, as long as the router is sending it exactly what was
  sent;
- `ControlInv`: while a poll interrupts or is read, main is not in the middle of
  re-arming; in the middle of it, flag and FIFO are empty from where main has cleared them;
- `InTime`: by the wrapping difference the handler has waited no longer than the
  router has been sending, and once the fifth word is there no more than one tick longer. The
  tick is the one that may pass between its looks at the FIFO and at the timer.

One lemma per action; those that only main and the rest of the cycle take
(`OutsideInv`) share one.

### The ports and spip

`Rs485PortProof` proves, for every frame size, depth of the FIFO, lengths of frames and
capacities of the router, of a router that polls at any time and may repeat, break off, delay or
give up polls,

- `Inductive`: `Undisturbed => []Inv`
- `BusyGrantsStayOwned`: `Undisturbed => []BusyGrantsAreOwned`
- `ChannelsRunOnTheirGrants`: `Undisturbed => []DmaRunsOnItsGrant`
- `PanicsOnlyEarly`: `Undisturbed => []PanicsOnlyBeforeArming`

`Undisturbed` is `Spec` as long as no cycle overlaps main's re-arming; of `Spec` none of them
holds. That the panic "What" is not reached is a part of that hypothesis, and `PanicsOnlyEarly`
is about the one of `MODE_RELOAD`. One assumption more stands in the theorems: no frame
and no offer of zero words, which take a grant whose channel is never started
(`rs485_zero_poll`, and the frame of length zero above). `Inv` says

- `ModeInv`: for each step of the handshake, which grants are taken and which channels run.
  `SendingNone` has to exclude the transmission complete flag while words are on the
  wire, for that step is left on the flag alone;
- `ArmingInv`: main re-arms the port between two cycles, and what it holds in `seen` from the
  control registers has no bit a handler has cleared since; a poll may interrupt it, and
  goes no further than its timeout;
- `OfferInv`: a grant on offer has its channel set up, or main is on its way to do it.

The first part of `SpiAnswersProof` proves `GrantsStayOwned`, `Spec => []GrantsAreOwned`, for every master and
all values of the constants. Here a transaction may end while main is between the read
and the write of a register, and the write then sets again the bits the handler has
just cleared. `SeenInv` says what this can do: main can bring back the enable of the channel,
or the request of the peripheral, and never both, for it modifies one register at a time
and the handler has cleared both.

`SpipProof` proves `TheChannelIsStopped`, `Spec => []ChannelHasItsTransaction`, for all values
of the constants. Its invariant adds that main closes only a transaction whose end
has set the mode to `RELOAD`, which is where the channel is stopped. It proves also

- `AnswersAreDue`: `Deep => (Spec => []AnswerIsDue)`

where `Deep` says that the transmit FIFO holds three bytes and the receive FIFO two (the part
has four of each): `spi_isr` adds two bytes to the dummy that is left of the two main has pushed, and
finds the header and perhaps one byte more. `AnswerInv`
says for each phase of a transaction what the registers and the buffer hold of what the master
wrote, which bytes it has heard, and that these and those waiting in the FIFO are together the start
of the answer that is due.

### The answers of the SPI

`SpiAnswersProof` proves, for every frame size, lengths of the transactions and depths of the FIFOs,
for a port that is `Careful`: the master starts when a pin invites it and main has nothing to
restore, it does not overrun the handlers, the RS-485 side neither delivers nor takes during a
transaction, and both FIFOs hold two bytes,

- `AnswersInvariant`: `AnswersSpec => []AInv`
- `TakenGrantsAreServed`: `AnswersSpec => []GrantsAreServed`
- `PinsKeptTheirWord`: `AnswersSpec => PinsKeepTheirWord`
- `FramesAreTransactions`: `AnswersSpec => FrameIsTheTransaction`
- `ReadsReturnLastWrite`: `AnswersSpec => []ReadsLastWrite`
- `FramesAreHeardFirst`: `AnswersSpec => HeardBeforeReleased`
- `NothingLeftOver`: `AnswersSpec => []NothingIsLeftOver`

That the RS-485 side waits rules out the panic "Not idle?" with it (`spi_not_idle`), which is
therefore no theorem here; what can be said of it is `StopsOnlyAtOverlaps`, of the modem.
`ModemProof` has grants, pins and frames without a waiting RS-485 side. `AInv` says in which order the two
interrupts of a transaction come (`PhaseInv`), that main restores nothing during one and holds
no outdated register (`MainInv`), that a grant on offer has its channel set up and a taken one
has it running (`GrantInv`), what an active pin promises (`PinInv`), where the bytes of the
transaction are (`FifoInv`: in the FIFO until `spi_isr` runs, then behind channel 1, or in the
FIFO as far as it has room), and that what the master has heard followed by what waits in the
transmit FIFO is the start of the answer, with the modem never behind (`HeardInv`).

### The modem

`ModemProof` proves, for every frame size, size of the pipes, depths of the FIFOs, lengths the
master clocks and capacities of the router that `ModemAssumption` allows,

- `ModemInvariant`: `Undisturbed => []MInv`
- `ModemImplementsRs485Port`: `Undisturbed => ImplementsRs485Port`
- `ModemImplementsSpiPort`: `Undisturbed => ImplementsSpiPort`
- `ModemEndToEnd`: `Undisturbed => []EndToEnd`
- `ModemChannelsServe`: `Undisturbed => []ChannelsServeTheirGrants`
- `ModemTransactionsAreFrames`: `Undisturbed => TransactionsAreFrames`
- `ModemStopsOnlyAtOverlaps`: `Undisturbed => StopsOnlyAtOverlaps`

all as long as no cycle overlaps main's re-arming (`Undisturbed`), and
each under one assumption that stands in the theorem: the router makes no offer of zero words
(`0 \notin TxCaps`, see `rs485_zero_poll`). `ModemAssumption` has the master clock at least one
byte for the same reason.

The refinement has two halves. A step of a port's own is a step of that port in the mapped
state: the functions of `FramePipe` commute with hiding the other side's slot (`RsHidesS2r` and
its three likes), and a step of main in one half of `idle_step` leaves the mapped position of the other
where it was. A step of the other port is an action of the environment or a stutter: a frame is
committed, or taken, or nothing changes that the port can see. For this the frames
that cross must be what the environment of a port may deliver, with the tag that is due, and this
is what makes `MInv` necessary. It says

- `Types`, `RsTypes`, `SpiTypes`, `SlotsInv`: a grant has a frame, or room for one;
- `SeenInv`: main holds bits of a register only between its read and its write;
- `Port485!Inv`: the invariant of `Rs485PortProof`, in the mapped state. That it is kept is
  not proved again: a step of the modem is one of the port (`RsNext`), and the port's
  theorem applies;
- `ArmedInv`, `CycleInv`: router and port go through the handshake together, and the match
  flag interrupts an armed port only, with the words of one poll in the FIFO;
- `WordsInv`: the words the router has sent wait in the FIFO or lie behind channel 3, and
  have one tag;
- `PhaseInv`, `PinInv`, `GrantInv`, `BytesInv`: the same for the SPI side, as in the proof of
  `SpiAnswers` but for what fails there without `Careful`: they hold until `spi_isr` panics.

`EndToEnd` follows from it, for `Alternate` is kept by an `Append` of the tag that is due and by
a `Tail` whose first tag was the one awaited (`AlternateAppend`, `AlternateTail`).
`ChannelsServeTheirGrants` and `TransactionsAreFrames` need `SendInv` besides: which grant the
pin `txrdy` announced, and what channel 2 is set up for, through main's read and write of its
registers. `StopsOnlyAtOverlaps` says which assertions stop the modem: besides "What", which the
hypothesis leaves out, only "Not idle?" in a transaction whose interrupt main has
unmasked. A handler of the RS-485 port comes in no mode it panics in (`OnlyPolls`), and a transaction
that has begun is masked (`Masked`) until main unmasks it, which outside a transaction does
no harm.

### Only model-checked

Every leads-to property: liveness and fairness are out of the prover's reach. Of the safety
properties of the passing runs none is left. `StopsOnlyAtOverlaps` has the form of an implication
of two safety properties. The three runs that end in a violation show
what fails without the assumptions of the theorems.

## Not modelled

- The clock set-up and the LEDs: register writes without state.
- `rs485.rs`, `rs485-trigger.rs`, `rs485-trigger-dma.rs` under `bin/`: they set up the USART
  and send or print words in a straight line. The copies of `spip`'s handlers they carry are never
  unmasked (the `NVIC::unmask` lines are comments), and their loops are comments. `blink`,
  `adcs`, `gpiotest`, `hello` are board tests.
- The jig: straight-line programs of an SPI master. What they may do is what the masters
  of `SpiPort`, `SpiAnswers` and `Spip` do.
- Wrap-around of `usize` in `grant_exact`, out of reach for `FrameProducer::grant`,
  which bounds its request.
- Weaker memory orderings than those of one core.
- Polls that arrive torn in `Rs485Port`, which takes the arrival of a poll as one step;
  and what becomes of the grants after a cycle has overlapped main's re-arming: the ownership
  invariants do not hold then.

## Plan

Done: the ring, the framed ring and the pipe, each with its refinement proved; both ports apart,
the answers of the SPI, `spip` and the poll word by word; the composition of the ports and its
refinement of both. Every safety property and refinement that a passing run checks is a theorem.

Left: `EndToEnd` speaks of frames in the pipes, and the theorem that a frame's bytes are heard
by the master (`HeardBeforeReleased`) of a port alone whose other side waits; what a master hears
of a frame in the whole modem could be stated and proved on the composition of `SpiAnswers`
with `Rs485Port`.
