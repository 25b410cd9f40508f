# DALI USB adapter: TLA+ models and proofs

This directory holds TLA+ models of the firmware in `src/source`: a DALI bus adapter for the LPC1114.  A host sends
commands over a serial line (`src/doc/commands.md`), the adapter sends and receives frames on a two-wire DALI bus and
prints what it sees (`src/doc/messages.md`).  TLC checks the models on small instances, TLAPS proves theorems about the
transmitter, the firmware on its bus, the serial line, and the coding of bits for all values of the constants.

Run in this directory: `tlc -config LinkPolite.cfg MCDaliLink` checks a run, `tlapm DaliSendProofs.tla` the proofs of a
module; the modules of proofs are those whose name ends in `Proofs`.

## 1. Inventory

| Part | State | Operations | Runs in |
|---|---|---|---|
| Transmitter, `dali_101_tx.c`, timer TMR32B0 in `board/dali.c` | `struct _tx`: `count[67]`, `index_next`, `index_max`, `repeat`, `is_query`; match register, toggle, pin | `dali_101_send`, `tx_reset`, `dali_tx_start_send`, `dali_tx_repeat`, `dali_tx_irq_callback`, `dali_101_sequence_*` | main task, rx task, serial task, interrupt (highest priority) |
| Receiver, `dali_101_rx.c`, timer TMR32B1 | `struct _rx`: status, frame, counts of edges, `transmission_is_waiting`; stop bit, period, query match, their enable bits in one register | four interrupt callbacks, four notification handlers, `rx_schedule_transmission`, `rx_schedule_query` | interrupt, rx task (priority 4), main task, transmit interrupt |
| Bit encoding and decoding | `tx.count`, `rx.frame`, `last_data_bit`, `last_frame` | `add_bit`, `add_signal_phase`, `calculate_counts`, `check_*_timing`, `is_frame_received_twice` | as transmitter, receiver |
| Main task, `main.c` | a frame taken from the queue | print a report, take a command when the transmitter is idle | priority 1 |
| Serial line, `serial.c` | two line buffers, pointer and index, notification bit, queue of 4 frames | UART interrupt, one handler per command | interrupt, priority 3 |
| LEDs | port bits, three software timers | heartbeat, flash | timer task (priority 2), main and serial task |
| Clocks, hooks, system calls, kernel | | | |

How they interact.  Commands reach the main task by a queue, except for the raw sequence commands `W`, `N` and `X`,
which the serial task applies to `struct _tx` directly.  The main task builds a frame and asks the *receiver* to
schedule it, because the receiver knows how long the bus has been quiet; the receiver starts the transmitter, at once or
when its period match fires.  Everything sent comes back through the receiver, and the end of a received frame, which
is the adapter's own echo, drives the repetitions (`manage_tx`).  The transmit interrupt in turn arms the query match
of the receiver.  None of this takes a lock.

What is hard: tasks and interrupts sharing `tx`, `rx`, a timer register and two line buffers without locks;
notifications that coalesce; decisions that rest on a status read earlier; matches programmed in the past; the race for
the last repetition; a bus that is shared with other devices, shorted, or without power; queries whose timeout races an
answer; a report queue that only the task with the lowest priority empties; counters that wrap; delays of edges that
transmitter and receiver compensate each in its own way.

What makes each part correct: the *transmitter* always lets go of the bus, keeps the polarity of its phases and plays
only what was written; the *receiver* never waits for an event that cannot come and reports no stale error; the
*scheduling* forgets no frame and keeps the settling times; *encoder and decoder* agree on every bit and on what to
refuse; the *main task* sends every frame the host asked for, with its repetitions; the *host* gets one echo per frame
and an answer or a timeout per query; the *serial line* carries out each complete line once, as the manual says.

## 2. Modules

    Adapter        what the host is promised: accept, take, send, answer
    DaliTiming     frame types, status codes, thresholds, the compressed time scale
      DaliTx       the transmitter; its contract and promises (TxSpec)
        DaliRx     the receiver: interrupts, rx task, scheduling, as operations
          DaliLink     main task, commands, host, other devices, bus, time; implements Adapter and TxSpec
            MCDaliLink     values of the constants for TLC
        MCDaliTx       the transmitter alone, called at random
        DaliTxProofs   theorems about TxSpec
          DaliLinkProofs   the types of the composition (extends DaliLink too)
            DaliSendProofs   the firmware implements TxSpec and Adapter
              DaliWatchProofs  what the receiver promises
    DaliBits       encoder and decoder in bits and microseconds
      MCDaliBits       frames, and the sequences of the timing tests
      DaliBitsProofs   what the encoder makes of every frame and sequence
        DaliDecodeProofs   the receiver decodes it
    SerialLine     UART interrupt, two buffers, serial task
      MCSerialLine     lines a host may send
      SerialLineProofs theorems about the buffers
        SerialAskedProofs  the lines are carried out as asked

### Adapter
The abstract specification, without timers, tasks or a receiver: a queue, the transmissions still owed, whether one is
on the bus, and whether a query waits for its answer.  `DaliLink` implements it (`AdapterSpec`, with the mapping in
`Abs`): the frame `dali_101_send` is about to load still counts as one in the queue, a transmission is on the bus while
TMR32B0 runs.  So no frame is taken before the last one is done with all repetitions, none is cut short or sent once too
often, no answer comes without a query; and weak fairness of `Take`, `Start` and `Finish` has to follow from that of the
firmware, so each is sent.

### DaliTiming
The logic depends on how the thresholds of the code are *ordered*, not on their microseconds.  The constant `Ticks` maps
each threshold to ticks; `TicksAssumption` states the order that has to be kept, and what must stay distinct.  The scale
used with TLC gives 1 tick to the half bit, 2 to the full bit, 4 to the stop condition, 5 to 12 to the settling times
and 14 to the bus failure.  The windows of the receiver are one length each, since every length these models produce is
nominal or far off; `DaliBits` has the windows.

### DaliTx
`tx` is `struct _tx`; the positions of `tx.count` are one higher than in C.  `tx.state_now` lives only while a frame is
built, and is part of the frame.  A frame is the list of the lengths of its phases, the stop condition being the last
one, which is what `calculate_counts` makes of it.  `t0` is the timer: the match count, the ticks until it is reached
(`Off` if the interrupt is disabled or the count has passed), the toggle on match, and the pin.  One action stands for
one function; their guards are the conditions of the C code and no more.  Where a caller may be interrupted inside a
function, the function is several actions: `tx_reset` is `TxSilence` (the test for an idle transmitter, and what stops
it), `TxForget` (`index_next = 0`) and `TxEmpty`, and `add_signal_phase` is the test `ArrayFull` and the write `TxAdd`.
A read past the end of the array yields any value of `StrayCounts`; a write past it meets `index_next`, which lies there
(`Beyond`).

The code leaves it to the callers that a transmission is complete when it starts and is not changed while it runs.
`TxNext` states this **contract**: phases are added only while the transmitter is idle and the array has room, it is
started only on `Playable` counts, and nothing starts between the steps of a reset.  All other operations may come at
any time: reset, new sequence, `X` in the middle of a transmission.

### DaliRx
`rx`, `t1`, `age`, `task` and `rxq` are `struct _rx`, the timer with its matches, the counts (as ticks elapsed), the
notification bits and the report queue.  One action per interrupt, and per branch of each notification handler. `RxTake`
takes all pending bits at once, `Serving` handles them in the order of their values; interrupts may come between two
handlers.  A match computed for a count in the past stays silent, because the hardware compares for equality. `DueInGap`
lets a read of the counter in the instant in which a frame gets due go either way.

*The register MCR.* The three `..._match_enable` functions load the register, change a bit and store it.  With
`McrAtomic = FALSE` each writer (interrupt, rx task, main task) keeps in `mcr` what it is going to store, and `Store`
writes it later, by which `Overwritten` undoes what an interrupt did to the other bits in between.  A handler changes
the register as its last effect but for the write of `transmission_is_waiting`, which waits for the store.  The start of
a frame changes it twice (`dali_101_rx.c:366`, `:367`): `CaptureStart` and `CapturePeriod`, the second being work still
to be done (`AND_PERIOD`), with interrupts and the store of the first in between.  With `McrAtomic = TRUE` no interrupt
can meet a half-made change, and what comes between the two changes could as well come before or after them, so they are
one.

*The counter.* Times are relative, so the wrap of the counter shows only where the code compares two counts by size
(`CountBelow`).  `wrap` says in how many ticks the counter passes 0; a negative value means that it did.

### DaliLink
- *Main task*: `dali_101_send` is split wherever another task may interfere.  While it is `Calculating` the places are
  the three steps of `tx_reset`, test and write of `add_signal_phase` for each phase, and the flags.  While it is
  `Scheduling` they are the lines of `rx_schedule_transmission`: the type, the test for an idle bus (308), the start
  (309) and the clearing of `transmission_is_waiting`, the test in a gap (313 to 320), the start there (317), the match
  (323, 324), and the last write (327).  A report occupies the task for a tick: its 24 characters are polled out
  (`system/call_stubs.c:42`) and take half a bit of the bus at 500 kBaud.
- *Serial task and host*: a command enters the queue or acts on the transmitter.  `W` is the steps of `tx_reset` and the
  period, `X` the test and the start.  A wrong command, a full queue (a tick each) or the header `?` asks for (three
  ticks) is printed by the serial task, which holds up the main task meanwhile.
- *Other devices* pull the bus low for a number of ticks out of `ExtLows`, after a quiet time out of `ExtGaps`: bits,
  shorts, bus failures, and starts that collide with the adapter's own.
- *Priorities*: the rx task runs before the serial and the main task; the transmit interrupt may come at any time.
- *Time*: `Tick` happens only if nothing is due.  An instant stands for all the microseconds between two ticks, in which
  due events come in any order.  One tick may pass while the main task calculates a frame, and one while it prints; what
  it schedules takes none.

History `h` counts the frames owed, open questions and echoes; no action of the code depends on it.  `HostWaits` makes
the host well-behaved: it sends a command when the last one was sent and answered.

Switches name what a run excludes.  `Preemptible` is the set of places of `dali_101_send` before which rx task, serial
task, interrupts, other devices and time may come; at the others the main task goes on at once.  `N` in the serial task
needs no such place: the main task cannot come between its test and its write.  An error that the main or the serial
task queues (`queue_error_frame`) is one step.  `RxPrompt = TRUE` lets the rx task serve each interrupt before the next
one, which holds on the board unless two interrupts are a few microseconds apart.

### DaliBits
The adapter receives its own transmissions, on a bus of its own, in microseconds.  `add_bit`, `add_signal_phase` and
`add_stop_condition` are translated one to one.  The calls that `calculate_counts` makes of them are actions
(`StartBit`, `DataBit`, `CorruptPhase`, `StopCondition`), and so is a sequence command (`Period`): `item` is the
position in the frame, so that an induction over the bits is an invariant.  When all is written (`Ready`), `Toggle` and
`Toggles` are what the transmit interrupt makes of the counts, `Captured` (external) adds the delay of each edge with
the constants of `board/dali.h`, and each edge of a frame may be off by one of `Jitters`; `Since` is the time from one
capture to the next.  `Begin`, `StartEdge`, `InsideEdge` and `IgnoredEdge` are the branches of
`process_capture_notification`, `StopFrame` and `StopError` the stop bit match.  Bits are Booleans, most significant
first. The periods of a sequence are `Periods`: an active one of less than 25 us underflows the compensation, and one
that is sent as 2400 us or more reaches the stop condition (idle phases are sent 24 us longer, active ones 24 us
shorter).  Several transmissions follow each other after one of `Gaps` milliseconds.

### SerialLine
Each character the host sends is one interrupt.  A cell of a buffer holds a part of a line (letter, head, separator,
data, text behind it) with the number of the line it comes from, so stale text is recognised.  A head, the digits of
priority, length and repetitions, may be any number of cells `wide`, so a line can be cut off by the end of the buffer
anywhere.  The interrupt has one action per branch of its switch, each with the increment behind the switch (`Further`).
The task takes the notification, reads the letter, reads the pointer a second time for the arguments, reads them one by
one as `strtoul` would, checks them, and acts.  `ReadHead` stops at the first cell that is no part of a head, `ReadSep`
is `*end_of_read++`, which steps over a terminator as well; behind the buffer may be anything (`CellsAt`).  A head that
is not whole may be any number (`HeadsRead`).  Priority, length and repetitions are bytes, as in C.  `Meant` is what the
manual says of a line, and `ClearLine` says about which lines code and manual agree.  `HostPaces` makes the host end a
line only when the one before was handled; the tests wait half a millisecond instead (`time_for_command_processing`,
`src/tests/scripts/test_20_timing.py:9`).

## 3. Runs

| Run | Question | Instance | States |
|---|---|---|---|
| `tx_contract` | Does the contract suffice for the promises of the transmitter? | array of 5, two frames, two periods | 3.0 million |
| `link_polite` | Is no waiting frame lost or early, each sent, each query answered? Is one place for reports enough? Does the firmware implement `Adapter`, and keep the contract (`TxSpec`)? | 2 commands out of forward frames of 2 priorities, a query and a backward frame, 2 foreign pulses; interrupted anywhere but in the gap | 182 thousand |
| `link_raw` | Do raw sequences between frames leave the promises of the transmitter alone? Is a timeout only reported for a query? | 2 commands, 3 sequence commands, a foreign pulse of 1 or 2 ticks at any moment | 3.3 million |
| `link_own` | Are all repetitions sent, and echoed once, also when `MCR` is written by two at a time and the counter wraps? | 3 commands, up to 2 repetitions, back to back, queries; a bus of its own; a wrap at any tick of the first 15, or never; `McrAtomic = FALSE` | 463 thousand |
| `link_rough` | Does the receiver always have an event to wait for? Are reports clean? | a host that does not wait, wrong commands, bus low at boot, glitch, short, failure; `RxPrompt = FALSE` | 3.7 million |
| `serial_line` | Is each complete line carried out once, as the manual says? | 18 lines on both sides of the limits, buffers of 6 cells, 3 lines, each broken off anywhere | 820 thousand |
| `bits` | Do encoder and decoder agree, in microseconds? | all 511 frames of up to 8 bits, 5 of 32, edges off by 41 us either way; 50 sequences: those of `test_20_timing.py` and periods at their limits; series of 4 | 38 thousand |

`TxSpec` and `AdapterSpec` as properties are refinements: each step of the composition is a step of the specification,
or leaves its variables alone.  So what is proved of `TxSpec` holds for the firmware as long as it keeps the contract.

Why the bounds are enough.  The driver keeps one frame, one waiting flag and one pending bit per kind of event, so two
commands and two foreign pulses reach a disturbance in each of its states; the lows and gaps of `link_rough` lie on both
sides of the stop condition, of settling times and of the bus failure.  Frames have no data bit, or two, which reaches
each status; an array of 3 to 7 places is reached by each limit of the 67 in the code.  The report queue has 1 or 2
places instead of 5, which only makes it easier to overflow.  A buffer of 6 cells is filled by 18 lines as one of 20
characters is by text; with 3 lines each buffer is used twice.  An encoded bit depends on the level of the one before,
and a phase on its parity: 8 bits contain each combination many times, the frames of 32 reach the end of the array.

Where the main task is interrupted (`MCDaliLink`).  `AnyPlace` is everywhere.  `SteadyGaps` leaves out the two places in
a gap between frames at which the code acts upon what it has read before (`gap`: between lines 308 and 313, `arm`:
between 320 and 324); `SteadyStart` also those between a decision and its start; `SteadyWait` leaves out `gap`, `arm`
and the place before `transmission_is_waiting` is set.  The findings and the list below say what happens at the places a
run leaves out, so each exclusion is a disagreement shown elsewhere, not a hope.

*Fairness.* `FairSpec` of `DaliLink` assumes weak fairness of `Progress`: the firmware and the clock do not stop while
they have something to do; that of `SerialLine` assumes it of the serial task.  It is the scheduler's guarantee that a
ready task runs when no task of higher priority does, and that an enabled interrupt is served.  Nothing is assumed of
the host and of other devices: they may stop at any time, also in the middle of a line.

Deadlock is checked in all runs of `DaliLink` and `DaliTx`: the clock can always tick unless an assertion of the
firmware fails.  `SerialLine` and `DaliBits` have no clock and stop when the host has nothing more to send.

### Runs that fail, and what they show

| Run | Property | What happens |
|---|---|---|
| `find_query_twice` | `QueryAnswered` | the second copy of a query disables the timeout, nothing arms it again |
| `find_early_start` | `SettlingRespected` | a query timeout ends the settling time early: a frame of priority 4 follows the query at once |
| `find_lost_wakeup` | `AllSent` | a period match in the middle of `rx_schedule_transmission` is lost |
| `find_silent_reset` | `IdleIsSilent` | `X`, or a frame that waited, starts between the idle test of `tx_reset` and its `index_next = 0`: the timer runs, the bus is low, and the transmitter counts as idle |
| `find_replayed_line` | `AsAsked` | an end of line behind a `?` carries out the letter of an older line: after `YFF` it sends a backward frame 00 |

The passing runs exclude what triggers them by a smaller choice of frames or lines, or by a switch, and `PROJECT.json`
quotes what the code is compared with.

Relatives of these are found by other constants, and are the reason why the passing runs are not larger.  In those about
`AllSent` a transmission stays stuck until another device happens to send.

*A frame that waits, and tasks that interrupt each other.*

- A frame that waits counts as idle for `dali_101_tx_is_idle`, which its comment describes as "active or pending"
  (`dali_101.h:101`); with `HostWaits = FALSE` the next command overwrites it, so `AllSent` and `AdapterSpec` fail.
- `BusReleased` and `IdleIsSilent` with a host that does not wait, or with `X` at any moment: a start between test and
  assignment of `tx_reset` (`find_silent_reset`), or while the array is being filled, plays what is half written; a
  start in the middle of the building of a frame leaves the pin low, as the array ends before its next count.
- `LinkTypeOK` with an `N` between test and write of `add_signal_phase` in the main task (`dali_101_tx.c:50`, `:66`):
  the last place is taken twice, the count is written behind the array, where `index_next` is.  This and the items above
  are why the theorems about the composition assume a host that waits or sends no sequences.
- `CleanFrame` with `arm` in `Preemptible` (`link_polite` with `QueryAndSlow`, `ExtLows = {1, 2, 3}` and three pulses):
  the rx task disables the period match at the start of a foreign frame, and the main task, which had compared before,
  enables it (`dali_101_rx.c:323`): the match comes in the middle of that frame.
- `AllSent` with `gap` in `Preemptible`, or with priority 5 and `wait` in it: `find_lost_wakeup`.
- `SettlingRespected`, but for `Overtaken`, with `start` or `start_gap` in `Preemptible`: another device starts after
  the test of line 308 or 313, the rx task handles its edge, and the main task starts all the same (`dali_101_rx.c:309`,
  `:317`).  No test can tell such a start from one a moment earlier that collides on the bus, so the property exempts
  the instant of the edge and no more.
- `TimeoutOnlyForQuery` at the same places: a query that collides in this way is answered, for its host, by the report
  of the other frame, and the timeout follows (`link_raw` uses `SteadyStart`).
- `NeverHalted` with a host that does not wait: 5 wrong commands or `?` in a row keep the serial task printing, the main
  task starves, and with frames of others arriving the report queue overflows (3 pulses and 2 places): the assertion of
  `queue_frame` halts the firmware (`dali_101_rx.c:289`).

*Edges, matches and times.*

- `AllSent` with one pulse that is longer than a stop condition in the gap before a repetition: after the recovery
  nothing starts the waiting frame again (`dali_101_rx.c:386`).
- `AllSent` with an `X` without sequence: it leaves the receiver in `ERROR_IN_FRAME` on a quiet bus
  (`dali_101_tx.c:207`).
- `LoopbackMeansOwn` with a repeated frame and a foreign one in the gap: the transmitter is not idle while it owes a
  repetition, so the foreign frame is flagged as loopback (`dali_101_rx.c:365`).
- `AllSent` with a backward frame asked for behind a foreign frame with a bad length (`link_polite` with `ExtLows = {1,
  2}`): it is scheduled from an older frame, its match lies in the past (`dali_101_rx.c:172`).
- `AllSent` with repetitions and `RxPrompt = FALSE`: period match and first edge in one notification make a busy bus
  idle (`dali_101_rx.c:457`).
- `SettlingRespected` with a wrap of the counter in the gap: the start behind the wrap looks like one in the past, the
  frame starts at once (`dali_101_rx.c:316`).  With a wrap after 11 to 15 ticks and `wait` in `Preemptible` `AllSent`
  fails: a start in the past is not recognised as such (`link_own` uses `SteadyWait`, and wraps at any tick).
- `QueryAnswered` and `InFrameWatched` with `McrAtomic = FALSE` and frames of others: a store of the rx task undoes what
  the interrupt enabled, and the match never fires (`board/dali.c:124`).

*Lines and bits.*

- `ReadStable` with `HostPaces = FALSE`: the third line overwrites the first one while it is read, and one of two
  notifications is lost (`serial.c:347`).
- `LineTypeOK` with a line whose head fills the buffer: the terminator is at its last place, `*end_of_read++` steps over
  it and the data are read behind the end (`serial.c:163`, `:182`).  Its first part, about the interrupt, holds.
- `AsAsked` with `S` or `R` and priority 6, which the code accepts (`serial.c:93`) and the manual does not have
  (`commands.md:29`, `:42`); with a query of priority 6, which is dropped without a report (`serial.c:139`,
  `commands.md:16`); with a line that lacks its data (`S1 10` and the end of line), where the separator is the
  terminator and the data are what an older line left there; with an empty line after one that was broken off; with a
  `Y` that has no data at all, which sends a backward frame 00; with data `2^length`, which `data_illegal` accepts
  (`serial.c:147`); with a priority, a length or repetitions of 256 or more, of which the lowest byte counts
  (`serial.c:180`).
- `FitsTransmitter` with a period of less than 25 us as the first: the compensation underflows (`dali_101_tx.c:58`), the
  match lies 71 minutes ahead and the bus stays low.  An idle period of 2376 us or more is sent as 2400 and ends the
  frame like a stop condition.  `Periods` excludes both.

## 4. Proofs

All theorems hold for *every* value of the constants but for the assumptions named here and in the modules
(`TicksAssumption`, `TxAssumption`, `LinkAssumption`, `LineAssumption`, `BitsAssumption`, which TLC evaluates in the
runs).  Each invariant was checked by TLC before it was proved, but for `Encoded` and `Tracked`, which say that
functions on `Nat` exist.

### The transmitter alone

`DaliTxProofs` proves for every size of the array, set of frames, period of a sequence and stray value:

| Theorem | States |
|---|---|
| `TxTypeCorrect` | `TxSpec => []TxTypeOK` |
| `TxReleasesBus` | `TxSpec => []BusReleased` |
| `TxIdleSilent` | `TxSpec => []IdleIsSilent` |
| `TxPolarity` | `TxSpec => []PhasePolarity` |
| `TxPlaysLoaded` | `TxSpec => []PlaysWhatWasLoaded` |

All follow from `TxInvariant`, that `TxIInv` is invariant.  The promises are not inductive alone: that a match is still
to come after a phase needs the next count to lie ahead, the next count needs to be inside the array, and both are
decided when the array is filled, long before.  `TxIInv` therefore adds `Built` (the counts written increase, always),
`Playable` (they do so up to the position behind `index_max`, while running) and the state of the toggle, on which the
polarity depends.  There is one lemma per operation. A phase is added behind the last one and takes time
(`DurationsPositive`), so the counts increase whoever fills the array.  The proofs use nothing about `Ticks`.

### The firmware on its bus

These are theorems about `Spec` of `DaliLink`: every interleaving of the interrupts, the rx task, the main task and the
serial task, whatever the other devices do, with any order-preserving time scale, any sizes of array and queues, and any
number of commands.

| Theorem | States | For |
|---|---|---|
| `LinkTypeCorrect` | `Spec => []LinkTypeOK` | `HostWaits`, or no sequences |
| `ContractKept` | `Spec => TxSpec` | no sequences, `HostWaits` |
| `LinkIdleSilent` | `Spec => []IdleIsSilent` | no sequences, `HostWaits` |
| `LinkReleasesBus` | `Spec => []BusReleased` | no sequences, `HostWaits` |
| `LinkPolarity` | `Spec => []PhasePolarity` | no sequences, `HostWaits` |
| `LinkPlaysLoaded` | `Spec => []PlaysWhatWasLoaded` | no sequences, `HostWaits` |
| `RestOwes` | `Spec => []RestOwesNothing` | no sequences, `HostWaits`, no repetitions |
| `FramesSentAlone` | `Spec => [][SentAlone]_vars` | no sequences, `HostWaits`, no repetitions |
| `AdapterKept` | `Spec => Abs!SafeSpec` | no sequences, `HostWaits`, no frame of type `NONE` |
| `ReceiverWatched` | `Spec => []InFrameWatched` | `McrAtomic`, no sequences |
| `FramesClean` | `[]CleanFrame` | `McrAtomic`, no sequences, `HostWaits`; `arm` not in `Preemptible`; `StopUndisturbed` |
| `LoopbackIsOwn` | `LoopbackMeansOwn` | `McrAtomic`, no sequences, `HostWaits`; `Apart` |
| `QueueHasRoom` | `[]NeverHalted` | `McrAtomic`, no sequences, `HostWaits`; `Brief`, `Calm` |
| `WaitingWatched` | `[]PendingWatched` | as `QueueHasRoom`, and no wrap, types in `Forward`, `GapServed` |

*Types* (`DaliLinkProofs`).  The invariant is `LinkIInv`, for every set `Preemptible`.  The bounds of the array rest on
who fills it: a write is preceded by a test, and the test still holds at the write if no `N` comes in between, which is
what the assumption is for.  The bounds of the ages and of the matches depend on one another through the subtractions of
the handlers.

*The contract, and Adapter* (`DaliSendProofs`).  `OwedInv` counts: what is on the bus, waits, or is about to be
scheduled (`Begun`), and the repetitions, are never more than what is owed; a frame is taken and calculated only when
nothing is. It needs a host that waits, as a frame that waits counts as idle and would be overwritten.  From it follows
that nothing can start while `dali_101_send` is between any two of its steps that reset or fill the array, so each step
of the composition is a step of `TxNext` or leaves `tx` and `t0` alone (`ContractKept`), and all theorems of the first
section hold of the firmware.  The bus is released and an idle transmitter silent *because* of this: without the
assumption `find_silent_reset` shows the opposite.  `OwedInv` gives the refinement of `Adapter` step by step as well
(`AdapterKept`).  A query of priority 6 has type `NONE`, is taken from the queue and dropped, which `Adapter` does not
allow.  To start over a running transmission would be a stuttering step of `Adapter`; `FramesSentAlone` excludes it for
frames without repetitions.

*Nothing stays owed.* Without repetitions `PlainInv` makes the inequality of `OwedInv` an equation: what is owed is on
the bus, waits, or is about to be scheduled.  With repetitions the equation depends on the rx task being served before
the stop condition ends, which is a fact about times.

*A receiver that waits* (`DaliWatchProofs`, as all that follows).  `InFrameWatched` says that a match, an edge or a
notification is to come; it is not inductive, because *which* notification it is decides whether its handler leaves
something behind.  `WatchInv` says it for each set of bits separately: an edge that is still to be looked at has armed
the stop bit match, and whatever has disarmed the match since is handled after the edge, because the bits are handled in
the order of their values.  The match of the bus failure must not be computed into the past either, which is an
invariant about times (`StopInTime`).  Both assumptions are needed: with `McrAtomic = FALSE` a store of the rx task
undoes what the interrupt enabled, and an `X` without sequence leaves the receiver in `ERROR_IN_FRAME` on a quiet bus
(see the list of section 3).  The rx task need not keep up with the interrupts (`RxPrompt` may be `FALSE`).

The other theorems about the receiver depend on what the other devices do, so they have the form `Spec /\ []A /\
[][B]_vars => ...`, where `A` and `B` are about the level of the bus only (`Margin > 0` holds of the code, where it is
100 us):

- `StopUndisturbed`: nobody pulls the bus low in the very instant in which a stop bit match is served outside a frame;
- `Apart`: the other devices start nothing while the transmitter is not idle;
- `Brief`: nobody pulls the bus low for as long as a stop condition; `Calm`: nobody starts in the very instant in which
  a stop bit match is served, inside a frame or not.

TLC breaks each property without them, in a few variants of the runs:

- `CleanFrame` without `StopUndisturbed` (`link_rough` with `ExtLows = {4, 5}`, `ExtGaps = {4, 15}`, three pulses, no
  commands): a frame whose low lasts exactly a stop condition ends as complete; its release arms the stop bit match
  again in `INTER_FRAME_IDLE`; another device pulls the bus low in the instant that match fires, which is taken for a
  bus in status `LOW` with the period match armed.  A bus failure follows, and its period match sets `IDLE` without
  clearing the frame, so that the next good frame is reported as `SYSTEM_FAILURE` (`dali_101_rx.c:457`).
- `LoopbackMeansOwn` without `Apart`: the foreign frame in the gap before a repetition, in the list of section 3.
- `CleanFrame` with `arm` in `Preemptible`, see section 3.
- `PendingWatched` without `Brief` (pulses of up to 15 ticks) or `Calm`; with corrupt frames, whose settling time is 0;
  with a backward frame, scheduled from an older frame; with priority 5 and without `GapServed` (`Preemptible` has none
  of `gap`, `arm`, `armed` and `wait`), where `find_lost_wakeup` applies; with a wrap of the counter.
- `NeverHalted` with a host that does not wait, see section 3.

*No inherited error.* `CleanInv` follows an error code in `rx.frame`.  Every way out of a frame clears it but one: the
period match makes the receiver idle in whatever status it finds it.  So the invariant says when that match may be armed
(`PeriodAtRest`), and that an edge announced together with it is one that starts a frame (`StartSeen`).

*Room for a report.* `BusTimed` is about the times of such a bus: the stop bit match runs from the last edge, and its
notification comes when the bus has been quiet for that long.  So a frame ends a stop condition after its last edge.  A
report is taken from the queue in the instant in which it is queued, or a tick later if the main task is printing or
inside `dali_101_send` (`PrintInv`), which is before another frame can end.  A queue of one place is enough, with a host
that waits: what the serial task prints for others is not bounded.

*A transmission that waits.* `PendInv` is about the gap after a frame: while the receiver is in `INTER_FRAME_IDLE` its
period match is armed for a time that is still to come (`GapEnds`), and what `dali_101_send` leaves waiting finds that
match or a frame under way (`WaitsArmed`).  The time comes from the count of the last edge, so the invariant bounds the
age of that edge by the time the bus has been quiet (`EdgeAged`), and the settling time of the waiting frame has to
exceed a stop condition, which those of forward frames, queries and frames sent back to back do (`Forward`).

*Whose frame.* The receiver sets the loopback flag if the transmitter is not idle at the first edge.  `OwnEdge` says
that an edge seen while it is not idle is that of its own phase, and that the phase is still to end.

### The serial line

For every set of lines, complete or not, and every size of the buffers of more than 4 cells:

| Theorem | States | For |
|---|---|---|
| `LineTypeCorrect` | `Spec => []LineTypeOK`: the interrupt stays inside the buffers, and the task inside the one it was given if `AllFit` | everything |
| `ReadUndisturbed` | `Spec => ReadStable`: the line being read does not change | `HostPaces` |
| `DoesAsAsked` | `Spec => []AsAsked`: each line is carried out once, in order, as the manual says | `HostPaces`, `AllClear` |

`AllFit` says that letter, arguments and a terminator of every line fit in a buffer; without it the task may read behind
its end (section 3).  For the first theorem, `LineInv` adds that the last cells of a buffer never hold a head then
(`HeadsLow`), so the head ends early enough for the separator and the data.  For the second, `ReadInv` says who owns
which buffer: from the notification until the command is carried out, the task's buffer is not the active one, and no
second notification is pending.

`AsAsked` only compares two histories.  `AskInv` follows a line between them: how much of it is in the active buffer and
where the index is (`Incoming`), that the buffer handed over holds it (`Carries`), and how far the task has read it
(`ReadSoFar`); behind its own fields a buffer may hold anything older lines have left.  `EffectMeant` is about the
handlers: from the fields of a line they make what the manual says of it, ranges and errors included.  `AllClear`
restricts the lines to those code and manual agree about (`ClearLine`); the members of the run are such lines, and for
each conjunct that is dropped section 3 names a line that is carried out otherwise.  Priority 6 is one of them.

### Encoder and decoder

For every set of frames of up to 32 bits and of sequences of up to 67 periods, the active ones of 25 to 2423 us and the
idle ones of 1 to 2375 us (`Periods`):

| Theorem | States | For |
|---|---|---|
| `EncoderFits` | `Spec => []FitsTransmitter`: it fits, the matches increase, a frame ends idle | everything |
| `ReportsAskedPeriod` | `Spec => MeasuredAsAsked`: error reports tell the period, up to 8 us | everything |
| `FramesDecoded` | `Spec => [](IsFrame(source) => DecodesAsSent)`: the same bits, or the refusal | frames, `JitterBound` |
| `FramesTyped` | `Spec => [](IsFrame(source) => BitsTypeOK)`: never more bits than were sent | frames, `JitterBound` |
| `TwiceFlagged` | `Spec => TwiceFlag` | `JitterBound`, `SeriesOfFrames` |

*The encoder* (`DaliBitsProofs`, invariant `Encoded`).  A phase is a half bit or a full one, so which bit a phase
belongs to depends on all bits before it.  The invariant says that two functions exist, `bit` and `half`: edge `i` is at
the beginning or in the middle of `bit[i]`, the level at it is that of the bit (`Placed`), and the distance to the next
edge is what the two bits ask for (`Follows`).  The lengths are not the nominal ones: `add_signal_phase` selects the
compensation before it takes the last phase back, so a full bit has the compensation of the other level
(`PhaseReplaced`), 809 or 857 us where 857 or 809 were meant.

*The receiver* (`DaliDecodeProofs`).  `Sampled` says that the level the receiver remembers is that of the pin, whatever
is sent; so its own correction depends on the number of edges only, and what it measures of a period is what was asked
for, up to 8 us.  `Tracked` relates the receiver to `bit` and `half`: its status says where in the bit it is, and its
data are the bits up to there.  `Remembered` relates its last frame to the one that was sent.  `JitterBound` lets each
edge be off by up to 41 us: corrected half bits of 409 and 425 us remain within 325 to 508, and full bits of 793 and 873
us within 658 to 1008, though two edges may be off in opposite directions.  With 42 us a half bit could be 509 and is
refused, so the bound is the best there is.

Sequences are decoded differently for each choice of periods; that the legal ones of the tests are accepted and the
illegal ones refused is checked by TLC.  With them in a series, what they leave in the receiver depends on the sequence
too, which is why `TwiceFlagged` is about frames, and the run has a refused sequence between them.

### What is only model-checked

- Liveness: `AllSent`, `QueryAnswered`, `AllHandled`, and the fairness of `Adapter` in `AdapterSpec`.
- `SettlingRespected`, `TimeoutOnlyForQuery`, `EchoedOnce`, and `RestOwesNothing` with repetitions: each depends on when
  the tasks are served, between all steps of `dali_101_send`.
- `PendingWatched` with backward frames, where the other devices keep to frames: `link_polite`.
- Raw sequences, as far as they keep the contract: `link_raw`.
- A register `MCR` written by two at a time, and a counter that wraps: `link_own`.
- `DecodesAsSent`, `BitsTypeOK` and `TwiceFlag` with the raw sequences of the tests.

That phases last longer than 0 is an assumption on `TxFrames` in `DaliTx`, where a frame is just these lengths;
`EncoderFits` is why real frames satisfy it.

## 5. Not modelled

- Bits and time stamps in the composition: nothing in the scheduling of `DaliRx` depends on data.
- The parsing of numbers character by character; a number with a wrong character ends early, as `strtoul` has it.
- The text of reports, and that two tasks print it without a lock.
- LEDs: their port register is shared without a lock between tasks, so a light may stay on until its next flash, but
  neither bus nor host notices.
- Clock and pin set-up, which is straight-line; fault hooks, which are endless loops; stubs of the C library; the
  FreeRTOS kernel and its configuration, which are modelled by how the firmware uses them.

## 6. Plan

Done: `DaliTiming`, `DaliTx`, `DaliRx` with the shared register and the wrap, `DaliLink` with `dali_101_send` in the
steps between which it may be interrupted, `Adapter` and the refinement, `DaliBits`, `SerialLine`; the proofs of section
4. What is left are proofs:

1. `TimeoutOnlyForQuery`, for a host that waits: a report that is still printed when a query starts has to be gone
   before the query ends.
2. `SettlingRespected`, from `BusTimed`, `PendInv` and what the period match stands for in a gap.
3. `RestOwesNothing` and `EchoedOnce` with repetitions: the rx task has to be served before the stop condition ends.
