------------------------------ MODULE DaliLink ------------------------------
(***************************************************************************)
(* The DALI adapter on its bus: the driver (DaliTx, DaliRx) with the       *)
(* interrupts and tasks that run it, the host that sends commands over the *)
(* serial line, and the other devices on the bus.                          *)
(*                                                                         *)
(* Time passes in ticks.  Whatever is due, an interrupt, a notified task,  *)
(* the loop of the main task, happens before time passes, but several such *)
(* steps may fall on one instant and then come in any order: an instant    *)
(* stands for all the microseconds between two ticks.                      *)
(***************************************************************************)
EXTENDS DaliRx

CONSTANTS
  ExtLows,      \* how long another device may pull the bus low, in ticks
  BootLows,     \* how long the bus may still be low when the adapter boots
  ExtGaps,      \* how long it finds the bus quiet when it starts
  ExtPulses,    \* bound: number of times other devices pull the bus low
  MaxCommands,  \* bound: number of frames the host asks for
  MaxSequence,  \* bound: number of raw sequence commands of the host
  QueueLength,  \* SERIAL_QUEUE_LENGTH
  HostWaits,    \* the host waits until a frame was sent and answered
  Preemptible,  \* the places of dali_101_send where others may interrupt it
  RxPrompt      \* the rx task serves each interrupt before the next one

\* Places of the main task, named for what it does next.  Until the frame is
\* loaded dali_101_send calculates, then it calls rx_schedule_transmission.
Calculating == {"reset", "forget", "empty", "check", "write", "load"}
Scheduling  == {"schedule", "test", "start", "clear",
                "gap", "start_gap", "arm", "armed", "wait"}
Places      == Calculating \cup Scheduling

ASSUME LinkAssumption ==
  /\ ExtLows \subseteq 1..Far /\ BootLows \subseteq 1..Far
  /\ ExtGaps \subseteq 0..Far
  /\ ExtPulses \in Nat /\ MaxCommands \in Nat /\ MaxSequence \in Nat
  /\ RxQueueSize \in Nat \ {0} /\ QueueLength \in Nat \ {0}
  /\ {HostWaits, RxPrompt, McrAtomic} \subseteq BOOLEAN
  /\ Preemptible \subseteq Places
  /\ WrapIns # {} /\ WrapIns \subseteq 0..Far \cup {Never}

VARIABLES
  ext,   \* the other devices: their pin, ticks to its release, pulses left
  bus,   \* an edge waits to be captured; ticks since the last edge
  main,  \* the main task: see Init
  cmds,  \* the queue of frames from the serial task to the main task
  ser,   \* the serial task: where it is, and the period or ticks it needs there
  host,  \* commands the host may still send
  h      \* history: see Init

linkVars == <<ext, bus, main, cmds, ser, host, h>>
vars == <<txVars, rxVars, linkVars>>

Doing(place, arg) == [pc |-> place, arg |-> arg]
NothingToDo == Doing("idle", 0)
SerialIdle == ser.pc = "idle"
Printing   == ser.pc = "print"

Pin == t0.pin \/ ext.pin

NoCommand == [type |-> "NONE", phases |-> <<>>, repeat |-> 0]

Init ==
  /\ TxInit
  /\ \E low \in BootLows \cup {Off} :
       ext = [pin |-> low # Off, in |-> low, left |-> ExtPulses]
  /\ RxInit(ext.pin)
  /\ bus = [edge |-> FALSE, quiet |-> Far]
  /\ main = [pc    |-> "loop",
             frame |-> NoCommand,  \* the frame it sends
             phase |-> 0,          \* phases of it that were written
             start |-> Off,        \* ticks to scheduled_start, to be armed
             late  |-> FALSE]      \* delayed by a tick
  /\ cmds = <<>>
  /\ ser = NothingToDo
  /\ host = [commands |-> MaxCommands, sequence |-> MaxSequence]
  /\ h = [owed  |-> 0,      \* frames loaded and not yet sent
          query |-> FALSE,  \* what was loaded last is a query
          asked |-> FALSE,  \* a query was sent and is not yet answered
          echo  |-> 0]      \* frames sent less those reported as loopback

\* Every change of the bus level is an edge the capture unit sees.
BusFollows ==
  bus' = IF Pin' = Pin THEN bus ELSE [edge |-> TRUE, quiet |-> 0]

\* Tasks and interrupts run while the main task is inside dali_101_send only
\* where the model lets them interrupt it.
Interruptible == main.pc \in Preemptible \cup {"loop", "print"}
Undisturbed   == ~rx.halted /\ Interruptible

\* Work the interrupts have announced to the rx task, the highest in priority:
\* the serial task and, after it, the main task run when there is none.
Announced == task.notify \cup task.work
TasksWait == Announced = {} /\ Stored

-----------------------------------------------------------------------------
(* Interrupts and the rx task.                                             *)

TxIsrPhase ==
  /\ Undisturbed
  /\ TxPhase
  /\ UNCHANGED <<rxVars, ext, main, cmds, ser, host, h>>
  /\ BusFollows

\* dali_tx_irq_callback at the end of a transmission.  One more frame is sent,
\* and if it was a query the host is waiting for an answer.
TxIsrEnd ==
  /\ Undisturbed
  /\ TxEnd
  /\ IF tx.is_query THEN ScheduleQuery ELSE UNCHANGED t1
  /\ UNCHANGED <<wrap, mcr>>
  /\ h' = [h EXCEPT !.owed = IF @ > 0 THEN @ - 1 ELSE 0,
                    !.asked = @ \/ h.query,
                    !.echo = @ + 1]
  /\ UNCHANGED <<rx, age, task, rxq, ext, main, cmds, ser, host>>
  /\ BusFollows

RxIsrReady ==
  Undisturbed /\ mcr["irq"] = {} /\ (RxPrompt => Stored /\ Announced = {})

RxIsrCapture ==
  /\ RxIsrReady
  /\ bus.edge
  /\ IsrCapture
  /\ bus' = [bus EXCEPT !.edge = FALSE]
  /\ UNCHANGED <<ext, main, cmds, ser, host, h>>

RxIsrMatch ==
  /\ RxIsrReady
  /\ IsrStop \/ IsrPeriod \/ IsrQuery
  /\ UNCHANGED linkVars

\* The store that ends a change of MCR.
McrStore ==
  /\ ~rx.halted
  /\ \/ Interruptible /\ Store("irq")
     \/ Interruptible /\ mcr["irq"] = {} /\ Store("rx")
     \/ TasksWait /\ SerialIdle /\ Store("main")
  /\ UNCHANGED <<txVars, rx, wrap, age, task, rxq, linkVars>>

RxTaskStep ==
  /\ Undisturbed
  /\ RxTask(Pin)
  /\ UNCHANGED <<ext, main, cmds, ser, host, h>>
  /\ BusFollows

-----------------------------------------------------------------------------
(* The main task (main.c, dali_101_send).                                  *)

At(pc) == ~rx.halted /\ TasksWait /\ SerialIdle /\ main.pc = pc
Goto(pc) == main' = [main EXCEPT !.pc = pc]
GoBack   == main' = [main EXCEPT !.pc = "loop", !.phase = 0, !.late = FALSE]

\* Faulty variant: reports are printed only while nothing is sent.
CanPrintIdle == TxIsIdle /\ rxq # <<>>

CanPrint == rxq # <<>>

\* dali_101_get: the report at the head of the queue is printed to the host.
\* The task is busy until the characters are on the line.
MainPrint ==
  /\ At("loop") /\ CanPrint
  /\ rxq' = Tail(rxq)
  /\ h' = IF Head(rxq).loopback THEN [h EXCEPT !.echo = @ - 1]
          ELSE [h EXCEPT !.asked = FALSE]
  /\ Goto("print")
  /\ UNCHANGED <<txVars, rx, t1, wrap, mcr, age, task, ext, bus, cmds, ser, host>>

MainPrinted ==
  /\ At("print") /\ main.late
  /\ GoBack
  /\ UNCHANGED <<txVars, rxVars, ext, bus, cmds, ser, host, h>>

\* An idle transmitter takes the next command.
CanTake == TxIsIdle /\ cmds # <<>>
MainTake ==
  /\ At("loop") /\ CanTake
  /\ cmds' = Tail(cmds)
  /\ main' = [main EXCEPT !.pc = IF Head(cmds).type = "NONE" THEN "loop" ELSE "reset",
                          !.frame = Head(cmds)]
  /\ UNCHANGED <<txVars, rxVars, ext, bus, ser, host, h>>

\* tx_reset
MainReset ==
  /\ \/ At("reset")  /\ TxSilence /\ Goto("forget")
     \/ At("forget") /\ TxForget  /\ Goto("empty")
     \/ At("empty")  /\ TxEmpty(tx.repeat) /\ Goto("check")
  /\ UNCHANGED <<rxVars, ext, cmds, ser, host, h>>
  /\ BusFollows

\* calculate_counts, phase by phase; it gives up when the array is full.
MainCheck ==
  /\ At("check")
  /\ IF ArrayFull
     THEN queue_error_frame("CAN_NOT_PROCESS") /\ GoBack
     ELSE UNCHANGED <<rx, rxq>> /\ Goto("write")
  /\ UNCHANGED <<txVars, t1, wrap, mcr, age, task, ext, bus, cmds, ser, host, h>>

MainWrite ==
  /\ At("write")
  /\ TxAdd(main.frame.phases[main.phase + 1])
  /\ main' = [main EXCEPT !.phase = @ + 1,
                          !.pc = IF main.phase + 1 = Len(main.frame.phases) THEN "load"
                                 ELSE "check"]
  /\ UNCHANGED <<rxVars, ext, bus, cmds, ser, host, h>>

\* The flags of the frame
MainLoad ==
  /\ At("load")
  /\ TxLoad(main.frame)
  /\ main' = [main EXCEPT !.pc = "schedule", !.phase = 0]
  /\ h' = [h EXCEPT !.owed = @ + 1 + main.frame.repeat,
                    !.query = main.frame.type \in QueryTypes]
  /\ UNCHANGED <<rxVars, ext, bus, cmds, ser, host>>

\* rx_schedule_transmission: the type, the test for an idle bus ...
MainType ==
  /\ At("schedule") /\ Goto("test")
  /\ rx' = [rx EXCEPT !.type = main.frame.type]
  /\ UNCHANGED <<txVars, t1, wrap, mcr, age, task, rxq, ext, bus, cmds, ser, host, h>>

MainTest ==
  /\ At("test") /\ Goto(IF rx.status = "IDLE" THEN "start" ELSE "gap")
  /\ UNCHANGED <<txVars, rxVars, ext, bus, cmds, ser, host, h>>

\* ... what to do in a gap between two frames ...
MainGap ==
  /\ At("gap")
  /\ \/ rx.status # "INTER_FRAME_IDLE" /\ Goto("wait")
     \/ /\ rx.status = "INTER_FRAME_IDLE"
        /\ \E now \in DueInGap(main.frame.type) :
             IF now THEN Goto("start_gap")
             ELSE IF DueBeforeGapEnds(main.frame.type)
             THEN main' = [main EXCEPT !.pc = "arm",
                           !.start = Match(PeriodIn(StartIn(main.frame.type, age.full)))]
             ELSE Goto("wait")
  /\ UNCHANGED <<txVars, rxVars, ext, bus, cmds, ser, host, h>>

\* ... the start, after which transmission_is_waiting is cleared if the bus was
\* idle and left alone in a gap ...
MainStart ==
  /\ \/ At("start") /\ Goto("clear")
     \/ At("start_gap") /\ GoBack
  /\ TxStart
  /\ UNCHANGED <<rxVars, ext, cmds, ser, host, h>>
  /\ BusFollows

\* ... or the match that is brought forward, after which the frame waits.
MainArm ==
  /\ At("arm")
  /\ Update("main", [t1 EXCEPT !.period = main.start])
  /\ main' = [main EXCEPT !.pc = "armed", !.start = Off]
  /\ UNCHANGED <<txVars, rx, wrap, age, task, rxq, ext, bus, cmds, ser, host, h>>

MainWait ==
  /\ At("armed") \/ At("wait") \/ At("clear")
  /\ mcr["main"] = {}
  /\ rx' = [rx EXCEPT !.waiting = main.pc # "clear"]
  /\ GoBack
  /\ UNCHANGED <<txVars, t1, wrap, mcr, age, task, rxq, ext, bus, cmds, ser, host, h>>

MainStep ==
  \/ MainPrint \/ MainPrinted
  \/ MainTake \/ MainReset \/ MainCheck \/ MainWrite \/ MainLoad
  \/ MainType \/ MainTest \/ MainGap \/ MainStart \/ MainArm \/ MainWait

-----------------------------------------------------------------------------
(* The serial task and its host.                                           *)

SerialReady == Undisturbed /\ TasksWait

\* What the serial task prints keeps it busy, and the main task from running: an
\* error report for about half a bit, the header for three times as long.
Prints(ticks) == ser' = Doing("print", ticks)

\* The previous frame and its repetitions have been sent.
Settled == h.owed = 0 /\ cmds = <<>> /\ main.pc = "loop"

\* Faulty variant: no check for a full queue.
EnqueuedAlways(f) == Append(cmds, f)

\* queue_frame of serial.c drops the frame when the queue is full.
Enqueued(f) == IF Len(cmds) < QueueLength THEN Append(cmds, f) ELSE cmds

\* S, R, Q, Y and I commands.
HostCommand ==
  /\ SerialReady
  /\ host.commands > 0 /\ SerialIdle
  /\ HostWaits => Settled /\ ~h.asked
  /\ \E f \in TxFrames : cmds' = Enqueued(f)
  /\ IF Len(cmds) < QueueLength THEN UNCHANGED ser ELSE Prints(1)
  /\ host' = [host EXCEPT !.commands = @ - 1]
  /\ UNCHANGED <<txVars, rxVars, ext, bus, main, h>>

\* A command with an error in its parameters, or a request for the header.  A
\* host that waits makes no mistakes and knows the header.
HostPrint ==
  /\ SerialReady
  /\ ~HostWaits /\ host.commands > 0 /\ SerialIdle
  /\ \E ticks \in {1, 3} : Prints(ticks)
  /\ host' = [host EXCEPT !.commands = @ - 1]
  /\ UNCHANGED <<txVars, rxVars, ext, bus, main, cmds, h>>

SequenceCommand ==
  /\ SerialReady
  /\ HostWaits => Settled /\ TxIsIdle /\ ~h.asked
  /\ host.sequence > 0 /\ SerialIdle
  /\ host' = [host EXCEPT !.sequence = @ - 1]

\* W: start_sequence clears the old sequence in the steps of tx_reset ...
SerialStart ==
  /\ SequenceCommand
  /\ TxSilence
  /\ \E p \in SeqPeriods : ser' = Doing("forget", p)
  /\ UNCHANGED <<rxVars, ext, main, cmds, h>>
  /\ BusFollows

SerialReset ==
  /\ SerialReady
  /\ \/ ser.pc = "forget" /\ TxForget /\ ser' = [ser EXCEPT !.pc = "empty"]
     \/ ser.pc = "empty" /\ TxEmpty(0) /\ ser' = [ser EXCEPT !.pc = "add"]
  /\ UNCHANGED <<rxVars, ext, bus, main, cmds, host, h>>

\* ... and adds the first period, N adds another one.  No task with a lower
\* priority gets between check and write of the serial task.
AddPeriod(p) ==
  IF ArrayFull THEN queue_error_frame("CAN_NOT_PROCESS") /\ UNCHANGED txVars
  ELSE TxAdd(p) /\ UNCHANGED <<rx, rxq>>

SerialAdd ==
  /\ SerialReady
  /\ ser.pc = "add" /\ AddPeriod(ser.arg)
  /\ ser' = NothingToDo
  /\ UNCHANGED <<t1, wrap, mcr, age, task, ext, bus, main, cmds, host, h>>

SerialNext ==
  /\ SequenceCommand
  /\ \E p \in SeqPeriods : AddPeriod(p)
  /\ UNCHANGED <<t1, wrap, mcr, age, task, ext, bus, main, cmds, ser, h>>

\* X: the check, and the start.
SerialExecute ==
  /\ SequenceCommand
  /\ IF SequenceRefused THEN queue_error_frame("CAN_NOT_PROCESS") /\ UNCHANGED ser
     ELSE ser' = Doing("execute", 0) /\ UNCHANGED <<rx, rxq>>
  /\ UNCHANGED <<txVars, t1, wrap, mcr, age, task, ext, bus, main, cmds, h>>

SerialBegin ==
  /\ SerialReady
  /\ ser.pc = "execute" /\ ser' = NothingToDo
  /\ TxSequenceExecute
  /\ h' = [h EXCEPT !.query = FALSE]
  /\ UNCHANGED <<rxVars, ext, main, cmds, host>>
  /\ BusFollows

SerialStep == SerialReset \/ SerialAdd \/ SerialBegin

-----------------------------------------------------------------------------
(* The other devices, and time.                                            *)

\* Another device finds the bus quiet and pulls it low for d ticks.
ExtStart ==
  /\ Undisturbed
  /\ ext.left > 0 /\ ~Pin /\ bus.quiet \in ExtGaps
  /\ \E d \in ExtLows :
       ext' = [pin |-> TRUE, in |-> d, left |-> ext.left - 1]
  /\ UNCHANGED <<txVars, rxVars, main, cmds, ser, host, h>>
  /\ BusFollows

ExtEnd ==
  /\ Undisturbed
  /\ ext.in = 0
  /\ ext' = [ext EXCEPT !.pin = FALSE, !.in = Off]
  /\ UNCHANGED <<txVars, rxVars, main, cmds, ser, host, h>>
  /\ BusFollows

\* What the main task does takes no time, but a tick may pass while it prints,
\* and one while dali_101_send calculates.
MainDue ==
  /\ ~Printing
  /\ \/ main.pc = "loop" /\ (CanPrint \/ CanTake)
     \/ main.pc # "loop" /\ main.late
     \/ main.pc \in Scheduling
     \/ ~Interruptible

Due ==
  \/ ~RxRested
  \/ 0 \in {t0.in, ext.in}
  \/ bus.edge
  \/ ~SerialIdle /\ ~Printing
  \/ MainDue

Tick ==
  /\ ~rx.halted /\ ~Due
  /\ TxTick
  /\ RxElapsed
  /\ ext' = [ext EXCEPT !.in = Sooner(@)]
  /\ bus' = [bus EXCEPT !.quiet = Older(@)]
  /\ main' = [main EXCEPT !.late = main.pc # "loop" /\ (@ \/ SerialIdle),
                          !.start = Approach(@)]
  /\ ser' = IF ser.arg > 1 THEN [ser EXCEPT !.arg = @ - 1] ELSE NothingToDo
  /\ UNCHANGED <<task, rxq, cmds, host, h>>

-----------------------------------------------------------------------------
\* What the firmware and the clock do, as opposed to the host and the devices
\* that start something new.
Progress ==
  \/ TxIsrPhase \/ TxIsrEnd
  \/ RxIsrCapture \/ RxIsrMatch \/ RxTaskStep \/ McrStore
  \/ MainStep
  \/ SerialStep
  \/ ExtEnd
  \/ Tick

Next ==
  \/ Progress
  \/ HostCommand \/ HostPrint
  \/ SerialStart \/ SerialNext \/ SerialExecute
  \/ ExtStart

Spec == Init /\ [][Next]_vars
FairSpec == Spec /\ WF_vars(Progress)

-----------------------------------------------------------------------------
(* Properties.                                                             *)

Matches == [stop : -1..Far, period : -1..Far, query : -1..Far]

RxTypeOK ==
  /\ rx \in [status : RxStatus, frame : Reports, waiting : BOOLEAN,
             type : FrameTypes, idle_in : -1..Far, halted : BOOLEAN]
  /\ t1 \in Matches
  /\ wrap \in -Far - 1..Never
  /\ \A w \in Writers : mcr[w] \subseteq Matches /\ Cardinality(mcr[w]) <= 1
  /\ age \in [edge : 0..Far, last : 0..Far, full : 0..Far]
  /\ task \in [notify : SUBSET Notifications, work : SUBSET (Notifications \cup {AND_PERIOD})]
  /\ rxq \in Seq(Reports) /\ Len(rxq) <= RxQueueSize

\* The types of every variable of the composition.
LinkTypeOK ==
  /\ TxTypeOK /\ RxTypeOK
  /\ ext \in [pin : BOOLEAN, in : -1..Far, left : 0..ExtPulses]
  /\ bus \in [edge : BOOLEAN, quiet : 0..Far]
  /\ main.pc \in {"loop", "print"} \cup Places
  /\ main.frame \in TxFrames \cup {NoCommand}
  /\ main.phase \in 0..Len(main.frame.phases)
  /\ main.start \in -1..Far /\ main.late \in BOOLEAN
  /\ cmds \in Seq(TxFrames) /\ Len(cmds) <= QueueLength
  /\ ser \in [pc : {"idle", "print", "forget", "empty", "add", "execute"}, arg : Nat]
  /\ host \in [commands : 0..MaxCommands, sequence : 0..MaxSequence]
  /\ h \in [owed : Nat, query : BOOLEAN, asked : BOOLEAN, echo : Int]

\* A receiver inside a frame always has an event to come that ends it: the
\* stop bit match is armed, or an edge or a notification is on its way.
\* Three handlers disarm the match or change the status on their own
\* (dali_rx_irq_capture_callback, ..._stopbit_match_callback and the
\* period callback, which disables the wrong match).
InFrameWatched ==
  rx.status \in InFrame \cup {"ERROR_IN_FRAME", "LOW"} =>
    \/ t1.stop # Off
    \/ bus.edge
    \/ Announced # {}

\* The assertion of queue_frame never fails: the main task, which has the
\* lowest priority, has printed a report before the queue of the receiver is
\* full and another frame ends, although printing takes time and the serial
\* task prints its own errors first.
NeverHalted == ~rx.halted

\* A transmission that waits is sure to be looked at again: the period match
\* is armed, or the receiver is inside a frame whose end will arm it, or an
\* announced event will.  (rx_schedule_transmission, process_pending_frame,
\* process_priority_timeout, manage_tx.)
PendingWatched ==
  rx.waiting =>
    \/ t1.period # Off
    \/ rx.status \notin Resting
    \/ bus.edge
    \/ Announced # {}

\* A frame that decodes is reported with status OK, whatever errors were
\* reported before it: rx.frame.status is clean whenever a frame is received.
CleanFrame == rx.status \in InFrame => rx.frame.code = "OK"

\* A transmitter at rest owes the bus nothing: every frame taken from the
\* queue, and each of its repetitions, was sent before the transmitter became
\* idle with nothing pending (manage_tx and dali_tx_irq_callback race for
\* the last repetition).
AtRest ==
  /\ main.pc = "loop" /\ TxIsIdle /\ ~rx.waiting
  /\ ~bus.edge /\ Announced = {}
RestOwesNothing == AtRest => h.owed = 0

\* The host reads back what it sends: when the adapter is at rest and no frame
\* is being received, exactly one loopback report was printed for every frame
\* sent, repetitions included.
EchoedOnce == AtRest /\ rx.status \in Resting /\ rxq = <<>> => h.echo = 0

\* An edge on the bus the rx task has not been able to look at yet.
EdgeUnseen == bus.edge \/ NOTIFY_CAPTURE \in Announced

\* Another device starts between the test and the start in
\* rx_schedule_transmission: the start comes in the same instant as its edge.
Overtaken == main.pc \in {"start", "start_gap"} /\ bus.quiet = 0

\* A frame starts only after the bus has been quiet for the settling time of
\* its type, unless another device starts in that very instant and the code
\* that decides cannot know, or has decided before.  Raw sequences start when
\* the host says so.
Starts == ~t0.pin /\ t0'.pin /\ tx'.index_next = 1 /\ ser.pc # "execute"
SettlingRespected ==
  [][Starts => bus.quiet >= Settling(rx'.type) \/ EdgeUnseen \/ Overtaken]_vars

\* "loopback: frame was received while transmission was active": a frame is
\* flagged as loopback exactly if this adapter sends its start bit.
LoopbackMeansOwn ==
  [][rx'.status = "START_BIT_START" /\ rx.status \in Resting
       => rx'.frame.loopback = t0.pin]_vars

\* The host is told of a missing answer only for a query it has an answer
\* outstanding for, and at most once.
TimeoutOnlyForQuery ==
  [][Len(rxq') > Len(rxq) /\ rxq'[Len(rxq')].code = "TIMEOUT" => h.asked]_vars

\* The adapter as its host sees it.  The frame dali_101_send is about to load
\* still counts as one in the queue.
Abs == INSTANCE Adapter WITH
  Frames  <- TxFrames,
  Queries <- QueryTypes,
  queue   <- (IF main.pc \in Calculating THEN <<main.frame>> ELSE <<>>) \o cmds,
  owed    <- h.owed,
  query   <- h.query,
  sending <- t0.in # Off,
  asked   <- h.asked

\* The firmware implements the adapter, whatever a host that waits and the
\* other devices do: frames are sent in the order in which they were accepted
\* and one at a time, none is cut short, overwritten or sent once too often.
AdapterSpec == Abs!Spec

\* Every frame the host asks for is sent, with all its repetitions, and the
\* host is not kept waiting for ever to send the next one.
AllSent == []<>Settled

\* Every query that was sent is answered: by a frame, an error or a timeout.
QueryAnswered == h.asked ~> ~h.asked
=============================================================================
