------------------------------- MODULE DaliRx -------------------------------
(***************************************************************************)
(* The receiver of the DALI driver: struct rx of dali_101_rx.c, timer      *)
(* TMR32B1 with its capture and its three match interrupts, the rx task    *)
(* they notify and the queue of reports the task fills.  The receiver also *)
(* decides when the transmitter may start, so its handlers call into       *)
(* DaliTx.                                                                 *)
(*                                                                         *)
(* The module defines the operations; DaliLink adds the bus, the other     *)
(* tasks and the next-state relation.  A handler that samples the pin has  *)
(* the level as a parameter; TRUE is the active level (bus low).           *)
(***************************************************************************)
EXTENDS DaliTx

CONSTANTS
  RxQueueSize,  \* QUEUE_SIZE
  WrapIns,      \* ticks after the start at which TMR32B1 may wrap around
  McrAtomic     \* nothing comes between load and store of the register MCR

VARIABLES
  rx,    \* struct _rx without the counts: see RxInit
  t1,    \* TMR32B1: ticks to the stop bit, period and query match
  wrap,  \* TMR32B1: ticks to the wrap of its counter, Never if out of sight
  mcr,   \* the values of MCR somebody loaded, changed and has yet to store
  age,   \* ticks since rx.edge_count, last_edge_count, last_full_frame_count
  task,  \* notification bits pending, and taken but not yet handled
  rxq    \* the queue of reports, each a status code and a loopback flag

rxVars == <<rx, t1, wrap, mcr, age, task, rxq>>

\* No time the code compares lies as far away as this.
Never == Far + 1

\* Who changes MCR: the interrupt of TMR32B1, the rx task, the main task.
Writers == {"irq", "rx", "main"}

\* Notification bits.  The rx task uses 0 to remember that the second of two
\* changes of MCR is still to be made.
AND_PERIOD      == 0
NOTIFY_CAPTURE  == 1
NOTIFY_MATCH    == 2
NOTIFY_PRIORITY == 4
NOTIFY_QUERY    == 8
Notifications   == {NOTIFY_CAPTURE, NOTIFY_MATCH, NOTIFY_PRIORITY, NOTIFY_QUERY}

InFrame  == {"START_BIT_START", "START_BIT_INSIDE", "DATA_BIT_START",
             "DATA_BIT_INSIDE"}
Resting  == {"IDLE", "INTER_FRAME_IDLE"}
BusDown  == {"LOW", "FAILURE"}
RxStatus == InFrame \cup Resting \cup BusDown \cup {"ERROR_IN_FRAME"}

NoFrame == [code |-> "OK", loopback |-> FALSE]
Reports == [code : StatusCodes, loopback : BOOLEAN]

\* dali_rx_init, with the level of the pin
RxInit(pin) ==
  /\ rx = [status  |-> IF pin THEN "FAILURE" ELSE "IDLE",
           frame   |-> NoFrame,
           waiting |-> FALSE,   \* transmission_is_waiting
           type    |-> "NONE",  \* transmission_frame_type
           idle_in |-> Off,     \* ticks to end_inter_frame_idle
           halted  |-> FALSE]   \* a configASSERT has failed
  /\ t1 = [stop |-> Off, period |-> Off, query |-> Off]
  /\ wrap \in WrapIns
  /\ mcr = [w \in Writers |-> {}]
  /\ age = [edge |-> 0, last |-> 0, full |-> 0]
  /\ task = [notify |-> {}, work |-> {}]
  /\ rxq = <<>>

-----------------------------------------------------------------------------
(* Pieces shared by the handlers.                                          *)

\* xQueueSendToBack with no wait, the result ignored
Queued(report) == IF Len(rxq) < RxQueueSize THEN Append(rxq, report) ELSE rxq

\* queue_error_frame, as called in status s
ErrorReport(code) == [rx.frame EXCEPT !.code = code]
queue_error_frame(code) ==
  IF rx.status = "ERROR_IN_FRAME" THEN UNCHANGED <<rx, rxq>>
  ELSE /\ rx'  = [rx EXCEPT !.frame = ErrorReport(code),
                            !.status = "ERROR_IN_FRAME"]
       /\ rxq' = Queued(ErrorReport(code))

\* board_dali_rx_..._match_enable loads MCR, changes its bit and stores the
\* result: v is what the writer w is going to store.
Update(w, v) ==
  /\ t1' = v
  /\ mcr' = IF McrAtomic THEN mcr ELSE [mcr EXCEPT ![w] = {v}]

\* The store undoes what interrupts did to the other bits meanwhile: a match
\* enabled since is disabled, one disabled since is enabled if still to come.
Overwritten(old) ==
  [m \in DOMAIN t1 |-> IF old[m] = Off THEN Off
                       ELSE IF t1[m] = Off /\ old[m] > 0 THEN old[m] ELSE t1[m]]

Store(w) ==
  \E v \in mcr[w] : /\ t1' = Overwritten(v)
                     /\ mcr' = [mcr EXCEPT ![w] = {}]

\* No writer with a priority above the main task is in the middle of it.
Stored == mcr["irq"] = {} /\ mcr["rx"] = {}

\* Whether the count of the timer at a, in ticks from now, is below the count
\* at b: the code compares counts, and one after the wrap is small.
CountBelow(a, b) ==
  IF (a < wrap) = (b < wrap) THEN a < b ELSE b < wrap

\* frame_start_count: ticks from now to the earliest start of a frame
StartIn(type, full) ==
  Settling(type) - (IF type = "BACKWARD" THEN full ELSE age.last)

\* A start in the past is programmed as it is (the difference of two counts
\* is unsigned in C), one that is too close is postponed to the margin.
PeriodIn(start_in) == IF start_in \in 0..Margin THEN Margin ELSE start_in
Match(in)          == IF in >= 0 THEN in ELSE Off

\* Faulty variant: the period match is not enabled.
PendingUnarmed(r, full) ==
  rx' = [r EXCEPT !.status = "INTER_FRAME_IDLE"] /\ UNCHANGED <<t1, mcr>>

\* process_pending_frame on receiver state r
Pending(r, full) ==
  LET type == IF r.waiting THEN r.type ELSE "FORWARD_5"
      in   == Match(PeriodIn(StartIn(type, full)))
  IN /\ rx' = [r EXCEPT !.status = "INTER_FRAME_IDLE", !.idle_in = in]
     /\ Update("rx", [t1 EXCEPT !.period = in])

\* manage_tx: where the receiver calls it, its status is neither IDLE nor
\* INTER_FRAME_IDLE, so that rx_schedule_transmission makes a repetition
\* wait and does nothing else.
Repeats   == ~TxIsIdle /\ tx.repeat > 0
manage_tx == IF Repeats THEN TxRepeat ELSE UNCHANGED txVars
\* Faulty variant: the repetition is counted but not scheduled.
ManagedForgets == rx
Managed   == [rx EXCEPT !.waiting = @ \/ Repeats]

-----------------------------------------------------------------------------
(* Interrupts of TMR32B1.                                                  *)

Notify(n) == task' = [task EXCEPT !.notify = @ \cup {n}]

\* Faulty variant: the stop bit match is not enabled.
IsrCaptureUnarmed ==
  /\ age' = [age EXCEPT !.edge = 0]
  /\ Notify(NOTIFY_CAPTURE)
  /\ UNCHANGED <<rx, t1, wrap, mcr, rxq, txVars>>

\* dali_rx_irq_capture_callback; the caller clears the capture flag
IsrCapture ==
  /\ age' = [age EXCEPT !.edge = 0]
  /\ Update("irq", [t1 EXCEPT !.stop = Stop])
  /\ Notify(NOTIFY_CAPTURE)
  /\ UNCHANGED <<rx, wrap, rxq, txVars>>

\* dali_rx_irq_stopbit_match_callback
IsrStop ==
  /\ t1.stop = 0
  /\ Update("irq", [t1 EXCEPT !.stop = Off])
  /\ Notify(NOTIFY_MATCH)
  /\ UNCHANGED <<rx, wrap, age, rxq, txVars>>

\* dali_rx_irq_period_match_callback disables the stop bit match; the period
\* match stays enabled, its count has passed.
IsrPeriod ==
  /\ t1.period = 0
  /\ Update("irq", [t1 EXCEPT !.period = Off, !.stop = Off])
  /\ Notify(NOTIFY_PRIORITY)
  /\ UNCHANGED <<rx, wrap, age, rxq, txVars>>

\* dali_rx_irq_query_match_callback
IsrQuery ==
  /\ t1.query = 0
  /\ Update("irq", [t1 EXCEPT !.query = Off])
  /\ Notify(NOTIFY_QUERY)
  /\ UNCHANGED <<rx, wrap, age, rxq, txVars>>

-----------------------------------------------------------------------------
(* The rx task.  It takes all pending notification bits at once and then   *)
(* handles them in the order of their values.                              *)

RxTake ==
  /\ Stored
  /\ task.work = {} /\ task.notify # {}
  /\ task' = [notify |-> {}, work |-> task.notify]
  /\ UNCHANGED <<rx, t1, wrap, mcr, age, rxq, txVars>>

Foremost(n) ==
  /\ Stored
  /\ n \in task.work
  /\ \A m \in task.work : n <= m

Serving(n) == Foremost(n) /\ task' = [task EXCEPT !.work = @ \ {n}]

\* process_capture_notification
EdgeCounted == age' = [age EXCEPT !.last = age.edge]
Captured    == Serving(NOTIFY_CAPTURE) /\ EdgeCounted

\* Faulty variant: a transmission counts as active from its second phase.
CaptureStartLate(pin) ==
  /\ Captured
  /\ rx.status \in Resting /\ pin
  /\ rx' = [rx EXCEPT !.status = "START_BIT_START",
                      !.frame.loopback = tx.index_next > 1]
  /\ Update("rx", [t1 EXCEPT !.query = Off, !.period = Off])
  /\ UNCHANGED <<wrap, rxq, txVars>>

\* The start of a frame disables two matches, in two changes of MCR.  Where
\* nothing comes between load and store of MCR they are one step: an interrupt
\* that falls between the two may as well come before them.
CaptureStart(pin) ==
  /\ Foremost(NOTIFY_CAPTURE) /\ EdgeCounted
  /\ task' = [task EXCEPT !.work = (@ \ {NOTIFY_CAPTURE})
                                    \cup (IF McrAtomic THEN {} ELSE {AND_PERIOD})]
  /\ rx.status \in Resting /\ pin
  /\ rx' = [rx EXCEPT !.status = "START_BIT_START",
                      !.frame.loopback = ~TxIsIdle]
  /\ Update("rx", [t1 EXCEPT !.query = Off, !.period = IF McrAtomic THEN Off ELSE @])
  /\ UNCHANGED <<wrap, rxq, txVars>>

CapturePeriod ==
  /\ Serving(AND_PERIOD)
  /\ Update("rx", [t1 EXCEPT !.period = Off])
  /\ UNCHANGED <<rx, wrap, age, rxq, txVars>>

CaptureIgnored(pin) ==
  /\ Captured
  /\ \/ rx.status \in Resting /\ ~pin
     \/ rx.status = "ERROR_IN_FRAME"
     \/ rx.status \in BusDown /\ pin
  /\ UNCHANGED <<rx, t1, wrap, mcr, rxq, txVars>>

\* check_start_timing, check_inside_timing: what follows an edge d ticks after
\* the one before
Following(status, d) ==
  CASE status = "START_BIT_START" /\ d = HalfBit -> "START_BIT_INSIDE"
    [] status = "DATA_BIT_START" /\ d = HalfBit  -> "DATA_BIT_INSIDE"
    [] status \in {"START_BIT_INSIDE", "DATA_BIT_INSIDE"} /\ d = HalfBit
         -> "DATA_BIT_START"
    [] status \in {"START_BIT_INSIDE", "DATA_BIT_INSIDE"} /\ d = FullBit
         -> "DATA_BIT_INSIDE"
    [] OTHER -> "ERROR_IN_FRAME"

CaptureBit ==
  /\ Captured
  /\ rx.status \in InFrame
  /\ LET next == Following(rx.status, age.last - age.edge)
     IN IF next = "ERROR_IN_FRAME" THEN queue_error_frame("RECEIVE_TIMING")
        ELSE rx' = [rx EXCEPT !.status = next] /\ UNCHANGED rxq
  /\ UNCHANGED <<t1, wrap, mcr, txVars>>

\* Faulty variant: the frame is not cleared.
CaptureRecoverKeepsFrame(pin) ==
  /\ Captured
  /\ rx.status \in BusDown /\ ~pin
  /\ rxq' = Queued(ErrorReport(IF rx.status = "LOW" THEN "RECEIVE_TIMING"
                               ELSE "SYSTEM_RECOVER"))
  /\ manage_tx
  /\ rx' = [Managed EXCEPT !.status = "IDLE"]
  /\ UNCHANGED <<t1, wrap, mcr>>

\* The bus comes back after having been low for longer than a stop condition.
CaptureRecover(pin) ==
  /\ Captured
  /\ rx.status \in BusDown /\ ~pin
  /\ rxq' = Queued(ErrorReport(IF rx.status = "LOW" THEN "RECEIVE_TIMING"
                               ELSE "SYSTEM_RECOVER"))
  /\ manage_tx
  /\ rx' = [Managed EXCEPT !.status = "IDLE", !.frame = NoFrame]
  /\ UNCHANGED <<t1, wrap, mcr>>

\* process_match_notification
Matched == Serving(NOTIFY_MATCH)

MatchIgnored(pin) ==
  /\ Matched
  /\ \/ ~pin /\ rx.status \in Resting
     \/ pin /\ rx.status = "FAILURE"
  /\ UNCHANGED <<rx, t1, wrap, mcr, age, rxq, txVars>>

\* A frame is complete.  queue_frame fails an assertion on a full queue.
MatchFrame(pin) ==
  /\ Matched
  /\ ~pin /\ rx.status \in InFrame
  /\ manage_tx
  /\ age' = [age EXCEPT !.full = age.last]
  /\ rxq' = Queued(rx.frame)
  /\ Pending([Managed EXCEPT !.frame = NoFrame,
                             !.halted = Len(rxq) >= RxQueueSize], age.last)
  /\ UNCHANGED wrap

MatchDiscard(pin) ==
  /\ Matched
  /\ ~pin /\ rx.status \in BusDown \cup {"ERROR_IN_FRAME"}
  /\ manage_tx
  /\ Pending([Managed EXCEPT !.frame = NoFrame], age.full)
  /\ UNCHANGED <<wrap, age, rxq>>

MatchLow(pin) ==
  /\ Matched
  /\ pin /\ rx.status \notin BusDown
  /\ Update("rx", [t1 EXCEPT !.stop = Match(Fail - age.last)])
  /\ rx' = [rx EXCEPT !.status = "LOW"]
  /\ UNCHANGED <<wrap, age, rxq, txVars>>

MatchFailure(pin) ==
  /\ Matched
  /\ pin /\ rx.status = "LOW"
  /\ rx' = [rx EXCEPT !.frame = ErrorReport("SYSTEM_FAILURE"),
                      !.status = "FAILURE"]
  /\ rxq' = Queued(ErrorReport("SYSTEM_FAILURE"))
  /\ UNCHANGED <<t1, wrap, mcr, age, txVars>>

\* Faulty variant: a waiting transmission is forgotten.
PriorityTimeoutForgets ==
  /\ Serving(NOTIFY_PRIORITY)
  /\ rx' = [rx EXCEPT !.status = "IDLE", !.waiting = FALSE]
  /\ UNCHANGED <<t1, wrap, mcr, age, rxq, txVars>>

\* Faulty variant: it starts the transmitter whether or not one waits.
PriorityTimeoutAlways ==
  /\ Serving(NOTIFY_PRIORITY)
  /\ rx' = [rx EXCEPT !.status = "IDLE", !.waiting = FALSE]
  /\ TxStart
  /\ UNCHANGED <<t1, wrap, mcr, age, rxq>>

\* process_priority_timeout
PriorityTimeout ==
  /\ Serving(NOTIFY_PRIORITY)
  /\ rx' = [rx EXCEPT !.status = "IDLE", !.waiting = FALSE]
  /\ IF rx.waiting THEN TxStart ELSE UNCHANGED txVars
  /\ UNCHANGED <<t1, wrap, mcr, age, rxq>>

\* Faulty variant: the timeout is reported in status IDLE only.
QueryTimeoutIdleOnly ==
  /\ Serving(NOTIFY_QUERY)
  /\ IF rx.status = "IDLE"
     THEN /\ rxq' = Queued([code |-> "TIMEOUT", loopback |-> FALSE])
          /\ rx' = [rx EXCEPT !.frame = NoFrame]
     ELSE UNCHANGED <<rx, rxq>>
  /\ UNCHANGED <<t1, wrap, mcr, age, txVars>>

\* generate_timeout_frame
QueryTimeout ==
  /\ Serving(NOTIFY_QUERY)
  /\ IF rx.status \in Resting
     THEN /\ rxq' = Queued([code |-> "TIMEOUT", loopback |-> FALSE])
          /\ rx' = [rx EXCEPT !.status = "IDLE", !.frame = NoFrame]
     ELSE UNCHANGED <<rx, rxq>>
  /\ UNCHANGED <<t1, wrap, mcr, age, txVars>>

RxTask(pin) ==
  \/ RxTake \/ CapturePeriod
  \/ CaptureStart(pin) \/ CaptureIgnored(pin) \/ CaptureBit
  \/ CaptureRecover(pin)
  \/ MatchIgnored(pin) \/ MatchFrame(pin) \/ MatchDiscard(pin)
  \/ MatchLow(pin) \/ MatchFailure(pin)
  \/ PriorityTimeout
  \/ QueryTimeout

-----------------------------------------------------------------------------
(* rx_schedule_transmission and rx_schedule_query, called by the main task *)
(* and by the transmitter's interrupt.                                     *)

\* Faulty variant: a gap between frames counts as idle.
DueInAnyGap(type) == {TRUE}

\* The test in a gap between two frames: has the frame's time come?  In an
\* instant in which it comes while the period match is still to come, the code
\* may read the counter just before or just after.
DueInGap(type) ==
  LET start_in == StartIn(type, age.full)
  IN IF start_in = 0 /\ t1.period = 0 THEN BOOLEAN ELSE {~CountBelow(0, start_in)}

\* The match is brought forward for a frame that is due before the gap ends.
DueBeforeGapEnds(type) == CountBelow(StartIn(type, age.full), rx.idle_in)

\* rx_schedule_query.  Nothing interrupts the interrupt it is called from.
ScheduleQuery == t1' = [t1 EXCEPT !.query = Reply]

\* Time passes.  Changing MCR takes none, unless a task is interrupted.
RxRested ==
  /\ Stored
  /\ 0 \notin {t1.stop, t1.period, t1.query}
  /\ task.notify = {} /\ task.work = {}

Closer(v) == [m \in DOMAIN v |-> Sooner(v[m])]

RxElapsed ==
  /\ t1' = Closer(t1)
  /\ mcr' = [w \in Writers |-> {Closer(v) : v \in mcr[w]}]
  /\ age' = [a \in DOMAIN age |-> Older(age[a])]
  /\ rx' = [rx EXCEPT !.idle_in = Approach(@)]
  /\ wrap' = IF wrap \in -Far..Far THEN wrap - 1 ELSE Never
=============================================================================
