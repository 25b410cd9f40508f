-------------------------- MODULE DaliWatchProofs --------------------------
(***************************************************************************)
(* What the receiver promises, for every time scale, every set of frames   *)
(* and any number of commands: it always has an event to come, a good      *)
(* frame inherits no error, its queue of reports never overflows, a        *)
(* transmission that waits is looked at again, and a frame flagged as      *)
(* loopback is the adapter's own.                                          *)
(*                                                                         *)
(* Throughout, nothing comes between load and store of the register MCR    *)
(* and the host sends no raw sequences; all but the first need a host that *)
(* waits for its answers.  What else has to be assumed, of the other       *)
(* devices and of the places where tasks interrupt each other, is a        *)
(* hypothesis of the theorem; the README names the behaviour that makes it *)
(* necessary.                                                              *)
(***************************************************************************)
EXTENDS DaliSendProofs

Inside == InFrame \cup {"ERROR_IN_FRAME", "LOW"}

\* Whether a set of notifications holds one whose handler changes the status
\* or the stop bit match, and one that is handled after that of an edge.
After(s)   == NOTIFY_MATCH \in s \/ NOTIFY_PRIORITY \in s
Turning(s) == NOTIFY_CAPTURE \in s \/ After(s)

\* An event that is sure to come, the announced ones left aside.
Armed == t1.stop # Off \/ bus.edge

\* Each handler is going to leave an event behind: an edge that is still to be
\* looked at, in the notification being served or in the next one, has armed
\* the stop bit match, and what disarmed it since is announced after it.
WorkWatched ==
  NOTIFY_CAPTURE \in task.work => Armed \/ Turning(task.notify) \/ After(task.work)
NotifyWatched ==
  NOTIFY_CAPTURE \in task.notify => Armed \/ After(task.notify)
StatusWatched ==
  rx.status \in Inside => Armed \/ Turning(task.notify) \/ Turning(task.work)

\* What the times are that process_match_notification subtracts: the stop bit
\* match never reaches beyond the time of a bus failure.
EdgeServed ==
  IF NOTIFY_CAPTURE \in Announced THEN age.edge = 0 ELSE age.last = age.edge
StopInTime ==
  /\ t1.stop # Off => age.edge + t1.stop <= Fail
  /\ NOTIFY_MATCH \in Announced => age.last <= Fail
  /\ NOTIFY_CAPTURE \in Announced /\ t1.stop = 0 => age.last <= Fail

\* Where MCR is stored at once nothing is held, and no second change of it is
\* left to be made.
NothingHeld == \A w \in Writers : mcr[w] = {}
OneChange   == AND_PERIOD \notin task.work

\* Without sequences nobody but dali_101_send fills the array, so a frame fits
\* into it and no error is reported on a quiet bus.
FilledAlone == main.pc \in Filling => tx.index_max = main.phase

Watched ==
  /\ OneChange
  /\ WorkWatched /\ NotifyWatched /\ StatusWatched /\ EdgeServed /\ StopInTime

WatchInv == NothingHeld /\ NoSequences /\ FilledAlone /\ Watched

\* The types the steps below rely on.
WatchTypes ==
  /\ RxInv
  /\ rx \in RxRecords /\ t1 \in Matches /\ age \in Ages /\ task \in Tasks
  /\ bus \in [edge : BOOLEAN, quiet : 0..Far]

\* The types these proofs use.
LEMMA WatchTyped == ASSUME LinkIInv PROVE WatchTypes
  BY DEF LinkIInv, RxInv, LinkInv, WatchTypes

-----------------------------------------------------------------------------
(* Pieces.                                                                 *)

\* A change of the bus level adds an edge and takes none away.
LEMMA EdgeStays == ASSUME WatchTypes, BusFollows, bus.edge PROVE bus'.edge
  BY DEF WatchTypes, BusFollows

\* A step that leaves ages, notifications and the stop bit match alone, and
\* the receiver in its status or outside a frame.
LEMMA QuietStep ==
  ASSUME Watched, UNCHANGED <<age, task>>, t1'.stop = t1.stop, bus.edge => bus'.edge,
         rx'.status \in {rx.status, "FAILURE"} \cup Resting
  PROVE  Watched'
<1>1. Armed => Armed'
  BY DEF Armed
<1>2. rx'.status \in Inside => rx.status \in Inside
  BY DEF Inside, Resting, InFrame
<1> QED
  BY <1>1, <1>2 DEF Watched, OneChange, WorkWatched, NotifyWatched, StatusWatched, EdgeServed,
                    StopInTime, Announced, After, Turning

\* What the handler of notification n leaves announced.
LEMMA ServedTask ==
  ASSUME WatchTypes, NEW n \in Notifications, Serving(n)
  PROVE  /\ n \in task.work /\ \A m \in task.work : n <= m
         /\ task'.notify = task.notify /\ task'.work = task.work \ {n}
  BY DEF WatchTypes, Serving, Foremost, Tasks

\* With an atomic MCR a change of it is seen at once and nothing is held.
LEMMA UpdateAtomic ==
  ASSUME McrAtomic, NEW w, NEW v, Update(w, v)
  PROVE  t1' = v /\ mcr' = mcr
  BY DEF Update

\* The handler of the edge that starts a frame then disables both matches in
\* one change of it.
LEMMA StartServes ==
  ASSUME McrAtomic, WatchTypes, NEW pin, CaptureStart(pin)
  PROVE  Captured /\ t1' = [t1 EXCEPT !.query = Off, !.period = Off] /\ mcr' = mcr
<1>1. task' = [task EXCEPT !.work = @ \ {NOTIFY_CAPTURE}]
  BY DEF CaptureStart, WatchTypes, Tasks
<1>2. t1' = [t1 EXCEPT !.query = Off, !.period = Off] /\ mcr' = mcr
  BY DEF CaptureStart, Update
<1> QED
  BY <1>1, <1>2 DEF CaptureStart, Captured, Serving

\* The stop condition takes some time.
LEMMA StopPositive == Stop > 0
<1>1. Ticks[0] = 0 /\ Ticks[0] < Ticks[2400]
  BY TicksAssumption DEF TicksAssumption
<1> QED
  BY <1>1 DEF Stop

-----------------------------------------------------------------------------
(* The interrupts of the receiver.                                         *)

\* The interrupt at an edge: the notification is the event that is to come.
LEMMA CaptureIsr ==
  ASSUME McrAtomic, WatchTypes, Watched, RxIsrCapture
  PROVE  Watched' /\ mcr' = mcr
<1>1. /\ age' = [age EXCEPT !.edge = 0]
      /\ t1' = [t1 EXCEPT !.stop = Stop] /\ mcr' = mcr
      /\ task' = [task EXCEPT !.notify = @ \cup {NOTIFY_CAPTURE}]
      /\ UNCHANGED rx
  BY UpdateAtomic DEF RxIsrCapture, IsrCapture, Notify
<1>2. Stop \in Nat /\ 0 < Stop /\ Stop <= Fail
  BY DelaysTyped, StopPositive
<1>3. /\ t1'.stop = Stop /\ age'.edge = 0 /\ age'.last = age.last
      /\ task'.notify = task.notify \cup {NOTIFY_CAPTURE} /\ task'.work = task.work
  BY <1>1 DEF WatchTypes, Matches, Ages, Tasks
<1>4. Armed' /\ NOTIFY_CAPTURE \in Announced'
  BY <1>2, <1>3 DEF Armed, Off, Announced
<1>5. NOTIFY_MATCH \in Announced' => NOTIFY_MATCH \in Announced
  BY <1>3 DEF Announced, NOTIFY_CAPTURE, NOTIFY_MATCH
<1>6. EdgeServed' /\ StopInTime'
  BY <1>2, <1>3, <1>4, <1>5 DEF EdgeServed, StopInTime, Watched
<1> QED
  BY <1>1, <1>3, <1>4, <1>6
  DEF Watched, OneChange, WorkWatched, NotifyWatched, StatusWatched

\* The interrupt at a match takes the match away and leaves a notification instead.
LEMMA MatchIsr ==
  ASSUME McrAtomic, WatchTypes, Watched, RxIsrMatch
  PROVE  Watched' /\ mcr' = mcr
<1>1. UNCHANGED <<rx, age, bus>>
  BY DEF RxIsrMatch, IsrStop, IsrPeriod, IsrQuery, linkVars
<1>2. CASE IsrStop
  <2>1. /\ t1.stop = 0 /\ t1' = [t1 EXCEPT !.stop = Off] /\ mcr' = mcr
        /\ task' = [task EXCEPT !.notify = @ \cup {NOTIFY_MATCH}]
    BY <1>2, UpdateAtomic DEF IsrStop, Notify
  <2>2. /\ t1'.stop = Off
        /\ task'.notify = task.notify \cup {NOTIFY_MATCH} /\ task'.work = task.work
    BY <2>1 DEF WatchTypes, Matches, Tasks
  <2>3. /\ NOTIFY_CAPTURE \in Announced' <=> NOTIFY_CAPTURE \in Announced
        /\ After(task.work)' = After(task.work)
        /\ After(task.notify)'
    BY <2>2 DEF Announced, NOTIFY_CAPTURE, NOTIFY_MATCH, After
  <2>4. age.last <= Fail
    BY <2>1, ThresholdsOrdered DEF Watched, StopInTime, EdgeServed, Off, WatchTypes, Ages
  <2>5. EdgeServed' /\ StopInTime'
    BY <1>1, <2>2, <2>3, <2>4 DEF EdgeServed, StopInTime, Watched, Off
  <2> QED
    BY <2>1, <2>2, <2>3, <2>5
    DEF Watched, OneChange, WorkWatched, NotifyWatched, StatusWatched, Turning
<1>3. CASE IsrPeriod
  <2>1. /\ t1' = [t1 EXCEPT !.period = Off, !.stop = Off] /\ mcr' = mcr
        /\ task' = [task EXCEPT !.notify = @ \cup {NOTIFY_PRIORITY}]
    BY <1>3, UpdateAtomic DEF IsrPeriod, Notify
  <2>2. /\ t1'.stop = Off
        /\ task'.notify = task.notify \cup {NOTIFY_PRIORITY} /\ task'.work = task.work
    BY <2>1 DEF WatchTypes, Matches, Tasks
  <2>3. /\ NOTIFY_CAPTURE \in Announced' <=> NOTIFY_CAPTURE \in Announced
        /\ NOTIFY_MATCH \in Announced' <=> NOTIFY_MATCH \in Announced
        /\ After(task.notify)'
    BY <2>2 DEF Announced, NOTIFY_CAPTURE, NOTIFY_MATCH, NOTIFY_PRIORITY, After
  <2>4. EdgeServed' /\ StopInTime'
    BY <1>1, <2>2, <2>3 DEF EdgeServed, StopInTime, Watched, Off
  <2> QED
    BY <2>1, <2>2, <2>3, <2>4
    DEF Watched, OneChange, WorkWatched, NotifyWatched, StatusWatched, Turning
<1>4. CASE IsrQuery
  <2>1. /\ t1' = [t1 EXCEPT !.query = Off] /\ mcr' = mcr
        /\ task' = [task EXCEPT !.notify = @ \cup {NOTIFY_QUERY}]
    BY <1>4, UpdateAtomic DEF IsrQuery, Notify
  <2>2. /\ t1'.stop = t1.stop
        /\ task'.notify = task.notify \cup {NOTIFY_QUERY} /\ task'.work = task.work
    BY <2>1 DEF WatchTypes, Matches, Tasks
  <2>3. \A n \in {NOTIFY_CAPTURE, NOTIFY_MATCH, NOTIFY_PRIORITY} :
          n \in task'.notify <=> n \in task.notify
    BY <2>2 DEF NOTIFY_CAPTURE, NOTIFY_MATCH, NOTIFY_PRIORITY, NOTIFY_QUERY
  <2> QED
    BY <1>1, <2>1, <2>2, <2>3
    DEF Watched, OneChange, WorkWatched, NotifyWatched, StatusWatched, Armed, After,
        Turning, EdgeServed, StopInTime, Announced
<1> QED
  BY <1>2, <1>3, <1>4 DEF RxIsrMatch

-----------------------------------------------------------------------------
(* The rx task.                                                            *)

\* The rx task takes all its notifications at once and has them to handle.
LEMMA TakeWatched ==
  ASSUME WatchTypes, Watched, RxTake, bus.edge => bus'.edge
  PROVE  Watched' /\ mcr' = mcr
<1>1. /\ task' = [notify |-> {}, work |-> task.notify] /\ task.work = {}
      /\ UNCHANGED <<rx, t1, mcr, age>>
  BY DEF RxTake
<1>2. task'.notify = {} /\ task'.work = task.notify /\ Announced' = Announced
  BY <1>1 DEF Announced
<1>3. AND_PERIOD \notin task.notify
  BY DEF WatchTypes, Tasks, Notifications, AND_PERIOD, NOTIFY_CAPTURE, NOTIFY_MATCH,
         NOTIFY_PRIORITY, NOTIFY_QUERY
<1> QED
  BY <1>1, <1>2, <1>3
  DEF Watched, OneChange, WorkWatched, NotifyWatched, StatusWatched, Armed, After, Turning,
      EdgeServed, StopInTime

\* The handler of an edge: it neither arms nor disarms the stop bit match, so
\* what the invariant says of a pending edge has to be there already.
LEMMA CaptureWatched ==
  ASSUME McrAtomic, WatchTypes, Watched, NEW pin,
         CaptureStart(pin) \/ CaptureIgnored(pin) \/ CaptureBit \/ CaptureRecover(pin),
         bus.edge => bus'.edge
  PROVE  Watched' /\ mcr' = mcr
<1>1. Captured
  BY StartServes DEF CaptureIgnored, CaptureBit, CaptureRecover
<1>2. t1'.stop = t1.stop /\ mcr' = mcr
  <2>1. CASE CaptureStart(pin)
    BY <2>1, StartServes DEF WatchTypes, Matches
  <2>2. CASE CaptureIgnored(pin) \/ CaptureBit \/ CaptureRecover(pin)
    BY <2>2 DEF CaptureIgnored, CaptureBit, CaptureRecover
  <2> QED
    BY <2>1, <2>2
<1>3. /\ NOTIFY_CAPTURE \in task.work
      /\ task'.notify = task.notify /\ task'.work = task.work \ {NOTIFY_CAPTURE}
      /\ age'.edge = age.edge /\ age'.last = age.edge
  <2>1. NOTIFY_CAPTURE \in Notifications
    BY DEF Notifications
  <2> QED
    BY <1>1, <2>1, ServedTask DEF Captured, EdgeCounted, WatchTypes, Ages
<1>4. age.edge = 0
  BY <1>3 DEF Watched, EdgeServed, Announced
<1>5. Armed' \/ Turning(task.notify)' \/ After(task.work)'
  BY <1>2, <1>3
  DEF Watched, WorkWatched, Armed, After, Turning, NOTIFY_CAPTURE, NOTIFY_MATCH, NOTIFY_PRIORITY
<1>6. EdgeServed' /\ StopInTime'
  BY <1>2, <1>3, <1>4, ThresholdsOrdered DEF EdgeServed, StopInTime, Watched
<1>7. NotifyWatched'
  BY <1>2, <1>3 DEF Watched, NotifyWatched, Armed
<1> QED
  BY <1>2, <1>3, <1>5, <1>6, <1>7 DEF Watched, OneChange, WorkWatched, StatusWatched, Turning

\* The handler of a stop bit match leaves the frame or arms the match again:
\* the time to a bus failure is never over before.
LEMMA MatchWatched ==
  ASSUME McrAtomic, WatchTypes, Watched, NEW pin,
         MatchIgnored(pin) \/ MatchFrame(pin) \/ MatchDiscard(pin)
           \/ MatchLow(pin) \/ MatchFailure(pin),
         bus.edge => bus'.edge
  PROVE  Watched' /\ mcr' = mcr
<1>1. /\ NOTIFY_MATCH \in task.work /\ \A m \in task.work : NOTIFY_MATCH <= m
      /\ task'.notify = task.notify /\ task'.work = task.work \ {NOTIFY_MATCH}
  <2>1. NOTIFY_MATCH \in Notifications /\ Serving(NOTIFY_MATCH)
    BY DEF Notifications, MatchIgnored, MatchFrame, MatchDiscard, MatchLow, MatchFailure, Matched
  <2> QED
    BY <2>1, ServedTask
<1>2. NOTIFY_CAPTURE \notin task.work
  BY <1>1 DEF NOTIFY_CAPTURE, NOTIFY_MATCH
<1>3. WorkWatched' /\ age.last <= Fail
  BY <1>1, <1>2 DEF WorkWatched, Watched, StopInTime, Announced
<1>4. /\ NOTIFY_CAPTURE \in Announced' <=> NOTIFY_CAPTURE \in Announced
      /\ NOTIFY_MATCH \in Announced' => NOTIFY_MATCH \in Announced
  BY <1>1 DEF Announced, NOTIFY_CAPTURE, NOTIFY_MATCH
<1>5. age'.edge = age.edge /\ age'.last = age.last
  BY DEF MatchIgnored, MatchFrame, MatchDiscard, MatchLow, MatchFailure, WatchTypes, Ages
<1>6. CASE MatchLow(pin)
  <2>1. t1' = [t1 EXCEPT !.stop = Match(Fail - age.last)] /\ mcr' = mcr
    BY <1>6, UpdateAtomic DEF MatchLow
  <2>2. t1'.stop = Fail - age.last /\ Fail - age.last \in Nat /\ age.edge \in Nat
    BY <1>3, <2>1, ThresholdsOrdered DEF Match, WatchTypes, Ages, Matches
  <2>3. Armed'
    BY <2>2 DEF Armed, Off
  <2>4. age.edge <= age.last
    BY DEF Watched, EdgeServed, WatchTypes, Ages
  <2>5. EdgeServed' /\ StopInTime'
    BY <1>3, <1>4, <1>5, <2>2, <2>4, ThresholdsOrdered
    DEF EdgeServed, StopInTime, Watched, WatchTypes, Ages
  <2> QED
    BY <1>1, <1>3, <2>1, <2>3, <2>5 DEF Watched, OneChange, NotifyWatched, StatusWatched
<1>7. CASE ~MatchLow(pin)
  <2>1. t1'.stop = t1.stop /\ mcr' = mcr /\ rx'.status \notin Inside
    <3>1. CASE MatchIgnored(pin) \/ MatchFailure(pin)
      BY <3>1 DEF MatchIgnored, MatchFailure, WatchTypes, RxRecords, Inside, InFrame, Resting
    <3>2. CASE MatchFrame(pin) \/ MatchDiscard(pin)
      <4>1. PICK r \in RxRecords, full \in {age.last, age.full} : Pending(r, full)
        <5>1. CASE MatchFrame(pin)
          BY <5>1, ClearedTyped, Zenon DEF MatchFrame, WatchTypes
        <5>2. CASE MatchDiscard(pin)
          BY <5>2, ClearedTyped, Zenon DEF MatchDiscard, WatchTypes
        <5> QED
          BY <3>2, <5>1, <5>2
      <4> DEFINE in == Match(PeriodIn(StartIn(IF r.waiting THEN r.type ELSE "FORWARD_5", full)))
      <4>2. rx' = [r EXCEPT !.status = "INTER_FRAME_IDLE", !.idle_in = in]
            /\ Update("rx", [t1 EXCEPT !.period = in])
        BY <4>1 DEF Pending
      <4> HIDE DEF in
      <4> QED
        BY <4>1, <4>2, UpdateAtomic DEF WatchTypes, RxRecords, Matches, Inside, InFrame
    <3> QED
      BY <1>7, <3>1, <3>2
  <2>2. EdgeServed' /\ StopInTime'
    BY <1>4, <1>5, <2>1 DEF EdgeServed, StopInTime, Watched
  <2> QED
    BY <1>1, <1>3, <2>1, <2>2 DEF Watched, OneChange, NotifyWatched, StatusWatched, Armed
<1> QED
  BY <1>6, <1>7

\* The handlers of the period and the query match.
LEMMA TimeoutWatched ==
  ASSUME WatchTypes, Watched, PriorityTimeout \/ QueryTimeout, bus.edge => bus'.edge
  PROVE  Watched' /\ mcr' = mcr
<1>1. UNCHANGED <<t1, mcr, age>>
  BY DEF PriorityTimeout, QueryTimeout
<1>2. PICK n \in {NOTIFY_PRIORITY, NOTIFY_QUERY} :
        Serving(n) /\ (n = NOTIFY_PRIORITY => PriorityTimeout)
                   /\ (n = NOTIFY_QUERY => QueryTimeout)
  BY DEF PriorityTimeout, QueryTimeout, NOTIFY_PRIORITY, NOTIFY_QUERY
<1>3. /\ \A m \in task.work : n <= m
      /\ task'.notify = task.notify /\ task'.work = task.work \ {n}
  BY <1>2, ServedTask DEF Notifications
<1>4. NOTIFY_CAPTURE \notin task.work /\ NOTIFY_MATCH \notin task.work
  BY <1>3 DEF NOTIFY_CAPTURE, NOTIFY_MATCH, NOTIFY_PRIORITY, NOTIFY_QUERY
<1>5. /\ NOTIFY_CAPTURE \in Announced' <=> NOTIFY_CAPTURE \in Announced
      /\ NOTIFY_MATCH \in Announced' <=> NOTIFY_MATCH \in Announced
  BY <1>3, <1>4 DEF Announced
<1>6. EdgeServed' /\ StopInTime' /\ WorkWatched' /\ NotifyWatched'
  BY <1>1, <1>3, <1>4, <1>5
  DEF EdgeServed, StopInTime, WorkWatched, NotifyWatched, Watched, Armed
<1>7. StatusWatched'
  <2>1. CASE n = NOTIFY_PRIORITY
    <3>1. rx'.status = "IDLE"
      BY <1>2, <2>1 DEF PriorityTimeout, WatchTypes, RxRecords
    <3> QED
      BY <3>1 DEF StatusWatched, Inside, InFrame
  <2>2. CASE n = NOTIFY_QUERY
    <3>1. rx'.status \in {rx.status, "IDLE"}
      BY <1>2, <2>2 DEF QueryTimeout, WatchTypes, RxRecords
    <3>2. Turning(task.work) => Turning(task'.work)
      BY <1>3, <2>2 DEF Turning, After, NOTIFY_CAPTURE, NOTIFY_MATCH, NOTIFY_PRIORITY, NOTIFY_QUERY
    <3> QED
      BY <1>1, <1>3, <3>1, <3>2 DEF Watched, StatusWatched, Armed, Inside, InFrame
  <2> QED
    BY <1>2, <2>1, <2>2
<1> QED
  BY <1>1, <1>3, <1>6, <1>7 DEF Watched, OneChange

\* Every step of the rx task
LEMMA RxTaskWatched ==
  ASSUME McrAtomic, WatchTypes, Watched, RxTaskStep
  PROVE  Watched' /\ mcr' = mcr
<1>1. RxTask(Pin) /\ (bus.edge => bus'.edge)
  BY EdgeStays DEF RxTaskStep
<1>2. ~CapturePeriod
  BY DEF Watched, OneChange, CapturePeriod, Serving, Foremost
<1> QED
  BY <1>1, <1>2, TakeWatched, CaptureWatched, MatchWatched, TimeoutWatched DEF RxTask

-----------------------------------------------------------------------------
(* The other steps.                                                        *)

\* Neither the interrupts nor the rx task change how far the array is filled.
LEMMA FilledKept ==
  ASSUME LinkIInv, TxIsrPhase \/ TxIsrEnd \/ RxIsrCapture \/ RxIsrMatch \/ RxTaskStep
  PROVE  tx'.index_max = tx.index_max /\ UNCHANGED <<main, ser>>
<1>1. CASE TxIsrPhase \/ TxIsrEnd
  BY <1>1, TxKeepsTyped DEF TxIsrPhase, TxIsrEnd, TxKeeps, LinkIInv
<1>2. CASE RxIsrCapture \/ RxIsrMatch
  BY <1>2
  DEF RxIsrCapture, RxIsrMatch, IsrCapture, IsrStop, IsrPeriod, IsrQuery, linkVars, txVars
<1>3. CASE RxTaskStep
  <2>1. TxKeeps /\ UNCHANGED <<main, ser>>
    BY <1>3, RxTaskTyped DEF RxTaskStep, LinkIInv
  <2> QED
    BY <2>1, TxKeepsTyped DEF LinkIInv
<1> QED
  BY <1>1, <1>2, <1>3

\* dali_101_send fills the array phase by phase and finds room for each.
LEMMA FillWatched ==
  ASSUME McrAtomic, LinkIInv, WatchInv, MainReset \/ MainCheck \/ MainWrite \/ MainLoad
  PROVE  WatchInv'
<1>1. /\ TxTypeOK /\ WatchTypes /\ main \in Mains /\ PhaseOfFrame
      /\ UNCHANGED <<mcr, age, task, ser>> /\ t1' = t1
  BY WatchTyped
  DEF LinkIInv, LinkInv, MainReset, MainCheck, MainWrite, MainLoad, rxVars
<1>2. bus.edge => bus'.edge
  BY <1>1, EdgeStays DEF MainReset, MainCheck, MainWrite, MainLoad
<1>3. CASE MainReset
  <2>1. UNCHANGED rx
    BY <1>3 DEF MainReset, rxVars
  <2>2. FilledAlone'
    <3>1. CASE At("reset") \/ At("forget")
      BY <1>1, <1>3, <3>1 DEF MainReset, At, Goto, Mains, FilledAlone, Filling
    <3>2. CASE At("empty")
      <4>1. TxEmpty(tx.repeat) /\ Goto("check") /\ main.phase = 0
        BY <1>1, <1>3, <3>2 DEF MainReset, At, PhaseOfFrame
      <4>2. tx'.index_max = 0 /\ main'.phase = 0
        BY <1>1, <4>1, TxTyped DEF TxEmpty, TxFacts, Goto, Mains
      <4> QED
        BY <4>2 DEF FilledAlone
    <3> QED
      BY <1>3, <3>1, <3>2 DEF MainReset
  <2> QED
    BY <1>1, <1>2, <2>1, <2>2, QuietStep DEF WatchInv, NoSequences, NothingHeld
<1>4. CASE MainCheck
  <2>1. main.pc = "check" /\ main.frame \in TxFrames /\ main.phase < Len(main.frame.phases)
        /\ tx.index_max = main.phase
    BY <1>1, <1>4
    DEF MainCheck, At, LinkIInv, LinkInv, FrameTaken, PhaseOfFrame, WatchInv, FilledAlone,
        Filling
  <2>2. ~ArrayFull
    BY <1>1, <2>1, FrameTyped, TxAssumption DEF ArrayFull, Positions, Mains, TxAssumption
  <2>3. UNCHANGED <<rx, tx>> /\ Goto("write")
    BY <1>4, <2>2 DEF MainCheck, txVars
  <2>4. FilledAlone'
    BY <1>1, <2>1, <2>3 DEF FilledAlone, Goto, Mains
  <2> QED
    BY <1>1, <1>2, <2>3, <2>4, QuietStep DEF WatchInv, NoSequences, NothingHeld
<1>5. CASE MainWrite
  <2>1. /\ main.pc = "write" /\ ~ArrayFull /\ tx.index_max = main.phase
        /\ main.frame \in TxFrames /\ main.phase < Len(main.frame.phases)
        /\ UNCHANGED rx /\ main'.phase = main.phase + 1
    BY <1>1, <1>5
    DEF MainWrite, At, LinkIInv, LinkInv, FrameTaken, PhaseOfFrame, ArrayInv, WatchInv,
        FilledAlone, Filling, rxVars, Mains
  <2>2. main.frame.phases[main.phase + 1] \in Nat
    <3>1. main.phase + 1 \in 1..Len(main.frame.phases)
      BY <1>1, <2>1, FrameTyped DEF Mains
    <3> QED
      BY <2>1, <3>1, FrameTyped
  <2>3. tx'.index_max = tx.index_max + 1
    BY <1>1, <1>5, <2>1, <2>2, TxAddTyped DEF MainWrite
  <2> QED
    BY <1>1, <1>2, <2>1, <2>3, QuietStep DEF WatchInv, NoSequences, NothingHeld, FilledAlone
<1>6. CASE MainLoad
  <2>1. UNCHANGED rx /\ main'.pc = "schedule"
    BY <1>1, <1>6 DEF MainLoad, rxVars, Mains
  <2> QED
    BY <1>1, <1>2, <2>1, QuietStep
    DEF WatchInv, NoSequences, NothingHeld, FilledAlone, Filling
<1> QED
  BY <1>3, <1>4, <1>5, <1>6

\* The main task decides and schedules only what leaves the receiver its event.
LEMMA MainWatched ==
  ASSUME McrAtomic, LinkIInv, WatchInv, MainStep
  PROVE  WatchInv'
<1>1. WatchTypes /\ main \in Mains
  BY WatchTyped DEF LinkIInv, LinkInv
<1>2. CASE MainPrint \/ MainPrinted \/ MainTake
  <2>1. UNCHANGED <<rx, t1, mcr, age, task, bus, ser>> /\ main'.pc \notin Filling
    <3>1. CASE MainPrint \/ MainPrinted
      <4>1. UNCHANGED <<rx, t1, mcr, age, task, bus, ser>>
        BY <3>1 DEF MainPrint, MainPrinted, rxVars
      <4>2. main'.pc \in {"loop", "print"}
        BY <1>1, <3>1 DEF MainPrint, MainPrinted, Goto, GoBack, Mains
      <4> QED
        BY <4>1, <4>2 DEF Filling
    <3>2. CASE MainTake
      <4>1. main'.pc \in {"loop", "reset"}
        BY <1>1, <3>2 DEF MainTake, Mains
      <4> QED
        BY <3>2, <4>1 DEF MainTake, rxVars, Filling
    <3> QED
      BY <1>2, <3>1, <3>2
  <2> QED
    BY <1>1, <2>1, QuietStep DEF WatchInv, NoSequences, NothingHeld, FilledAlone
<1>3. CASE MainReset \/ MainCheck \/ MainWrite \/ MainLoad
  BY <1>3, FillWatched
<1>4. CASE MainType \/ MainTest \/ MainGap \/ MainStart \/ MainArm \/ MainWait
  <2>1. UNCHANGED <<mcr, age, task, ser>> /\ t1'.stop = t1.stop
    BY <1>1, <1>4, UpdateAtomic
    DEF MainType, MainTest, MainGap, MainStart, MainArm, MainWait, rxVars, WatchTypes, Matches
  <2>2. rx'.status = rx.status
    BY <1>1, <1>4
    DEF MainType, MainTest, MainGap, MainStart, MainArm, MainWait, rxVars, WatchTypes, RxRecords
  <2>3. bus.edge => bus'.edge
    BY <1>1, <1>4, EdgeStays
    DEF MainType, MainTest, MainGap, MainStart, MainArm, MainWait
  <2>4. main'.pc \notin Filling
    BY <1>1, <1>4
    DEF MainType, MainTest, MainGap, MainStart, MainArm, MainWait, Goto, GoBack, Mains, Filling
  <2> QED
    BY <1>1, <2>1, <2>2, <2>3, <2>4, QuietStep DEF WatchInv, NoSequences, NothingHeld, FilledAlone
<1> QED
  BY <1>2, <1>3, <1>4 DEF MainStep

\* Time passes only when nothing is announced and no edge waits: the stop bit
\* match comes nearer, and the edge it was armed at gets older by as much.
LEMMA TickWatched ==
  ASSUME McrAtomic, LinkIInv, WatchInv, Tick
  PROVE  WatchInv'
<1>1. WatchTypes
  BY WatchTyped
<1>2. /\ task.notify = {} /\ task.work = {} /\ t1.stop # 0 /\ task' = task
      /\ ~bus.edge
  BY DEF Tick, Due, RxRested
<1>3. Announced = {} /\ Announced' = {}
  BY <1>2 DEF Announced
<1>4. /\ t1'.stop = Sooner(t1.stop)
      /\ age'.edge = Older(age.edge) /\ age'.last = Older(age.last)
      /\ rx'.status = rx.status
  BY <1>1 DEF Tick, RxElapsed, Closer, WatchTypes, Matches, Ages, RxRecords
<1>5. t1.stop # Off => t1'.stop # Off /\ t1'.stop = t1.stop - 1
  BY <1>1, <1>2, <1>4 DEF Sooner, Off, WatchTypes, Matches
<1>6. t1'.stop # Off => t1.stop # Off
  BY <1>4 DEF Sooner, Off
<1>7. StatusWatched'
  BY <1>2, <1>4, <1>5 DEF WatchInv, Watched, StatusWatched, Armed, Turning, After
<1>8. EdgeServed'
  BY <1>3, <1>4 DEF WatchInv, Watched, EdgeServed
<1>9. StopInTime'
  <2>1. Older(age.edge) <= age.edge + 1
    BY <1>1, ThresholdsOrdered DEF Older, Min2, WatchTypes, Ages
  <2>2. age.edge \in Nat /\ t1.stop \in Int /\ Older(age.edge) \in Nat
    BY <1>1, <2>1, ThresholdsOrdered, AgesTyped DEF WatchTypes, Ages, Matches
  <2>3. t1'.stop # Off => age'.edge + t1'.stop <= Fail
    BY <1>4, <1>5, <1>6, <2>1, <2>2, ThresholdsOrdered DEF WatchInv, Watched, StopInTime
  <2> QED
    BY <1>3, <2>3 DEF StopInTime
<1>10. WorkWatched' /\ NotifyWatched'
  BY <1>2 DEF WorkWatched, NotifyWatched
<1>11. NothingHeld'
  BY DEF Tick, RxElapsed, WatchInv, NothingHeld
<1>12. FilledAlone' /\ OneChange'
  <2>1. tx' = tx /\ main'.pc = main.pc /\ main'.phase = main.phase
    BY DEF Tick, TxTick, LinkIInv, LinkInv, Mains
  <2> QED
    BY <1>2, <2>1 DEF WatchInv, FilledAlone, OneChange
<1>13. NoSequences'
  <2>1. ser' = [ser EXCEPT !.arg = @ - 1] \/ ser' = NothingToDo
    BY DEF Tick
  <2> QED
    BY <2>1 DEF LinkIInv, LinkInv, Serials, NothingToDo, Doing, NoSequences, WatchInv
<1> QED
  BY <1>7, <1>8, <1>9, <1>10, <1>11, <1>12, <1>13 DEF WatchInv, Watched

\* Every step of the composition, without raw sequences
LEMMA WatchStep ==
  ASSUME McrAtomic, MaxSequence = 0, LinkIInv, WatchInv, [Next]_vars
  PROVE  WatchInv'
<1>1. WatchTypes /\ NoSequences'
  BY WatchTyped, NoSequenceStep DEF WatchInv
<1>2. CASE TxIsrPhase \/ TxIsrEnd
  <2>1. UNCHANGED <<mcr, age, task, rx>> /\ BusFollows
    BY <1>2 DEF TxIsrPhase, TxIsrEnd, rxVars
  <2>2. t1'.stop = t1.stop
    BY <1>1, <1>2 DEF TxIsrPhase, TxIsrEnd, rxVars, ScheduleQuery, WatchTypes, Matches
  <2> QED
    BY <1>1, <1>2, <2>1, <2>2, FilledKept, EdgeStays, QuietStep
    DEF WatchInv, FilledAlone, NothingHeld
<1>3. CASE RxIsrCapture \/ RxIsrMatch
  BY <1>1, <1>3, FilledKept, CaptureIsr, MatchIsr DEF WatchInv, FilledAlone, NothingHeld
<1>4. CASE RxTaskStep
  BY <1>1, <1>4, FilledKept, RxTaskWatched DEF WatchInv, FilledAlone, NothingHeld
<1>5. CASE McrStore
  BY <1>5 DEF McrStore, Store, Writers, WatchInv, NothingHeld
<1>6. CASE MainStep
  BY <1>6, MainWatched
<1>7. CASE HostCommand \/ HostPrint \/ ExtStart \/ ExtEnd
  <2>1. UNCHANGED <<tx, rx, t1, mcr, age, task, main>> /\ (bus.edge => bus'.edge)
    BY <1>1, <1>7, EdgeStays
    DEF HostCommand, HostPrint, ExtStart, ExtEnd, txVars, rxVars
  <2> QED
    BY <1>1, <2>1, QuietStep DEF WatchInv, FilledAlone, NothingHeld
<1>8. ~(SerialStart \/ SerialNext \/ SerialExecute \/ SerialStep)
  BY NoSequenceStep DEF WatchInv
<1>9. CASE Tick
  BY <1>9, TickWatched
<1>10. CASE UNCHANGED vars
  <2>1. UNCHANGED <<tx, rx, t1, mcr, age, task, bus, main>>
    BY <1>10 DEF vars, txVars, rxVars, linkVars
  <2> QED
    BY <1>1, <2>1, QuietStep DEF WatchInv, FilledAlone, NothingHeld
<1> QED
  BY <1>2, <1>3, <1>4, <1>5, <1>6, <1>7, <1>8, <1>9, <1>10 DEF Next, Progress

\* At first the receiver is idle, or the bus is down: it needs no event to leave that but an edge.
LEMMA WatchInitially == ASSUME Init PROVE WatchInv
<1>1. /\ t1 = [stop |-> Off, period |-> Off, query |-> Off]
      /\ mcr = [w \in Writers |-> {}]
      /\ age = [edge |-> 0, last |-> 0, full |-> 0]
      /\ task = [notify |-> {}, work |-> {}]
      /\ rx.status \in {"FAILURE", "IDLE"} /\ ser.pc = "idle"
      /\ main.pc = "loop"
  BY DEF Init, RxInit, NothingToDo, Doing
<1>2. NothingHeld /\ NoSequences /\ FilledAlone /\ OneChange
  BY <1>1 DEF NothingHeld, NoSequences, FilledAlone, Filling, OneChange
<1>3. Announced = {}
  BY <1>1 DEF Announced
<1>4. StatusWatched
  BY <1>1 DEF StatusWatched, Inside, InFrame
<1> QED
  BY <1>1, <1>2, <1>3, <1>4
  DEF WatchInv, Watched, WorkWatched, NotifyWatched, EdgeServed, StopInTime

-----------------------------------------------------------------------------

\* InFrameWatched: a receiver inside a frame, in an error or on a bus pulled
\* low always has an event to come that ends it, whatever edges fall into
\* whatever moments between an interrupt and the handler of its notification
\* (dali_rx_irq_capture_callback, dali_rx_irq_stopbit_match_callback and
\* dali_rx_irq_period_match_callback, which disables the wrong match).
THEOREM ReceiverWatched ==
  ASSUME McrAtomic, MaxSequence = 0
  PROVE  Spec => []InFrameWatched
<1> DEFINE Inv == LinkIInv /\ WatchInv
<1>1. Init => Inv
  BY LinkInitIInv, WatchInitially
<1>2. Inv /\ [Next]_vars => Inv'
  BY LinkNextIInv, WatchStep DEF Orderly
<1>3. Inv => InFrameWatched
  BY DEF WatchInv, Watched, StatusWatched, InFrameWatched, Inside, Armed, Announced, Turning, After
<1> QED
  BY <1>1, <1>2, <1>3, PTL DEF Spec

-----------------------------------------------------------------------------
(* What the proofs below have in common: a host that waits, so that a frame *)
(* is complete before it starts, and what each step does to the bus and to  *)
(* the fields of the receiver.                                              *)

\* What dali_101_send does up to the loaded frame, and then until it knows what
\* to do with it.
Calculates == MainReset \/ MainCheck \/ MainWrite \/ MainLoad
Decides    == MainType \/ MainTest \/ MainGap

\* A frame that is scheduled, waits or runs has a first phase.
FirstPhase ==
  /\ rx.waiting \/ main.pc \in Deciding \/ ~TxIsIdle => tx.count[1] > 0
  /\ main.pc \in Filling /\ main.phase > 0 => tx.count[1] > 0

\* A host that waits keeps its serial task idle.
Founded == SendInv /\ WatchInv /\ FirstPhase /\ SerialIdle

\* An edge the rx task has not handled yet, and that there is only one.
EdgeKnown == bus.edge \/ NOTIFY_CAPTURE \in Announced
OneEdge ==
  /\ ~(bus.edge /\ NOTIFY_CAPTURE \in Announced)
  /\ ~(NOTIFY_CAPTURE \in task.notify /\ NOTIFY_CAPTURE \in task.work)

\* Nobody who pulls the bus low lets go of it before time passes.
NoRelease == (t0.pin => t0.in # 0) /\ (ext.pin => ext.in # 0)

\* The types of what is founded.
LEMMA FoundedTyped ==
  ASSUME Founded
  PROVE  /\ LinkIInv /\ RxInv /\ LinkInv /\ WatchTypes /\ TxIInv /\ TxTypeOK
         /\ main \in Mains /\ rx \in RxRecords /\ t1 \in Matches /\ age \in Ages
         /\ bus \in [edge : BOOLEAN, quiet : 0..Far] /\ task \in Tasks
  BY WatchTyped DEF Founded, SendInv, LinkIInv, RxInv, LinkInv, ReleaseInv

\* The steps there are: MCR is stored at once, nobody sends a sequence.
LEMMA Steps ==
  ASSUME MaxSequence = 0, HostWaits, Founded, [Next]_vars
  PROVE  \/ TxIsrPhase \/ TxIsrEnd \/ RxIsrCapture \/ RxIsrMatch \/ RxTaskStep
         \/ MainPrint \/ MainPrinted \/ MainTake
         \/ Calculates \/ Decides \/ MainStart \/ MainArm \/ MainWait
         \/ HostCommand \/ ExtStart \/ ExtEnd \/ Tick \/ UNCHANGED vars
<1>1. ~(SerialStart \/ SerialNext \/ SerialExecute \/ SerialStep)
  BY NoSequenceStep, FoundedTyped DEF Founded, WatchInv
<1>2. ~McrStore
  BY DEF McrStore, Store, NothingHeld, Writers, Founded, WatchInv
<1>3. ~HostPrint
  BY DEF HostPrint
<1> QED
  BY <1>1, <1>2, <1>3 DEF Next, Progress, MainStep, Calculates, Decides

\* What such a host does.
LEMMA HostAsks ==
  ASSUME HostWaits, Founded, HostCommand
  PROVE  /\ Settled /\ ~h.asked /\ Len(cmds') = 1 /\ cmds'[1] \in TxFrames
         /\ UNCHANGED <<txVars, rxVars, ext, bus, main, ser, h>>
<1>1. PICK f \in TxFrames : cmds' = Enqueued(f)
  BY DEF HostCommand
<1>2. Settled /\ ~h.asked /\ cmds = <<>> /\ Len(cmds) < QueueLength
  BY LinkAssumption DEF HostCommand, Settled, LinkAssumption
<1>3. Len(cmds') = 1 /\ cmds'[1] = f
  BY <1>1, <1>2 DEF Enqueued
<1> QED
  BY <1>2, <1>3 DEF HostCommand

\* What the main task takes from the queue, and where it goes.
LEMMA MainTakes ==
  ASSUME Founded, MainTake
  PROVE  /\ main.pc = "loop" /\ TxIsIdle /\ cmds # <<>> /\ cmds = <<Head(cmds)>>
         /\ main'.frame = Head(cmds) /\ Head(cmds) \in TxFrames /\ cmds' = <<>>
         /\ main'.pc = IF Head(cmds).type = "NONE" THEN "loop" ELSE "reset"
         /\ UNCHANGED <<txVars, rxVars, ext, bus, ser, host, h>>
<1>1. main.pc = "loop" /\ TxIsIdle /\ cmds # <<>> /\ main \in Mains
  BY FoundedTyped DEF MainTake, At, CanTake
<1>3. Head(cmds) \in TxFrames /\ cmds = <<Head(cmds)>> /\ Tail(cmds) = <<>>
  BY <1>1, OneTaken, FoundedTyped DEF Founded, SendInv
<1>4. main'.frame = Head(cmds)
      /\ main'.pc = IF Head(cmds).type = "NONE" THEN "loop" ELSE "reset"
  BY <1>1 DEF MainTake, Mains
<1> QED
  BY <1>1, <1>3, <1>4 DEF MainTake

\* Where the serial task stays.
LEMMA SerialStays ==
  ASSUME MaxSequence = 0, HostWaits, Founded, [Next]_vars PROVE SerialIdle'
<1>1. CASE HostCommand
  BY <1>1, HostAsks DEF Founded, SerialIdle
<1>2. CASE Tick
  <2>1. ser' = [ser EXCEPT !.arg = @ - 1] \/ ser' = NothingToDo
    BY <1>2 DEF Tick
  <2> QED
    BY <2>1, FoundedTyped DEF Founded, LinkInv, Serials, NothingToDo, Doing, SerialIdle
<1>3. CASE UNCHANGED ser
  BY <1>3 DEF Founded, SerialIdle
<1>4. CASE MainArm \/ MainWait \/ MainPrint \/ MainPrinted \/ MainTake \/ MainStart
  BY <1>3, <1>4 DEF MainArm, MainWait, MainPrint, MainPrinted, MainTake, MainStart
<1>5. CASE Calculates \/ Decides
  BY <1>3, <1>5 DEF Calculates, Decides, MainReset, MainCheck, MainWrite, MainLoad,
                    MainType, MainTest, MainGap
<1>6. CASE TxIsrPhase \/ TxIsrEnd \/ RxIsrCapture \/ RxIsrMatch \/ RxTaskStep
           \/ ExtStart \/ ExtEnd \/ UNCHANGED vars
  BY <1>3, <1>6 DEF TxIsrPhase, TxIsrEnd, RxIsrCapture, RxIsrMatch, RxTaskStep,
                    ExtStart, ExtEnd, vars, linkVars
<1> QED
  BY <1>1, <1>2, <1>4, <1>5, <1>6, Steps

\* The first phase is calculated first.
LEMMA FirstCalculated ==
  ASSUME Founded, Calculates
  PROVE  FirstPhase'
<1>1. /\ TxIInv /\ TxTypeOK /\ TxFacts /\ main \in Mains /\ PhaseOfFrame /\ ArrayInv
      /\ CountArraySize \in Nat \ {0}
  BY FoundedTyped, TxTyped, TxAssumption
  DEF Founded, SendInv, LinkIInv, LinkInv, TxAssumption
<1>2. /\ TxIsIdle' /\ ~rx.waiting /\ UNCHANGED rxVars
      /\ main'.pc \in Calculating \/ MainLoad
  BY CalculateSends DEF Founded, SendInv, Calculates
<1>3. ~rx'.waiting
  BY <1>2 DEF rxVars
<1>4. CASE MainReset
  <2>1. main'.pc \in {"forget", "empty", "check"} /\ main'.phase = main.phase
        /\ main.phase = 0
    BY <1>1, <1>4 DEF MainReset, At, Goto, Mains, PhaseOfFrame
  <2> QED
    BY <1>2, <1>3, <2>1 DEF FirstPhase, Deciding, Scheduling
<1>5. CASE MainCheck
  <2>1. /\ main'.pc \in {"write", "loop"} /\ main.pc = "check" /\ tx' = tx
        /\ main'.phase \in {main.phase, 0}
    BY <1>1, <1>5 DEF MainCheck, At, Goto, GoBack, Mains, txVars
  <2> QED
    BY <1>2, <1>3, <2>1 DEF Founded, FirstPhase, Filling, Deciding, Scheduling
<1>6. CASE MainWrite
  <2> DEFINE p == main.frame.phases[main.phase + 1]
  <2>1. /\ main.pc = "write" /\ ~ArrayFull /\ main.phase \in Nat
        /\ main.frame \in TxFrames /\ main.phase < Len(main.frame.phases)
        /\ tx.index_max = main.phase /\ TxAdd(p)
        /\ main'.pc \in {"load", "check"} /\ main'.phase = main.phase + 1
    BY <1>1, <1>6
    DEF MainWrite, At, Mains, PhaseOfFrame, ArrayInv, Founded, SendInv, LinkIInv, LinkInv,
        FrameTaken, WatchInv, FilledAlone, Filling
  <2>2. p \in Nat \ {0}
    <3>1. main.phase + 1 \in 1..Len(main.frame.phases)
      BY <2>1, FrameTyped
    <3> QED
      BY <2>1, <3>1, FrameTyped
  <2> HIDE DEF p
  <2>3. /\ tx.index_max < CountArraySize /\ tx.index_max + 1 \in Positions
        /\ tx.count \in [Positions -> Nat]
        /\ tx'.count = [tx.count EXCEPT ![tx.index_max + 1] = Base + p]
    BY <1>1, <2>1 DEF TxAdd, ArrayFull, TxFacts, Positions
  <2>4. tx'.count[1] > 0
    <3>1. CASE main.phase = 0
      BY <1>1, <2>1, <2>2, <2>3, <3>1 DEF Base, TxFacts
    <3>2. CASE main.phase > 0
      <4>1. tx.count[1] > 0
        BY <2>1, <3>2 DEF Founded, FirstPhase, Filling
      <4> QED
        BY <1>1, <2>1, <2>3, <3>2, <4>1 DEF TxFacts
    <3> QED
      BY <2>1, <3>1, <3>2
  <2> QED
    BY <2>4 DEF FirstPhase
<1>7. CASE MainLoad
  <2>1. /\ main.pc = "load" /\ main.phase > 0 /\ tx'.count = tx.count
    <3>1. main.pc = "load" /\ main.phase = Len(main.frame.phases) /\ main.frame \in TxFrames
      BY <1>1, <1>7
      DEF MainLoad, At, PhaseOfFrame, Founded, SendInv, LinkIInv, LinkInv, FrameTaken
    <3>2. Len(main.frame.phases) \in Nat \ {0}
      BY <3>1, FrameTyped
    <3>3. tx'.count = tx.count
      BY <1>1, <1>7 DEF MainLoad, TxLoad, TxFacts
    <3> QED
      BY <3>1, <3>2, <3>3
  <2> QED
    BY <2>1 DEF Founded, FirstPhase, Filling
<1> QED
  BY <1>4, <1>5, <1>6, <1>7 DEF Calculates

\* A complete frame has a first phase, and only a main task that builds one
\* touches the array.
LEMMA FirstStep ==
  ASSUME MaxSequence = 0, HostWaits, Founded, [Next]_vars
  PROVE  FirstPhase'
<1>1. TxIInv /\ RxInv /\ LinkIInv /\ main \in Mains /\ rx \in RxRecords /\ FirstPhase
  BY FoundedTyped DEF Founded
<1>2. ASSUME tx'.count = tx.count, main'.pc \notin Filling,
             \/ main.pc \in Deciding \/ rx.waiting \/ ~TxIsIdle
             \/ TxIsIdle' /\ ~rx'.waiting /\ main'.pc \notin Deciding
      PROVE  FirstPhase'
  BY <1>1, <1>2 DEF FirstPhase
<1>3. ASSUME UNCHANGED tx, rx'.waiting = rx.waiting, main'.pc = main.pc,
             main'.phase = main.phase
      PROVE  FirstPhase'
  BY <1>1, <1>3 DEF FirstPhase, TxIsIdle
<1>4. CASE TxIsrPhase \/ TxIsrEnd
  <2>1. tx'.count = tx.count /\ UNCHANGED <<rx, main>> /\ ~TxIsIdle
    BY <1>1, <1>4, PhaseReleases, EndReleases DEF TxIsrPhase, TxIsrEnd, Array, rxVars
  <2> QED
    BY <1>1, <2>1 DEF FirstPhase
<1>5. CASE RxTaskStep
  <2>1. RxSends /\ UNCHANGED main
    BY <1>1, <1>5, RxTaskSends DEF RxTaskStep
  <2>2. CASE UNCHANGED txVars /\ rx'.waiting = rx.waiting
    BY <1>3, <2>1, <2>2 DEF txVars
  <2>3. CASE Repeats /\ TxRepeat
    BY <1>1, <2>1, <2>3, RepeatReleases DEF FirstPhase, Repeats, Array
  <2>4. CASE rx.waiting /\ TxStart
    BY <1>1, <2>1, <2>4, StartReleases DEF FirstPhase, Array
  <2> QED
    BY <2>1, <2>2, <2>3, <2>4 DEF RxSends
<1>6. CASE Calculates
  BY <1>6, FirstCalculated
<1>7. CASE Decides \/ MainArm
  <2>1. UNCHANGED txVars /\ main.pc \in Deciding /\ main'.pc \in Deciding
    BY <1>1, <1>7, DecideSends DEF Decides
  <2>2. tx'.count = tx.count /\ main'.pc \notin Filling
    BY <2>1 DEF txVars, Deciding, Scheduling, Filling
  <2> QED
    BY <1>2, <2>1, <2>2
<1>8. CASE MainStart
  <2>1. TxStart /\ main.pc \in Deciding /\ main'.pc \notin Filling
    BY <1>1, <1>8, MainStartSends DEF Deciding, Scheduling, Filling
  <2> QED
    BY <1>1, <1>2, <2>1, StartReleases DEF Array
<1>9. CASE MainWait
  <2>1. UNCHANGED txVars /\ main'.pc = "loop" /\ main.pc \in {"armed", "wait", "clear"}
        /\ rx'.waiting = (main.pc # "clear")
    BY <1>1, <1>9, MainWaitSends
  <2>2. main.pc \in {"armed", "wait"} => main.pc \in Deciding
    BY DEF Deciding, Scheduling
  <2> QED
    BY <1>1, <2>1, <2>2 DEF FirstPhase, Filling, Deciding, Scheduling, txVars, TxIsIdle
<1>10. CASE MainPrint \/ MainPrinted \/ MainTake
  <2>1. UNCHANGED <<tx, rx>>
    BY <1>10 DEF MainPrint, MainPrinted, MainTake, txVars, rxVars
  <2>2. main'.pc \in {"loop", "print", "reset"}
    BY <1>1, <1>10, MainTakes, LoopSends
  <2> QED
    BY <1>1, <2>1, <2>2 DEF FirstPhase, TxIsIdle, Filling, Deciding, Scheduling
<1>11. CASE Tick
  <2>1. tx' = tx /\ rx'.waiting = rx.waiting /\ main'.pc = main.pc /\ main'.phase = main.phase
    BY <1>1, <1>11 DEF Tick, TxTick, RxElapsed, Mains, RxRecords
  <2> QED
    BY <1>3, <2>1
<1>12. CASE \/ RxIsrCapture \/ RxIsrMatch
            \/ HostCommand \/ ExtStart \/ ExtEnd \/ UNCHANGED vars
  <2>1. UNCHANGED <<tx, rx, main>>
    BY <1>12
    DEF RxIsrCapture, RxIsrMatch, IsrCapture, IsrStop, IsrPeriod, IsrQuery,
        HostCommand, ExtStart, ExtEnd, vars, linkVars, txVars, rxVars
  <2> QED
    BY <1>3, <2>1
<1> QED
  BY <1>4, <1>5, <1>6, <1>7, <1>8, <1>9, <1>10, <1>11, <1>12, Steps

\* What all the proofs below stand on is invariant.
LEMMA FoundedInvariant ==
  ASSUME McrAtomic, MaxSequence = 0, HostWaits
  PROVE  /\ Init => Founded
         /\ Founded /\ [Next]_vars => Founded'
<1>1. Init => FirstPhase /\ SerialIdle
  BY DEF Init, TxInit, RxInit, FirstPhase, TxIsIdle, SerialIdle, NothingToDo, Doing,
         Deciding, Scheduling, Filling
<1>2. Init => Founded
  BY <1>1, SendInitially, WatchInitially DEF Founded
<1>3. Founded /\ [Next]_vars => Founded'
  BY SendStep, WatchStep, FirstStep, SerialStays, FoundedTyped DEF Founded
<1> QED
  BY <1>2, <1>3

\* A phase that is programmed is still to come.
LEMMA PhaseWaits ==
  ASSUME Founded, TxIsrPhase PROVE t0'.in # 0
<1>1. /\ TxIInv /\ TxPhase /\ IsRunning /\ tx.index_next <= tx.index_max
      /\ t0'.in = tx.count[tx.index_next + 1] - t0.match /\ TxFacts
  BY FoundedTyped, PhaseReleases, TxTyped DEF TxIsrPhase, TxPhase
<1>2. /\ t0.match = tx.count[tx.index_next] /\ tx.index_next \in 1..tx.index_max
      /\ tx.index_max < CountArraySize
      /\ \A i \in 1..tx.index_max : tx.count[i] < tx.count[i + 1]
  BY <1>1 DEF TxIInv, RunningWell, Playable, TxFacts, IsRunning
<1>3. /\ tx.count[tx.index_next] < tx.count[tx.index_next + 1]
      /\ tx.count[tx.index_next] \in Nat /\ tx.count[tx.index_next + 1] \in Nat
  BY <1>1, <1>2 DEF TxFacts, Positions
<1> QED
  BY <1>1, <1>2, <1>3

\* What pulls the bus low, whoever it is, does so for some time, and no one who
\* is not due lets go of it: the phases of a frame end one after the other.
LEMMA PinStep ==
  ASSUME MaxSequence = 0, HostWaits, Founded, [Next]_vars, ~Tick
  PROVE  /\ BusFollows \/ (RxIsrCapture /\ Pin' = Pin)
         /\ ~Pin /\ Pin' => NoRelease'
         /\ Pin /\ NoRelease => Pin' /\ NoRelease'
<1>1. TxTypeOK /\ TxIInv /\ RxInv /\ LinkInv /\ LinkIInv
  BY FoundedTyped
<1>2. ASSUME UNCHANGED <<t0, ext>> PROVE Pin' = Pin /\ (NoRelease => NoRelease')
  BY <1>2 DEF Pin, NoRelease
<1>3. ASSUME TxStart, FirstPhase, rx.waiting \/ main.pc \in Deciding, UNCHANGED ext
      PROVE  Pin' /\ (~Pin => NoRelease') /\ (NoRelease => NoRelease')
  <2>1. t0'.pin /\ t0'.in = tx.count[1] /\ tx.count[1] > 0
    BY <1>3 DEF TxStart, Running, FirstPhase
  <2> QED
    BY <1>3, <2>1 DEF Pin, NoRelease
<1>4. CASE TxIsrPhase
  <2>1. TxPhase /\ BusFollows /\ UNCHANGED ext
    BY <1>4 DEF TxIsrPhase
  <2>2. t0'.in # 0 /\ t0.in = 0
    BY <1>4, <2>1, PhaseWaits DEF TxPhase
  <2> QED
    BY <2>1, <2>2 DEF Pin, NoRelease
<1>5. CASE TxIsrEnd
  <2>1. t0.in = 0 /\ ~t0'.pin /\ BusFollows /\ UNCHANGED ext
    BY <1>5 DEF TxIsrEnd, TxEnd, Stopped
  <2> QED
    BY <2>1 DEF Pin, NoRelease
<1>6. CASE RxIsrCapture \/ RxIsrMatch
  BY <1>2, <1>6
  DEF RxIsrCapture, RxIsrMatch, IsrCapture, IsrStop, IsrPeriod, IsrQuery, txVars, linkVars,
      BusFollows
<1>7. CASE RxTaskStep
  <2>1. RxSends /\ BusFollows /\ UNCHANGED ext
    BY <1>1, <1>7, RxTaskSends DEF RxTaskStep
  <2>2. CASE UNCHANGED t0
    BY <1>2, <2>1, <2>2
  <2>3. CASE rx.waiting /\ TxStart
    BY <1>3, <2>1, <2>3 DEF Founded
  <2> QED
    BY <2>1, <2>2, <2>3 DEF RxSends, TxRepeat, txVars
<1>8. CASE Calculates
  <2>1. t0' = Stopped /\ t0 = Stopped /\ UNCHANGED <<ext, bus>>
    BY <1>8, CalculateSends DEF Calculates, Founded
  <2> QED
    BY <1>2, <2>1 DEF BusFollows
<1>9. CASE Decides \/ MainArm
  <2>1. UNCHANGED <<txVars, ext, bus>>
    BY <1>1, <1>9, DecideSends DEF Decides
  <2> QED
    BY <1>2, <2>1 DEF BusFollows, txVars
<1>10. CASE MainStart
  <2>1. BusFollows /\ UNCHANGED ext /\ main.pc \in Deciding /\ TxStart
    BY <1>1, <1>10, MainStartSends DEF MainStart, Deciding, Scheduling
  <2> QED
    BY <1>3, <2>1 DEF Founded
<1>11. CASE ExtStart
  <2>1. PICK d \in ExtLows : ext'.pin /\ ext'.in = d
    BY <1>11 DEF ExtStart
  <2>2. d # 0
    BY LinkAssumption, ThresholdsOrdered DEF LinkAssumption
  <2> QED
    BY <1>11, <2>1, <2>2 DEF ExtStart, Pin, NoRelease, txVars
<1>12. CASE ExtEnd
  BY <1>1, <1>12 DEF ExtEnd, Pin, NoRelease, txVars, LinkInv
<1>13. CASE \/ HostCommand
            \/ MainPrint \/ MainPrinted \/ MainTake \/ MainWait \/ UNCHANGED vars
  <2>1. UNCHANGED <<t0, ext, bus>>
    BY <1>13
    DEF HostCommand, MainPrint, MainPrinted, MainTake, MainWait, vars, linkVars, txVars
  <2> QED
    BY <1>2, <2>1 DEF BusFollows
<1> QED
  BY <1>4, <1>5, <1>6, <1>7, <1>8, <1>9, <1>10, <1>11, <1>12, <1>13, Steps

\* The steps of the host, the bus, the transmitter and, where it arms no match,
\* the main task leave the receiver and its matches as they are.
LEMMA RestStep ==
  ASSUME McrAtomic, MaxSequence = 0, HostWaits, Founded, [Next]_vars,
         ~(Tick \/ RxIsrCapture \/ RxIsrMatch \/ RxTaskStep \/ MainArm)
  PROVE  /\ UNCHANGED <<task, age, mcr>> /\ t1'.stop = t1.stop /\ t1'.period = t1.period
         /\ rx'.status = rx.status /\ rx'.frame = rx.frame /\ rx'.idle_in = rx.idle_in
         /\ rx'.halted = rx.halted /\ (MainType \/ rx'.type = rx.type)
<1>1. RxInv /\ LinkIInv
  BY FoundedTyped
<1>2. CASE Calculates
  BY <1>2, CalculateSends DEF Calculates, Founded, rxVars
<1>3. CASE Decides
  <2>1. UNCHANGED <<task, age, t1, mcr>> /\ (~MainType => UNCHANGED rx)
    BY <1>1, <1>3, DecideSends DEF Decides, MainType, MainTest, MainGap, MainArm, rxVars
  <2> QED
    BY <1>1, <2>1 DEF MainType, RxInv, RxRecords
<1>4. CASE MainWait
  BY <1>1, <1>4 DEF MainWait, RxInv, RxRecords
<1>5. CASE TxIsrPhase \/ TxIsrEnd
  BY <1>1, <1>5 DEF TxIsrPhase, TxIsrEnd, ScheduleQuery, RxInv, Matches, rxVars
<1>6. CASE \/ HostCommand \/ ExtStart \/ ExtEnd \/ MainStart
           \/ MainPrint \/ MainPrinted \/ MainTake \/ UNCHANGED vars
  BY <1>6
  DEF HostCommand, ExtStart, ExtEnd, MainPrint, MainPrinted, MainTake, MainStart,
      vars, rxVars
<1> QED
  BY <1>2, <1>3, <1>4, <1>5, <1>6, Steps

\* What the handler of an edge does to the receiver, one disjunct for each: a
\* frame starts, the edge is ignored, the frame goes on or is given up, the bus
\* comes back.
StartsFrame(pin) ==
  /\ rx.status \in Resting /\ pin /\ rx'.status = "START_BIT_START"
  /\ rx'.frame.code = rx.frame.code /\ rx'.frame.loopback = ~TxIsIdle
  /\ rx'.waiting = rx.waiting
  /\ t1'.period = Off /\ t1'.query = Off /\ UNCHANGED <<txVars, rxq>>
IgnoresEdge(pin) ==
  /\ \/ rx.status \in Resting /\ ~pin
     \/ rx.status = "ERROR_IN_FRAME"
     \/ rx.status \in BusDown /\ pin
  /\ UNCHANGED <<rx, t1, txVars, rxq>>
TakesBit ==
  /\ rx.status \in InFrame /\ rx'.waiting = rx.waiting /\ UNCHANGED <<t1, txVars>>
  /\ \/ rx'.status \in InFrame /\ rx'.frame = rx.frame /\ UNCHANGED rxq
     \/ /\ rx'.status = "ERROR_IN_FRAME" /\ rx'.frame = ErrorReport("RECEIVE_TIMING")
        /\ rxq' = Queued(rx'.frame)
BusIsBack(pin) ==
  /\ rx.status \in BusDown /\ ~pin /\ rx'.status = "IDLE" /\ rx'.frame = NoFrame
  /\ manage_tx /\ UNCHANGED <<t1, t0>>

LEMMA CaptureOutcome ==
  ASSUME McrAtomic, RxInv, WatchTypes, NEW pin,
         CaptureStart(pin) \/ CaptureIgnored(pin) \/ CaptureBit \/ CaptureRecover(pin)
  PROVE  /\ Captured /\ t1'.stop = t1.stop /\ mcr' = mcr
         /\ rx'.idle_in = rx.idle_in /\ rx'.type = rx.type /\ rx'.halted = rx.halted
         /\ StartsFrame(pin) \/ IgnoresEdge(pin) \/ TakesBit \/ BusIsBack(pin)
<1>1. CASE CaptureStart(pin)
  <2>1. Captured /\ t1' = [t1 EXCEPT !.query = Off, !.period = Off] /\ mcr' = mcr
    BY <1>1, StartServes
  <2> QED
    BY <1>1, <2>1 DEF CaptureStart, StartsFrame, RxInv, RxRecords, Reports, Matches
<1>2. CASE CaptureIgnored(pin)
  BY <1>2 DEF CaptureIgnored, IgnoresEdge
<1>3. CASE CaptureBit
  <2> DEFINE next == Following(rx.status, age.last - age.edge)
  <2>1. next \in InFrame \cup {"ERROR_IN_FRAME"}
    BY DEF Following, InFrame
  <2>2. /\ Captured /\ rx.status \in InFrame
        /\ IF next = "ERROR_IN_FRAME" THEN queue_error_frame("RECEIVE_TIMING")
           ELSE rx' = [rx EXCEPT !.status = next] /\ UNCHANGED rxq
        /\ UNCHANGED <<t1, wrap, mcr, txVars>>
    BY <1>3 DEF CaptureBit
  <2> HIDE DEF next
  <2>3. CASE next = "ERROR_IN_FRAME"
    BY <2>2, <2>3 DEF queue_error_frame, TakesBit, RxInv, RxRecords
  <2>4. CASE next # "ERROR_IN_FRAME"
    BY <2>1, <2>2, <2>4 DEF TakesBit, RxInv, RxRecords
  <2> QED
    BY <2>3, <2>4
<1>4. CASE CaptureRecover(pin)
  <2>1. Managed \in RxRecords /\ rx' = [Managed EXCEPT !.status = "IDLE", !.frame = NoFrame]
    BY <1>4, ManagedTyped DEF CaptureRecover
  <2>2. Managed.idle_in = rx.idle_in /\ Managed.type = rx.type /\ Managed.halted = rx.halted
    BY DEF Managed, RxInv, RxRecords
  <2>3. t0' = t0
    BY <1>4 DEF CaptureRecover, manage_tx, TxRepeat, txVars
  <2> QED
    BY <1>4, <2>1, <2>2, <2>3 DEF CaptureRecover, BusIsBack, RxRecords
<1> QED
  BY <1>1, <1>2, <1>3, <1>4

\* ... the handler of a stop bit match: it is ignored, a frame or an error is
\* over and the gap after it begins, the bus is low for longer than that, or
\* for so long that it has failed.
IgnoresMatch(pin) ==
  /\ \/ ~pin /\ rx.status \in Resting
     \/ pin /\ rx.status = "FAILURE"
  /\ UNCHANGED <<rx, t1, age, txVars, rxq>>
Pauses(pin) ==
  /\ ~pin /\ rx.status \notin Resting /\ manage_tx /\ UNCHANGED t0
  /\ rx'.status = "INTER_FRAME_IDLE" /\ rx'.frame = NoFrame
  /\ rx'.waiting = (rx.waiting \/ Repeats)
  /\ rxq' = IF rx.status \in InFrame THEN Queued(rx.frame) ELSE rxq
  /\ age' = [age EXCEPT !.full = IF rx.status \in InFrame THEN age.last ELSE @]
  /\ LET in == Match(PeriodIn(StartIn(IF rx'.waiting THEN rx.type ELSE "FORWARD_5",
                                      age'.full)))
     IN t1' = [t1 EXCEPT !.period = in] /\ rx'.idle_in = in
StaysLow(pin) ==
  /\ pin /\ rx.status \notin BusDown /\ rx'.status = "LOW" /\ rx'.frame = rx.frame
  /\ t1'.period = t1.period /\ UNCHANGED <<age, txVars, rxq>>
Fails(pin) ==
  /\ pin /\ rx.status = "LOW" /\ rx'.status = "FAILURE" /\ UNCHANGED <<t1, age, txVars>>

LEMMA MatchOutcome ==
  ASSUME McrAtomic, RxInv, NEW pin,
         MatchIgnored(pin) \/ MatchFrame(pin) \/ MatchDiscard(pin)
           \/ MatchLow(pin) \/ MatchFailure(pin)
  PROVE  /\ Matched /\ mcr' = mcr /\ rx'.type = rx.type
         /\ \/ rx'.halted = rx.halted
            \/ rx.status \in InFrame /\ rx'.halted = (Len(rxq) >= RxQueueSize)
         /\ IgnoresMatch(pin) \/ Pauses(pin) \/ StaysLow(pin) \/ Fails(pin)
<1>1. CASE MatchIgnored(pin)
  BY <1>1 DEF MatchIgnored, IgnoresMatch
<1>2. CASE MatchFrame(pin) \/ MatchDiscard(pin)
  <2>1. PICK r \in RxRecords, full \in {age.last, age.full} :
          /\ Pending(r, full) /\ Matched /\ ~pin /\ manage_tx /\ rx.status \notin Resting
          /\ r.frame = NoFrame /\ r.waiting = Managed.waiting /\ r.type = rx.type
          /\ \/ r.halted = rx.halted
             \/ rx.status \in InFrame /\ r.halted = (Len(rxq) >= RxQueueSize)
          /\ age' = [age EXCEPT !.full = IF rx.status \in InFrame THEN age.last ELSE @]
          /\ full = age'.full
          /\ rxq' = IF rx.status \in InFrame THEN Queued(rx.frame) ELSE rxq
    <3>1. Managed \in RxRecords /\ Managed.type = rx.type /\ Managed.halted = rx.halted
      BY ManagedTyped DEF Managed, RxInv, RxRecords
    <3>2. age = [age EXCEPT !.full = @]
      BY DEF RxInv, Ages
    <3>3. CASE MatchFrame(pin)
      <4> DEFINE r == [Managed EXCEPT !.frame = NoFrame, !.halted = Len(rxq) >= RxQueueSize]
      <4>1. r \in RxRecords /\ Pending(r, age.last)
        BY <3>3, ClearedTyped DEF MatchFrame
      <4>2. /\ r.frame = NoFrame /\ r.waiting = Managed.waiting /\ r.type = rx.type
            /\ r.halted = (Len(rxq) >= RxQueueSize)
        BY <3>1 DEF RxRecords
      <4>3. age' = [age EXCEPT !.full = age.last] /\ age'.full = age.last
        BY <3>3 DEF MatchFrame, RxInv, Ages
      <4>4. /\ Matched /\ ~pin /\ manage_tx /\ rx.status \in InFrame /\ rx.status \notin Resting
            /\ rxq' = Queued(rx.frame)
        BY <3>3 DEF MatchFrame, InFrame, Resting
      <4> HIDE DEF r
      <4> QED
        BY <4>1, <4>2, <4>3, <4>4
    <3>4. CASE MatchDiscard(pin)
      <4> DEFINE r == [Managed EXCEPT !.frame = NoFrame]
      <4>1. r \in RxRecords /\ Pending(r, age.full)
        BY <3>4, ClearedTyped DEF MatchDiscard
      <4>2. /\ r.frame = NoFrame /\ r.waiting = Managed.waiting /\ r.type = rx.type
            /\ r.halted = rx.halted
        BY <3>1 DEF RxRecords
      <4>3. Matched /\ ~pin /\ manage_tx /\ rx.status \notin InFrame /\ rx.status \notin Resting
            /\ age' = age /\ rxq' = rxq
        BY <3>4 DEF MatchDiscard, InFrame, Resting, BusDown
      <4> HIDE DEF r
      <4> QED
        BY <3>2, <4>1, <4>2, <4>3
    <3> QED
      BY <1>2, <3>3, <3>4
  <2> DEFINE in == Match(PeriodIn(StartIn(IF r.waiting THEN r.type ELSE "FORWARD_5", full)))
  <2>2. rx' = [r EXCEPT !.status = "INTER_FRAME_IDLE", !.idle_in = in]
        /\ Update("rx", [t1 EXCEPT !.period = in])
    BY <2>1 DEF Pending
  <2>3. /\ rx'.status = "INTER_FRAME_IDLE" /\ rx'.idle_in = in /\ rx'.waiting = r.waiting
        /\ rx'.frame = r.frame /\ rx'.type = r.type /\ rx'.halted = r.halted
    <3> HIDE DEF in
    <3> QED
      BY <2>1, <2>2 DEF RxRecords
  <2>4. t1' = [t1 EXCEPT !.period = in] /\ mcr' = mcr
    <3> HIDE DEF in
    <3> QED
      BY <2>2, UpdateAtomic
  <2>5. Managed.waiting = (rx.waiting \/ Repeats)
    BY DEF Managed, RxInv, RxRecords
  <2>6. t0' = t0
    BY <2>1 DEF manage_tx, TxRepeat, txVars
  <2>7. in = Match(PeriodIn(StartIn(IF rx'.waiting THEN rx.type ELSE "FORWARD_5", age'.full)))
    BY <2>1, <2>3
  <2> HIDE DEF in
  <2> QED
    BY <2>1, <2>3, <2>4, <2>5, <2>6, <2>7 DEF Pauses
<1>3. CASE MatchLow(pin)
  <2> DEFINE in == Match(Fail - age.last)
  <2>1. Update("rx", [t1 EXCEPT !.stop = in])
    BY <1>3 DEF MatchLow
  <2> HIDE DEF in
  <2>2. t1'.period = t1.period /\ mcr' = mcr
    BY <2>1, UpdateAtomic DEF RxInv, Matches
  <2> QED
    BY <1>3, <2>2 DEF MatchLow, StaysLow, RxInv, RxRecords
<1>4. CASE MatchFailure(pin)
  BY <1>4 DEF MatchFailure, Fails, RxInv, RxRecords
<1> QED
  BY <1>1, <1>2, <1>3, <1>4

\* Time does not pass while a frame is scheduled, ...
LEMMA ScheduledNow ==
  ASSUME Founded, main.pc \in Scheduling PROVE ~Tick
  BY DEF Tick, Due, MainDue, Founded, SerialIdle, Printing

\* ... and nothing else happens where the main task is not interrupted.
LEMMA Uninterrupted ==
  ASSUME MaxSequence = 0, HostWaits, Founded, [Next]_vars, main.pc \in Places \ Preemptible
  PROVE  Calculates \/ Decides \/ MainStart \/ MainArm \/ MainWait \/ UNCHANGED vars
<1>1. ~Interruptible /\ main.pc \notin {"loop", "print"}
  BY DEF Interruptible, Places, Calculating, Scheduling
<1>2. ~(TxIsrPhase \/ TxIsrEnd \/ RxIsrCapture \/ RxIsrMatch \/ RxTaskStep
         \/ HostCommand \/ ExtStart \/ ExtEnd)
  BY <1>1 DEF TxIsrPhase, TxIsrEnd, RxIsrCapture, RxIsrMatch, RxIsrReady, RxTaskStep,
              HostCommand, SerialReady, ExtStart, ExtEnd, Undisturbed
<1>3. ~Tick
  BY <1>1 DEF Tick, Due, MainDue, Founded, SerialIdle, Printing
<1>4. ~(MainPrint \/ MainPrinted \/ MainTake)
  BY <1>1 DEF MainPrint, MainPrinted, MainTake, At
<1> QED
  BY <1>2, <1>3, <1>4, Steps

\* What the main task decided in a gap still holds when it arms the match.
TypeKnown == main.pc \in Deciding \ {"schedule"} => rx.type = main.frame.type
ArmDecided ==
  main.pc = "arm" =>
    /\ rx.status = "INTER_FRAME_IDLE"
    /\ DueBeforeGapEnds(main.frame.type)
    /\ main.start = Match(PeriodIn(StartIn(main.frame.type, age.full)))
    /\ FALSE \in DueInGap(main.frame.type)
ArmInv == TypeKnown /\ ArmDecided

\* ... the type of the frame in any case, ...
LEMMA TypeStep ==
  ASSUME McrAtomic, MaxSequence = 0, HostWaits, Founded, TypeKnown, [Next]_vars
  PROVE  TypeKnown'
<1>1. RxInv /\ LinkIInv /\ main \in Mains /\ rx \in RxRecords
  BY FoundedTyped
<1>2. CASE MainType
  BY <1>1, <1>2 DEF MainType, Goto, TypeKnown, Mains, RxRecords
<1>3. CASE MainTest \/ MainGap \/ MainArm
  <2>1. main.pc \in Deciding /\ main.pc # "schedule" /\ main'.frame = main.frame
    BY <1>1, <1>3, DecideSends DEF MainTest, MainGap, MainArm, At
  <2>2. rx' = rx
    BY <1>3 DEF MainTest, MainGap, MainArm, rxVars
  <2> QED
    BY <2>1, <2>2 DEF TypeKnown
<1>4. CASE MainStart \/ MainWait \/ MainPrint \/ MainPrinted \/ MainTake
  <2>1. main'.pc \in {"clear", "loop", "print", "reset"}
    BY <1>1, <1>4, MainStartSends, MainWaitSends, LoopSends, MainTakes
  <2> QED
    BY <2>1 DEF TypeKnown, Deciding, Scheduling
<1>5. CASE Calculates
  <2>1. main'.pc \in Calculating \cup {"schedule"}
    BY <1>5, CalculateSends DEF Calculates, Founded
  <2> QED
    BY <2>1 DEF TypeKnown, Calculating, Deciding, Scheduling
<1>6. CASE Tick
  BY <1>1, <1>6, ScheduledNow DEF Tick, TypeKnown, Mains, Deciding
<1>7. CASE RxTaskStep
  <2>1. rx'.type = rx.type /\ main' = main
    <3>1. CASE \E pin : CaptureStart(pin) \/ CaptureIgnored(pin) \/ CaptureBit \/ CaptureRecover(pin)
      BY <1>1, <1>7, <3>1, CaptureOutcome, FoundedTyped DEF RxTaskStep
    <3>2. CASE \E pin : MatchIgnored(pin) \/ MatchFrame(pin) \/ MatchDiscard(pin)
                          \/ MatchLow(pin) \/ MatchFailure(pin)
      BY <1>1, <1>7, <3>2, MatchOutcome DEF RxTaskStep
    <3>3. CASE RxTake \/ CapturePeriod \/ PriorityTimeout \/ QueryTimeout
      BY <1>1, <1>7, <3>3
      DEF RxTaskStep, RxTake, CapturePeriod, PriorityTimeout, QueryTimeout, RxRecords
    <3> QED
      BY <1>7, <3>1, <3>2, <3>3 DEF RxTaskStep, RxTask
  <2> QED
    BY <2>1 DEF TypeKnown
<1>8. CASE RxIsrCapture \/ RxIsrMatch \/ TxIsrPhase \/ TxIsrEnd \/ HostCommand
           \/ ExtStart \/ ExtEnd \/ UNCHANGED vars
  <2>1. UNCHANGED <<rx, main>>
    BY <1>8
    DEF RxIsrCapture, RxIsrMatch, IsrCapture, IsrStop, IsrPeriod, IsrQuery, TxIsrPhase,
        TxIsrEnd, HostCommand, ExtStart, ExtEnd, vars, linkVars, rxVars
  <2> QED
    BY <2>1 DEF TypeKnown
<1> QED
  BY <1>2, <1>3, <1>4, <1>5, <1>6, <1>7, <1>8, Steps DEF Decides

\* A deadline is kept by what leaves ages and matches alone, ...
LEMMA DeadlineKept ==
  ASSUME UNCHANGED <<rx, age, wrap, t1>>, main'.frame = main.frame
  PROVE  UNCHANGED <<DueBeforeGapEnds(main.frame.type), DueInGap(main.frame.type),
                     Match(PeriodIn(StartIn(main.frame.type, age.full)))>>
<1>1. UNCHANGED StartIn(main.frame.type, age.full)
  BY DEF StartIn, Settling
<1>2. UNCHANGED CountBelow(StartIn(main.frame.type, age.full), rx.idle_in)
  BY <1>1 DEF CountBelow
<1>3. UNCHANGED CountBelow(0, StartIn(main.frame.type, age.full))
  BY <1>1 DEF CountBelow
<1> QED
  BY <1>1, <1>2, <1>3 DEF DueBeforeGapEnds, DueInGap, Match, PeriodIn

\* ... and the decision where it is not interrupted.
LEMMA ArmStep ==
  ASSUME McrAtomic, MaxSequence = 0, HostWaits, "arm" \notin Preemptible,
         Founded, ArmInv, [Next]_vars
  PROVE  ArmInv'
<1>1. RxInv /\ LinkIInv /\ main \in Mains
  BY FoundedTyped
<1>2. TypeKnown'
  BY TypeStep DEF ArmInv
<1>3. CASE main'.pc # "arm"
  BY <1>2, <1>3 DEF ArmDecided, ArmInv
<1>4. CASE main'.pc = "arm" /\ main.pc = "arm"
  <2>1. "arm" \in Places
    BY DEF Places, Scheduling
  <2>2. Calculates \/ Decides \/ MainStart \/ MainArm \/ MainWait \/ UNCHANGED vars
    BY <1>4, <2>1, Uninterrupted
  <2>3. ~(Calculates \/ Decides \/ MainStart \/ MainWait)
    BY <1>4
    DEF Calculates, Decides, MainReset, MainCheck, MainWrite, MainLoad, MainType, MainTest,
        MainGap, MainStart, MainWait, At
  <2>4. ~MainArm
    BY <1>1, <1>4 DEF MainArm, Mains
  <2>5. UNCHANGED vars
    BY <2>2, <2>3, <2>4
  <2>6. UNCHANGED <<rx, main, age, wrap, t1>>
    BY <2>5 DEF vars, rxVars, linkVars
  <2>7. UNCHANGED <<DueBeforeGapEnds(main.frame.type), DueInGap(main.frame.type),
                    Match(PeriodIn(StartIn(main.frame.type, age.full)))>>
    <3>1. UNCHANGED <<rx, age, wrap, t1>> /\ main'.frame = main.frame
      BY <2>6
    <3> QED
      BY <3>1, DeadlineKept
  <2> QED
    BY <1>2, <1>4, <2>6, <2>7 DEF ArmDecided, ArmInv
<1>5. CASE main'.pc = "arm" /\ main.pc # "arm"
  <2>1. MainGap
    <3>1. ~Calculates
      BY <1>5, CalculateSends DEF Calculates, Calculating, Founded
    <3>2. ~(MainStart \/ MainWait \/ MainPrint \/ MainPrinted \/ MainTake)
      BY <1>1, <1>5, MainStartSends, MainWaitSends, LoopSends, MainTakes
    <3>3. ~(MainType \/ MainTest \/ MainArm)
      BY <1>1, <1>5 DEF MainType, MainTest, MainArm, Goto, Mains
    <3>4. ~(TxIsrPhase \/ TxIsrEnd \/ RxIsrCapture \/ RxIsrMatch \/ RxTaskStep \/ HostCommand
             \/ ExtStart \/ ExtEnd \/ UNCHANGED vars)
      BY <1>5
      DEF RxIsrCapture, RxIsrMatch, TxIsrPhase, TxIsrEnd, RxTaskStep, HostCommand, ExtStart,
          ExtEnd, vars, linkVars
    <3>5. ~Tick
      BY <1>1, <1>5 DEF Tick, Mains
    <3> QED
      BY <3>1, <3>2, <3>3, <3>4, <3>5, Steps DEF Decides
  <2> DEFINE start == Match(PeriodIn(StartIn(main.frame.type, age.full)))
  <2>2. PICK now \in DueInGap(main.frame.type) :
          IF now THEN Goto("start_gap")
          ELSE IF DueBeforeGapEnds(main.frame.type)
          THEN main' = [main EXCEPT !.pc = "arm", !.start = start]
          ELSE Goto("wait")
    BY <1>1, <1>5, <2>1 DEF MainGap, Goto, Mains
  <2>3. rx.status = "INTER_FRAME_IDLE" /\ UNCHANGED <<rx, age, wrap, t1>>
    BY <1>1, <1>5, <2>1 DEF MainGap, Goto, Mains, rxVars
  <2>4. /\ now = FALSE /\ DueBeforeGapEnds(main.frame.type)
        /\ main' = [main EXCEPT !.pc = "arm", !.start = start]
    <3>1. now \in BOOLEAN
      BY DEF DueInGap, CountBelow
    <3>2. ~Goto("start_gap") /\ ~Goto("wait")
      BY <1>1, <1>5 DEF Goto, Mains
    <3> HIDE DEF start
    <3> QED
      BY <2>2, <3>1, <3>2
  <2> HIDE DEF start
  <2>5. main'.frame = main.frame /\ main'.start = start
    BY <1>1, <2>4 DEF Mains
  <2>6. UNCHANGED <<DueBeforeGapEnds(main.frame.type), DueInGap(main.frame.type), start>>
    BY <2>3, <2>5, DeadlineKept DEF start
  <2> QED
    BY <1>2, <2>2, <2>3, <2>4, <2>5, <2>6 DEF ArmInv, ArmDecided, start
<1> QED
  BY <1>2, <1>3, <1>4, <1>5 DEF ArmInv

LEMMA ArmInitially == ASSUME Init PROVE ArmInv
  BY DEF Init, ArmInv, TypeKnown, ArmDecided, Deciding, Scheduling

-----------------------------------------------------------------------------
(* No frame inherits an error.  The one moment in which the status code of  *)
(* an error could outlive it is the serving of the period match: its        *)
(* handler makes the receiver idle in whatever status it finds it.          *)

\* The period match is to come or its notification is; it is due.
PeriodOn  == t1.period # Off \/ NOTIFY_PRIORITY \in Announced
PeriodDue == t1.period = 0 \/ NOTIFY_PRIORITY \in Announced

\* The gap after a frame, the period match ends it.
Pausing == rx.status = "INTER_FRAME_IDLE" \/ (rx.status = "IDLE" /\ PeriodOn)

\* No stop bit match is to be served.
NoMatch == t1.stop # 0 /\ NOTIFY_MATCH \notin Announced

\* An error code is kept only where the next event is not the period match.
ErrorInside ==
  rx.frame.code # "OK" => rx.status \in BusDown \cup {"ERROR_IN_FRAME"} /\ ~PeriodOn
PeriodAtRest ==
  /\ t1.period # Off => rx.status \in Resting
  /\ NOTIFY_PRIORITY \in Announced =>
       /\ t1.period = Off /\ rx.status \in Resting \cup {"START_BIT_START"}
       /\ ~(NOTIFY_PRIORITY \in task.notify /\ NOTIFY_PRIORITY \in task.work)

\* Who pulls the bus low in the gap is seen before any stop bit match is, ...
PauseSeen == Pausing /\ Pin => EdgeKnown /\ NoMatch
\* ... and who does so in the instant in which the gap ends has only begun.
DueSeen ==
  PeriodDue /\ rx.status \in Resting =>
    (EdgeKnown => Pin) /\ OneEdge /\ (Pin => NoRelease)
StartSeen ==
  NOTIFY_PRIORITY \in Announced /\ rx.status = "START_BIT_START" =>
    Pin /\ ~EdgeKnown /\ NoMatch /\ NoRelease

CleanInv == ErrorInside /\ PeriodAtRest /\ PauseSeen /\ DueSeen /\ StartSeen

\* Nobody pulls the bus low in the very instant in which a stop bit match is
\* served although no frame is being received.
StopUndisturbed == ~Pin /\ Pin' /\ rx.status \in Resting => NoMatch

\* A step that leaves the receiver alone, or brings the period match forward.
LEMMA CleanQuiet ==
  ASSUME MaxSequence = 0, HostWaits, Founded, CleanInv, [Next]_vars, ~Tick, ~RxIsrCapture,
         StopUndisturbed,
         task' = task, t1'.stop = t1.stop, rx'.status = rx.status, rx'.frame = rx.frame,
         \/ t1'.period = t1.period
         \/ rx.status = "INTER_FRAME_IDLE" /\ Announced = {} /\ t1'.period # 0
  PROVE  CleanInv'
<1>1. /\ BusFollows
      /\ ~Pin /\ Pin' => NoRelease'
      /\ Pin /\ NoRelease => Pin' /\ NoRelease'
  BY PinStep
<1>2. /\ Announced' = Announced /\ (NoMatch' <=> NoMatch)
      /\ Pausing' => Pausing
      /\ PeriodDue' => PeriodDue
  BY DEF Announced, NoMatch, Pausing, PeriodOn, PeriodDue
<1>3. /\ EdgeKnown => EdgeKnown'
      /\ ~(Pin' <=> Pin) => bus'.edge
      /\ (Pin' <=> Pin) => bus' = bus
  BY <1>1, FoundedTyped DEF EdgeKnown, BusFollows, Pin, Announced
<1>4. ErrorInside'
  BY <1>2 DEF CleanInv, ErrorInside, PeriodOn, PeriodAtRest, BusDown, Resting
<1>5. PeriodAtRest'
  BY <1>2 DEF CleanInv, PeriodAtRest, Resting
<1>6. PauseSeen'
  <2>1. Pausing => rx.status \in Resting
    BY DEF Pausing, Resting
  <2>2. bus'.edge => EdgeKnown'
    BY DEF EdgeKnown
  <2> QED
    BY <1>2, <1>3, <2>1, <2>2 DEF CleanInv, PauseSeen, StopUndisturbed
<1>7. DueSeen'
  <2> SUFFICES ASSUME PeriodDue', rx'.status \in Resting
               PROVE  (EdgeKnown' => Pin') /\ OneEdge' /\ (Pin' => NoRelease')
    BY DEF DueSeen
  <2>1. (EdgeKnown => Pin) /\ OneEdge /\ (Pin => NoRelease)
    BY <1>2 DEF CleanInv, DueSeen
  <2>2. CASE Pin
    BY <1>1, <1>2, <1>3, <2>1, <2>2 DEF EdgeKnown, OneEdge
  <2>3. CASE ~Pin
    BY <1>1, <1>2, <1>3, <2>1, <2>3 DEF EdgeKnown, OneEdge
  <2> QED
    BY <2>2, <2>3
<1>8. StartSeen'
  BY <1>1, <1>2, <1>3 DEF CleanInv, StartSeen, EdgeKnown
<1> QED
  BY <1>4, <1>5, <1>6, <1>7, <1>8 DEF CleanInv

\* The match the main task arms is programmed for no instant that is due.
LEMMA CleanArm ==
  ASSUME McrAtomic, Founded, ArmInv, Margin > 0, MainArm
  PROVE  /\ task' = task /\ t1'.stop = t1.stop
         /\ rx'.status = rx.status /\ rx'.frame = rx.frame /\ Announced = {}
         /\ rx.status = "INTER_FRAME_IDLE" /\ t1'.period # 0
<1> DEFINE in == PeriodIn(StartIn(main.frame.type, age.full))
<1>1. StartIn(main.frame.type, age.full) \in Int
  BY FoundedTyped, StartInTyped DEF Ages
<1>2. in # 0 /\ in \in Int /\ Match(in) # 0
  BY <1>1, DelaysTyped DEF PeriodIn, Match, Off
<1>3. /\ main.pc = "arm" /\ Announced = {} /\ UNCHANGED <<rx, task>>
      /\ t1' = [t1 EXCEPT !.period = main.start]
  BY UpdateAtomic DEF MainArm, At, TasksWait
<1>4. rx.status = "INTER_FRAME_IDLE" /\ main.start = Match(in)
  BY <1>3 DEF ArmInv, ArmDecided
<1> HIDE DEF in
<1>5. t1'.stop = t1.stop /\ t1'.period = Match(in)
  BY <1>3, <1>4, FoundedTyped DEF Matches
<1> QED
  BY <1>2, <1>3, <1>4, <1>5


\* The interrupts of the receiver
LEMMA CleanIsr ==
  ASSUME McrAtomic, MaxSequence = 0, HostWaits, Founded, CleanInv, RxIsrCapture \/ RxIsrMatch
  PROVE  CleanInv'
<1>1. WatchTypes /\ RxInv
  BY FoundedTyped
<1>2. /\ UNCHANGED <<rx, t0, ext>> /\ Pin' = Pin /\ (NoRelease' <=> NoRelease)
      /\ task'.work = task.work
  BY <1>1
  DEF RxIsrCapture, RxIsrMatch, IsrCapture, IsrStop, IsrPeriod, IsrQuery, linkVars, txVars,
      Pin, NoRelease, Notify, WatchTypes, Tasks
<1>3. CASE RxIsrCapture
  <2>1. /\ t1' = [t1 EXCEPT !.stop = Stop] /\ bus.edge /\ bus' = [bus EXCEPT !.edge = FALSE]
        /\ task' = [task EXCEPT !.notify = @ \cup {NOTIFY_CAPTURE}]
    BY <1>3, UpdateAtomic DEF RxIsrCapture, IsrCapture, Notify
  <2>2. /\ t1'.stop # 0 /\ t1'.period = t1.period /\ ~bus'.edge
        /\ task'.notify = task.notify \cup {NOTIFY_CAPTURE}
    BY <1>1, <2>1, StopPositive, DelaysTyped DEF WatchTypes, Matches, Tasks
  <2>3. /\ EdgeKnown /\ EdgeKnown'
        /\ NOTIFY_PRIORITY \in Announced' <=> NOTIFY_PRIORITY \in Announced
        /\ NOTIFY_PRIORITY \in task'.notify <=> NOTIFY_PRIORITY \in task.notify
        /\ NOTIFY_MATCH \in Announced' <=> NOTIFY_MATCH \in Announced
    BY <1>2, <2>1, <2>2
    DEF EdgeKnown, Announced, NOTIFY_CAPTURE, NOTIFY_MATCH, NOTIFY_PRIORITY
  <2>4. OneEdge => OneEdge'
    BY <1>2, <2>1, <2>2 DEF OneEdge, Announced
  <2>5. /\ PeriodOn' <=> PeriodOn
        /\ PeriodDue' <=> PeriodDue
        /\ Pausing' <=> Pausing
        /\ NoMatch => NoMatch'
    BY <1>2, <2>2, <2>3 DEF PeriodOn, PeriodDue, Pausing, NoMatch
  <2> QED
    BY <1>2, <2>2, <2>3, <2>4, <2>5
    DEF CleanInv, ErrorInside, PeriodAtRest, PauseSeen, DueSeen, StartSeen
<1>4. CASE RxIsrMatch /\ IsrStop
  <2>1. t1.stop = 0 /\ t1' = [t1 EXCEPT !.stop = Off] /\ UNCHANGED bus
        /\ task' = [task EXCEPT !.notify = @ \cup {NOTIFY_MATCH}]
    BY <1>4, UpdateAtomic DEF RxIsrMatch, IsrStop, Notify, linkVars
  <2>2. t1'.period = t1.period /\ task'.notify = task.notify \cup {NOTIFY_MATCH}
    BY <1>1, <2>1 DEF WatchTypes, Matches, Tasks
  <2>3. /\ EdgeKnown' <=> EdgeKnown
        /\ OneEdge' <=> OneEdge
        /\ NOTIFY_PRIORITY \in Announced' <=> NOTIFY_PRIORITY \in Announced
        /\ NOTIFY_PRIORITY \in task'.notify <=> NOTIFY_PRIORITY \in task.notify
    BY <1>2, <2>1, <2>2
    DEF EdgeKnown, OneEdge, Announced, NOTIFY_CAPTURE, NOTIFY_MATCH, NOTIFY_PRIORITY
  <2>4. /\ PeriodOn' <=> PeriodOn
        /\ PeriodDue' <=> PeriodDue
        /\ Pausing' <=> Pausing
        /\ ~NoMatch
    BY <1>2, <2>1, <2>2, <2>3 DEF PeriodOn, PeriodDue, Pausing, NoMatch
  <2> QED
    BY <1>2, <2>2, <2>3, <2>4
    DEF CleanInv, ErrorInside, PeriodAtRest, PauseSeen, DueSeen, StartSeen
<1>5. CASE RxIsrMatch /\ IsrPeriod
  <2>1. t1.period = 0 /\ t1' = [t1 EXCEPT !.period = Off, !.stop = Off] /\ UNCHANGED bus
        /\ task' = [task EXCEPT !.notify = @ \cup {NOTIFY_PRIORITY}]
    BY <1>5, UpdateAtomic DEF RxIsrMatch, IsrPeriod, Notify, linkVars
  <2>2. /\ t1'.period = Off /\ t1'.stop = Off /\ Off # 0
        /\ task'.notify = task.notify \cup {NOTIFY_PRIORITY}
    BY <1>1, <2>1 DEF WatchTypes, Matches, Tasks, Off
  <2>3. /\ EdgeKnown' <=> EdgeKnown
        /\ OneEdge' <=> OneEdge
        /\ NOTIFY_PRIORITY \in Announced' /\ NOTIFY_PRIORITY \notin Announced
        /\ NOTIFY_MATCH \in Announced' <=> NOTIFY_MATCH \in Announced
    BY <1>2, <2>1, <2>2
    DEF EdgeKnown, OneEdge, Announced, NOTIFY_CAPTURE, NOTIFY_MATCH, NOTIFY_PRIORITY, CleanInv,
        PeriodAtRest
  <2>4. /\ PeriodOn /\ PeriodOn' /\ PeriodDue /\ rx.status \in Resting
        /\ Pausing' <=> Pausing
        /\ NoMatch => NoMatch'
    BY <1>2, <2>1, <2>2, <2>3
    DEF PeriodOn, PeriodDue, Pausing, NoMatch, CleanInv, PeriodAtRest
  <2>5. NOTIFY_PRIORITY \notin task'.work /\ rx.status # "START_BIT_START"
    BY <1>2, <2>3, <2>4 DEF Announced, Resting
  <2> QED
    BY <1>2, <2>2, <2>3, <2>4, <2>5
    DEF CleanInv, ErrorInside, PeriodAtRest, PauseSeen, DueSeen, StartSeen
<1>6. CASE RxIsrMatch /\ IsrQuery
  <2>1. t1' = [t1 EXCEPT !.query = Off] /\ UNCHANGED bus
        /\ task' = [task EXCEPT !.notify = @ \cup {NOTIFY_QUERY}]
    BY <1>6, UpdateAtomic DEF RxIsrMatch, IsrQuery, Notify, linkVars
  <2>2. /\ t1'.period = t1.period /\ t1'.stop = t1.stop
        /\ task'.notify = task.notify \cup {NOTIFY_QUERY}
    BY <1>1, <2>1 DEF WatchTypes, Matches, Tasks
  <2>3. /\ EdgeKnown' <=> EdgeKnown
        /\ OneEdge' <=> OneEdge
        /\ NOTIFY_PRIORITY \in Announced' <=> NOTIFY_PRIORITY \in Announced
        /\ NOTIFY_PRIORITY \in task'.notify <=> NOTIFY_PRIORITY \in task.notify
        /\ NOTIFY_MATCH \in Announced' <=> NOTIFY_MATCH \in Announced
    BY <1>2, <2>1, <2>2
    DEF EdgeKnown, OneEdge, Announced, NOTIFY_CAPTURE, NOTIFY_MATCH, NOTIFY_PRIORITY, NOTIFY_QUERY
  <2>4. /\ PeriodOn' <=> PeriodOn
        /\ PeriodDue' <=> PeriodDue
        /\ Pausing' <=> Pausing
        /\ NoMatch' <=> NoMatch
    BY <1>2, <2>1, <2>2, <2>3 DEF PeriodOn, PeriodDue, Pausing, NoMatch
  <2> QED
    BY <1>2, <2>2, <2>3, <2>4
    DEF CleanInv, ErrorInside, PeriodAtRest, PauseSeen, DueSeen, StartSeen
<1> QED
  BY <1>3, <1>4, <1>5, <1>6 DEF RxIsrMatch

\* What the invariant says of a receiver that is neither at rest nor about to
\* serve the period match.
LEMMA CleanInside ==
  ASSUME CleanInv, rx.status \notin Resting, rx.status # "START_BIT_START" \/ EdgeKnown \/ ~NoMatch
  PROVE  ~PeriodOn
  BY DEF CleanInv, PeriodAtRest, StartSeen, PeriodOn

\* A receiver without a period match and without an error has nothing to keep.
LEMMA CleanAfter ==
  ASSUME rx'.frame.code = "OK" \/ rx'.status \in BusDown \cup {"ERROR_IN_FRAME"},
         ~PeriodOn', t1'.period # 0,
         rx'.status # "INTER_FRAME_IDLE" \/ ~Pin'
  PROVE  CleanInv'
  BY DEF CleanInv, ErrorInside, PeriodAtRest, PauseSeen, DueSeen, StartSeen, PeriodOn, PeriodDue,
         Pausing

\* The handler of an edge
LEMMA CleanCapture ==
  ASSUME McrAtomic, Founded, CleanInv, Captured,
         StartsFrame(Pin) \/ IgnoresEdge(Pin) \/ TakesBit \/ BusIsBack(Pin),
         t1'.stop = t1.stop, BusFollows, UNCHANGED ext
  PROVE  CleanInv'
<1>1. WatchTypes /\ RxInv
  BY FoundedTyped
<1>2. /\ NOTIFY_CAPTURE \in task.work /\ \A m \in task.work : NOTIFY_CAPTURE <= m
      /\ task'.notify = task.notify /\ task'.work = task.work \ {NOTIFY_CAPTURE}
  BY <1>1, ServedTask DEF Captured, Notifications
<1>3. /\ EdgeKnown /\ NOTIFY_CAPTURE \in Announced
      /\ NOTIFY_PRIORITY \in Announced' <=> NOTIFY_PRIORITY \in Announced
      /\ NOTIFY_PRIORITY \in task'.work <=> NOTIFY_PRIORITY \in task.work
      /\ NOTIFY_MATCH \in Announced' <=> NOTIFY_MATCH \in Announced
  BY <1>2 DEF EdgeKnown, Announced, NOTIFY_CAPTURE, NOTIFY_MATCH, NOTIFY_PRIORITY
<1>4. t0' = t0
  BY DEF StartsFrame, IgnoresEdge, TakesBit, BusIsBack, txVars
<1>5. Pin' = Pin /\ bus' = bus /\ (NoRelease' <=> NoRelease)
  BY <1>4 DEF Pin, BusFollows, NoRelease
<1>6. CASE StartsFrame(Pin)
  <2>1. Pin /\ rx.status \in Resting /\ rx'.status = "START_BIT_START" /\ t1'.period = Off
        /\ rx'.frame.code = rx.frame.code
    BY <1>6 DEF StartsFrame
  <2>2. rx.frame.code = "OK"
    BY <2>1 DEF CleanInv, ErrorInside, Resting, BusDown
  <2>3. ASSUME NOTIFY_PRIORITY \in Announced
        PROVE  NoMatch /\ NoRelease /\ ~EdgeKnown'
    <3>1. Pausing /\ PeriodDue
      BY <2>1, <2>3 DEF Pausing, PeriodOn, PeriodDue, Resting
    <3>2. NoMatch /\ NoRelease /\ OneEdge
      BY <2>1, <3>1 DEF CleanInv, PauseSeen, DueSeen
    <3>3. ~EdgeKnown'
      BY <1>2, <1>3, <1>5, <3>2 DEF OneEdge, EdgeKnown, Announced
    <3> QED
      BY <3>2, <3>3
  <2>4. StartSeen'
    BY <1>3, <1>5, <2>1, <2>3 DEF StartSeen, NoMatch
  <2>5. ErrorInside' /\ PeriodAtRest'
    BY <1>2, <1>3, <2>1, <2>2 DEF CleanInv, ErrorInside, PeriodAtRest
  <2>6. rx'.status \notin Resting /\ ~Pausing'
    BY <2>1 DEF Resting, Pausing
  <2> QED
    BY <2>4, <2>5, <2>6 DEF CleanInv, PauseSeen, DueSeen
<1>7. CASE IgnoresEdge(Pin) /\ rx.status \in Resting
  <2>1. ~Pin /\ UNCHANGED <<rx, t1>>
    BY <1>7 DEF IgnoresEdge, Resting, BusDown
  <2>2. ~PeriodDue
    BY <1>3, <1>7, <2>1 DEF CleanInv, DueSeen
  <2>3. ~PeriodDue' /\ (PeriodOn' <=> PeriodOn)
    BY <1>3, <2>1, <2>2 DEF PeriodDue, PeriodOn
  <2> QED
    BY <1>2, <1>3, <1>5, <2>1, <2>3
    DEF CleanInv, ErrorInside, PeriodAtRest, PauseSeen, DueSeen, StartSeen, PeriodDue
<1>8. CASE (IgnoresEdge(Pin) /\ rx.status \notin Resting) \/ TakesBit \/ BusIsBack(Pin)
  <2>1. rx.status \notin Resting
    BY <1>8 DEF TakesBit, BusIsBack, InFrame, BusDown, Resting
  <2>2. ~PeriodOn /\ t1' = t1
    BY <1>3, <1>8, <2>1, CleanInside DEF IgnoresEdge, TakesBit, BusIsBack
  <2>3. ~PeriodOn' /\ t1'.period # 0
    BY <1>3, <2>2 DEF PeriodOn, Off
  <2>4. \/ rx'.frame.code = "OK"
        \/ rx'.status \in BusDown \cup {"ERROR_IN_FRAME"}
    <3>1. CASE IgnoresEdge(Pin)
      BY <3>1 DEF IgnoresEdge, CleanInv, ErrorInside
    <3>2. CASE TakesBit
      BY <3>2 DEF TakesBit, CleanInv, ErrorInside, InFrame, BusDown
    <3>3. CASE BusIsBack(Pin)
      BY <3>3 DEF BusIsBack, NoFrame
    <3> QED
      BY <1>8, <3>1, <3>2, <3>3
  <2>5. rx'.status # "INTER_FRAME_IDLE"
    BY <1>8, <2>1 DEF IgnoresEdge, TakesBit, BusIsBack, InFrame, Resting
  <2> QED
    BY <2>3, <2>4, <2>5, CleanAfter
<1> QED
  BY <1>6, <1>7, <1>8

\* The handler of a stop bit match: with a period match to come the bus is not
\* low, so that the receiver enters no status it would leave with an error.
LEMMA CleanMatch ==
  ASSUME McrAtomic, Founded, CleanInv, Matched, Margin > 0,
         IgnoresMatch(Pin) \/ Pauses(Pin) \/ StaysLow(Pin) \/ Fails(Pin),
         BusFollows, UNCHANGED ext
  PROVE  CleanInv'
<1>1. WatchTypes /\ RxInv
  BY FoundedTyped
<1>2. /\ NOTIFY_MATCH \in task.work /\ \A m \in task.work : NOTIFY_MATCH <= m
      /\ task'.notify = task.notify /\ task'.work = task.work \ {NOTIFY_MATCH}
  BY <1>1, ServedTask DEF Matched, Notifications
<1>3. /\ NOTIFY_MATCH \in Announced /\ ~NoMatch
      /\ NOTIFY_PRIORITY \in Announced' <=> NOTIFY_PRIORITY \in Announced
      /\ NOTIFY_PRIORITY \in task'.work <=> NOTIFY_PRIORITY \in task.work
  BY <1>2 DEF Announced, NOTIFY_MATCH, NOTIFY_PRIORITY, NoMatch
<1>4. t0' = t0
  BY DEF IgnoresMatch, Pauses, StaysLow, Fails, txVars
<1>5. Pin' = Pin /\ bus' = bus /\ (NoRelease' <=> NoRelease)
  BY <1>4 DEF Pin, BusFollows, NoRelease
<1>6. CASE IgnoresMatch(Pin) /\ rx.status \in Resting
  <2>1. ~Pin /\ UNCHANGED <<rx, t1>>
    BY <1>6 DEF IgnoresMatch, Resting
  <2>2. (EdgeKnown' <=> EdgeKnown) /\ (OneEdge' <=> OneEdge)
    BY <1>2, <1>5 DEF EdgeKnown, OneEdge, Announced, NOTIFY_MATCH, NOTIFY_CAPTURE
  <2>3. rx.status # "START_BIT_START"
    BY <1>6 DEF Resting
  <2> QED
    BY <1>2, <1>3, <1>5, <2>1, <2>2, <2>3
    DEF CleanInv, ErrorInside, PeriodAtRest, PauseSeen, DueSeen, StartSeen, PeriodDue, PeriodOn
<1>7. CASE Pauses(Pin)
  <2>1. ~Pin /\ rx.status \notin Resting /\ rx'.status = "INTER_FRAME_IDLE"
        /\ rx'.frame = NoFrame
    BY <1>7 DEF Pauses
  <2>2. NOTIFY_PRIORITY \notin Announced'
    BY <1>3, <2>1, CleanInside DEF PeriodOn
  <2>3. t1'.period # 0
    <3> DEFINE type == IF rx'.waiting THEN rx.type ELSE "FORWARD_5"
               in   == Match(PeriodIn(StartIn(type, age'.full)))
    <3>1. age'.full \in 0..Far
      BY <1>1, <1>7 DEF Pauses, WatchTypes, Ages
    <3>2. StartIn(type, age'.full) \in Int
      <4> HIDE DEF type
      <4> QED
        BY <1>1, <3>1, StartInTyped
    <3>3. in # 0
      BY <3>2, DelaysTyped DEF PeriodIn, Match, Off
    <3>4. t1' = [t1 EXCEPT !.period = in]
      BY <1>7 DEF Pauses
    <3> HIDE DEF in
    <3> QED
      BY <1>1, <3>3, <3>4 DEF WatchTypes, Matches
  <2>4. ErrorInside' /\ PeriodAtRest'
    BY <2>1, <2>2 DEF ErrorInside, PeriodAtRest, NoFrame, Resting
  <2>5. PauseSeen' /\ DueSeen' /\ StartSeen'
    BY <1>5, <2>1, <2>2, <2>3 DEF PauseSeen, DueSeen, StartSeen, PeriodDue
  <2> QED
    BY <2>4, <2>5 DEF CleanInv
<1>8. CASE (IgnoresMatch(Pin) /\ rx.status \notin Resting) \/ StaysLow(Pin) \/ Fails(Pin)
  <2>1. ~PeriodOn
    <3>1. CASE rx.status \notin Resting
      BY <1>3, <3>1, CleanInside
    <3>2. CASE rx.status \in Resting
      <4>1. Pin
        BY <1>8, <3>2 DEF StaysLow, Fails, Resting
      <4> QED
        BY <1>3, <3>2, <4>1 DEF CleanInv, PauseSeen, Pausing, Resting
    <3> QED
      BY <3>1, <3>2
  <2>2. t1'.period = t1.period
    BY <1>8 DEF IgnoresMatch, StaysLow, Fails
  <2>3. ~PeriodOn' /\ t1'.period # 0
    BY <1>3, <2>1, <2>2 DEF PeriodOn, Off
  <2>4. rx'.status \in BusDown
    BY <1>8 DEF IgnoresMatch, StaysLow, Fails, BusDown
  <2>5. rx'.status # "INTER_FRAME_IDLE"
    BY <2>4 DEF BusDown
  <2> QED
    BY <2>3, <2>4, <2>5, CleanAfter
<1> QED
  BY <1>6, <1>7, <1>8

\* The handlers of the period and the query match
LEMMA CleanTimeout ==
  ASSUME MaxSequence = 0, HostWaits, Founded, CleanInv, PriorityTimeout \/ QueryTimeout,
         BusFollows, UNCHANGED ext
  PROVE  CleanInv'
<1>1. WatchTypes /\ RxInv
  BY FoundedTyped
<1>2. UNCHANGED <<t1, age>>
  BY DEF PriorityTimeout, QueryTimeout
<1>3. CASE PriorityTimeout
  <2>1. /\ NOTIFY_PRIORITY \in task.work /\ task'.notify = task.notify
        /\ task'.work = task.work \ {NOTIFY_PRIORITY}
    BY <1>1, <1>3, ServedTask DEF PriorityTimeout, Notifications
  <2>2. PeriodOn /\ NOTIFY_PRIORITY \notin Announced' /\ t1.period = Off
    BY <2>1 DEF PeriodOn, Announced, CleanInv, PeriodAtRest
  <2>3. ~PeriodOn' /\ t1'.period # 0
    BY <1>2, <2>2 DEF PeriodOn, Off
  <2>4. rx'.frame = rx.frame /\ rx'.status = "IDLE"
    BY <1>1, <1>3 DEF PriorityTimeout, RxInv, RxRecords
  <2>5. rx'.frame.code = "OK"
    BY <2>2, <2>4 DEF CleanInv, ErrorInside
  <2> QED
    BY <2>3, <2>4, <2>5, CleanAfter
<1>4. CASE QueryTimeout
  <2>1. /\ NOTIFY_QUERY \in task.work /\ task'.notify = task.notify
        /\ task'.work = task.work \ {NOTIFY_QUERY} /\ UNCHANGED t0
    BY <1>1, <1>4, ServedTask DEF QueryTimeout, Notifications, txVars
  <2>2. /\ NOTIFY_CAPTURE \in task'.work <=> NOTIFY_CAPTURE \in task.work
        /\ NOTIFY_MATCH \in task'.work <=> NOTIFY_MATCH \in task.work
        /\ NOTIFY_PRIORITY \in task'.work <=> NOTIFY_PRIORITY \in task.work
    BY <2>1 DEF NOTIFY_CAPTURE, NOTIFY_MATCH, NOTIFY_PRIORITY, NOTIFY_QUERY
  <2>3. /\ NOTIFY_CAPTURE \in Announced' <=> NOTIFY_CAPTURE \in Announced
        /\ NOTIFY_MATCH \in Announced' <=> NOTIFY_MATCH \in Announced
        /\ NOTIFY_PRIORITY \in Announced' <=> NOTIFY_PRIORITY \in Announced
    BY <2>1, <2>2 DEF Announced
  <2>4. Pin' = Pin /\ bus' = bus /\ (NoRelease' <=> NoRelease)
    BY <2>1 DEF Pin, BusFollows, NoRelease
  <2>5. /\ EdgeKnown' <=> EdgeKnown
        /\ OneEdge' <=> OneEdge
        /\ NoMatch' <=> NoMatch
        /\ PeriodOn' <=> PeriodOn
        /\ PeriodDue' <=> PeriodDue
    <3>1. (EdgeKnown' <=> EdgeKnown) /\ (NoMatch' <=> NoMatch)
      BY <1>2, <2>3, <2>4 DEF EdgeKnown, NoMatch
    <3>2. OneEdge' <=> OneEdge
      BY <2>1, <2>2, <2>3, <2>4 DEF OneEdge
    <3>3. (PeriodOn' <=> PeriodOn) /\ (PeriodDue' <=> PeriodDue)
      BY <1>2, <2>3 DEF PeriodOn, PeriodDue
    <3> QED
      BY <3>1, <3>2, <3>3
  <2>6. CASE rx.status \in Resting
    <3>1. rx'.status = "IDLE" /\ rx'.frame.code = "OK"
      <4>1. rx' = [rx EXCEPT !.status = "IDLE", !.frame = NoFrame]
        BY <1>4, <2>6 DEF QueryTimeout
      <4>2. rx'.status = "IDLE" /\ rx'.frame = NoFrame
        BY <1>1, <4>1 DEF RxInv, RxRecords
      <4> QED
        BY <4>2 DEF NoFrame
    <3>2. Pausing' => Pausing
      BY <2>5, <2>6, <3>1 DEF Pausing, Resting
    <3>3. rx.status # "START_BIT_START" /\ rx'.status \in Resting
      BY <2>6, <3>1 DEF Resting
    <3> QED
      BY <1>2, <2>1, <2>2, <2>3, <2>4, <2>5, <2>6, <3>1, <3>2, <3>3
      DEF CleanInv, ErrorInside, PeriodAtRest, PauseSeen, DueSeen, StartSeen
  <2>7. CASE rx.status \notin Resting
    <3>1. UNCHANGED rx
      BY <1>4, <2>7 DEF QueryTimeout
    <3>2. Pausing' <=> Pausing
      BY <2>5, <3>1 DEF Pausing
    <3> QED
      BY <1>2, <2>1, <2>2, <2>3, <2>4, <2>5, <3>1, <3>2
      DEF CleanInv, ErrorInside, PeriodAtRest, PauseSeen, DueSeen, StartSeen
  <2> QED
    BY <2>6, <2>7
<1> QED
  BY <1>3, <1>4

\* Every step of the rx task
LEMMA CleanTask ==
  ASSUME McrAtomic, MaxSequence = 0, HostWaits, Founded, CleanInv, Margin > 0, RxTaskStep
  PROVE  CleanInv'
<1>1. RxInv /\ RxTask(Pin) /\ BusFollows /\ UNCHANGED ext
  BY FoundedTyped DEF RxTaskStep
<1>2. CASE RxTake
  <2>1. task'.notify = {} /\ task'.work = task.notify /\ task.work = {}
        /\ UNCHANGED <<rx, t1, age, t0>>
    BY <1>2 DEF RxTake, txVars
  <2>2. Announced' = Announced /\ Pin' = Pin /\ bus' = bus /\ (NoRelease' <=> NoRelease)
    BY <1>1, <2>1 DEF Announced, Pin, BusFollows, NoRelease
  <2> QED
    BY <2>1, <2>2
    DEF CleanInv, ErrorInside, PeriodAtRest, PauseSeen, DueSeen, StartSeen, PeriodOn, PeriodDue,
        Pausing, NoMatch, EdgeKnown, OneEdge
<1>3. CASE CaptureStart(Pin) \/ CaptureIgnored(Pin) \/ CaptureBit \/ CaptureRecover(Pin)
  BY <1>1, <1>3, FoundedTyped, CaptureOutcome, CleanCapture
<1>4. CASE MatchIgnored(Pin) \/ MatchFrame(Pin) \/ MatchDiscard(Pin)
             \/ MatchLow(Pin) \/ MatchFailure(Pin)
  BY <1>1, <1>4, MatchOutcome, CleanMatch
<1>5. CASE PriorityTimeout \/ QueryTimeout
  BY <1>1, <1>5, CleanTimeout
<1>6. ~CapturePeriod
  BY DEF Founded, WatchInv, Watched, OneChange, CapturePeriod, Serving, Foremost
<1> QED
  BY <1>1, <1>2, <1>3, <1>4, <1>5, <1>6 DEF RxTask

\* Time passes only when every edge has been looked at.
LEMMA CleanTick ==
  ASSUME Founded, CleanInv, Tick
  PROVE  CleanInv'
<1>1. WatchTypes
  BY FoundedTyped
<1>2. /\ Announced = {} /\ Announced' = {} /\ ~bus.edge /\ bus'.edge = bus.edge
      /\ t1.period # 0 /\ UNCHANGED task
  BY FoundedTyped DEF Tick, Due, RxRested, Announced
<1>3. /\ rx'.status = rx.status /\ rx'.frame = rx.frame
      /\ t1'.period = Sooner(t1.period)
  BY <1>1 DEF Tick, RxElapsed, Closer, WatchTypes, Matches, RxRecords
<1>4. t0'.pin = t0.pin /\ ext'.pin = ext.pin
  BY FoundedTyped, TickReleases DEF Tick, LinkInv
<1>5. (PeriodOn' <=> PeriodOn) /\ ~EdgeKnown /\ ~EdgeKnown' /\ OneEdge' /\ (Pin' <=> Pin)
  BY <1>1, <1>2, <1>3, <1>4
  DEF PeriodOn, EdgeKnown, OneEdge, Announced, Pin, Sooner, Off, WatchTypes, Matches
<1>6. (Pausing' <=> Pausing) /\ ~(Pausing /\ Pin)
  BY <1>3, <1>5 DEF Pausing, CleanInv, PauseSeen
<1>7. ErrorInside' /\ PeriodAtRest'
  BY <1>1, <1>2, <1>3, <1>5
  DEF CleanInv, ErrorInside, PeriodAtRest, Sooner, Off, WatchTypes, Matches
<1>8. PeriodDue' /\ rx'.status \in Resting => Pausing'
  BY <1>2, <1>3 DEF PeriodDue, PeriodOn, Pausing, Resting, Off
<1> QED
  BY <1>2, <1>5, <1>6, <1>7, <1>8 DEF CleanInv, PauseSeen, DueSeen, StartSeen

\* Every step, as long as no stop bit match is disturbed
LEMMA CleanStep ==
  ASSUME McrAtomic, MaxSequence = 0, HostWaits, Margin > 0, "arm" \notin Preemptible,
         Founded, ArmInv, CleanInv, [Next]_vars, [StopUndisturbed]_vars
  PROVE  CleanInv'
<1>1. StopUndisturbed
  BY DEF StopUndisturbed, vars, txVars, linkVars, Pin
<1>2. CASE Tick
  BY <1>2, CleanTick
<1>3. CASE RxIsrCapture \/ RxIsrMatch
  BY <1>3, CleanIsr
<1>4. CASE RxTaskStep
  BY <1>4, CleanTask
<1>5. CASE MainArm /\ ~Tick /\ ~RxIsrCapture
  BY <1>1, <1>5, CleanArm, CleanQuiet
<1>6. CASE ~(Tick \/ RxIsrCapture \/ RxIsrMatch \/ RxTaskStep \/ MainArm)
  BY <1>1, <1>6, RestStep, CleanQuiet
<1> QED
  BY <1>2, <1>3, <1>4, <1>5, <1>6

\* CleanFrame: a frame that decodes is reported with status OK, whatever errors
\* were reported before it (rx.frame.status is cleared in process_match_notification
\* and process_capture_notification, and set by queue_error_frame), for every
\* time scale, every set of frames and any other devices.  The one thing assumed
\* of them is that nobody pulls the bus low in the very instant in which a stop
\* bit match is served outside a frame: the period match may then turn a bus that
\* is down into an idle receiver and leave SYSTEM_FAILURE in rx.frame.  The same
\* happens to a main task that is interrupted where it arms that match.
THEOREM FramesClean ==
  ASSUME McrAtomic, MaxSequence = 0, HostWaits, Margin > 0, "arm" \notin Preemptible
  PROVE  Spec /\ [][StopUndisturbed]_vars => []CleanFrame
<1> DEFINE Inv == Founded /\ ArmInv /\ CleanInv
<1>1. Init => CleanInv
  <2> SUFFICES ASSUME Init PROVE CleanInv
    OBVIOUS
  <2>1. /\ rx.frame = NoFrame /\ rx.status \in {"FAILURE", "IDLE"}
        /\ t1.period = Off /\ Announced = {}
    BY DEF Init, RxInit, Announced
  <2> QED
    BY <2>1
    DEF CleanInv, ErrorInside, PeriodAtRest, PauseSeen, DueSeen, StartSeen, PeriodOn, PeriodDue,
        Pausing, NoFrame, Off
<1>2. Init => Inv
  BY <1>1, FoundedInvariant, ArmInitially
<1>3. Inv /\ [Next]_vars /\ [StopUndisturbed]_vars => Inv'
  BY FoundedInvariant, ArmStep, CleanStep
<1>4. Inv => CleanFrame
  BY DEF CleanInv, ErrorInside, CleanFrame, InFrame, BusDown
<1> QED
  BY <1>2, <1>3, <1>4, PTL DEF Spec

-----------------------------------------------------------------------------
(* a stop bit match is served.  The match then runs from the last edge, and *)
(* whoever sees its notification knows the last edge.                       *)

Brief == Pin => bus.quiet < Stop
Calm  == ~Pin /\ Pin' => NoMatch

EdgeFresh == bus.edge => bus.quiet = 0 /\ t1.stop # 0
StopRuns  == ~bus.edge /\ t1.stop # Off => t1.stop + bus.quiet = Stop
MatchSeen == NOTIFY_MATCH \in Announced => bus.quiet = Stop /\ ~EdgeKnown
CaptureSeen == NOTIFY_CAPTURE \in Announced => bus.quiet = 0
BusUp     == rx.status \notin BusDown

BusTimed == EdgeFresh /\ StopRuns /\ MatchSeen /\ CaptureSeen /\ BusUp

\* On such a bus nothing changes when a stop bit match is due, so that no edge
\* comes between it and its handler.
LEMMA TimedMatch ==
  ASSUME WatchTypes, BusTimed, Brief, Calm, BusFollows, ~NoMatch
  PROVE  bus.quiet = Stop /\ ~bus.edge /\ bus' = bus /\ (Pin' <=> Pin) /\ ~Pin
<1>1. bus.quiet = Stop /\ ~bus.edge
  BY DEF NoMatch, BusTimed, EdgeFresh, StopRuns, MatchSeen, EdgeKnown, Off, WatchTypes
<1>2. Stop \in Int
  BY DelaysTyped
<1>3. ~Pin /\ ~Pin'
  BY <1>1, <1>2 DEF Brief, Calm, Pin
<1> QED
  BY <1>1, <1>3 DEF BusFollows, Pin

\* A step that announces nothing and leaves the stop bit match alone.
LEMMA TimedQuiet ==
  ASSUME WatchTypes, BusTimed, Brief, Calm, BusFollows,
         Announced' \subseteq Announced, t1'.stop = t1.stop, rx'.status \notin BusDown
  PROVE  BusTimed'
<1>1. CASE NoMatch
  <2>1. bus' = bus \/ (bus'.edge /\ bus'.quiet = 0)
    BY DEF BusFollows
  <2>2. NOTIFY_MATCH \notin Announced' /\ t1'.stop # 0
    BY <1>1 DEF NoMatch
  <2> QED
    BY <2>1, <2>2 DEF BusTimed, EdgeFresh, StopRuns, MatchSeen, CaptureSeen, BusUp
<1>2. CASE ~NoMatch
  <2>1. bus' = bus
    BY <1>2, TimedMatch
  <2> QED
    BY <2>1 DEF BusTimed, EdgeFresh, StopRuns, MatchSeen, CaptureSeen, BusUp, EdgeKnown
<1> QED
  BY <1>1, <1>2

\* The interrupts of the receiver
LEMMA TimedIsr ==
  ASSUME McrAtomic, WatchTypes, BusTimed, RxIsrCapture \/ RxIsrMatch
  PROVE  BusTimed'
<1>1. rx' = rx /\ task'.work = task.work
  BY DEF RxIsrCapture, RxIsrMatch, IsrCapture, IsrStop, IsrPeriod, IsrQuery, Notify, WatchTypes,
         Tasks
<1>2. CASE RxIsrCapture
  <2>1. /\ t1' = [t1 EXCEPT !.stop = Stop] /\ bus.edge /\ bus' = [bus EXCEPT !.edge = FALSE]
        /\ task' = [task EXCEPT !.notify = @ \cup {NOTIFY_CAPTURE}]
    BY <1>2, UpdateAtomic DEF RxIsrCapture, IsrCapture, Notify
  <2>2. /\ t1'.stop = Stop /\ ~bus'.edge /\ bus'.quiet = bus.quiet /\ bus.quiet = 0
        /\ task'.notify = task.notify \cup {NOTIFY_CAPTURE}
    BY <2>1 DEF WatchTypes, Matches, Tasks, BusTimed, EdgeFresh
  <2>3. NOTIFY_MATCH \notin Announced'
    BY <1>1, <2>1, <2>2 DEF Announced, BusTimed, MatchSeen, EdgeKnown, NOTIFY_MATCH, NOTIFY_CAPTURE
  <2> QED
    BY <1>1, <2>2, <2>3, DelaysTyped
    DEF BusTimed, EdgeFresh, StopRuns, MatchSeen, CaptureSeen, BusUp
<1>3. CASE RxIsrMatch /\ IsrStop
  <2>1. t1.stop = 0 /\ t1' = [t1 EXCEPT !.stop = Off] /\ UNCHANGED bus
        /\ task' = [task EXCEPT !.notify = @ \cup {NOTIFY_MATCH}]
    BY <1>3, UpdateAtomic DEF RxIsrMatch, IsrStop, Notify, linkVars
  <2>2. t1'.stop = Off /\ task'.notify = task.notify \cup {NOTIFY_MATCH}
    BY <2>1 DEF WatchTypes, Matches, Tasks
  <2>3. bus.quiet = Stop /\ ~bus.edge /\ Stop > 0
    BY <2>1, StopPositive DEF BusTimed, EdgeFresh, StopRuns, Off, WatchTypes
  <2>4. NOTIFY_CAPTURE \notin Announced'
    BY <1>1, <2>2, <2>3 DEF Announced, BusTimed, CaptureSeen, NOTIFY_MATCH, NOTIFY_CAPTURE
  <2> QED
    BY <1>1, <2>1, <2>2, <2>3, <2>4
    DEF BusTimed, EdgeFresh, StopRuns, MatchSeen, CaptureSeen, BusUp, EdgeKnown
<1>4. CASE RxIsrMatch /\ (IsrPeriod \/ IsrQuery)
  <2>1. PICK n \in {NOTIFY_PRIORITY, NOTIFY_QUERY} :
          /\ task' = [task EXCEPT !.notify = @ \cup {n}] /\ UNCHANGED bus
          /\ \/ t1' = [t1 EXCEPT !.query = Off]
             \/ t1' = [t1 EXCEPT !.period = Off, !.stop = Off]
    BY <1>4, UpdateAtomic DEF RxIsrMatch, IsrPeriod, IsrQuery, Notify, linkVars
  <2>2. t1'.stop \in {t1.stop, Off} /\ task'.notify = task.notify \cup {n}
    BY <2>1 DEF WatchTypes, Matches, Tasks
  <2>3. /\ NOTIFY_MATCH \in Announced' <=> NOTIFY_MATCH \in Announced
        /\ NOTIFY_CAPTURE \in Announced' <=> NOTIFY_CAPTURE \in Announced
    BY <1>1, <2>2 DEF Announced, NOTIFY_CAPTURE, NOTIFY_MATCH, NOTIFY_PRIORITY, NOTIFY_QUERY
  <2> QED
    BY <1>1, <2>1, <2>2, <2>3
    DEF BusTimed, EdgeFresh, StopRuns, MatchSeen, CaptureSeen, BusUp, EdgeKnown, Off
<1> QED
  BY <1>2, <1>3, <1>4 DEF RxIsrMatch

\* What the rx task does on such a bus: the bus is never found low at a stop
\* bit match, nor down at an edge.
TimedTask ==
  \/ RxTake
  \/ Captured /\ (StartsFrame(Pin) \/ IgnoresEdge(Pin) \/ TakesBit)
  \/ Matched /\ (IgnoresMatch(Pin) \/ Pauses(Pin))
  \/ PriorityTimeout
  \/ QueryTimeout

LEMMA TimedTaskStep ==
  ASSUME McrAtomic, Founded, BusTimed, Brief, Calm, RxTaskStep
  PROVE  /\ TimedTask /\ Announced' \subseteq Announced /\ BusFollows /\ UNCHANGED ext
         /\ mcr' = mcr /\ t1'.stop = t1.stop /\ rx'.status \notin BusDown
         /\ rx'.type = rx.type
         /\ \/ rx'.halted = rx.halted
            \/ rx.status \in InFrame /\ Pauses(Pin) /\ rx'.halted = (Len(rxq) >= RxQueueSize)
<1>1. RxInv /\ WatchTypes /\ RxTask(Pin) /\ BusFollows /\ UNCHANGED ext
  BY FoundedTyped DEF RxTaskStep
<1> SUFFICES /\ TimedTask /\ Announced' \subseteq Announced
             /\ mcr' = mcr /\ t1'.stop = t1.stop /\ rx'.status \notin BusDown
             /\ rx'.type = rx.type
             /\ \/ rx'.halted = rx.halted
                \/ /\ rx.status \in InFrame /\ Pauses(Pin)
                   /\ rx'.halted = (Len(rxq) >= RxQueueSize)
  BY <1>1
<1>2. ASSUME NEW n \in Notifications, Serving(n) PROVE Announced' \subseteq Announced
  BY <1>1, <1>2, ServedTask DEF Announced
<1>3. CASE RxTake
  BY <1>3 DEF TimedTask, RxTake, Announced, BusTimed, BusUp
<1>4. CASE CaptureStart(Pin) \/ CaptureIgnored(Pin) \/ CaptureBit \/ CaptureRecover(Pin)
  <2>1. /\ Captured /\ t1'.stop = t1.stop /\ mcr' = mcr
        /\ rx'.type = rx.type /\ rx'.halted = rx.halted
        /\ StartsFrame(Pin) \/ IgnoresEdge(Pin) \/ TakesBit \/ BusIsBack(Pin)
    BY <1>1, <1>4, CaptureOutcome
  <2>2. ~BusIsBack(Pin)
    BY DEF BusIsBack, BusTimed, BusUp
  <2>3. rx'.status \notin BusDown
    BY <2>1, <2>2 DEF StartsFrame, IgnoresEdge, TakesBit, BusTimed, BusUp, InFrame, BusDown
  <2>4. Announced' \subseteq Announced
    BY <1>2, <2>1 DEF Captured, Notifications
  <2> QED
    BY <2>1, <2>2, <2>3, <2>4 DEF TimedTask
<1>5. CASE MatchIgnored(Pin) \/ MatchFrame(Pin) \/ MatchDiscard(Pin)
             \/ MatchLow(Pin) \/ MatchFailure(Pin)
  <2>1. /\ Matched /\ mcr' = mcr /\ rx'.type = rx.type
        /\ \/ rx'.halted = rx.halted
           \/ rx.status \in InFrame /\ rx'.halted = (Len(rxq) >= RxQueueSize)
        /\ IgnoresMatch(Pin) \/ Pauses(Pin) \/ StaysLow(Pin) \/ Fails(Pin)
    BY <1>1, <1>5, MatchOutcome
  <2>2. ~Pin
    <3>1. NOTIFY_MATCH \in task.work
      BY <1>1, <2>1, ServedTask DEF Matched, Notifications
    <3> QED
      BY <1>1, <3>1, TimedMatch DEF Announced, NoMatch
  <2>3. IgnoresMatch(Pin) \/ Pauses(Pin)
    BY <2>1, <2>2 DEF StaysLow, Fails
  <2>4. t1'.stop = t1.stop
    <3>1. CASE IgnoresMatch(Pin)
      BY <3>1 DEF IgnoresMatch
    <3>2. CASE Pauses(Pin)
      <4>1. PICK in : t1' = [t1 EXCEPT !.period = in]
        BY <3>2, Zenon DEF Pauses
      <4> QED
        BY <1>1, <4>1 DEF WatchTypes, Matches
    <3> QED
      BY <2>3, <3>1, <3>2
  <2>5. rx'.status \notin BusDown
    BY <2>3 DEF IgnoresMatch, Pauses, BusTimed, BusUp, BusDown
  <2>6. \/ rx'.halted = rx.halted
        \/ rx.status \in InFrame /\ Pauses(Pin) /\ rx'.halted = (Len(rxq) >= RxQueueSize)
    <3>1. IgnoresMatch(Pin) => rx'.halted = rx.halted
      BY DEF IgnoresMatch
    <3> QED
      BY <2>1, <2>3, <3>1
  <2>7. Announced' \subseteq Announced
    BY <1>2, <2>1 DEF Matched, Notifications
  <2> QED
    BY <2>1, <2>3, <2>4, <2>5, <2>6, <2>7 DEF TimedTask
<1>6. CASE PriorityTimeout
  <2>1. rx'.status = "IDLE" /\ rx'.type = rx.type /\ rx'.halted = rx.halted
    BY <1>1, <1>6 DEF PriorityTimeout, RxInv, RxRecords
  <2>2. Announced' \subseteq Announced
    BY <1>2, <1>6 DEF PriorityTimeout, Notifications
  <2> QED
    BY <1>6, <2>1, <2>2 DEF PriorityTimeout, TimedTask, BusDown
<1>7. CASE QueryTimeout
  <2>1. rx'.status \in {rx.status, "IDLE"} /\ rx'.type = rx.type /\ rx'.halted = rx.halted
    BY <1>1, <1>7 DEF QueryTimeout, RxInv, RxRecords
  <2>2. Announced' \subseteq Announced
    BY <1>2, <1>7 DEF QueryTimeout, Notifications
  <2> QED
    BY <1>7, <2>1, <2>2 DEF QueryTimeout, TimedTask, BusDown, BusTimed, BusUp
<1>8. ~CapturePeriod
  BY DEF Founded, WatchInv, Watched, OneChange, CapturePeriod, Serving, Foremost
<1> QED
  BY <1>1, <1>3, <1>4, <1>5, <1>6, <1>7, <1>8 DEF RxTask

\* Time: the stop bit match comes nearer by as much as the bus is quiet longer.
LEMMA TimedTick ==
  ASSUME Founded, BusTimed, Tick
  PROVE  BusTimed'
<1>1. WatchTypes
  BY FoundedTyped
<1>2. /\ Announced = {} /\ Announced' = {} /\ ~bus.edge /\ ~bus'.edge /\ t1.stop # 0
  BY <1>1 DEF Tick, Due, RxRested, Announced, WatchTypes
<1>3. /\ rx'.status = rx.status /\ t1'.stop = Sooner(t1.stop) /\ bus'.quiet = Older(bus.quiet)
  BY <1>1 DEF Tick, RxElapsed, Closer, WatchTypes, Matches, RxRecords
<1>4. t1'.stop # Off => t1'.stop + bus'.quiet = Stop
  BY <1>1, <1>2, <1>3, ThresholdsOrdered, DelaysTyped
  DEF BusTimed, StopRuns, Sooner, Older, Min2, Off, WatchTypes, Matches
<1> QED
  BY <1>2, <1>3, <1>4 DEF BusTimed, EdgeFresh, StopRuns, MatchSeen, CaptureSeen, BusUp

\* Every step on such a bus
LEMMA TimedStep ==
  ASSUME McrAtomic, MaxSequence = 0, HostWaits, Founded, BusTimed, Brief, Calm, [Next]_vars
  PROVE  BusTimed'
<1>1. WatchTypes /\ RxInv
  BY FoundedTyped
<1>2. CASE Tick
  BY <1>2, TimedTick
<1>3. CASE RxIsrCapture \/ RxIsrMatch
  BY <1>1, <1>3, TimedIsr
<1>4. CASE RxTaskStep
  BY <1>1, <1>4, TimedTaskStep, TimedQuiet
<1>5. CASE MainArm
  <2>1. UNCHANGED <<rx, task, t0, ext, bus>> /\ t1'.stop = t1.stop
    BY <1>1, <1>5, UpdateAtomic DEF MainArm, RxInv, Matches, txVars
  <2>2. BusFollows
    BY <2>1 DEF BusFollows, Pin
  <2> QED
    BY <1>1, <2>1, <2>2, TimedQuiet DEF Announced, BusTimed, BusUp
<1>6. CASE ~(Tick \/ RxIsrCapture \/ RxIsrMatch \/ RxTaskStep \/ MainArm)
  <2>1. BusFollows /\ task' = task /\ t1'.stop = t1.stop /\ rx'.status = rx.status
    BY <1>6, RestStep, PinStep
  <2> QED
    BY <1>1, <2>1, TimedQuiet DEF Announced, BusTimed, BusUp
<1> QED
  BY <1>2, <1>3, <1>4, <1>5, <1>6

\* At first the bus is quiet for long and nothing is armed.
LEMMA TimedInitially == ASSUME Init, Brief PROVE BusTimed
<1>1. /\ bus = [edge |-> FALSE, quiet |-> Far] /\ Announced = {} /\ t1.stop = Off
      /\ rx.status = IF ext.pin THEN "FAILURE" ELSE "IDLE"
  BY DEF Init, RxInit, Announced
<1>2. ~ext.pin
  BY <1>1, ThresholdsOrdered, DelaysTyped DEF Brief, Pin
<1> QED
  BY <1>1, <1>2 DEF BusTimed, EdgeFresh, StopRuns, MatchSeen, CaptureSeen, BusUp, BusDown

-----------------------------------------------------------------------------
(* The assertion of queue_frame.  A frame ends only a stop condition after  *)
(* its last edge.  Of the time since that edge the main task lost at most   *)
(* two ticks before it took a report from a full queue: one for the report  *)
(* it was printing, one for a command it took next.                         *)

\* The start that dali_101_send asked for has just happened.
JustStarted == main.pc = "clear" => t0.in \notin {0, Off}

\* The main task has lost its tick for a command, and there is no other.
CommandTaken ==
  \/ main.pc \in Calculating /\ main.late
  \/ main.pc \in Scheduling
  \/ main.pc = "loop" /\ cmds = <<>> /\ h.owed > 0 /\ t0.in # 0

\* The queue of reports is full for two ticks at most.
FullFresh ==
  rx.status \in InFrame /\ Len(rxq) >= RxQueueSize =>
    \/ bus.quiet = 0
    \/ bus.quiet = 1 /\ (main.pc = "print" => main.late)
    \/ bus.quiet = 2 /\ CommandTaken

PrintInv == JustStarted /\ FullFresh /\ NeverHalted

\* A stop condition is longer than a half bit, a full bit and the next limit.
LEMMA StopLong == Stop >= 3 /\ Older(0) = 1 /\ Older(1) = 2
<1>1. Ticks[0] = 0 /\ Ticks[0] < Ticks[417] /\ Ticks[417] < Ticks[833] /\ Ticks[833] < Ticks[2400]
  BY TicksAssumption DEF TicksAssumption
<1>2. Ticks[417] \in Nat /\ Ticks[833] \in Nat /\ Ticks[2400] \in Nat
  BY TicksAssumption DEF TicksAssumption, Thresholds
<1>3. Stop >= 3 /\ Stop \in Nat
  BY <1>1, <1>2 DEF Stop
<1> QED
  BY <1>3, ThresholdsOrdered, DelaysTyped DEF Older, Min2

\* With a first phase, a start waits for it.
LEMMA StartWaits ==
  ASSUME Founded, TxStart, rx.waiting \/ main.pc \in Deciding
  PROVE  t0'.in \notin {0, Off} /\ IsRunning'
<1>1. tx.count[1] > 0 /\ tx.count[1] \in Nat /\ t0'.in = tx.count[1]
  BY FoundedTyped, TxTyped DEF TxIInv, Founded, FirstPhase, TxStart, Running, TxFacts
<1> QED
  BY <1>1 DEF IsRunning, Off

\* What runs or is scheduled is owed.
LEMMA BegunOwed ==
  ASSUME Founded
  PROVE  /\ h.owed \in Nat
         /\ IsRunning \/ rx.waiting \/ main.pc \in Deciding => h.owed > 0
<1>1. h.owed \in Nat /\ tx.repeat \in 0..255
  BY FoundedTyped, OwedTyped
<1>2. Begun + tx.repeat <= h.owed
  BY DEF Founded, SendInv, OwedInv
<1> QED
  BY <1>1, <1>2 DEF Begun

\* A step the main task, its host and the transmitter have no part in.
LEMMA FullKept ==
  ASSUME FullFresh, rx'.status \in InFrame => rx.status \in InFrame /\ rxq' = rxq,
         bus'.quiet \in {bus.quiet, 0}, UNCHANGED <<main, cmds, h>>,
         t0'.in = t0.in \/ t0'.in # 0
  PROVE  FullFresh'
BY DEF FullFresh, CommandTaken

\* The steps of the transmitter and of the rx task
LEMMA PrintInterrupts ==
  ASSUME McrAtomic, MaxSequence = 0, Founded, BusTimed, PrintInv, Brief, Calm,
         TxIsrPhase \/ TxIsrEnd \/ RxIsrCapture \/ RxIsrMatch \/ RxTaskStep
  PROVE  PrintInv'
<1>1. /\ RxInv /\ LinkInv /\ WatchTypes /\ UNCHANGED <<main, cmds, ser>>
      /\ rx \in RxRecords
  BY FoundedTyped
  DEF TxIsrPhase, TxIsrEnd, RxIsrCapture, RxIsrMatch, RxTaskStep, linkVars
<1>2. CASE TxIsrPhase \/ TxIsrEnd
  <2>1. t0.in = 0 /\ UNCHANGED <<rx, rxq>> /\ BusFollows
    BY <1>2 DEF TxIsrPhase, TxIsrEnd, TxPhase, TxEnd, rxVars
  <2>2. main.pc # "clear"
    BY <2>1 DEF PrintInv, JustStarted
  <2>3. bus' = bus \/ bus'.quiet = 0
    BY <2>1 DEF BusFollows
  <2>4. CommandTaken => CommandTaken'
    BY <1>1, <2>1 DEF CommandTaken
  <2> QED
    BY <1>1, <2>1, <2>2, <2>3, <2>4 DEF PrintInv, JustStarted, FullFresh, NeverHalted
<1>3. CASE RxIsrCapture \/ RxIsrMatch
  <2>1. UNCHANGED <<rx, rxq, t0, h>> /\ bus'.quiet = bus.quiet
    BY <1>1, <1>3
    DEF RxIsrCapture, RxIsrMatch, IsrCapture, IsrStop, IsrPeriod, IsrQuery, linkVars, txVars,
        WatchTypes
  <2> QED
    BY <1>1, <2>1, FullKept DEF PrintInv, JustStarted, NeverHalted
<1>4. CASE RxTaskStep
  <2>1. /\ TimedTask /\ BusFollows /\ UNCHANGED <<ext, h>>
        /\ \/ rx'.halted = rx.halted
           \/ rx.status \in InFrame /\ Pauses(Pin) /\ rx'.halted = (Len(rxq) >= RxQueueSize)
    BY <1>4, TimedTaskStep DEF RxTaskStep
  <2>2. RxSends
    BY <1>1, <1>4, RxTaskSends DEF RxTaskStep
  <2>3. t0' = t0 \/ t0'.in \notin {0, Off}
    BY <2>2, StartWaits DEF RxSends, txVars, TxRepeat
  <2>4. JustStarted'
    BY <1>1, <2>3 DEF PrintInv, JustStarted
  <2>5. ~rx'.halted
    <3>1. CASE rx'.halted = rx.halted
      BY <3>1 DEF PrintInv, NeverHalted
    <3>2. CASE rx.status \in InFrame /\ Pauses(Pin) /\ rx'.halted = (Len(rxq) >= RxQueueSize)
      <4>1. Matched
        <5>1. rx'.status = "INTER_FRAME_IDLE" /\ rx'.status # rx.status /\ rx.status \notin Resting
          BY <3>2 DEF Pauses, InFrame, Resting
        <5>2. ~RxTake /\ ~QueryTimeout
          BY <5>1 DEF RxTake, QueryTimeout
        <5>3. ~StartsFrame(Pin) /\ ~IgnoresEdge(Pin) /\ ~TakesBit
          BY <5>1 DEF StartsFrame, IgnoresEdge, TakesBit, InFrame
        <5>4. ~PriorityTimeout
          BY <1>1, <5>1 DEF PriorityTimeout, RxRecords
        <5> QED
          BY <2>1, <5>2, <5>3, <5>4 DEF TimedTask
      <4>2. bus.quiet = Stop
        BY <1>1, <4>1, ServedTask
        DEF Matched, Notifications, BusTimed, MatchSeen, Announced
      <4>3. ~(Len(rxq) >= RxQueueSize)
        BY <3>2, <4>2, StopLong, DelaysTyped DEF PrintInv, FullFresh
      <4> QED
        BY <3>2, <4>3
    <3> QED
      BY <2>1, <3>1, <3>2
  <2>6. \/ rx'.status \notin InFrame
        \/ rx.status \in InFrame /\ rxq' = rxq
        \/ bus.quiet = 0
    <3>1. CASE RxTake
      BY <3>1 DEF RxTake
    <3>2. CASE Captured /\ StartsFrame(Pin)
      BY <1>1, <3>2, ServedTask DEF Captured, Notifications, BusTimed, CaptureSeen, Announced
    <3>3. CASE IgnoresEdge(Pin) \/ TakesBit
      BY <3>3 DEF IgnoresEdge, TakesBit, InFrame
    <3>4. CASE IgnoresMatch(Pin) \/ Pauses(Pin)
      BY <3>4 DEF IgnoresMatch, Pauses, InFrame
    <3>5. CASE PriorityTimeout
      BY <1>1, <3>5 DEF PriorityTimeout, InFrame, RxRecords
    <3>6. CASE QueryTimeout
      <4>1. CASE rx.status \in Resting
        <5>1. rx' = [rx EXCEPT !.status = "IDLE", !.frame = NoFrame]
          BY <3>6, <4>1 DEF QueryTimeout
        <5> QED
          BY <1>1, <5>1 DEF InFrame, RxRecords
      <4>2. CASE rx.status \notin Resting
        BY <3>6, <4>2 DEF QueryTimeout
      <4> QED
        BY <4>1, <4>2
    <3> QED
      BY <2>1, <3>1, <3>2, <3>3, <3>4, <3>5, <3>6 DEF TimedTask
  <2>7. bus'.quiet \in {bus.quiet, 0}
    BY <2>1 DEF BusFollows
  <2>8. FullFresh'
    <3>1. CASE bus.quiet = 0
      BY <2>7, <3>1 DEF FullFresh
    <3>2. CASE bus.quiet # 0
      <4>1. rx'.status \in InFrame => rx.status \in InFrame /\ rxq' = rxq
        BY <2>6, <3>2
      <4>2. t0'.in = t0.in \/ t0'.in # 0
        BY <2>3
      <4> QED
        BY <1>1, <2>1, <2>7, <4>1, <4>2, FullKept DEF PrintInv
    <3> QED
      BY <3>1, <3>2
  <2> QED
    BY <2>4, <2>5, <2>8 DEF PrintInv, NeverHalted
<1> QED
  BY <1>2, <1>3, <1>4

\* The steps of the main task
LEMMA PrintMain ==
  ASSUME McrAtomic, MaxSequence = 0, HostWaits, Founded, PrintInv,
         \/ MainPrint \/ MainPrinted \/ MainTake
         \/ Calculates \/ Decides \/ MainStart \/ MainArm \/ MainWait
  PROVE  PrintInv'
<1>1. /\ RxInv /\ LinkInv /\ LinkIInv /\ SendInv /\ OwedInv /\ main \in Mains
      /\ Scheduling = Deciding \cup {"clear"}
  BY FoundedTyped DEF Founded, SendInv, Deciding, Scheduling, LinkInv
<1>2. ASSUME rx'.halted = rx.halted, rx'.status = rx.status, rxq' = rxq,
             bus' = bus \/ bus'.quiet = 0,
             main'.pc = "print" => main.pc = "print" /\ main'.late = main.late,
             bus.quiet = 2 /\ CommandTaken => CommandTaken'
      PROVE  FullFresh' /\ NeverHalted'
  BY <1>2 DEF PrintInv, FullFresh, NeverHalted
<1>3. CASE MainPrint
  <2>1. main'.pc = "print" /\ UNCHANGED rx /\ rxq' = Tail(rxq)
    BY <1>1, <1>3 DEF MainPrint, Goto, Mains
  <2>2. rxq \in Seq(Reports) /\ rxq # <<>> /\ Len(rxq) <= RxQueueSize
    BY <1>1, <1>3 DEF MainPrint, CanPrint, RxInv, QueueTyped
  <2>3. Len(rxq') < RxQueueSize /\ Len(rxq') \in Nat /\ RxQueueSize \in Nat
    <3>1. Len(Tail(rxq)) = Len(rxq) - 1 /\ Len(rxq) \in Nat /\ RxQueueSize \in Nat
      BY <2>2, EmptySeq, HeadTailProperties, LinkAssumption DEF LinkAssumption
    <3>2. Len(Tail(rxq)) \in Nat
      BY <2>2, EmptySeq, HeadTailProperties
    <3> QED
      BY <2>1, <2>2, <3>1, <3>2
  <2> QED
    BY <2>1, <2>3 DEF PrintInv, JustStarted, FullFresh, NeverHalted
<1>4. CASE MainPrinted
  <2>1. main.pc = "print" /\ main'.pc = "loop" /\ UNCHANGED <<rx, rxq, bus>>
    BY <1>1, <1>4 DEF MainPrinted, At, GoBack, Mains, rxVars
  <2>2. ~CommandTaken
    BY <2>1 DEF CommandTaken, Calculating, Scheduling
  <2> QED
    BY <1>2, <2>1, <2>2 DEF PrintInv, JustStarted
<1>5. CASE MainTake
  <2>1. /\ main.pc = "loop" /\ main'.pc \in {"loop", "reset"} /\ cmds # <<>>
        /\ UNCHANGED <<rx, rxq, bus>>
    BY <1>5, MainTakes DEF rxVars
  <2>2. ~CommandTaken
    BY <2>1 DEF CommandTaken, Calculating, Scheduling
  <2> QED
    BY <1>2, <2>1, <2>2 DEF PrintInv, JustStarted
<1>6. CASE Calculates
  <2>1. /\ UNCHANGED <<rx, rxq, bus>> /\ main.pc \in Calculating /\ main'.late = main.late
        /\ main'.pc \in Calculating \cup {"schedule"}
    BY <1>1, <1>6, CalculateSends DEF Calculates, rxVars
  <2>2. main'.pc \notin {"print", "clear"} /\ (CommandTaken => CommandTaken')
    BY <2>1 DEF CommandTaken, Calculating, Scheduling
  <2> QED
    BY <1>2, <2>1, <2>2 DEF PrintInv, JustStarted
<1>7. CASE Decides \/ MainArm
  <2>1. /\ UNCHANGED <<rxq, bus>> /\ rx'.status = rx.status /\ main'.pc \in Deciding
    BY <1>1, <1>7, DecideSends DEF Decides
  <2>2. rx'.halted = rx.halted
    BY <1>1, <1>7 DEF Decides, MainType, MainTest, MainGap, MainArm, RxInv, RxRecords, rxVars
  <2>3. main'.pc \notin {"print", "clear"} /\ CommandTaken'
    BY <2>1 DEF CommandTaken, Deciding, Scheduling
  <2> QED
    BY <1>2, <2>1, <2>2, <2>3 DEF PrintInv, JustStarted
<1>8. CASE MainStart
  <2>1. /\ TxStart /\ main.pc \in Deciding /\ main'.pc \in {"clear", "loop"}
        /\ UNCHANGED <<rx, rxq, cmds, h>> /\ (bus' = bus \/ bus'.quiet = 0)
    BY <1>1, <1>8, MainStartSends DEF MainStart, Deciding, Scheduling, rxVars, BusFollows
  <2>2. cmds = <<>> /\ h.owed > 0
    BY <1>1, <2>1, BegunOwed DEF OwedInv, Deciding, Scheduling
  <2>3. t0'.in \notin {0, Off}
    BY <2>1, StartWaits
  <2>4. CommandTaken' /\ JustStarted'
    BY <2>1, <2>2, <2>3 DEF CommandTaken, JustStarted, Scheduling
  <2> QED
    BY <1>2, <2>1, <2>4 DEF PrintInv
<1>9. CASE MainWait
  <2>1. /\ main.pc \in {"armed", "wait", "clear"} /\ main'.pc = "loop"
        /\ rx'.status = rx.status /\ UNCHANGED <<t0, rxq, bus, cmds, h>>
    BY <1>1, <1>9, MainWaitSends DEF txVars
  <2>2. rx'.halted = rx.halted
    BY <1>1, <1>9 DEF MainWait, RxInv, RxRecords
  <2>3. t0.in # 0 /\ (IsRunning \/ main.pc \in Deciding)
    <3>1. CASE main.pc \in {"armed", "wait"}
      <4>1. main.pc \in Deciding
        BY <3>1 DEF Deciding, Scheduling
      <4> QED
        BY <4>1, FoundedTyped, <1>1, IdleNotRunning DEF OwedInv, Off, Stopped
    <3>2. CASE main.pc = "clear"
      BY <3>2 DEF PrintInv, JustStarted, IsRunning
    <3> QED
      BY <2>1, <3>1, <3>2
  <2>4. cmds = <<>> /\ h.owed > 0
    BY <1>1, <2>1, <2>3, BegunOwed DEF OwedInv
  <2>5. CommandTaken' /\ JustStarted'
    BY <2>1, <2>3, <2>4 DEF CommandTaken, JustStarted
  <2> QED
    BY <1>2, <2>1, <2>2, <2>5 DEF PrintInv
<1> QED
  BY <1>3, <1>4, <1>5, <1>6, <1>7, <1>8, <1>9

\* Time: it passes while a report is printed or a frame is calculated.
LEMMA PrintTick ==
  ASSUME Founded, PrintInv, Tick
  PROVE  PrintInv'
<1>1. /\ RxInv /\ main \in Mains /\ rx \in RxRecords /\ SerialIdle
  BY FoundedTyped DEF Founded
<1>2. /\ ~MainDue /\ UNCHANGED rxq /\ bus'.quiet = Older(bus.quiet)
      /\ main'.pc = main.pc /\ main'.late = (main.pc # "loop" /\ (main.late \/ SerialIdle))
      /\ rx'.status = rx.status /\ rx'.halted = rx.halted
  BY <1>1, FoundedTyped DEF Tick, Due, RxElapsed, Mains, RxRecords
<1>3. /\ main.pc \notin Scheduling /\ (main.pc # "loop" => ~main.late)
      /\ rxq # <<>> => main.pc # "loop"
  BY <1>1, <1>2 DEF MainDue, CanPrint, SerialIdle, Printing
<1>4. main.pc \in {"loop", "print"} \cup Calculating \cup Scheduling
  BY <1>1 DEF Mains, MainPlaces, Places
<1>5. main.pc # "clear"
  BY <1>3 DEF Scheduling
<1>6. FullFresh'
  <2> SUFFICES ASSUME rx.status \in InFrame, Len(rxq) >= RxQueueSize
               PROVE  \/ bus'.quiet = 1 /\ (main'.pc = "print" => main'.late)
                      \/ bus'.quiet = 2 /\ CommandTaken'
    BY <1>2 DEF FullFresh
  <2>1. rxq # <<>>
    <3>1. Len(<<>>) = 0
      OBVIOUS
    <3> QED
      BY <3>1, LinkAssumption DEF LinkAssumption
  <2>2. main.pc \in {"print"} \cup Calculating /\ ~main.late /\ main'.late
    BY <1>1, <1>2, <1>3, <1>4, <2>1
  <2>3. CASE bus.quiet = 0
    BY <1>2, <2>2, <2>3, StopLong
  <2>4. CASE bus.quiet = 1 /\ (main.pc = "print" => main.late)
    BY <1>2, <2>2, <2>4, StopLong DEF CommandTaken
  <2>5. ~(bus.quiet = 2 /\ CommandTaken)
    BY <1>3, <2>1, <2>2 DEF CommandTaken
  <2> QED
    BY <2>3, <2>4, <2>5 DEF PrintInv, FullFresh
<1> QED
  BY <1>2, <1>5, <1>6 DEF PrintInv, JustStarted, NeverHalted

\* Every step, on a bus on which a stop condition is what it is meant to be
LEMMA PrintStep ==
  ASSUME McrAtomic, MaxSequence = 0, HostWaits, Founded, BusTimed, PrintInv, Brief, Calm,
         [Next]_vars
  PROVE  PrintInv'
<1>1. RxInv /\ LinkInv
  BY FoundedTyped
<1>2. CASE TxIsrPhase \/ TxIsrEnd \/ RxIsrCapture \/ RxIsrMatch \/ RxTaskStep
  BY <1>2, PrintInterrupts
<1>3. CASE \/ MainPrint \/ MainPrinted \/ MainTake
           \/ Calculates \/ Decides \/ MainStart \/ MainArm \/ MainWait
  BY <1>3, PrintMain
<1>4. CASE HostCommand
  <2>1. Settled /\ UNCHANGED <<txVars, rxVars, bus, main, h>>
    BY <1>4, HostAsks
  <2>2. ~CommandTaken
    BY <2>1 DEF Settled, CommandTaken, Calculating, Scheduling
  <2> QED
    BY <2>1, <2>2 DEF txVars, rxVars, PrintInv, JustStarted, FullFresh, NeverHalted
<1>5. CASE ExtStart \/ ExtEnd \/ UNCHANGED vars
  <2>1. UNCHANGED <<t0, rx, rxq, main, cmds, h>> /\ (bus' = bus \/ bus'.quiet = 0)
    BY <1>5
    DEF ExtStart, ExtEnd, vars, linkVars, txVars, rxVars, BusFollows
  <2> QED
    BY <2>1 DEF PrintInv, JustStarted, FullFresh, CommandTaken, NeverHalted
<1>6. CASE Tick
  BY <1>6, PrintTick
<1> QED
  BY <1>2, <1>3, <1>4, <1>5, <1>6, Steps

\* NeverHalted: the assertion of queue_frame, that the queue of reports has room,
\* never fails, even if the queue has one place only: the main task, which has
\* the lowest priority, has printed a report before the next frame is complete,
\* although it is kept busy a tick by every report and a tick by every frame it
\* sends, and wherever dali_101_send is interrupted.  Assumed is that the host
\* waits and asks for no sequences (one that floods the serial task keeps the
\* main task from running), and that the other devices keep to the length of a
\* stop condition.
THEOREM QueueHasRoom ==
  ASSUME McrAtomic, MaxSequence = 0, HostWaits
  PROVE  Spec /\ []Brief /\ [][Calm]_vars => []NeverHalted
<1> DEFINE Inv == Founded /\ BusTimed /\ PrintInv
<1>1. Init => PrintInv
  BY DEF Init, RxInit, PrintInv, JustStarted, FullFresh, NeverHalted, InFrame
<1>2. Init /\ Brief => Inv
  BY <1>1, FoundedInvariant, TimedInitially
<1>3. Inv /\ [Next]_vars /\ Brief /\ [Calm]_vars => Inv'
  <2> SUFFICES ASSUME Inv, [Next]_vars, Brief, [Calm]_vars PROVE Inv'
    OBVIOUS
  <2>1. Calm
    BY DEF Calm, vars, txVars, linkVars, Pin
  <2> QED
    BY <2>1, FoundedInvariant, TimedStep, PrintStep
<1>4. Inv => NeverHalted
  BY DEF PrintInv
<1> QED
  BY <1>2, <1>3, <1>4, PTL DEF Spec

-----------------------------------------------------------------------------
(* A transmission that waits is looked at again.  On such a bus the gap     *)
(* after a frame always ends with the period match: it is programmed for a  *)
(* time that is still to come, and nobody disarms it unless a frame starts. *)

\* Frame types whose settling time is longer than a stop condition and counted
\* from the last edge.  That of a backward frame is counted from the last edge
\* of the last complete frame, which may lie further back.
Forward == ForwardTypes \cup QueryTypes \cup {"BACK_TO_BACK"}

\* The main task is in no place between its test for a gap between two frames
\* and the end of rx_schedule_transmission where others interrupt it.
GapServed == {"gap", "arm", "armed", "wait"} \cap Preemptible = {}

\* The period match ends the gap.
GapEnds ==
  rx.status = "INTER_FRAME_IDLE" \/ (rx.status = "IDLE" /\ rx.waiting) => PeriodOn

\* The receiver knows how long the bus has been quiet.
EdgeAged == ~bus.edge => age.edge <= bus.quiet

\* What the main task leaves waiting will be looked at.
WaitsArmed ==
  main.pc \in {"gap", "arm", "armed", "wait"} =>
    /\ Announced = {} /\ rx.status # "IDLE"
    /\ main.pc = "armed" => t1.period # Off

\* What waits or may be repeated has such a type.
TypeWaits ==
  /\ rx.type \in Forward \cup {"NONE"}
  /\ rx.type = "NONE" => TxIsIdle /\ ~rx.waiting

PendInv == wrap = Never /\ GapEnds /\ EdgeAged /\ WaitsArmed /\ TypeWaits

\* The gap is never shorter than a stop condition.
LEMMA ForwardTimes ==
  ASSUME NEW type \in Forward
  PROVE  Stop <= Settling(type) /\ Settling(type) \in Int /\ type \notin {"BACKWARD", "NONE"}
<1>1. /\ Ticks[2400] <= Ticks[2450] /\ Ticks[2400] < Ticks[13500]
      /\ Ticks[2400] < Ticks[14900] /\ Ticks[2400] < Ticks[16300]
      /\ Ticks[2400] < Ticks[17900] /\ Ticks[2400] < Ticks[19500]
  BY TicksAssumption DEF TicksAssumption, Thresholds
<1>2. \A t \in {2400, 2450, 13500, 14900, 16300, 17900, 19500} : Ticks[t] \in Int
  BY ThresholdsOrdered DEF Thresholds
<1>3. settling_time_us(type) \in {2450, 13500, 14900, 16300, 17900, 19500}
      /\ type \notin {"BACKWARD", "NONE"}
  BY DEF Forward, ForwardTypes, QueryTypes, settling_time_us
<1> QED
  BY <1>1, <1>2, <1>3 DEF Settling, Stop

\* A match for one of these types, programmed before its time, is to come.
LEMMA MatchComes ==
  ASSUME NEW start_in \in Int, start_in >= 0
  PROVE  Match(PeriodIn(start_in)) # Off
BY DelaysTyped DEF Match, PeriodIn, Off

\* The interrupts of the receiver
LEMMA PendIsr ==
  ASSUME McrAtomic, Founded, BusTimed, PendInv, GapServed, RxIsrCapture \/ RxIsrMatch
  PROVE  PendInv'
<1>1. WatchTypes /\ BusTimed
  BY FoundedTyped
<1>2. /\ UNCHANGED <<rx, wrap, main, tx>> /\ task'.work = task.work
      /\ main.pc \notin {"gap", "arm", "armed", "wait"}
  BY <1>1
  DEF RxIsrCapture, RxIsrMatch, IsrCapture, IsrStop, IsrPeriod, IsrQuery, linkVars, txVars,
      Notify, WatchTypes, Tasks, RxIsrReady, Undisturbed, Interruptible, GapServed
<1>3. CASE RxIsrCapture
  <2>1. /\ t1' = [t1 EXCEPT !.stop = Stop] /\ bus.edge /\ bus' = [bus EXCEPT !.edge = FALSE]
        /\ task' = [task EXCEPT !.notify = @ \cup {NOTIFY_CAPTURE}]
        /\ age' = [age EXCEPT !.edge = 0]
    BY <1>3, UpdateAtomic DEF RxIsrCapture, IsrCapture, Notify
  <2>2. /\ t1'.period = t1.period /\ task'.notify = task.notify \cup {NOTIFY_CAPTURE}
        /\ age'.edge = 0 /\ bus'.quiet \in Nat
    BY <1>1, <2>1, DelaysTyped, ThresholdsOrdered DEF WatchTypes, Matches, Tasks, Ages
  <2>3. PeriodOn => PeriodOn'
    BY <1>2, <2>2 DEF PeriodOn, Announced
  <2> QED
    BY <1>2, <2>2, <2>3 DEF PendInv, GapEnds, EdgeAged, WaitsArmed, TypeWaits, TxIsIdle
<1>4. CASE RxIsrMatch
  <2>1. UNCHANGED <<bus, age>>
    BY <1>4 DEF RxIsrMatch, IsrStop, IsrPeriod, IsrQuery, linkVars
  <2>2. PeriodOn => PeriodOn'
    <3>1. CASE IsrPeriod
      BY <1>1, <3>1 DEF IsrPeriod, Notify, WatchTypes, Tasks, PeriodOn, Announced
    <3>2. CASE IsrStop
      <4>1. t1' = [t1 EXCEPT !.stop = Off] /\ task' = [task EXCEPT !.notify = @ \cup {NOTIFY_MATCH}]
        BY <3>2, UpdateAtomic DEF IsrStop, Notify
      <4> QED
        BY <1>1, <1>2, <4>1 DEF WatchTypes, Tasks, Matches, PeriodOn, Announced
    <3>3. CASE IsrQuery
      <4>1. t1' = [t1 EXCEPT !.query = Off] /\ task' = [task EXCEPT !.notify = @ \cup {NOTIFY_QUERY}]
        BY <3>3, UpdateAtomic DEF IsrQuery, Notify
      <4> QED
        BY <1>1, <1>2, <4>1 DEF WatchTypes, Tasks, Matches, PeriodOn, Announced
    <3> QED
      BY <1>4, <3>1, <3>2, <3>3 DEF RxIsrMatch
  <2> QED
    BY <1>2, <2>1, <2>2 DEF PendInv, GapEnds, EdgeAged, WaitsArmed, TypeWaits, TxIsIdle
<1> QED
  BY <1>3, <1>4

\* The rx task: only the end of a frame programs a match, and a transmission
\* that waits or is repeated stays what it is.
LEMMA PendTask ==
  ASSUME McrAtomic, MaxSequence = 0, Founded, BusTimed, PendInv, GapServed, Brief, Calm,
         RxTaskStep
  PROVE  PendInv'
<1>1. /\ RxInv /\ WatchTypes /\ EdgeServed /\ rx \in RxRecords /\ t1 \in Matches
      /\ UNCHANGED main /\ main.pc \notin {"gap", "arm", "armed", "wait"}
  BY FoundedTyped
  DEF RxTaskStep, Founded, WatchInv, Watched, Undisturbed, Interruptible, GapServed
<1>2. /\ TimedTask /\ BusFollows /\ rx'.type = rx.type
  BY TimedTaskStep
<1>3. wrap' = wrap /\ age'.edge = age.edge
  BY <1>1
  DEF RxTaskStep, RxTask, RxTake, CapturePeriod, CaptureStart, CaptureIgnored, CaptureBit,
      CaptureRecover, Captured, EdgeCounted, MatchIgnored, MatchFrame, MatchDiscard, MatchLow,
      MatchFailure, PriorityTimeout, QueryTimeout, WatchTypes, Ages
<1>4. EdgeAged'
  BY <1>2, <1>3 DEF PendInv, EdgeAged, BusFollows
<1>5. WaitsArmed'
  BY <1>1 DEF WaitsArmed
<1>6. TypeWaits'
  <2>1. RxSends
    BY <1>1, RxTaskSends DEF RxTaskStep
  <2>2. TxIsIdle /\ ~rx.waiting => TxIsIdle' /\ ~rx'.waiting
    BY <2>1 DEF RxSends, Repeats, txVars, TxIsIdle
  <2> QED
    BY <1>2, <2>2 DEF PendInv, TypeWaits
<1>7. GapEnds'
  <2>1. CASE RxTake
    BY <2>1 DEF RxTake, PendInv, GapEnds, PeriodOn, Announced
  <2>2. CASE StartsFrame(Pin)
    BY <2>2 DEF StartsFrame, GapEnds
  <2>3. CASE Captured /\ (IgnoresEdge(Pin) \/ TakesBit)
    <3>1. NOTIFY_PRIORITY \in Announced' <=> NOTIFY_PRIORITY \in Announced
      BY <1>1, <2>3, ServedTask
      DEF Captured, Notifications, Announced, NOTIFY_CAPTURE, NOTIFY_PRIORITY
    <3> QED
      BY <2>3, <3>1 DEF IgnoresEdge, TakesBit, PendInv, GapEnds, PeriodOn, InFrame
  <2>4. CASE Matched /\ IgnoresMatch(Pin)
    <3>1. NOTIFY_PRIORITY \in Announced' <=> NOTIFY_PRIORITY \in Announced
      BY <1>1, <2>4, ServedTask
      DEF Matched, Notifications, Announced, NOTIFY_MATCH, NOTIFY_PRIORITY
    <3> QED
      BY <2>4, <3>1 DEF IgnoresMatch, PendInv, GapEnds, PeriodOn
  <2>5. CASE Matched /\ Pauses(Pin)
    <3> DEFINE type == IF rx'.waiting THEN rx.type ELSE "FORWARD_5"
    <3>1. age.last <= Stop /\ age.last \in Int
      <4>1. NOTIFY_MATCH \in Announced
        BY <1>1, <2>5, ServedTask DEF Matched, Notifications, Announced
      <4>2. bus.quiet = Stop /\ ~EdgeKnown
        BY <4>1 DEF BusTimed, MatchSeen
      <4> QED
        BY <1>1, <4>2 DEF EdgeKnown, EdgeServed, PendInv, EdgeAged, WatchTypes, Ages
    <3>2. rx'.waiting => rx.type # "NONE"
      BY <2>5 DEF Pauses, Repeats, PendInv, TypeWaits
    <3>3. type \in Forward
      BY <3>2 DEF PendInv, TypeWaits, Forward, ForwardTypes
    <3> HIDE DEF type
    <3>4. age' = [age EXCEPT !.full = IF rx.status \in InFrame THEN age.last ELSE @]
          /\ t1' = [t1 EXCEPT !.period = Match(PeriodIn(StartIn(type, age'.full)))]
      BY <2>5 DEF Pauses, type
    <3>5. StartIn(type, age'.full) = Settling(type) - age.last
      BY <3>3, ForwardTimes DEF StartIn
    <3>6. StartIn(type, age'.full) \in Int /\ StartIn(type, age'.full) >= 0
      BY <3>1, <3>3, <3>5, ForwardTimes, DelaysTyped
    <3>7. Match(PeriodIn(StartIn(type, age'.full))) # Off
      BY <3>6, MatchComes
    <3>8. t1'.period # Off
      BY <1>1, <3>4, <3>7 DEF Matches
    <3> QED
      BY <3>8 DEF GapEnds, PeriodOn
  <2>6. CASE PriorityTimeout
    BY <1>1, <2>6 DEF PriorityTimeout, GapEnds, RxRecords
  <2>7. CASE QueryTimeout
    <3>1. NOTIFY_PRIORITY \in Announced' <=> NOTIFY_PRIORITY \in Announced
      BY <1>1, <2>7, ServedTask
      DEF QueryTimeout, Notifications, Announced, NOTIFY_QUERY, NOTIFY_PRIORITY
    <3>2. CASE rx.status \in Resting
      <4>1. rx' = [rx EXCEPT !.status = "IDLE", !.frame = NoFrame] /\ t1' = t1
        BY <2>7, <3>2 DEF QueryTimeout
      <4> QED
        BY <1>1, <3>1, <3>2, <4>1 DEF RxRecords, PendInv, GapEnds, PeriodOn, Resting
    <3>3. CASE rx.status \notin Resting
      BY <2>7, <3>1, <3>3 DEF QueryTimeout, PendInv, GapEnds, PeriodOn
    <3> QED
      BY <3>2, <3>3
  <2> QED
    BY <1>2, <2>1, <2>2, <2>3, <2>4, <2>5, <2>6, <2>7 DEF TimedTask
<1> QED
  BY <1>3, <1>4, <1>5, <1>6, <1>7 DEF PendInv

\* rx_schedule_transmission: a start that is not due is still to come, and so is
\* the match that is brought forward for it.
LEMMA PendDecides ==
  ASSUME McrAtomic, \A f \in TxFrames : f.type \in Forward, GapServed,
         Founded, ArmInv, PendInv, Decides \/ MainArm
  PROVE  PendInv'
<1>1. /\ RxInv /\ LinkIInv /\ main \in Mains /\ rx \in RxRecords /\ t1 \in Matches
      /\ age \in Ages
  BY FoundedTyped
<1>2. /\ UNCHANGED <<txVars, wrap, age, task, bus>> /\ main.pc \in Deciding
      /\ rx'.waiting = rx.waiting /\ rx'.status = rx.status
      /\ ~MainArm => UNCHANGED t1
      /\ ~MainType => UNCHANGED rx
      /\ Announced = {} /\ Announced' = {}
  BY <1>1, DecideSends
  DEF Decides, MainType, MainTest, MainGap, MainArm, At, TasksWait, Announced
<1>3. EdgeAged' /\ wrap' = Never
  BY <1>2 DEF PendInv, EdgeAged
<1>4. TypeWaits'
  <2>1. CASE MainType
    <3>1. rx'.type = main.frame.type /\ main.frame \in TxFrames
      BY <1>1, <2>1 DEF MainType, At, RxRecords, LinkIInv, LinkInv, FrameTaken
    <3> QED
      BY <3>1 DEF TypeWaits, Forward, ForwardTypes, QueryTypes
  <2>2. CASE ~MainType
    BY <1>2, <2>2 DEF PendInv, TypeWaits, TxIsIdle, txVars
  <2> QED
    BY <2>1, <2>2
<1>5. MainArm => t1'.period # Off
  <2> SUFFICES ASSUME MainArm PROVE t1'.period # Off
    OBVIOUS
  <2> DEFINE start_in == StartIn(main.frame.type, age.full)
  <2>1. /\ main.start = Match(PeriodIn(start_in))
        /\ FALSE \in DueInGap(main.frame.type)
    BY DEF MainArm, At, ArmInv, ArmDecided
  <2>2. start_in \in Int /\ start_in <= Fail /\ Fail < Never /\ Fail \in Int /\ 0 < Never
    BY <1>1, StartInTyped, ThresholdsOrdered, DelaysTyped DEF Ages, Never
  <2>3. start_in >= 0
    <3>1. CountBelow(0, start_in) \/ start_in = 0
      BY <2>1 DEF DueInGap
    <3> HIDE DEF start_in
    <3> QED
      BY <2>2, <3>1 DEF CountBelow, PendInv
  <2> HIDE DEF start_in
  <2>4. main.start # Off
    BY <2>1, <2>2, <2>3, MatchComes
  <2>5. t1' = [t1 EXCEPT !.period = main.start]
    BY UpdateAtomic DEF MainArm
  <2> QED
    BY <1>1, <2>4, <2>5 DEF Matches
<1>6. GapEnds'
  <2>1. CASE MainArm
    BY <1>5, <2>1 DEF GapEnds, PeriodOn
  <2>2. CASE ~MainArm
    BY <1>2, <2>2 DEF PendInv, GapEnds, PeriodOn
  <2> QED
    BY <2>1, <2>2
<1>7. WaitsArmed'
  <2>1. CASE MainType
    BY <1>1, <2>1 DEF MainType, Goto, Mains, WaitsArmed
  <2>2. CASE MainTest
    <3>1. main'.pc = (IF rx.status = "IDLE" THEN "start" ELSE "gap")
      BY <1>1, <2>2 DEF MainTest, Goto, Mains
    <3> QED
      BY <1>2, <3>1 DEF WaitsArmed
  <2>3. CASE MainGap
    <3>1. main'.pc # "armed" /\ main.pc = "gap"
      BY <1>1, <2>3 DEF MainGap, At, Goto, Mains
    <3> QED
      BY <1>2, <3>1 DEF PendInv, WaitsArmed
  <2>4. CASE MainArm
    <3>1. main.pc = "arm"
      BY <2>4 DEF MainArm, At
    <3> QED
      BY <1>2, <1>5, <2>4, <3>1 DEF PendInv, WaitsArmed
  <2> QED
    BY <2>1, <2>2, <2>3, <2>4 DEF Decides
<1> QED
  BY <1>3, <1>4, <1>6, <1>7 DEF PendInv

\* Every step
LEMMA PendStep ==
  ASSUME McrAtomic, MaxSequence = 0, HostWaits, \A f \in TxFrames : f.type \in Forward,
         GapServed, Founded, BusTimed, ArmInv, PendInv, Brief, Calm, [Next]_vars
  PROVE  PendInv'
<1>1. /\ RxInv /\ LinkIInv /\ main \in Mains /\ rx \in RxRecords /\ t1 \in Matches
      /\ WatchTypes /\ TxIInv
  BY FoundedTyped
<1>2. CASE RxIsrCapture \/ RxIsrMatch
  BY <1>2, PendIsr
<1>3. CASE RxTaskStep
  BY <1>3, PendTask
<1>4. CASE Decides \/ MainArm
  BY <1>4, PendDecides
<1>5. CASE Tick
  <2>1. main.pc \notin Scheduling /\ main'.pc = main.pc
    BY <1>1, <1>5, ScheduledNow DEF Tick, Mains
  <2>2. Announced = {} /\ Announced' = {} /\ UNCHANGED task /\ t1'.period = Sooner(t1.period)
    BY <1>1, <1>5 DEF Tick, Due, RxRested, RxElapsed, Closer, Announced, Matches
  <2>3. rx'.status = rx.status /\ rx'.waiting = rx.waiting /\ rx'.type = rx.type /\ tx' = tx
    BY <1>1, <1>5 DEF Tick, RxElapsed, TxTick, RxRecords
  <2>4. bus'.edge = bus.edge /\ bus'.quiet = Older(bus.quiet) /\ age'.edge = Older(age.edge)
    BY <1>1, <1>5 DEF Tick, RxElapsed, WatchTypes, Ages
  <2>5. wrap' = Never
    BY <1>5, ThresholdsOrdered DEF Tick, RxElapsed, PendInv, Never
  <2>6. EdgeAged'
    BY <1>1, <2>4, ThresholdsOrdered DEF PendInv, EdgeAged, Older, Min2, WatchTypes, Ages
  <2>7. GapEnds'
    BY <1>1, <2>2, <2>3 DEF PendInv, GapEnds, PeriodOn, Sooner, Off, Matches
  <2>8. WaitsArmed' /\ TypeWaits'
    BY <2>1, <2>3 DEF PendInv, WaitsArmed, TypeWaits, Scheduling, TxIsIdle
  <2> QED
    BY <2>5, <2>6, <2>7, <2>8 DEF PendInv
<1>6. CASE ~(Tick \/ RxIsrCapture \/ RxIsrMatch \/ RxTaskStep \/ Decides \/ MainArm)
  <2>1. /\ UNCHANGED <<task, age>> /\ t1'.period = t1.period /\ rx'.status = rx.status
        /\ rx'.type = rx.type /\ ~MainType
    BY <1>6, RestStep DEF Decides
  <2>2. BusFollows
    BY <1>6, PinStep
  <2>3. EdgeAged'
    BY <2>1, <2>2 DEF BusFollows, PendInv, EdgeAged
  <2>4. wrap' = wrap
    <3>1. Calculates => UNCHANGED wrap
      BY CalculateSends DEF Calculates, Founded, rxVars
    <3> QED
      BY <1>6, <3>1, Steps
      DEF TxIsrPhase, TxIsrEnd, MainPrint, MainPrinted, MainTake, MainStart, MainWait,
          HostCommand, ExtStart, ExtEnd, vars, rxVars
  <2>5. Announced' = Announced /\ (PeriodOn' <=> PeriodOn)
    BY <2>1 DEF Announced, PeriodOn
  <2>6. CASE MainWait
    <3>1. /\ main.pc \in {"armed", "wait", "clear"} /\ main'.pc = "loop"
          /\ rx'.waiting = (main.pc # "clear") /\ UNCHANGED tx
      BY <1>1, <2>6, MainWaitSends DEF txVars
    <3>2. GapEnds'
      BY <2>1, <2>5, <3>1 DEF PendInv, GapEnds, WaitsArmed, PeriodOn
    <3>3. TypeWaits'
      <4>1. main.pc \in {"armed", "wait"} => rx.type \in Forward
        <5>1. main.pc \in {"armed", "wait"} => main.pc \in Deciding \ {"schedule"}
          BY DEF Deciding, Scheduling
        <5> QED
          BY <1>1, <5>1 DEF ArmInv, TypeKnown, LinkIInv, LinkInv, FrameTaken
      <4>2. rx.type \in Forward => rx.type # "NONE"
        BY DEF Forward, ForwardTypes, QueryTypes
      <4> QED
        BY <2>1, <3>1, <4>1, <4>2 DEF PendInv, TypeWaits, TxIsIdle
    <3> QED
      BY <2>3, <2>4, <3>1, <3>2, <3>3 DEF PendInv, WaitsArmed
  <2>7. CASE ~MainWait
    <3>1. rx'.waiting = rx.waiting
      <4>1. Calculates => UNCHANGED rx
        BY CalculateSends DEF Calculates, Founded, rxVars
      <4> QED
        BY <1>6, <2>7, <4>1, Steps
        DEF TxIsrPhase, TxIsrEnd, MainPrint, MainPrinted, MainTake, MainStart,
            HostCommand, ExtStart, ExtEnd, vars, rxVars
    <3>2. /\ main'.pc = main.pc \/ main'.pc \notin {"gap", "arm", "armed", "wait"}
          /\ TxIsIdle => TxIsIdle' \/ MainStart
      <4>1. CASE Calculates
        <5>1. main'.pc \in Calculating \cup {"schedule"} /\ TxIsIdle'
          BY <4>1, CalculateSends DEF Calculates, Founded
        <5> QED
          BY <5>1 DEF Calculating
      <4>2. CASE MainStart
        BY <1>1, <4>2, MainStartSends
      <4>3. CASE TxIsrPhase \/ TxIsrEnd
        <5>1. UNCHANGED main /\ IsRunning
          BY <4>3 DEF TxIsrPhase, TxIsrEnd, TxPhase, TxEnd, IsRunning, Off
        <5> QED
          BY <1>1, <5>1, IdleNotRunning
      <4>4. CASE MainPrint \/ MainPrinted \/ MainTake
        BY <1>1, <4>4, LoopSends, MainTakes DEF txVars, TxIsIdle
      <4>5. CASE HostCommand \/ ExtStart \/ ExtEnd \/ UNCHANGED vars
        BY <4>5 DEF HostCommand, ExtStart, ExtEnd, vars, linkVars, txVars, TxIsIdle
      <4> QED
        BY <1>6, <2>7, <4>1, <4>2, <4>3, <4>4, <4>5, Steps
    <3>3. MainStart => rx.type # "NONE"
      <4>1. MainStart => main.pc \in Deciding \ {"schedule"} /\ main.frame \in TxFrames
        BY <1>1 DEF MainStart, At, Deciding, Scheduling, LinkIInv, LinkInv, FrameTaken
      <4>2. \A type \in Forward : type # "NONE"
        BY ForwardTimes
      <4> QED
        BY <4>1, <4>2 DEF ArmInv, TypeKnown
    <3>4. GapEnds' /\ WaitsArmed'
      BY <2>1, <2>5, <3>1, <3>2 DEF PendInv, GapEnds, WaitsArmed
    <3>5. TypeWaits'
      BY <2>1, <3>1, <3>2, <3>3 DEF PendInv, TypeWaits
    <3> QED
      BY <2>3, <2>4, <3>4, <3>5 DEF PendInv
  <2> QED
    BY <2>6, <2>7
<1> QED
  BY <1>2, <1>3, <1>4, <1>5, <1>6

\* PendingWatched: a transmission that waits is sure to be looked at again, by the
\* period match or by an event that is on its way.  Assumed is that the host
\* waits, that no backward frames are sent, that TMR32B1 does not wrap, that the
\* main task is not interrupted between its test for a gap and the end of
\* rx_schedule_transmission, and that the other devices keep to the length of a
\* stop condition.
THEOREM WaitingWatched ==
  ASSUME McrAtomic, MaxSequence = 0, HostWaits, GapServed,
         WrapIns = {Never}, \A f \in TxFrames : f.type \in Forward
  PROVE  Spec /\ []Brief /\ [][Calm]_vars => []PendingWatched
<1> DEFINE Inv == Founded /\ BusTimed /\ ArmInv /\ PendInv
<1>1. Init => PendInv
  <2> SUFFICES ASSUME Init PROVE PendInv
    OBVIOUS
  <2>1. /\ wrap = Never /\ rx.status \in {"IDLE", "FAILURE"} /\ ~rx.waiting /\ rx.type = "NONE"
        /\ TxIsIdle /\ main.pc = "loop" /\ bus.quiet = Far /\ age.edge = 0
    BY DEF Init, RxInit, TxInit, TxIsIdle
  <2> QED
    BY <2>1, ThresholdsOrdered, DelaysTyped DEF PendInv, GapEnds, EdgeAged, WaitsArmed, TypeWaits
<1>2. Init /\ Brief => Inv
  BY <1>1, FoundedInvariant, TimedInitially, ArmInitially
<1>3. Inv /\ [Next]_vars /\ Brief /\ [Calm]_vars => Inv'
  <2> SUFFICES ASSUME Inv, [Next]_vars, Brief, [Calm]_vars PROVE Inv'
    OBVIOUS
  <2>1. Calm
    BY DEF Calm, vars, txVars, linkVars, Pin
  <2>2. "arm" \notin Preemptible
    BY DEF GapServed
  <2> QED
    BY <2>1, <2>2, FoundedInvariant, TimedStep, ArmStep, PendStep
<1>4. Inv => PendingWatched
  BY DEF PendInv, GapEnds, PendingWatched, PeriodOn, Resting
<1> QED
  BY <1>2, <1>3, <1>4, PTL DEF Spec

-----------------------------------------------------------------------------
(* Whose frame it is.  The receiver takes a frame for its own if the        *)
(* transmitter is not idle at the first edge; it cannot see the pin.        *)

\* Other devices leave the bus alone from the start of a transmission to the
\* end of its last repetition.
Apart == ~ext.pin /\ ext'.pin => TxIsIdle

\* A falling edge not handled yet, seen while the transmitter is not idle, is
\* that of its own phase, and that phase is still to end.
OwnEdge == EdgeKnown /\ Pin /\ ~TxIsIdle => t0.pin /\ t0.in # 0

\* What a step does to the transmitter.
LEMMA TxStep ==
  ASSUME MaxSequence = 0, HostWaits, Founded, [Next]_vars
  PROVE  \/ TxIsrPhase \/ TxIsrEnd \/ Tick
         \/ /\ TxStart /\ (rx.waiting \/ main.pc \in Deciding)
            /\ RxTaskStep \/ MainStart
         \/ t0' = t0 /\ tx'.index_next = tx.index_next
<1>1. TxIInv /\ RxInv /\ LinkIInv
  BY FoundedTyped
<1>2. CASE RxTaskStep
  <2>1. RxSends
    BY <1>1, <1>2, RxTaskSends DEF RxTaskStep
  <2>2. CASE Repeats /\ TxRepeat
    BY <1>1, <2>2, RepeatReleases
  <2> QED
    BY <1>2, <2>1, <2>2 DEF RxSends, txVars
<1>3. CASE MainStart
  BY <1>1, <1>3, MainStartSends DEF Deciding, Scheduling
<1>4. CASE Calculates
  BY <1>4, CalculateSends DEF Calculates, Founded, TxIsIdle
<1>5. CASE Decides \/ MainArm
  BY <1>1, <1>5, DecideSends DEF Decides, txVars
<1>6. CASE \/ RxIsrCapture \/ RxIsrMatch \/ ExtStart \/ ExtEnd
           \/ HostCommand
           \/ MainPrint \/ MainPrinted \/ MainTake \/ MainWait \/ UNCHANGED vars
  <2>1. UNCHANGED <<tx, t0>>
    BY <1>6
    DEF RxIsrCapture, RxIsrMatch, IsrCapture, IsrStop, IsrPeriod, IsrQuery, ExtStart,
        ExtEnd, HostCommand, MainPrint, MainPrinted, MainTake, MainWait, vars,
        txVars
  <2> QED
    BY <2>1
<1> QED
  BY <1>2, <1>3, <1>4, <1>5, <1>6, Steps

\* The handlers of the rx task announce nothing.
LEMMA TaskAnnounces ==
  ASSUME McrAtomic, WatchTypes, OneChange, NEW pin, RxTask(pin)
  PROVE  Announced' \subseteq Announced
<1>1. ASSUME NEW n \in Notifications, Serving(n) PROVE Announced' \subseteq Announced
  BY <1>1, ServedTask DEF Announced
<1>2. CASE RxTake
  BY <1>2 DEF RxTake, Announced
<1>3. CASE ~RxTake
  <2>1. \/ Serving(NOTIFY_CAPTURE) \/ Serving(NOTIFY_MATCH)
        \/ Serving(NOTIFY_PRIORITY) \/ Serving(NOTIFY_QUERY)
    BY <1>3, StartServes
    DEF RxTask, OneChange, CapturePeriod, Serving, Foremost, CaptureIgnored, CaptureBit, CaptureRecover, Captured, Matched,
        MatchIgnored, MatchFrame, MatchDiscard, MatchLow, MatchFailure, PriorityTimeout,
        QueryTimeout
  <2> QED
    BY <1>1, <2>1 DEF Notifications
<1> QED
  BY <1>2, <1>3

\* An edge becomes known only by a change of the level.
LEMMA EdgeStep ==
  ASSUME McrAtomic, MaxSequence = 0, HostWaits, Founded, [Next]_vars, ~Tick, Pin' = Pin, EdgeKnown'
  PROVE  EdgeKnown
<1>1. WatchTypes
  BY FoundedTyped
<1>2. CASE RxIsrCapture
  BY <1>2 DEF RxIsrCapture, EdgeKnown
<1>3. bus' = bus \/ RxIsrCapture
  BY PinStep DEF BusFollows
<1>4. CASE RxIsrMatch
  <2>1. PICK n \in {NOTIFY_MATCH, NOTIFY_PRIORITY, NOTIFY_QUERY} :
          task'.notify = task.notify \cup {n} /\ task'.work = task.work
    BY <1>1, <1>4 DEF RxIsrMatch, IsrStop, IsrPeriod, IsrQuery, Notify, WatchTypes, Tasks
  <2> QED
    BY <1>2, <1>3, <2>1
    DEF EdgeKnown, Announced, NOTIFY_CAPTURE, NOTIFY_MATCH, NOTIFY_PRIORITY, NOTIFY_QUERY
<1>5. CASE RxTaskStep
  BY <1>1, <1>2, <1>3, <1>5, TaskAnnounces
  DEF RxTaskStep, EdgeKnown, Founded, WatchInv, Watched
<1>6. CASE MainArm
  BY <1>6 DEF MainArm, EdgeKnown, Announced
<1>7. CASE ~(RxIsrCapture \/ RxIsrMatch \/ RxTaskStep \/ MainArm)
  BY <1>3, <1>7, RestStep DEF EdgeKnown, Announced
<1> QED
  BY <1>2, <1>4, <1>5, <1>6, <1>7

LEMMA OwnStep ==
  ASSUME McrAtomic, MaxSequence = 0, HostWaits, Founded, OwnEdge, Apart, [Next]_vars
  PROVE  OwnEdge'
<1> SUFFICES ASSUME EdgeKnown', Pin', ~TxIsIdle'
             PROVE  t0'.pin /\ t0'.in # 0
  BY DEF OwnEdge
<1>1. WatchTypes
  BY FoundedTyped
<1>2. ~Tick
  BY <1>1 DEF Tick, Due, RxRested, EdgeKnown, Announced, WatchTypes
<1>3. Pin' = Pin => EdgeKnown
  BY <1>2, EdgeStep
<1>4. CASE TxIsrPhase
  <2>1. t0.in = 0 /\ t0'.in # 0 /\ ext' = ext
    BY <1>4, PhaseWaits DEF TxIsrPhase, TxPhase
  <2>2. ~TxIsIdle
    BY <2>1, FoundedTyped, IdleNotRunning DEF Off, Stopped
  <2>3. CASE ~t0'.pin
    BY <1>3, <2>1, <2>2, <2>3 DEF OwnEdge, Pin
  <2> QED
    BY <2>1, <2>3
<1>5. CASE TxIsrEnd
  <2>1. t0.in = 0 /\ ~t0'.pin /\ ext' = ext
    BY <1>5 DEF TxIsrEnd, TxEnd, Stopped
  <2>2. ~TxIsIdle
    BY <2>1, FoundedTyped, IdleNotRunning DEF Off, Stopped
  <2> QED
    BY <1>3, <2>1, <2>2 DEF OwnEdge, Pin
<1>6. CASE TxStart /\ (rx.waiting \/ main.pc \in Deciding)
  BY <1>6, StartWaits DEF TxStart, Running
<1>7. CASE t0' = t0 /\ tx'.index_next = tx.index_next
  <2>1. ~TxIsIdle /\ Pin' = Pin
    BY <1>7 DEF Apart, Pin, TxIsIdle
  <2> QED
    BY <1>3, <1>7, <2>1 DEF OwnEdge
<1> QED
  BY <1>2, <1>4, <1>5, <1>6, <1>7, TxStep

\* A frame is begun by the handler of an edge, and by nothing else.
LEMMA StartsOnly ==
  ASSUME McrAtomic, MaxSequence = 0, HostWaits, Founded, [Next]_vars,
         rx.status \in Resting, rx'.status = "START_BIT_START"
  PROVE  CaptureStart(Pin)
<1>1. RxInv /\ WatchTypes /\ rx'.status # rx.status /\ rx.status \notin InFrame \cup BusDown
  BY FoundedTyped DEF Resting, InFrame, BusDown
<1>2. RxTaskStep
  <2>1. ~Tick
    BY <1>1 DEF Tick, RxElapsed, RxInv, RxRecords
  <2>2. ~RxIsrCapture /\ ~RxIsrMatch
    BY <1>1 DEF RxIsrCapture, RxIsrMatch, IsrCapture, IsrStop, IsrPeriod, IsrQuery
  <2>3. ~MainArm
    BY <1>1 DEF MainArm
  <2> QED
    BY <1>1, <2>1, <2>2, <2>3, RestStep
<1>3. ~RxTake /\ ~CaptureIgnored(Pin) /\ ~CaptureBit /\ ~CaptureRecover(Pin)
  BY <1>1 DEF RxTake, CaptureIgnored, CaptureBit, CaptureRecover
<1>4. ~(MatchIgnored(Pin) \/ MatchFrame(Pin) \/ MatchDiscard(Pin)
          \/ MatchLow(Pin) \/ MatchFailure(Pin))
  BY <1>1, MatchOutcome DEF IgnoresMatch, Pauses, StaysLow, Fails
<1>5. ~PriorityTimeout
  BY <1>1 DEF PriorityTimeout, RxInv, RxRecords
<1>6. ~QueryTimeout
  <2>1. QueryTimeout => rx' = [rx EXCEPT !.status = "IDLE", !.frame = NoFrame]
    BY DEF QueryTimeout
  <2> QED
    BY <1>1, <2>1 DEF RxInv, RxRecords
<1>7. ~CapturePeriod
  BY DEF Founded, WatchInv, Watched, OneChange, CapturePeriod, Serving, Foremost
<1> QED
  BY <1>2, <1>3, <1>4, <1>5, <1>6, <1>7 DEF RxTaskStep, RxTask

\* LoopbackMeansOwn: a frame is flagged as loopback exactly if this adapter sends
\* its start bit (frame.loopback is set to !dali_101_tx_is_idle() at the first
\* edge), for every time scale and every set of frames, repeated ones included,
\* whether or not the tasks keep up with the interrupts and wherever dali_101_send
\* is interrupted, provided the other devices leave the bus alone while the
\* transmitter is not idle, and the host waits and asks for no sequences.
THEOREM LoopbackIsOwn ==
  ASSUME McrAtomic, MaxSequence = 0, HostWaits
  PROVE  Spec /\ [][Apart]_vars => LoopbackMeansOwn
<1> DEFINE Inv == Founded /\ OwnEdge
           Own == rx'.status = "START_BIT_START" /\ rx.status \in Resting
                    => rx'.frame.loopback = t0.pin
<1>1. Init => Inv
  <2>1. Init => OwnEdge
    BY DEF Init, TxInit, OwnEdge, TxIsIdle
  <2> QED
    BY <2>1, FoundedInvariant
<1>2. Inv /\ [Next]_vars /\ [Apart]_vars => Inv'
  <2> SUFFICES ASSUME Inv, [Next]_vars, [Apart]_vars PROVE Inv'
    OBVIOUS
  <2>1. Apart
    BY DEF Apart, vars, linkVars
  <2> QED
    BY <2>1, FoundedInvariant, OwnStep
<1>3. Inv /\ [Next]_vars => [Own]_vars
  <2> SUFFICES ASSUME Inv, [Next]_vars, rx'.status = "START_BIT_START", rx.status \in Resting
               PROVE  rx'.frame.loopback = t0.pin
    OBVIOUS
  <2>1. CaptureStart(Pin)
    BY StartsOnly
  <2>2. WatchTypes /\ RxInv /\ TxFacts
    BY FoundedTyped, TxTyped DEF TxIInv
  <2>3. EdgeKnown /\ Pin
    BY <2>1, <2>2, StartServes, ServedTask
    DEF CaptureStart, Captured, Notifications, EdgeKnown, Announced
  <2>4. rx'.frame.loopback = ~TxIsIdle
    BY <2>1, <2>2 DEF CaptureStart, RxInv, RxRecords, Reports
  <2>5. t0.pin <=> ~TxIsIdle
    BY <2>3, FoundedTyped, IdleNotRunning DEF OwnEdge, Stopped
  <2> QED
    BY <2>2, <2>4, <2>5 DEF TxFacts, Timers
<1> QED
  BY <1>1, <1>2, <1>3, PTL DEF Spec, LoopbackMeansOwn

=============================================================================
