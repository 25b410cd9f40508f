--------------------------- MODULE DaliSendProofs ---------------------------
(***************************************************************************)
(* What the firmware does with the transmitter, for every time scale and   *)
(* every set of frames, wherever the main task is interrupted, whatever    *)
(* the other devices do, whether or not the tasks keep up with the         *)
(* interrupts and MCR is stored in time.  The host waits for what it asked *)
(* for and sends no raw sequences.                                         *)
(*                                                                         *)
(* The invariant says how much is owed, so that nothing is about to start  *)
(* while dali_101_send resets the transmitter and fills its array: then    *)
(* the contract of DaliTx is kept and Adapter implemented.  If nothing is  *)
(* repeated either, exactly what is owed is still to be sent.              *)
(***************************************************************************)
EXTENDS DaliLinkProofs

-----------------------------------------------------------------------------
(* The array as the main task leaves it.                                   *)

IsRunning == t0.in # Off
NoSequences == ser.pc \in {"idle", "print"}

\* Places where the array is being filled, and where it is decided when to
\* start what it holds.
Filling  == {"check", "write", "load"}
Deciding == Scheduling \ {"clear"}

\* The array holds as many phases as were calculated, and a complete frame
\* everywhere else.
ArrayComplete ==
  IF main.pc \in Filling THEN tx.index_max = main.phase ELSE Playable

ReleaseInv == NoSequences /\ TxIInv /\ ArrayComplete

-----------------------------------------------------------------------------
(* What is owed.                                                           *)

\* Transmissions that are on the bus, wait or are about to be scheduled.
Begun ==
  (IF IsRunning THEN 1 ELSE 0) + (IF rx.waiting \/ main.pc \in Deciding THEN 1 ELSE 0)

\* No transmission is pending that is not owed; a frame is taken from the
\* queue, calculated and scheduled only while none is.
OwedInv ==
  /\ Begun + tx.repeat <= h.owed
  /\ cmds # <<>> \/ main.pc \in Calculating => h.owed = 0
  /\ main.pc \in Calculating \cup Deciding => TxIsIdle /\ ~rx.waiting
  /\ main.pc \notin {"loop", "print"} => cmds = <<>>
  /\ Len(cmds) <= 1

SendInv == LinkIInv /\ ReleaseInv /\ OwedInv

\* Without repetitions, all that is owed is on its way.
PlainFrames == \A f \in TxFrames : f.repeat = 0
PlainInv ==
  /\ tx.repeat = 0
  /\ h.owed = Begun
  /\ rx.waiting => TxIsIdle /\ main.pc \in {"loop", "print"}

\* While a transmission runs nothing but its timer and time touch it.
SentAlone == IsRunning => [TxPhase \/ TxEnd \/ TxTick]_txVars

-----------------------------------------------------------------------------
(* The operations of the transmitter, whoever calls them.                  *)

\* The array, which only a new frame changes.
Array == <<tx.count, tx.index_max>>

\* An idle transmitter runs nothing.
LEMMA IdleNotRunning ==
  ASSUME TxIInv, TxIsIdle PROVE ~IsRunning /\ t0 = Stopped
  BY StoppedType DEF TxIInv, IdleIsSilent, IsRunning

\* A start waits for the first count.
LEMMA StartReleases ==
  ASSUME TxIInv, TxStart
  PROVE  /\ Array' = Array /\ tx'.repeat = tx.repeat /\ IsRunning' /\ ~TxIsIdle'
         /\ t0'.match = tx.count[1] /\ tx'.index_next = 1
<1>1. tx' = TxRecord(tx.count, 1, tx.index_max, tx.repeat, tx.is_query)
      /\ t0' = Running(tx.count[1]) /\ tx.count[1] \in Nat
  BY TxTyped DEF TxIInv, TxStart, TxFacts, TxRecord
<1>2. t0'.match = tx.count[1] /\ t0'.in = tx.count[1]
  BY <1>1 DEF Running
<1> QED
  BY <1>1, <1>2 DEF TxRecord, IsRunning, Off, Array, TxIsIdle

\* The interrupt after a phase: the count it waits for next lies ahead.
LEMMA PhaseReleases ==
  ASSUME TxIInv, TxPhase
  PROVE  /\ Array' = Array /\ tx'.repeat = tx.repeat
         /\ IsRunning /\ IsRunning' /\ tx.index_max > 0 /\ ~TxIsIdle /\ ~TxIsIdle'
         /\ tx'.index_next = tx.index_next + 1 /\ (t0'.pin <=> ~t0.pin)
         /\ t0'.match = tx.count[tx.index_next + 1]
         /\ t0'.in = tx.count[tx.index_next + 1] - t0.match
<1> DEFINE n == tx.index_next
           m == tx.index_max
<1>1. /\ CountArraySize \in Nat \ {0} /\ IsRunning /\ n <= m
  BY TxAssumption DEF TxPhase, TxAssumption, IsRunning, Off
<1>2. /\ n \in 1..m /\ m \in Nat /\ m < CountArraySize
      /\ tx.count \in [Positions -> Nat]
      /\ t0.match = tx.count[n]
      /\ t0.toggle = TRUE /\ t0.pin \in BOOLEAN
  BY <1>1 DEF TxIInv, TxTypeOK, RunningWell, Playable, IsRunning
<1>3. n + 1 \in Positions /\ n \in Positions /\ n \in Nat
  BY <1>1, <1>2 DEF Positions
<1> DEFINE next == tx.count[n + 1]
<1>4. next \in Nat /\ t0.match \in Nat /\ t0.match < next
  BY <1>1, <1>2, <1>3 DEF TxIInv, RunningWell, Playable, IsRunning
<1>5. /\ t0' = [match |-> next, in |-> next - t0.match, toggle |-> n < m, pin |-> ~t0.pin]
      /\ tx' = [tx EXCEPT !.index_next = n + 1]
  BY <1>2, <1>3, <1>4 DEF TxPhase, CountAt, Until
<1>6. tx' = TxRecord(tx.count, n + 1, m, tx.repeat, tx.is_query)
  BY <1>5 DEF TxIInv, TxTypeOK, TxRecord
<1> HIDE DEF next
<1>7. t0'.in \in Nat /\ t0'.in = next - t0.match /\ t0'.match = next /\ t0'.pin = ~t0.pin
  BY <1>4, <1>5
<1>8. IsRunning'
  BY <1>7 DEF IsRunning, Off
<1>9. Array' = Array /\ tx'.repeat = tx.repeat /\ tx'.index_next = n + 1
  BY <1>6 DEF TxRecord, Array
<1>10. ~TxIsIdle /\ ~TxIsIdle' /\ m > 0
  BY <1>2, <1>3, <1>9 DEF TxIsIdle
<1> QED
  BY <1>1, <1>7, <1>8, <1>9, <1>10 DEF next

\* The interrupt after the stop condition lets go of the pin and stops the timer.
LEMMA EndReleases ==
  ASSUME TxIInv, TxEnd
  PROVE  /\ Array' = Array /\ tx'.repeat = tx.repeat
         /\ IsRunning /\ ~IsRunning' /\ ~TxIsIdle /\ t0' = Stopped
<1>1. /\ t0' = Stopped /\ t0.in = 0
      /\ tx'.count = tx.count /\ tx'.index_max = tx.index_max /\ tx'.repeat = tx.repeat
  BY TxTyped DEF TxIInv, TxEnd, TxFacts
<1>2. ~IsRunning' /\ IsRunning
  BY <1>1, StoppedType DEF IsRunning, Off
<1> QED
  BY <1>1, <1>2, IdleNotRunning DEF Array

\* A repetition that is taken changes neither timer nor array.
LEMMA RepeatReleases ==
  ASSUME TxIInv, TxRepeat
  PROVE  /\ Array' = Array /\ tx'.repeat = tx.repeat - 1
         /\ t0' = t0 /\ tx'.index_next = tx.index_next
  BY TxTyped DEF TxIInv, TxRepeat, TxFacts, Array

\* Time brings the match nearer but never past it.
LEMMA TickReleases ==
  ASSUME TxIInv, TxTick
  PROVE  tx' = tx /\ (IsRunning' <=> IsRunning) /\ t0'.match = t0.match /\ t0'.pin = t0.pin
<1>1. tx' = tx /\ t0.in # 0
      /\ t0' = [match |-> t0.match, in |-> Sooner(t0.in), toggle |-> t0.toggle,
                pin |-> t0.pin]
  BY TxTyped DEF TxIInv, TxTick, TxElapsed, TxFacts, Timers
<1>2. IsRunning' <=> IsRunning
  BY <1>1, TxTyped DEF TxIInv, IsRunning, Sooner, Off, TxFacts, Timers
<1> QED
  BY <1>1, <1>2

-----------------------------------------------------------------------------
(* The steps of the composition, seen from the transmitter.                *)

\* What a handler of the rx task does to the transmitter and to the waiting
\* flag: nothing, schedule a repetition, or start what waits.
RxSends ==
  \/ UNCHANGED txVars /\ rx'.waiting = rx.waiting
  \/ Repeats /\ TxRepeat /\ rx'.waiting
  \/ rx.waiting /\ TxStart /\ ~rx'.waiting

\* manage_tx and process_pending_frame together.
LEMMA ManagedSends ==
  ASSUME RxInv, manage_tx, rx'.waiting = Managed.waiting PROVE RxSends
<1>1. CASE Repeats
  BY <1>1 DEF manage_tx, Managed, RxSends, RxInv, RxRecords
<1>2. CASE ~Repeats
  BY <1>2 DEF manage_tx, Managed, RxSends, RxInv, RxRecords
<1> QED
  BY <1>1, <1>2

\* process_pending_frame neither starts nor forgets what waits.
LEMMA PendingKeepsWaiting ==
  ASSUME NEW r \in RxRecords, NEW full, Pending(r, full)
  PROVE  rx'.waiting = r.waiting
<1>1. PICK in : rx' = [r EXCEPT !.status = "INTER_FRAME_IDLE", !.idle_in = in]
  BY Zenon DEF Pending
<1> QED
  BY <1>1 DEF RxRecords

\* What the rx task may do to the transmitter: start what waits, or take a repetition.
LEMMA RxTaskSends ==
  ASSUME RxInv, NEW pin, RxTask(pin) PROVE RxSends
<1>1. Managed \in RxRecords
  BY ManagedTyped
<1>2. CASE RxTake \/ CapturePeriod \/ CaptureIgnored(pin) \/ MatchIgnored(pin)
  BY <1>2 DEF RxTake, CapturePeriod, CaptureIgnored, MatchIgnored, RxSends
<1>3. CASE CaptureStart(pin)
  <2>1. UNCHANGED txVars
    BY <1>3 DEF CaptureStart
  <2>2. rx'.waiting = rx.waiting
    BY <1>3, Zenon DEF CaptureStart, RxInv, RxRecords
  <2> QED
    BY <2>1, <2>2 DEF RxSends
<1>4. CASE CaptureBit
  <2>1. UNCHANGED txVars
    BY <1>4 DEF CaptureBit
  <2>2. \/ queue_error_frame("RECEIVE_TIMING")
        \/ \E next : rx' = [rx EXCEPT !.status = next]
    BY <1>4 DEF CaptureBit
  <2>3. rx'.waiting = rx.waiting
    BY <2>2 DEF queue_error_frame, RxInv, RxRecords
  <2> QED
    BY <2>1, <2>3 DEF RxSends
<1>5. CASE CaptureRecover(pin)
  <2>1. manage_tx /\ rx' = [Managed EXCEPT !.status = "IDLE", !.frame = NoFrame]
    BY <1>5 DEF CaptureRecover
  <2>2. rx'.waiting = Managed.waiting
    BY <1>1, <2>1 DEF RxRecords
  <2> QED
    BY <2>1, <2>2, ManagedSends
<1>6. CASE MatchFrame(pin)
  <2> DEFINE r == [Managed EXCEPT !.frame = NoFrame, !.halted = Len(rxq) >= RxQueueSize]
  <2>1. manage_tx /\ Pending(r, age.last)
    BY <1>6 DEF MatchFrame
  <2>2. r.waiting = Managed.waiting
    BY <1>1 DEF RxRecords
  <2>3. r \in RxRecords
    BY ClearedTyped
  <2> HIDE DEF r
  <2> QED
    BY <2>1, <2>2, <2>3, PendingKeepsWaiting, ManagedSends
<1>7. CASE MatchDiscard(pin)
  <2> DEFINE r == [Managed EXCEPT !.frame = NoFrame]
  <2>1. manage_tx /\ Pending(r, age.full)
    BY <1>7 DEF MatchDiscard
  <2>2. r.waiting = Managed.waiting
    BY <1>1 DEF RxRecords
  <2>3. r \in RxRecords
    BY ClearedTyped
  <2> HIDE DEF r
  <2> QED
    BY <2>1, <2>2, <2>3, PendingKeepsWaiting, ManagedSends
<1>8. CASE MatchLow(pin) \/ MatchFailure(pin)
  BY <1>8 DEF MatchLow, MatchFailure, RxSends, RxInv, RxRecords
<1>9. CASE PriorityTimeout
  <2>1. ~rx'.waiting /\ (IF rx.waiting THEN TxStart ELSE UNCHANGED txVars)
    BY <1>9 DEF PriorityTimeout, RxInv, RxRecords
  <2>2. rx.waiting \in BOOLEAN /\ rx'.waiting \in BOOLEAN
    BY <1>9 DEF PriorityTimeout, RxInv, RxRecords
  <2> QED
    BY <2>1, <2>2 DEF RxSends
<1>10. CASE QueryTimeout
  BY <1>10 DEF QueryTimeout, RxSends, RxInv, RxRecords
<1> QED
  BY <1>2, <1>3, <1>4, <1>5, <1>6, <1>7, <1>8, <1>9, <1>10 DEF RxTask

\* Without raw sequences the serial task only queues frames and prints.
LEMMA NoSequenceStep ==
  ASSUME MaxSequence = 0, LinkIInv, NoSequences, [Next]_vars
  PROVE  NoSequences' /\ ~(SerialStart \/ SerialNext \/ SerialExecute \/ SerialStep)
<1>1. host.sequence = 0
  BY DEF LinkIInv, LinkInv
<1>2. ~(SerialStart \/ SerialNext \/ SerialExecute \/ SerialStep)
  BY <1>1
  DEF NoSequences, SerialStart, SerialNext, SerialExecute, SequenceCommand, SerialStep,
      SerialReset, SerialAdd, SerialBegin
<1>3. CASE UNCHANGED ser
  BY <1>2, <1>3 DEF NoSequences
<1>4. CASE HostCommand \/ HostPrint
  BY <1>2, <1>4 DEF HostCommand, HostPrint, Prints, Doing, NoSequences
<1>5. CASE Tick
  <2>1. ser' = [ser EXCEPT !.arg = @ - 1] \/ ser' = NothingToDo
    BY <1>5 DEF Tick
  <2> QED
    BY <1>2, <2>1 DEF LinkIInv, LinkInv, Serials, NothingToDo, Doing, NoSequences
<1>6. UNCHANGED ser \/ HostCommand \/ HostPrint \/ Tick
  BY <1>2
  DEF Next, Progress, TxIsrPhase, TxIsrEnd, RxIsrCapture, RxIsrMatch, RxTaskStep, McrStore,
      MainStep, MainPrint, MainPrinted, MainTake, MainReset, MainCheck, MainWrite, MainLoad,
      MainType, MainTest, MainGap, MainStart, MainArm, MainWait,
      ExtStart, ExtEnd, vars, linkVars
<1> QED
  BY <1>2, <1>3, <1>4, <1>5, <1>6

\* What dali_101_send does to an idle transmitter before it schedules a frame:
\* a frame always fits into the empty array.
LEMMA CalculateSends ==
  ASSUME SendInv, MainReset \/ MainCheck \/ MainWrite \/ MainLoad
  PROVE  /\ [TxNext]_txVars /\ ArrayComplete'
         /\ TxIsIdle /\ TxIsIdle' /\ t0' = Stopped /\ t0 = Stopped
         /\ ~rx.waiting /\ h.owed = 0 /\ cmds = <<>>
         /\ UNCHANGED <<rxVars, ext, bus, cmds, ser, host>>
         /\ main.pc \in Calculating /\ main.frame \in TxFrames
         /\ main'.frame = main.frame /\ main'.late = main.late
         /\ main'.start = main.start
         /\ IF MainLoad
            THEN main'.pc = "schedule" /\ tx'.repeat = main.frame.repeat
                 /\ h' = [h EXCEPT !.owed = @ + 1 + main.frame.repeat,
                                   !.query = main.frame.type \in QueryTypes]
            ELSE main'.pc \in Calculating /\ tx'.repeat = tx.repeat /\ UNCHANGED h
<1>1. /\ main.pc \in Calculating
      /\ TxFacts /\ TxIInv /\ main \in Mains /\ main.frame \in TxFrames
  BY TxTyped DEF MainReset, MainCheck, MainWrite, MainLoad, At, Calculating, SendInv,
                 LinkIInv, LinkInv, FrameTaken, ReleaseInv
<1>2. TxIsIdle /\ t0 = Stopped /\ ~rx.waiting /\ h.owed = 0 /\ cmds = <<>>
  BY <1>1, IdleNotRunning DEF SendInv, OwedInv, Calculating
<1>3. ASSUME t0' = t0, UNCHANGED ext, BusFollows \/ UNCHANGED bus
      PROVE  UNCHANGED bus
  BY <1>3 DEF BusFollows, Pin
<1>4. /\ Len(main.frame.phases) \in Positions /\ main.frame.phases \in Seq(Nat \ {0})
      /\ main.frame.repeat \in 0..255
  BY <1>1, FrameTyped
<1>5. CASE MainReset
  <2>1. ~MainLoad
    BY <1>5 DEF MainReset, MainLoad, At
  <2>2. PICK pc \in Calculating : Goto(pc)
    BY <1>5 DEF MainReset, Calculating
  <2>3. main' = [pc |-> pc, frame |-> main.frame, phase |-> main.phase,
                 start |-> main.start, late |-> main.late]
    BY <1>1, <2>2 DEF Goto, Mains
  <2>4. CASE At("reset") /\ TxSilence /\ Goto("forget")
    <3>1. UNCHANGED txVars
      BY <1>2, <2>4 DEF TxSilence, txVars
    <3>2. main'.pc = "forget" /\ main.pc = "reset" /\ ArrayComplete'
      BY <1>1, <2>4, <3>1
      DEF At, Goto, Mains, ArrayComplete, SendInv, ReleaseInv, Playable, Filling, txVars
    <3> QED
      BY <1>1, <1>2, <1>3, <1>5, <2>1, <2>3, <3>1, <3>2
      DEF MainReset, txVars, TxIsIdle, Calculating
  <2>5. CASE At("forget") /\ TxForget /\ Goto("empty")
    <3>1. /\ tx' = TxRecord(tx.count, 0, tx.index_max, tx.repeat, tx.is_query) /\ t0' = t0
      BY <1>1, <2>5 DEF TxForget, TxFacts, TxRecord
    <3>2. main'.pc = "empty" /\ main.pc = "forget" /\ ArrayComplete'
      BY <1>1, <2>5, <3>1
      DEF At, Goto, Mains, ArrayComplete, SendInv, ReleaseInv, Playable, Filling, TxRecord
    <3>3. TxNext
      BY <1>2, <2>5 DEF TxNext
    <3> QED
      BY <1>1, <1>2, <1>3, <1>5, <2>1, <2>3, <3>1, <3>2, <3>3
      DEF MainReset, TxIsIdle, Calculating, TxRecord
  <2>6. CASE At("empty") /\ TxEmpty(tx.repeat) /\ Goto("check")
    <3>1. /\ tx' = TxRecord([tx.count EXCEPT ![1] = 0], tx.index_next, 0, tx.repeat,
                            tx.is_query)
          /\ t0' = t0
      BY <1>1, <2>6 DEF TxEmpty, TxFacts, TxRecord
    <3>2. main'.pc = "check" /\ main.pc = "empty" /\ main.phase = 0
      BY <1>1, <2>6 DEF At, Goto, Mains, SendInv, LinkIInv, LinkInv, PhaseOfFrame
    <3>3. ArrayComplete'
      BY <2>3, <3>1, <3>2 DEF ArrayComplete, Filling, TxRecord
    <3>4. TxNext
      BY <1>2, <2>6 DEF TxNext
    <3> QED
      BY <1>1, <1>2, <1>3, <1>5, <2>1, <2>3, <3>1, <3>2, <3>3, <3>4
      DEF MainReset, TxIsIdle, Calculating, TxRecord
  <2> QED
    BY <1>5, <2>4, <2>5, <2>6 DEF MainReset
<1>6. CASE MainCheck
  <2>1. main.pc = "check" /\ ~MainLoad
    BY <1>6 DEF MainCheck, MainLoad, At
  <2>2. tx.index_max = main.phase /\ main.phase < Len(main.frame.phases)
    BY <2>1 DEF SendInv, ReleaseInv, ArrayComplete, Filling, LinkIInv, LinkInv, PhaseOfFrame
  <2>3. ~ArrayFull
    BY <1>1, <1>4, <2>2 DEF ArrayFull, Positions, TxFacts
  <2>4. Goto("write") /\ UNCHANGED <<txVars, rxVars, ext, bus, cmds, ser, host, h>>
    BY <1>6, <2>3 DEF MainCheck, rxVars
  <2>5. main' = [pc |-> "write", frame |-> main.frame, phase |-> main.phase,
                 start |-> main.start, late |-> main.late]
    BY <1>1, <2>4 DEF Goto, Mains
  <2>6. ArrayComplete'
    BY <2>2, <2>4, <2>5 DEF ArrayComplete, Filling, txVars
  <2> QED
    BY <1>1, <1>2, <2>1, <2>4, <2>5, <2>6 DEF txVars, TxIsIdle, Calculating
<1>7. CASE MainWrite
  <2>1. main.pc = "write" /\ ~MainLoad
    BY <1>7 DEF MainWrite, MainLoad, At
  <2> DEFINE p == main.frame.phases[main.phase + 1]
  <2>2. /\ tx.index_max = main.phase /\ main.phase \in Nat
        /\ main.phase < Len(main.frame.phases) /\ ~ArrayFull
    BY <1>1, <2>1 DEF SendInv, ReleaseInv, ArrayComplete, Filling, LinkIInv, LinkInv,
                      PhaseOfFrame, ArrayInv, Mains
  <2>3. p \in Durations
    <3>1. main.phase + 1 \in DOMAIN main.frame.phases
      BY <1>4, <2>2
    <3> QED
      BY <1>1, <3>1 DEF Durations
  <2> HIDE DEF p
  <2>4. TxAdd(p) /\ TxNext
    BY <1>2, <1>7, <2>2, <2>3 DEF MainWrite, TxNext, p
  <2>5. /\ tx' = TxRecord([tx.count EXCEPT ![tx.index_max + 1] = Base + p],
                          tx.index_next, tx.index_max + 1, tx.repeat, tx.is_query)
        /\ t0' = t0
    <3>1. tx.index_max < CountArraySize
      BY <1>1, <2>2 DEF ArrayFull, TxFacts
    <3>2. tx' = [tx EXCEPT !.count[tx.index_max + 1] = Base + p, !.index_max = @ + 1]
          /\ t0' = t0
      BY <2>4, <3>1 DEF TxAdd
    <3>3. tx = TxRecord(tx.count, tx.index_next, tx.index_max, tx.repeat, tx.is_query)
      BY <1>1 DEF TxFacts, TxRecord
    <3> DEFINE i == tx.index_max + 1
               e == Base + p
    <3>4. tx' = TxRecord([tx.count EXCEPT ![i] = e], tx.index_next, i, tx.repeat, tx.is_query)
      BY <3>2, <3>3 DEF TxRecord
    <3> QED
      BY <3>2, <3>4
  <2>6. PICK pc \in {"load", "check"} : main' = [main EXCEPT !.phase = @ + 1, !.pc = pc]
    BY <1>7 DEF MainWrite
  <2>7. main' = [pc |-> pc, frame |-> main.frame, phase |-> main.phase + 1,
                 start |-> main.start, late |-> main.late]
    BY <1>1, <2>6 DEF Mains
  <2>8. ArrayComplete'
    BY <2>2, <2>5, <2>7 DEF ArrayComplete, Filling, TxRecord
  <2>9. UNCHANGED <<rxVars, ext, bus, cmds, ser, host, h>>
    BY <1>7 DEF MainWrite
  <2> QED
    BY <1>1, <1>2, <2>1, <2>4, <2>5, <2>7, <2>8, <2>9 DEF TxRecord, TxIsIdle, Calculating
<1>8. CASE MainLoad
  <2>1. /\ main.pc = "load" /\ TxLoad(main.frame)
        /\ main' = [main EXCEPT !.pc = "schedule", !.phase = 0]
        /\ UNCHANGED <<rxVars, ext, bus, cmds, ser, host>>
        /\ h' = [h EXCEPT !.owed = @ + 1 + main.frame.repeat,
                          !.query = main.frame.type \in QueryTypes]
    BY <1>8 DEF MainLoad, At
  <2>2. /\ tx.index_max = main.phase /\ main.phase = Len(main.frame.phases)
        /\ tx.index_max > 0
    BY <2>1 DEF SendInv, ReleaseInv, ArrayComplete, Filling, LinkIInv, LinkInv,
                PhaseOfFrame, ArrayInv
  <2>3. TxNext
    BY <1>1, <1>2, <2>1, <2>2 DEF TxNext
  <2> DEFINE r == main.frame.repeat
             q == tx.is_query \/ main.frame.type \in QueryTypes
  <2>4. /\ tx' = TxRecord(tx.count, tx.index_next, tx.index_max - 1, r, q)
        /\ t0' = t0
    <3>1. Less(tx.index_max) = tx.index_max - 1
      BY <1>1, <2>2 DEF Less, TxFacts
    <3> QED
      BY <1>1, <2>1, <3>1 DEF TxLoad, TxFacts, TxRecord
  <2> HIDE DEF r, q
  <2>5. main' = [pc |-> "schedule", frame |-> main.frame, phase |-> 0,
                 start |-> main.start, late |-> main.late]
    BY <1>1, <2>1 DEF Mains
  <2>6. Playable'
    <3>1. tx'.count = tx.count /\ tx'.index_max = tx.index_max - 1
      BY <2>4 DEF TxRecord
    <3>2. tx.index_max - 1 < CountArraySize
      BY <1>1 DEF TxFacts
    <3> QED
      BY <1>1, <3>1, <3>2 DEF Playable, TxIInv, Built
  <2>7. ArrayComplete'
    BY <2>5, <2>6 DEF ArrayComplete, Filling
  <2>8. tx'.repeat = main.frame.repeat /\ TxIsIdle'
    BY <1>2, <2>4 DEF TxRecord, TxIsIdle, r
  <2> QED
    BY <1>1, <1>2, <1>8, <2>1, <2>3, <2>4, <2>5, <2>7, <2>8
<1> QED
  BY <1>5, <1>6, <1>7, <1>8

\* rx_schedule_transmission until it has decided
LEMMA DecideSends ==
  ASSUME LinkIInv, MainType \/ MainTest \/ MainGap \/ MainArm
  PROVE  /\ UNCHANGED <<txVars, wrap, age, task, rxq, ext, bus, cmds, ser, host, h>>
         /\ main.pc \in Deciding /\ main'.pc \in Deciding /\ main'.pc \notin {"schedule"}
         /\ main'.frame = main.frame /\ main'.late = main.late
         /\ rx'.waiting = rx.waiting /\ rx'.status = rx.status
         /\ ~MainArm => UNCHANGED <<t1, mcr>>
         /\ ~MainType => UNCHANGED rx
<1>0. main \in Mains /\ rx \in RxRecords
  BY DEF LinkIInv, LinkInv, RxInv
<1>1. CASE MainType
  BY <1>0, <1>1
  DEF MainType, At, Goto, Mains, RxRecords, Deciding, Scheduling, txVars
<1>2. CASE MainTest
  BY <1>0, <1>2 DEF MainTest, At, Goto, Mains, Deciding, Scheduling, txVars, rxVars
<1>3. CASE MainGap
  <2>1. /\ main.pc = "gap" /\ UNCHANGED <<txVars, rxVars, ext, bus, cmds, ser, host, h>>
    BY <1>3 DEF MainGap, At
  <2>2. \/ \E pc \in {"wait", "start_gap"} : Goto(pc)
        \/ \E start : main' = [main EXCEPT !.pc = "arm", !.start = start]
    BY <1>3 DEF MainGap
  <2>3. /\ main'.pc \in {"wait", "start_gap", "arm"}
        /\ main'.frame = main.frame /\ main'.late = main.late
    BY <1>0, <2>2 DEF Goto, Mains
  <2> QED
    BY <2>1, <2>3 DEF Deciding, Scheduling, rxVars, txVars
<1>4. CASE MainArm
  <2>1. ~MainType /\ main.pc = "arm" /\ main' = [main EXCEPT !.pc = "armed", !.start = Off]
        /\ UNCHANGED <<txVars, rx, wrap, age, task, rxq, ext, bus, cmds, ser, host, h>>
    BY <1>4 DEF MainArm, MainType, At
  <2>2. main'.pc = "armed" /\ main'.frame = main.frame /\ main'.late = main.late
    BY <1>0, <2>1 DEF Mains
  <2> QED
    BY <1>4, <2>1, <2>2 DEF Deciding, Scheduling, txVars
<1> QED
  BY <1>1, <1>2, <1>3, <1>4

\* ... and starts the frame ...
LEMMA MainStartSends ==
  ASSUME LinkIInv, MainStart
  PROVE  /\ TxStart /\ main.pc \in {"start", "start_gap"}
         /\ main'.pc \in {"clear", "loop"} /\ main'.frame = main.frame
         /\ UNCHANGED <<rxVars, ext, cmds, ser, host, h>>
  BY DEF MainStart, At, Goto, GoBack, LinkIInv, LinkInv, Mains

\* ... or leaves it waiting.
LEMMA MainWaitSends ==
  ASSUME LinkIInv, MainWait
  PROVE  /\ main.pc \in {"armed", "wait", "clear"}
         /\ main'.pc = "loop" /\ main'.frame = main.frame
         /\ rx'.waiting = (main.pc # "clear")
         /\ rx'.status = rx.status /\ rx'.type = rx.type
         /\ UNCHANGED <<txVars, t1, wrap, mcr, age, task, rxq, ext, bus, cmds, ser, host, h>>
  BY DEF MainWait, At, GoBack, LinkIInv, LinkInv, Mains, RxInv, RxRecords

\* The loop of main leaves the transmitter alone.
LEMMA LoopSends ==
  ASSUME LinkIInv, MainPrint \/ MainPrinted
  PROVE  /\ main.pc \in {"loop", "print"} /\ main'.pc \in {"loop", "print"}
         /\ main'.frame = main.frame
         /\ UNCHANGED <<txVars, rx, t1, wrap, mcr, age, task, ext, bus, cmds, ser, host>>
         /\ h'.owed = h.owed /\ h'.query = h.query /\ h'.asked \in {h.asked, FALSE}
<1>0. main \in Mains /\ h \in Histories
  BY DEF LinkIInv, LinkInv
<1>1. CASE MainPrint
  <2>1. h' = [h EXCEPT !.echo = @ - 1] \/ h' = [h EXCEPT !.asked = FALSE]
    BY <1>1 DEF MainPrint
  <2>2. h'.owed = h.owed /\ h'.query = h.query /\ h'.asked \in {h.asked, FALSE}
    BY <1>0, <2>1 DEF Histories
  <2>3. main'.pc = "print" /\ main'.frame = main.frame /\ main.pc = "loop"
    BY <1>0, <1>1 DEF MainPrint, At, Goto, Mains
  <2> QED
    BY <1>1, <2>2, <2>3 DEF MainPrint
<1>2. CASE MainPrinted
  <2>1. main'.pc = "loop" /\ main'.frame = main.frame /\ main.pc = "print"
    BY <1>0, <1>2 DEF MainPrinted, At, GoBack, Mains
  <2> QED
    BY <1>2, <2>1 DEF MainPrinted, rxVars
<1> QED
  BY <1>1, <1>2

-----------------------------------------------------------------------------
(* The contract of the transmitter and its array.                          *)

\* A step of the composition is one the contract of the transmitter allows.
LEMMA ContractStep ==
  ASSUME MaxSequence = 0, SendInv, [Next]_vars
  PROVE  [TxNext]_txVars
<1>1. ~(SerialStart \/ SerialNext \/ SerialExecute \/ SerialStep)
  BY NoSequenceStep DEF SendInv, ReleaseInv
<1>2. CASE TxIsrPhase \/ TxIsrEnd \/ Tick
  BY <1>2 DEF TxIsrPhase, TxIsrEnd, Tick, TxNext
<1>3. CASE RxTaskStep
  <2>1. RxSends
    BY <1>3, RxTaskSends DEF RxTaskStep, SendInv, LinkIInv
  <2>2. rx.waiting => Playable
    BY DEF SendInv, ReleaseInv, OwedInv, ArrayComplete, Filling, Calculating
  <2> QED
    BY <2>1, <2>2 DEF RxSends, TxNext
<1>4. CASE MainReset \/ MainCheck \/ MainWrite \/ MainLoad
  BY <1>4, CalculateSends
<1>5. CASE MainType \/ MainTest \/ MainGap \/ MainArm
  BY <1>5, DecideSends DEF SendInv
<1>6. CASE MainStart
  <2>1. TxStart /\ main.pc \in {"start", "start_gap"}
    BY <1>6, MainStartSends DEF SendInv
  <2>2. Playable
    BY <2>1 DEF SendInv, ReleaseInv, ArrayComplete, Filling
  <2> QED
    BY <2>1, <2>2 DEF TxNext
<1>7. CASE MainPrint \/ MainPrinted \/ MainTake \/ MainWait
  BY <1>7 DEF MainPrint, MainPrinted, MainTake, MainWait
<1>8. CASE \/ RxIsrCapture \/ RxIsrMatch \/ McrStore \/ HostCommand \/ HostPrint
           \/ ExtStart \/ ExtEnd \/ UNCHANGED vars
  BY <1>8 DEF RxIsrCapture, RxIsrMatch, IsrCapture, IsrStop, IsrPeriod, IsrQuery, McrStore,
              HostCommand, HostPrint, ExtStart, ExtEnd, vars, linkVars
<1> QED
  BY <1>1, <1>2, <1>3, <1>4, <1>5, <1>6, <1>7, <1>8 DEF Next, Progress, MainStep

\* Outside the calculation nobody changes the array.
LEMMA ReleaseStep ==
  ASSUME MaxSequence = 0, SendInv, [Next]_vars
  PROVE  ReleaseInv'
<1>1. NoSequences' /\ ~(SerialStart \/ SerialNext \/ SerialExecute \/ SerialStep)
  BY NoSequenceStep DEF SendInv, ReleaseInv
<1>2. TxIInv /\ LinkIInv /\ RxInv /\ main \in Mains /\ ArrayComplete
  BY DEF SendInv, ReleaseInv, LinkIInv, LinkInv
<1>3. TxIInv'
  BY <1>2, TxAssumption, ContractStep, NextWell
<1> SUFFICES ArrayComplete'
  BY <1>1, <1>3 DEF ReleaseInv
<1>4. ASSUME Array' = Array, main' = main
      PROVE  ArrayComplete'
  BY <1>2, <1>4 DEF ArrayComplete, Array, Playable
<1>5. ASSUME Array' = Array, main.pc \notin Filling, main'.pc \notin Filling
      PROVE  ArrayComplete'
  BY <1>2, <1>5 DEF ArrayComplete, Array, Playable
<1>6. ASSUME UNCHANGED txVars PROVE Array' = Array
  BY <1>6 DEF txVars, Array
<1>7. CASE TxIsrPhase \/ TxIsrEnd
  BY <1>2, <1>4, <1>7, PhaseReleases, EndReleases DEF TxIsrPhase, TxIsrEnd
<1>8. CASE RxIsrCapture \/ RxIsrMatch \/ McrStore \/ HostCommand \/ HostPrint
           \/ ExtStart \/ ExtEnd \/ UNCHANGED vars
  BY <1>4, <1>6, <1>8
  DEF RxIsrCapture, RxIsrMatch, IsrCapture, IsrStop, IsrPeriod, IsrQuery, McrStore,
      HostCommand, HostPrint, ExtStart, ExtEnd, vars, linkVars
<1>9. CASE RxTaskStep
  <2>1. RxSends /\ main' = main
    BY <1>2, <1>9, RxTaskSends DEF RxTaskStep
  <2> QED
    BY <1>2, <1>4, <1>6, <2>1, RepeatReleases, StartReleases DEF RxSends
<1>10. CASE MainReset \/ MainCheck \/ MainWrite \/ MainLoad
  BY <1>10, CalculateSends
<1>11. CASE MainType \/ MainTest \/ MainGap \/ MainArm
  BY <1>2, <1>5, <1>6, <1>11, DecideSends DEF Deciding, Scheduling, Filling
<1>12. CASE MainStart
  BY <1>2, <1>5, <1>12, MainStartSends, StartReleases DEF Filling
<1>13. CASE MainWait
  BY <1>2, <1>5, <1>6, <1>13, MainWaitSends DEF Filling
<1>14. CASE MainPrint \/ MainPrinted
  BY <1>2, <1>5, <1>6, <1>14, LoopSends DEF Filling
<1>15. CASE MainTake
  <2>1. UNCHANGED txVars /\ main.pc = "loop" /\ main'.pc \in {"loop", "reset"}
    BY <1>2, <1>15 DEF MainTake, At, Mains
  <2> QED
    BY <1>5, <1>6, <2>1 DEF Filling
<1>16. CASE Tick
  <2>1. Array' = Array
    BY <1>2, <1>16, TickReleases DEF Tick, Array
  <2>2. main'.pc = main.pc /\ main'.phase = main.phase
    BY <1>2, <1>16 DEF Tick, Mains
  <2> QED
    BY <1>2, <2>1, <2>2 DEF ArrayComplete, Array, Playable
<1> QED
  BY <1>1, <1>7, <1>8, <1>9, <1>10, <1>11, <1>12, <1>13, <1>14, <1>15, <1>16
  DEF Next, Progress, MainStep

-----------------------------------------------------------------------------
(* What is owed.                                                           *)

\* The numbers the inequality of OwedInv is about.
LEMMA OwedTyped ==
  ASSUME LinkIInv
  PROVE  h.owed \in Nat /\ tx.repeat \in 0..255 /\ rx.waiting \in BOOLEAN
  BY TxTyped DEF LinkIInv, LinkInv, Histories, RxInv, RxRecords, TxFacts

\* A step of which the transmitter, its waiting flag and the queue see nothing.
LEMMA OwedQuiet ==
  ASSUME OwedInv, IsRunning' <=> IsRunning, tx'.repeat = tx.repeat, TxIsIdle' = TxIsIdle,
         rx'.waiting = rx.waiting, h'.owed = h.owed, cmds' = cmds,
         \/ main'.pc = main.pc
         \/ main.pc \in {"loop", "print"} /\ main'.pc \in {"loop", "print"}
         \/ main.pc \in Deciding /\ main'.pc \in Deciding
  PROVE  OwedInv'
<1>1. Begun' = Begun
  BY DEF Begun, Deciding, Scheduling
<1> QED
  BY <1>1 DEF OwedInv, Deciding, Scheduling, Calculating

\* The transmit interrupt and the rx task never make more of what is owed.
LEMMA OwedInterrupts ==
  ASSUME SendInv, TxIsrPhase \/ TxIsrEnd \/ RxTaskStep
  PROVE  OwedInv'
<1>0. h.owed \in Nat /\ tx.repeat \in 0..255 /\ rx.waiting \in BOOLEAN
      /\ Begun + tx.repeat <= h.owed /\ OwedInv
  BY OwedTyped DEF SendInv, OwedInv
<1> USE <1>0
<1>1. TxIInv /\ RxInv /\ h \in Histories
  BY DEF SendInv, LinkIInv, LinkInv, ReleaseInv
<1>2. UNCHANGED <<main, cmds>>
  BY DEF TxIsrPhase, TxIsrEnd, RxTaskStep
<1>3. CASE TxIsrPhase
  <2>1. IsRunning /\ IsRunning' /\ tx'.repeat = tx.repeat /\ ~TxIsIdle /\ ~TxIsIdle'
    BY <1>1, <1>3, PhaseReleases DEF TxIsrPhase
  <2>2. UNCHANGED <<rx, h>>
    BY <1>3 DEF TxIsrPhase, rxVars
  <2>3. TxIsIdle' = TxIsIdle
    BY <2>1 DEF TxIsIdle
  <2> QED
    BY <1>2, <2>1, <2>2, <2>3, OwedQuiet
<1>4. CASE TxIsrEnd
  <2>1. IsRunning /\ ~IsRunning' /\ tx'.repeat = tx.repeat /\ ~TxIsIdle
    BY <1>1, <1>4, EndReleases DEF TxIsrEnd
  <2>2. UNCHANGED rx /\ h'.owed = IF h.owed > 0 THEN h.owed - 1 ELSE 0
    BY <1>1, <1>4 DEF TxIsrEnd, Histories
  <2>4. Begun' = Begun - 1 /\ Begun \in {1, 2}
    BY <1>2, <2>1, <2>2 DEF Begun
  <2>5. Begun' + tx'.repeat <= h'.owed
    BY <2>1, <2>2, <2>4
  <2> QED
    BY <1>2, <2>1, <2>2, <2>5 DEF OwedInv
<1>5. CASE RxTaskStep
  <2>1. RxSends /\ UNCHANGED h
    BY <1>1, <1>5, RxTaskSends DEF RxTaskStep
  <2>2. CASE UNCHANGED txVars /\ rx'.waiting = rx.waiting
    BY <1>2, <2>1, <2>2, OwedQuiet DEF txVars, IsRunning, TxIsIdle
  <2>3. CASE Repeats /\ TxRepeat /\ rx'.waiting
    <3>1. (IsRunning' <=> IsRunning) /\ tx'.repeat = tx.repeat - 1 /\ ~TxIsIdle
      BY <1>1, <2>3, RepeatReleases DEF IsRunning, Repeats
    <3>2. Begun' <= Begun + 1 /\ Begun' \in Nat /\ Begun \in Nat
      BY <1>2, <2>3, <3>1 DEF Begun
    <3>3. Begun' + tx'.repeat <= h'.owed
      BY <2>1, <3>1, <3>2
    <3> QED
      BY <1>2, <2>1, <3>1, <3>3 DEF OwedInv
  <2>4. CASE rx.waiting /\ TxStart /\ ~rx'.waiting
    <3>1. IsRunning' /\ tx'.repeat = tx.repeat
      BY <1>1, <2>4, StartReleases
    <3>2. main.pc \notin Calculating \cup Deciding
      BY <2>4 DEF OwedInv
    <3>3. Begun' = 1 /\ Begun >= 1 /\ Begun \in Nat
      BY <1>2, <2>4, <3>1, <3>2 DEF Begun
    <3>4. Begun' + tx'.repeat <= h'.owed
      BY <2>1, <3>1, <3>3
    <3> QED
      BY <1>2, <2>1, <3>2, <3>4 DEF OwedInv
  <2> QED
    BY <2>1, <2>2, <2>3, <2>4 DEF RxSends
<1> QED
  BY <1>3, <1>4, <1>5

\* The queue of a host that waits holds one frame, and none once it is taken.
LEMMA OneTaken ==
  ASSUME LinkIInv, OwedInv, cmds # <<>>
  PROVE  /\ Head(cmds) \in TxFrames /\ cmds = <<Head(cmds)>>
         /\ Tail(cmds) = <<>>
<1>1. cmds \in Seq(TxFrames) /\ Len(cmds) <= 1
  BY DEF LinkIInv, LinkInv, CommandsTyped, OwedInv
<1>2. Len(cmds) \in Nat \ {0}
  BY <1>1, EmptySeq
<1>3. Len(cmds) = 1
  <2>1. \A n \in Nat \ {0} : n <= 1 => n = 1
    OBVIOUS
  <2> QED
    BY <1>1, <1>2, <2>1
<1>4. Head(cmds) \in TxFrames /\ Head(cmds) = cmds[1]
  BY <1>1, HeadTailProperties
<1>5. cmds = <<Head(cmds)>>
  BY <1>1, <1>3, <1>4, SeqEqual
<1>6. Tail(cmds) \in Seq(TxFrames) /\ Len(Tail(cmds)) = 0
  BY <1>1, <1>3, HeadTailProperties
<1> QED
  BY <1>4, <1>5, <1>6, EmptySeq

\* The main task takes a frame only when nothing is owed, and then owes it.
LEMMA OwedMain ==
  ASSUME SendInv, MainStep
  PROVE  OwedInv'
<1>0. h.owed \in Nat /\ tx.repeat \in 0..255 /\ rx.waiting \in BOOLEAN
      /\ Begun + tx.repeat <= h.owed /\ OwedInv
  BY OwedTyped DEF SendInv, OwedInv
<1> USE <1>0
<1>1. TxIInv /\ LinkIInv /\ RxInv /\ main \in Mains /\ h \in Histories
  BY DEF SendInv, LinkIInv, LinkInv, ReleaseInv
<1>2. CASE MainPrint \/ MainPrinted
  BY <1>1, <1>2, LoopSends, OwedQuiet DEF txVars, IsRunning, TxIsIdle
<1>3. CASE MainTake
  <2>1. UNCHANGED <<txVars, rx, h>> /\ TxIsIdle /\ cmds # <<>> /\ cmds' = Tail(cmds)
    BY <1>3 DEF MainTake, CanTake, rxVars
  <2>2. h.owed = 0 /\ main.pc = "loop" /\ main'.pc \in {"loop", "reset"}
    BY <1>1, <1>3, <2>1 DEF MainTake, At, OwedInv, Mains
  <2>3. cmds' = <<>>
    BY <1>1, <2>1, OneTaken
  <2>4. Begun = 0 /\ tx.repeat = 0 /\ ~rx.waiting
    <3>1. Begun \in Nat /\ Begun + tx.repeat <= 0
      BY <2>2 DEF OwedInv, Begun
    <3>2. Begun = 0 /\ tx.repeat = 0
      BY <3>1
    <3> QED
      BY <3>2 DEF Begun
  <2>5. Begun' = 0
    BY <2>1, <2>2, <2>4 DEF Begun, IsRunning, txVars, Deciding, Scheduling
  <2> QED
    BY <2>1, <2>2, <2>3, <2>4, <2>5 DEF OwedInv, TxIsIdle, txVars, Deciding, Scheduling
<1>4. CASE MainReset \/ MainCheck \/ MainWrite \/ MainLoad
  <2>1. /\ TxIsIdle' /\ ~IsRunning' /\ ~rx.waiting /\ h.owed = 0 /\ cmds = <<>>
        /\ UNCHANGED <<rx, cmds>> /\ main.frame \in TxFrames
    BY <1>4, CalculateSends, StoppedType DEF IsRunning, rxVars
  <2>2. CASE MainLoad
    <3>1. /\ main'.pc = "schedule" /\ tx'.repeat = main.frame.repeat
          /\ h' = [h EXCEPT !.owed = @ + 1 + main.frame.repeat,
                            !.query = main.frame.type \in QueryTypes]
      BY <2>2, CalculateSends
    <3>2. main.frame.repeat \in 0..255
      BY <2>1, FrameTyped
    <3>3. h'.owed = 1 + main.frame.repeat
      BY <1>1, <2>1, <3>1, <3>2 DEF Histories
    <3>4. Begun' = 1
      BY <2>1, <3>1 DEF Begun, Deciding, Scheduling
    <3>5. Begun' + tx'.repeat <= h'.owed
      BY <3>1, <3>2, <3>3, <3>4
    <3> QED
      BY <2>1, <3>1, <3>5 DEF OwedInv, Calculating
  <2>3. CASE ~MainLoad
    <3>1. main'.pc \in Calculating /\ tx'.repeat = tx.repeat /\ UNCHANGED h
      BY <1>4, <2>3, CalculateSends
    <3>2. Begun' = 0 /\ Begun \in Nat
      BY <2>1, <3>1 DEF Begun, Deciding, Scheduling, Calculating
    <3>3. tx.repeat = 0
      <4>1. \A b \in Nat, r \in 0..255 : b + r <= 0 => r = 0
        OBVIOUS
      <4>2. Begun + tx.repeat <= 0
        BY <2>1
      <4> QED
        BY <3>2, <4>1, <4>2
    <3>4. Begun' + tx'.repeat <= h'.owed
      BY <2>1, <3>1, <3>2, <3>3
    <3> QED
      BY <2>1, <3>1, <3>4 DEF OwedInv, Calculating
  <2> QED
    BY <2>2, <2>3
<1>5. CASE MainType \/ MainTest \/ MainGap \/ MainArm
  BY <1>1, <1>5, DecideSends, OwedQuiet DEF txVars, IsRunning, TxIsIdle
<1>6. CASE MainStart
  <2>1. /\ TxStart /\ main.pc \in Deciding /\ main'.pc \in {"clear", "loop"}
        /\ UNCHANGED <<rx, cmds, h>>
    BY <1>1, <1>6, MainStartSends DEF rxVars, Deciding, Scheduling
  <2>2. TxIsIdle /\ ~rx.waiting /\ ~IsRunning /\ Begun = 1 /\ cmds = <<>>
    BY <1>1, <2>1, IdleNotRunning DEF OwedInv, Begun, Deciding, Scheduling
  <2>3. IsRunning' /\ tx'.repeat = tx.repeat
    BY <1>1, <2>1, StartReleases
  <2>4. Begun' = 1
    BY <2>1, <2>2, <2>3 DEF Begun, Deciding, Scheduling
  <2>5. Begun' + tx'.repeat <= h'.owed
    BY <2>1, <2>2, <2>3, <2>4
  <2> QED
    BY <2>1, <2>2, <2>5 DEF OwedInv, Deciding, Scheduling, Calculating
<1>7. CASE MainWait
  <2>1. /\ main.pc \in {"armed", "wait", "clear"} /\ main'.pc = "loop"
        /\ UNCHANGED <<txVars, h, cmds>> /\ rx'.waiting = (main.pc # "clear")
    BY <1>1, <1>7, MainWaitSends
  <2>2. Begun' <= Begun /\ Begun \in Nat /\ Begun' \in Nat
    BY <2>1 DEF Begun, IsRunning, txVars, Deciding, Scheduling
  <2>3. Begun' + tx'.repeat <= h'.owed
    BY <2>1, <2>2 DEF txVars
  <2> QED
    BY <2>1, <2>3 DEF OwedInv, TxIsIdle, txVars, Deciding, Scheduling, Calculating
<1> QED
  BY <1>2, <1>3, <1>4, <1>5, <1>6, <1>7 DEF MainStep

\* The host asks for a frame only when nothing is owed and nothing queued.
LEMMA OwedHost ==
  ASSUME HostWaits, SendInv, HostCommand
  PROVE  /\ OwedInv' /\ UNCHANGED <<txVars, rx, main, h>> /\ main.pc = "loop" /\ cmds = <<>>
         /\ h.owed = 0 /\ UNCHANGED ser /\ \E f \in TxFrames : cmds' = Append(cmds, f)
<1>1. /\ h.owed = 0 /\ cmds = <<>> /\ main.pc = "loop" /\ OwedInv
      /\ UNCHANGED <<txVars, rx, main, h>>
  BY DEF HostCommand, Settled, rxVars, SendInv
<1>2. Len(cmds) < QueueLength
  BY <1>1, LinkAssumption DEF LinkAssumption
<1>3. PICK f \in TxFrames : cmds' = Append(cmds, f) /\ UNCHANGED ser
  BY <1>2 DEF HostCommand, Enqueued
<1>4. Len(cmds') = 1
  BY <1>1, <1>3
<1>5. Begun' = Begun
  BY <1>1 DEF Begun, IsRunning, txVars
<1> QED
  BY <1>1, <1>3, <1>4, <1>5 DEF OwedInv, TxIsIdle, txVars

\* Every step, for a host that waits
LEMMA OwedStep ==
  ASSUME MaxSequence = 0, HostWaits, SendInv, [Next]_vars
  PROVE  OwedInv'
<1>1. ~(SerialStart \/ SerialNext \/ SerialExecute \/ SerialStep)
  BY NoSequenceStep DEF SendInv, ReleaseInv
<1>2. CASE RxIsrCapture \/ RxIsrMatch \/ McrStore \/ HostPrint \/ ExtStart \/ ExtEnd
           \/ UNCHANGED vars
  <2>1. UNCHANGED <<tx, t0, rx, main, cmds, h>>
    BY <1>2
    DEF RxIsrCapture, RxIsrMatch, IsrCapture, IsrStop, IsrPeriod, IsrQuery, McrStore,
        HostPrint, ExtStart, ExtEnd, vars, linkVars, txVars, rxVars
  <2> QED
    BY <2>1, OwedQuiet DEF IsRunning, TxIsIdle, SendInv
<1>3. CASE Tick
  <2>1. tx' = tx /\ (IsRunning' <=> IsRunning)
    BY <1>3, TickReleases DEF Tick, SendInv, ReleaseInv
  <2>2. UNCHANGED <<cmds, h>> /\ main'.pc = main.pc /\ rx'.waiting = rx.waiting
    BY <1>3 DEF Tick, RxElapsed, SendInv, LinkIInv, LinkInv, Mains, RxInv, RxRecords
  <2> QED
    BY <2>1, <2>2, OwedQuiet DEF TxIsIdle, SendInv
<1> QED
  BY <1>1, <1>2, <1>3, OwedInterrupts, OwedMain, OwedHost DEF Next, Progress

\* Nothing is owed at first, nothing written and nothing runs.
LEMMA SendInitially == ASSUME Init PROVE SendInv
<1>1. /\ TxInit /\ rx.waiting = FALSE /\ main.pc = "loop"
      /\ cmds = <<>> /\ h.owed = 0 /\ ser.pc = "idle"
  BY DEF Init, RxInit, NothingToDo, Doing
<1>2. tx.repeat = 0 /\ tx.index_max = 0 /\ t0 = Stopped
  BY <1>1 DEF TxInit
<1>3. Begun = 0
  BY <1>1, <1>2, StoppedType DEF Begun, IsRunning, Deciding, Scheduling
<1>4. OwedInv
  BY <1>1, <1>2, <1>3 DEF OwedInv, Calculating, Deciding, Scheduling
<1>5. ArrayComplete
  BY <1>1, <1>2, TxAssumption DEF ArrayComplete, Filling, Playable, TxAssumption
<1> QED
  BY <1>1, <1>4, <1>5, InitWell, TxAssumption, LinkInitIInv
  DEF SendInv, ReleaseInv, NoSequences

\* Every step
LEMMA SendStep ==
  ASSUME MaxSequence = 0, HostWaits
  PROVE  SendInv /\ [Next]_vars => SendInv'
<1> SUFFICES ASSUME SendInv, [Next]_vars PROVE SendInv'
  OBVIOUS
<1>1. LinkIInv'
  BY LinkNextIInv DEF Orderly, SendInv
<1> QED
  BY <1>1, ReleaseStep, OwedStep DEF SendInv

\* So what is on the bus, or waits, is always owed.
LEMMA SendInvariant ==
  ASSUME MaxSequence = 0, HostWaits
  PROVE  Spec => []SendInv
<1>1. Init => SendInv
  BY SendInitially
<1>2. SendInv /\ [Next]_vars => SendInv'
  BY SendStep
<1> QED
  BY <1>1, <1>2, PTL DEF Spec

-----------------------------------------------------------------------------
(* The transmitter keeps its promises.                                     *)

\* The firmware keeps the contract of DaliTx, for a host that waits and wherever
\* the main task is interrupted: the array is filled only while the transmitter
\* is idle, nothing starts between the steps of tx_reset, add_signal_phase finds
\* what it checked when it writes, and whatever starts the transmitter, the main
\* task or the priority timeout of the rx task, finds a complete array
\* (dali_101_send, rx_schedule_transmission, process_priority_timeout).
THEOREM ContractKept ==
  ASSUME MaxSequence = 0, HostWaits
  PROVE  Spec => TxSpec
<1>1. Init => TxInit
  BY DEF Init
<1>2. SendInv /\ [Next]_vars => [TxNext]_txVars
  BY ContractStep
<1> QED
  BY <1>1, <1>2, SendInvariant, PTL DEF Spec, TxSpec

\* BusReleased in the firmware: a pin that pulls the bus low always has a match
\* to come, for a host that waits and sends no raw sequences.
THEOREM LinkReleasesBus ==
  ASSUME MaxSequence = 0, HostWaits
  PROVE  Spec => []BusReleased
BY ContractKept, TxReleasesBus, PTL

\* IdleIsSilent in the firmware, under the same assumptions: no transmission
\* starts between the test for an idle transmitter and the assignment to
\* index_next in tx_reset.
THEOREM LinkIdleSilent ==
  ASSUME MaxSequence = 0, HostWaits
  PROVE  Spec => []IdleIsSilent
BY ContractKept, TxIdleSilent, PTL

\* PhasePolarity in the firmware, under the same assumptions: the pin is active
\* in the odd phases only.
THEOREM LinkPolarity ==
  ASSUME MaxSequence = 0, HostWaits
  PROVE  Spec => []PhasePolarity
BY ContractKept, TxPolarity, PTL

\* PlaysWhatWasLoaded in the firmware, under the same assumptions: the timer
\* always waits for the end of the phase being sent, at its place in the array
\* that was loaded.
THEOREM LinkPlaysLoaded ==
  ASSUME MaxSequence = 0, HostWaits
  PROVE  Spec => []PlaysWhatWasLoaded
BY ContractKept, TxPlaysLoaded, PTL

-----------------------------------------------------------------------------
(* Nothing stays owed.                                                     *)

\* A step of which the transmitter, its waiting flag and the queue see nothing.
LEMMA PlainQuiet ==
  ASSUME PlainInv, IsRunning' <=> IsRunning, tx'.repeat = tx.repeat, TxIsIdle' = TxIsIdle,
         rx'.waiting = rx.waiting, h'.owed = h.owed,
         \/ main'.pc = main.pc
         \/ main.pc \in {"loop", "print"} /\ main'.pc \in {"loop", "print"}
         \/ main.pc \in Deciding /\ main'.pc \in Deciding
  PROVE  PlainInv'
<1>1. Begun' = Begun
  BY DEF Begun, Deciding, Scheduling
<1> QED
  BY <1>1 DEF PlainInv, Deciding, Scheduling

\* Without repetitions, the end of a transmission takes off what is owed ...
LEMMA PlainInterrupts ==
  ASSUME SendInv, PlainInv, TxIsrPhase \/ TxIsrEnd \/ RxTaskStep
  PROVE  PlainInv'
<1>0. h.owed = Begun /\ tx.repeat = 0 /\ rx.waiting \in BOOLEAN
  BY OwedTyped DEF PlainInv, SendInv
<1>1. TxIInv /\ RxInv /\ OwedInv /\ h \in Histories
  BY DEF SendInv, LinkIInv, LinkInv, ReleaseInv
<1>2. UNCHANGED <<main, cmds>>
  BY DEF TxIsrPhase, TxIsrEnd, RxTaskStep
<1>3. CASE TxIsrPhase
  <2>1. IsRunning /\ IsRunning' /\ tx'.repeat = tx.repeat /\ ~TxIsIdle /\ ~TxIsIdle'
    BY <1>1, <1>3, PhaseReleases DEF TxIsrPhase
  <2>2. UNCHANGED <<rx, h>>
    BY <1>3 DEF TxIsrPhase, rxVars
  <2>3. TxIsIdle' = TxIsIdle
    BY <2>1 DEF TxIsIdle
  <2> QED
    BY <1>2, <2>1, <2>2, <2>3, PlainQuiet
<1>4. CASE TxIsrEnd
  <2>1. IsRunning /\ ~IsRunning' /\ tx'.repeat = tx.repeat /\ ~TxIsIdle
    BY <1>1, <1>4, EndReleases DEF TxIsrEnd
  <2>2. UNCHANGED rx /\ h'.owed = IF h.owed > 0 THEN h.owed - 1 ELSE 0
    BY <1>1, <1>4 DEF TxIsrEnd, Histories
  <2>3. ~rx.waiting
    BY <2>1 DEF PlainInv
  <2>4. Begun' = Begun - 1 /\ Begun \in {1, 2}
    BY <1>2, <2>1, <2>2 DEF Begun
  <2>5. h'.owed = Begun'
    BY <1>0, <2>2, <2>4
  <2> QED
    BY <1>0, <2>1, <2>2, <2>3, <2>5 DEF PlainInv
<1>5. CASE RxTaskStep
  <2>1. RxSends /\ UNCHANGED h
    BY <1>1, <1>5, RxTaskSends DEF RxTaskStep
  <2>2. CASE UNCHANGED txVars /\ rx'.waiting = rx.waiting
    BY <1>2, <2>1, <2>2, PlainQuiet DEF txVars, IsRunning, TxIsIdle
  <2>3. ~(Repeats /\ TxRepeat)
    BY <1>0 DEF TxRepeat
  <2>4. CASE rx.waiting /\ TxStart /\ ~rx'.waiting
    <3>1. IsRunning' /\ tx'.repeat = tx.repeat
      BY <1>1, <2>4, StartReleases
    <3>2. main.pc \in {"loop", "print"} /\ ~IsRunning
      BY <1>1, <2>4, IdleNotRunning DEF PlainInv
    <3>3. Begun' = 1 /\ Begun = 1
      BY <1>2, <2>4, <3>1, <3>2 DEF Begun, Deciding, Scheduling
    <3> QED
      BY <1>0, <1>2, <2>1, <2>4, <3>1, <3>3 DEF PlainInv
  <2> QED
    BY <2>1, <2>2, <2>3, <2>4 DEF RxSends
<1> QED
  BY <1>3, <1>4, <1>5

\* ... and each frame that is taken adds it.
LEMMA PlainMain ==
  ASSUME PlainFrames, SendInv, PlainInv, MainStep
  PROVE  PlainInv'
<1>0. h.owed = Begun /\ tx.repeat = 0 /\ rx.waiting \in BOOLEAN
  BY OwedTyped DEF PlainInv, SendInv
<1>1. TxIInv /\ LinkIInv /\ RxInv /\ OwedInv /\ main \in Mains /\ h \in Histories
  BY DEF SendInv, LinkIInv, LinkInv, ReleaseInv
<1>2. CASE MainPrint \/ MainPrinted
  BY <1>1, <1>2, LoopSends, PlainQuiet DEF txVars, IsRunning, TxIsIdle
<1>3. CASE MainTake
  <2>1. UNCHANGED <<txVars, rx, h>> /\ cmds # <<>>
    BY <1>3 DEF MainTake, CanTake, rxVars
  <2>2. h.owed = 0 /\ main.pc = "loop" /\ main'.pc \in {"loop", "reset"}
    BY <1>1, <1>3, <2>1 DEF MainTake, At, OwedInv, Mains
  <2>3. Begun = 0 /\ ~rx.waiting
    BY <1>0, <2>2 DEF Begun
  <2>4. Begun' = 0
    BY <2>1, <2>2, <2>3 DEF Begun, IsRunning, txVars, Deciding, Scheduling
  <2> QED
    BY <1>0, <2>1, <2>2, <2>3, <2>4 DEF PlainInv, txVars
<1>4. CASE MainReset \/ MainCheck \/ MainWrite \/ MainLoad
  <2>1. /\ ~IsRunning' /\ ~rx.waiting /\ h.owed = 0
        /\ UNCHANGED rx /\ main.frame \in TxFrames
    BY <1>4, CalculateSends, StoppedType DEF IsRunning, rxVars
  <2>2. CASE MainLoad
    <3>1. /\ main'.pc = "schedule" /\ tx'.repeat = main.frame.repeat
          /\ h' = [h EXCEPT !.owed = @ + 1 + main.frame.repeat,
                            !.query = main.frame.type \in QueryTypes]
      BY <2>2, CalculateSends
    <3>2. main.frame.repeat = 0
      BY <2>1 DEF PlainFrames
    <3>3. h'.owed = 1
      BY <1>1, <2>1, <3>1, <3>2 DEF Histories
    <3>4. Begun' = 1
      BY <2>1, <3>1 DEF Begun, Deciding, Scheduling
    <3> QED
      BY <2>1, <3>1, <3>2, <3>3, <3>4 DEF PlainInv
  <2>3. CASE ~MainLoad
    <3>1. main'.pc \in Calculating /\ tx'.repeat = tx.repeat /\ UNCHANGED h
      BY <1>4, <2>3, CalculateSends
    <3>2. Begun' = 0
      BY <2>1, <3>1 DEF Begun, Deciding, Scheduling, Calculating
    <3> QED
      BY <1>0, <2>1, <3>1, <3>2 DEF PlainInv
  <2> QED
    BY <2>2, <2>3
<1>5. CASE MainType \/ MainTest \/ MainGap \/ MainArm
  BY <1>1, <1>5, DecideSends, PlainQuiet DEF txVars, IsRunning, TxIsIdle
<1>6. CASE MainStart
  <2>1. /\ TxStart /\ main.pc \in Deciding /\ main'.pc \in {"clear", "loop"}
        /\ UNCHANGED <<rx, cmds, h>>
    BY <1>1, <1>6, MainStartSends DEF rxVars, Deciding, Scheduling
  <2>2. TxIsIdle /\ ~rx.waiting /\ ~IsRunning /\ Begun = 1
    BY <1>1, <2>1, IdleNotRunning DEF OwedInv, Begun, Deciding, Scheduling
  <2>3. IsRunning' /\ tx'.repeat = tx.repeat
    BY <1>1, <2>1, StartReleases
  <2>4. Begun' = 1
    BY <2>1, <2>2, <2>3 DEF Begun, Deciding, Scheduling
  <2> QED
    BY <1>0, <2>1, <2>2, <2>3, <2>4 DEF PlainInv
<1>7. CASE MainWait
  <2>1. /\ main.pc \in {"armed", "wait", "clear"} /\ main'.pc = "loop"
        /\ UNCHANGED <<txVars, h, cmds>> /\ rx'.waiting = (main.pc # "clear")
    BY <1>1, <1>7, MainWaitSends
  <2>2. ~rx.waiting /\ (main.pc # "clear" => TxIsIdle)
    BY <1>1, <2>1 DEF PlainInv, OwedInv, Deciding, Scheduling
  <2>3. Begun' = Begun
    BY <2>1, <2>2 DEF Begun, IsRunning, txVars, Deciding, Scheduling
  <2> QED
    BY <1>0, <2>1, <2>2, <2>3 DEF PlainInv, TxIsIdle, txVars
<1> QED
  BY <1>2, <1>3, <1>4, <1>5, <1>6, <1>7 DEF MainStep

\* Every step, without repetitions
LEMMA PlainStep ==
  ASSUME MaxSequence = 0, HostWaits, PlainFrames, SendInv, PlainInv, [Next]_vars
  PROVE  PlainInv'
<1>1. ~(SerialStart \/ SerialNext \/ SerialExecute \/ SerialStep)
  BY NoSequenceStep DEF SendInv, ReleaseInv
<1>2. CASE \/ RxIsrCapture \/ RxIsrMatch \/ McrStore \/ HostCommand \/ HostPrint
           \/ ExtStart \/ ExtEnd \/ UNCHANGED vars
  <2>1. UNCHANGED <<tx, t0, rx, main, h>>
    BY <1>2
    DEF RxIsrCapture, RxIsrMatch, IsrCapture, IsrStop, IsrPeriod, IsrQuery, McrStore,
        HostCommand, HostPrint, ExtStart, ExtEnd, vars, linkVars, txVars, rxVars
  <2> QED
    BY <2>1, PlainQuiet DEF IsRunning, TxIsIdle
<1>3. CASE Tick
  <2>1. tx' = tx /\ (IsRunning' <=> IsRunning)
    BY <1>3, TickReleases DEF Tick, SendInv, ReleaseInv
  <2>2. UNCHANGED h /\ main'.pc = main.pc /\ rx'.waiting = rx.waiting
    BY <1>3 DEF Tick, RxElapsed, SendInv, LinkIInv, LinkInv, Mains, RxInv, RxRecords
  <2> QED
    BY <2>1, <2>2, PlainQuiet DEF TxIsIdle
<1> QED
  BY <1>1, <1>2, <1>3, PlainInterrupts, PlainMain DEF Next, Progress

\* So what is owed is on the bus, waits, or is about to.
LEMMA PlainInvariant ==
  ASSUME MaxSequence = 0, HostWaits, PlainFrames
  PROVE  Spec => [](SendInv /\ PlainInv)
<1> DEFINE Inv == SendInv /\ PlainInv
<1>1. Init => Inv
  <2> SUFFICES ASSUME Init PROVE Inv
    OBVIOUS
  <2>1. tx.repeat = 0 /\ t0 = Stopped /\ rx.waiting = FALSE /\ main.pc = "loop" /\ h.owed = 0
    BY DEF Init, TxInit, RxInit
  <2>2. Begun = 0
    BY <2>1, StoppedType DEF Begun, IsRunning, Deciding, Scheduling
  <2>3. PlainInv
    BY <2>1, <2>2 DEF PlainInv
  <2> QED
    BY <2>3, SendInitially
<1>2. Inv /\ [Next]_vars => Inv'
  BY SendStep, PlainStep
<1> QED
  BY <1>1, <1>2, PTL DEF Spec

\* RestOwesNothing for a host that waits and asks for no repetitions: whatever
\* interrupts, tasks and other devices do, and wherever dali_101_send is
\* interrupted, a frame taken from the queue is on the bus, waits for its turn
\* or has been sent; no start is lost and none comes twice
\* (rx_schedule_transmission and process_priority_timeout share
\* transmission_is_waiting with the main task).
THEOREM RestOwes ==
  ASSUME MaxSequence = 0, HostWaits, PlainFrames
  PROVE  Spec => []RestOwesNothing
<1>1. SendInv /\ PlainInv => RestOwesNothing
  <2> SUFFICES ASSUME SendInv, PlainInv, AtRest PROVE h.owed = 0
    BY DEF RestOwesNothing
  <2>1. ~IsRunning /\ ~rx.waiting /\ main.pc = "loop"
    BY IdleNotRunning DEF AtRest, SendInv, ReleaseInv
  <2>2. Begun = 0
    BY <2>1 DEF Begun, Deciding, Scheduling
  <2> QED
    BY <2>2 DEF PlainInv
<1> QED
  BY <1>1, PlainInvariant, PTL

\* No other step than those of its timer changes a transmission that runs.
LEMMA AloneStep ==
  ASSUME MaxSequence = 0, SendInv, PlainInv, [Next]_vars
  PROVE  SentAlone
<1> SUFFICES ASSUME IsRunning PROVE [TxPhase \/ TxEnd \/ TxTick]_txVars
  BY DEF SentAlone
<1>1. ~TxIsIdle /\ ~rx.waiting /\ main.pc \notin Calculating \cup Deciding
  BY IdleNotRunning DEF OwedInv, PlainInv, SendInv, ReleaseInv
<1>2. ~(SerialStart \/ SerialNext \/ SerialExecute \/ SerialStep)
  BY NoSequenceStep DEF SendInv, ReleaseInv
<1>3. CASE TxIsrPhase \/ TxIsrEnd \/ Tick
  BY <1>3 DEF TxIsrPhase, TxIsrEnd, Tick
<1>4. CASE RxTaskStep
  <2>1. RxSends
    BY <1>4, RxTaskSends DEF RxTaskStep, SendInv, LinkIInv
  <2>2. ~TxRepeat
    BY DEF TxRepeat, PlainInv
  <2> QED
    BY <1>1, <2>1, <2>2 DEF RxSends
<1>5. ~(\/ MainReset \/ MainCheck \/ MainWrite \/ MainLoad
        \/ MainType \/ MainTest \/ MainGap \/ MainStart \/ MainArm)
  BY <1>1 DEF MainReset, MainCheck, MainWrite, MainLoad, MainType, MainTest, MainGap,
              MainStart, MainArm, At, Calculating, Deciding, Scheduling
<1>6. CASE MainPrint \/ MainPrinted \/ MainTake \/ MainWait
  BY <1>6 DEF MainPrint, MainPrinted, MainTake, MainWait
<1>7. CASE \/ RxIsrCapture \/ RxIsrMatch \/ McrStore \/ HostCommand \/ HostPrint
           \/ ExtStart \/ ExtEnd \/ UNCHANGED vars
  BY <1>7 DEF RxIsrCapture, RxIsrMatch, IsrCapture, IsrStop, IsrPeriod, IsrQuery, McrStore,
              HostCommand, HostPrint, ExtStart, ExtEnd, vars, linkVars
<1> QED
  BY <1>2, <1>3, <1>4, <1>5, <1>6, <1>7 DEF Next, Progress, MainStep

\* Without repetitions a transmission on the bus is never reset, reloaded or
\* started anew: until its stop condition is over, only the interrupts of its
\* own timer and the passing of time change the transmitter, although the main
\* task and the rx task both may start one (rx_schedule_transmission,
\* process_priority_timeout).
THEOREM FramesSentAlone ==
  ASSUME MaxSequence = 0, HostWaits, PlainFrames
  PROVE  Spec => [][SentAlone]_vars
<1> DEFINE Inv == SendInv /\ PlainInv
<1>1. Inv /\ [Next]_vars => SentAlone
  BY AloneStep
<1>2. Spec => []Inv
  BY PlainInvariant
<1> QED
  BY <1>1, <1>2, PTL DEF Spec

-----------------------------------------------------------------------------
(* The adapter as its host sees it.                                        *)

\* The one command main_task drops: a query of priority 6.
NothingDropped == \A f \in TxFrames : f.type # "NONE"

\* What is on the bus or about to be scheduled is owed.
LEMMA OwedCovers ==
  ASSUME SendInv
  PROVE  h.owed \in Nat /\ Begun \in Nat /\ Begun <= h.owed
<1>1. h.owed \in Nat /\ tx.repeat \in 0..255 /\ Begun \in 0..2
  BY OwedTyped DEF Begun, SendInv
<1>2. Begun + tx.repeat <= h.owed
  BY DEF OwedInv, SendInv
<1> QED
  BY <1>1, <1>2

\* A step that the host does not notice.
LEMMA AdapterQuiet ==
  ASSUME IsRunning' <=> IsRunning, UNCHANGED <<cmds, h>>, main'.frame = main.frame,
         main'.pc \in Calculating <=> main.pc \in Calculating
  PROVE  UNCHANGED Abs!vars
BY DEF Abs!vars, IsRunning

\* The interrupts and the rx task, as Adapter sees them: begin, finish, answer.
LEMMA AdapterInterrupts ==
  ASSUME SendInv, TxIsrPhase \/ TxIsrEnd \/ RxTaskStep
  PROVE  [Abs!Next]_(Abs!vars)
<1>1. TxIInv /\ RxInv /\ h \in Histories
  BY DEF SendInv, LinkIInv, LinkInv, ReleaseInv
<1>2. UNCHANGED <<main, cmds>>
  BY DEF TxIsrPhase, TxIsrEnd, RxTaskStep
<1>3. h.owed \in Nat /\ Begun \in Nat /\ Begun <= h.owed
  BY OwedCovers
<1>4. CASE TxIsrPhase
  <2>1. IsRunning /\ IsRunning' /\ UNCHANGED h
    BY <1>1, <1>4, PhaseReleases DEF TxIsrPhase
  <2> QED
    BY <1>2, <2>1, AdapterQuiet
<1>5. CASE TxIsrEnd
  <2>1. IsRunning /\ ~IsRunning'
    BY <1>1, <1>5, EndReleases DEF TxIsrEnd
  <2>2. Begun >= 1
    BY <1>3, <2>1 DEF Begun
  <2>3. /\ h'.owed = IF h.owed > 0 THEN h.owed - 1 ELSE 0
        /\ h'.asked = (h.asked \/ h.query) /\ h'.query = h.query
    BY <1>1, <1>5, Zenon DEF TxIsrEnd, Histories
  <2>4. h'.owed = h.owed - 1
    BY <1>3, <2>2, <2>3
  <2>5. Abs!Finish
    BY <1>2, <2>1, <2>3, <2>4 DEF Abs!Finish, IsRunning
  <2> QED
    BY <2>5 DEF Abs!Next
<1>6. CASE RxTaskStep
  <2>1. RxSends /\ UNCHANGED h
    BY <1>1, <1>6, RxTaskSends DEF RxTaskStep
  <2>2. CASE (IsRunning' <=> IsRunning)
    BY <1>2, <2>1, <2>2, AdapterQuiet
  <2>3. CASE ~(IsRunning' <=> IsRunning)
    <3>1. rx.waiting /\ TxStart
      BY <2>1, <2>3 DEF RxSends, TxRepeat, IsRunning, txVars
    <3>2. IsRunning' /\ ~IsRunning
      BY <1>1, <2>3, <3>1, StartReleases
    <3>3. Begun >= 1
      BY <3>1, <3>2 DEF Begun
    <3>4. h.owed > 0
      BY <1>3, <3>3
    <3>5. Abs!Start
      BY <1>2, <2>1, <3>2, <3>4 DEF Abs!Start, IsRunning
    <3> QED
      BY <3>5 DEF Abs!Next
  <2> QED
    BY <2>2, <2>3
<1> QED
  BY <1>4, <1>5, <1>6

\* The main task, as Adapter sees it: take a command, and start.
LEMMA AdapterMain ==
  ASSUME NothingDropped, SendInv, MainStep
  PROVE  [Abs!Next]_(Abs!vars)
<1>1. TxIInv /\ LinkIInv /\ OwedInv /\ main \in Mains /\ h \in Histories
  BY DEF SendInv, LinkIInv, LinkInv, ReleaseInv
<1>2. CASE MainPrint \/ MainPrinted
  <2>1. /\ UNCHANGED <<txVars, cmds>>
        /\ main.pc \in {"loop", "print"} /\ main'.pc \in {"loop", "print"}
        /\ main'.frame = main.frame
        /\ h'.owed = h.owed /\ h'.query = h.query /\ h'.asked \in {h.asked, FALSE}
    BY <1>1, <1>2, LoopSends
  <2>2. CASE h'.asked = h.asked
    BY <2>1, <2>2 DEF Abs!vars, txVars, Calculating
  <2>3. CASE h'.asked # h.asked
    <3>1. h.asked /\ h'.asked = FALSE
      BY <1>1, <2>1, <2>3 DEF Histories
    <3>2. Abs!Answer
      BY <2>1, <3>1 DEF Abs!Answer, txVars, Calculating
    <3> QED
      BY <3>2 DEF Abs!Next
  <2> QED
    BY <2>2, <2>3
<1>3. CASE MainWait
  BY <1>1, <1>3, MainWaitSends, AdapterQuiet DEF IsRunning, txVars, Calculating
<1>4. CASE MainTake
  <2>1. UNCHANGED <<txVars, h>> /\ cmds # <<>> /\ cmds' = Tail(cmds) /\ main.pc = "loop"
    BY <1>4 DEF MainTake, CanTake, At
  <2>2. Head(cmds) \in TxFrames /\ cmds = <<Head(cmds)>> /\ Tail(cmds) = <<>>
    BY <1>1, <2>1, OneTaken
  <2>3. main'.pc = "reset" /\ main'.frame = Head(cmds)
    BY <1>1, <1>4, <2>2 DEF MainTake, NothingDropped, Mains
  <2>4. <<main'.frame>> \o cmds' = <<>> \o cmds
    BY <2>1, <2>2, <2>3
  <2> QED
    BY <2>1, <2>3, <2>4 DEF Abs!vars, txVars, Calculating
<1>5. CASE MainReset \/ MainCheck \/ MainWrite \/ MainLoad
  <2>1. /\ ~IsRunning /\ ~IsRunning' /\ h.owed = 0 /\ cmds = <<>> /\ UNCHANGED cmds
        /\ main.pc \in Calculating /\ main'.frame = main.frame
    BY <1>5, CalculateSends, StoppedType DEF IsRunning
  <2>2. CASE ~MainLoad
    BY <1>5, <2>1, <2>2, CalculateSends, AdapterQuiet
  <2>3. CASE MainLoad
    <3>1. /\ main'.pc = "schedule" /\ main.frame \in TxFrames
          /\ h' = [h EXCEPT !.owed = @ + 1 + main.frame.repeat,
                            !.query = main.frame.type \in QueryTypes]
      BY <2>3, CalculateSends
    <3>2. /\ h'.owed = 0 + 1 + main.frame.repeat
          /\ h'.query = (main.frame.type \in QueryTypes) /\ h'.asked = h.asked
      BY <1>1, <2>1, <3>1, Zenon DEF Histories
    <3>3. main.frame.repeat \in 0..255
      BY <3>1, FrameTyped
    <3>4. h'.owed = 1 + main.frame.repeat
      BY <3>2, <3>3
    <3>5. <<main.frame>> \o <<>> = <<main.frame>> /\ <<>> \o <<>> = <<>>
      OBVIOUS
    <3>6. Abs!Take
      BY <2>1, <3>1, <3>2, <3>4, <3>5 DEF Abs!Take, IsRunning, Calculating
    <3> QED
      BY <3>6 DEF Abs!Next
  <2> QED
    BY <2>2, <2>3
<1>6. CASE MainType \/ MainTest \/ MainGap \/ MainArm
  BY <1>1, <1>6, DecideSends, AdapterQuiet
  DEF IsRunning, txVars, Deciding, Scheduling, Calculating
<1>7. CASE MainStart
  <2>1. /\ TxStart /\ main.pc \in Deciding /\ main.pc \notin Calculating
        /\ main'.pc \notin Calculating /\ main'.frame = main.frame
        /\ UNCHANGED <<cmds, h>>
    BY <1>1, <1>7, MainStartSends DEF Deciding, Scheduling, Calculating
  <2>2. IsRunning' /\ ~IsRunning
    BY <1>1, <2>1, StartReleases, IdleNotRunning DEF OwedInv
  <2>3. Begun >= 1
    BY <2>1, OwedCovers DEF Begun
  <2>4. h.owed > 0
    BY <2>3, OwedCovers
  <2>5. Abs!Start
    BY <2>1, <2>2, <2>4 DEF Abs!Start, IsRunning
  <2> QED
    BY <2>5 DEF Abs!Next
<1> QED
  BY <1>2, <1>3, <1>4, <1>5, <1>6, <1>7 DEF MainStep

\* Every step is one of Adapter, or none that it sees.
LEMMA AdapterStep ==
  ASSUME MaxSequence = 0, HostWaits, NothingDropped, SendInv, [Next]_vars
  PROVE  [Abs!Next]_(Abs!vars)
<1>1. ~(SerialStart \/ SerialNext \/ SerialExecute \/ SerialStep)
  BY NoSequenceStep DEF SendInv, ReleaseInv
<1>2. CASE HostCommand
  <2>1. /\ UNCHANGED <<t0, main, h>> /\ main.pc = "loop" /\ cmds = <<>>
        /\ \E f \in TxFrames : cmds' = Append(cmds, f)
    BY <1>2, OwedHost DEF txVars
  <2>2. PICK f \in TxFrames : cmds' = Append(cmds, f)
    BY <2>1
  <2>3. <<>> \o cmds' = Append(<<>> \o cmds, f) /\ Len(<<>> \o cmds) = 0
    BY <2>1, <2>2
  <2>4. Len(<<>> \o cmds) <= QueueLength
    BY <2>3, LinkAssumption DEF LinkAssumption
  <2>5. Abs!Accept
    BY <2>1, <2>3, <2>4 DEF Abs!Accept, Calculating
  <2> QED
    BY <2>5 DEF Abs!Next
<1>3. CASE Tick
  <2>1. IsRunning' <=> IsRunning
    BY <1>3, TickReleases DEF Tick, SendInv, ReleaseInv
  <2>2. UNCHANGED <<cmds, h>> /\ main'.pc = main.pc /\ main'.frame = main.frame
    BY <1>3 DEF Tick, SendInv, LinkIInv, LinkInv, Mains
  <2> QED
    BY <2>1, <2>2, AdapterQuiet
<1>4. CASE RxIsrCapture \/ RxIsrMatch \/ McrStore \/ HostPrint \/ ExtStart \/ ExtEnd
           \/ UNCHANGED vars
  <2>1. UNCHANGED <<t0, main, cmds, h>>
    BY <1>4
    DEF RxIsrCapture, RxIsrMatch, IsrCapture, IsrStop, IsrPeriod, IsrQuery, McrStore,
        HostPrint, ExtStart, ExtEnd, vars, linkVars, txVars
  <2> QED
    BY <2>1, AdapterQuiet DEF IsRunning
<1> QED
  BY <1>1, <1>2, <1>3, <1>4, AdapterInterrupts, AdapterMain DEF Next, Progress

\* The firmware implements Adapter, for a host that waits and asks for nothing
\* that main_task drops: frames are sent in the order in which they were
\* accepted, a frame is loaded only after everything owed for the one before it
\* was sent, nothing is sent that is not owed, and an answer is outstanding
\* only for a query that was sent.  That the adapter never stops sending what
\* it accepted, the fairness of Adapter, is not part of the theorem.  To start
\* over a transmission that is running would be a stuttering step of Adapter;
\* FramesSentAlone excludes it.
THEOREM AdapterKept ==
  ASSUME MaxSequence = 0, HostWaits, NothingDropped
  PROVE  Spec => Abs!SafeSpec
<1>1. Init => Abs!Init
  BY StoppedType DEF Init, TxInit, Abs!Init, Calculating
<1>2. SendInv /\ [Next]_vars => [Abs!Next]_(Abs!vars)
  BY AdapterStep
<1> QED
  BY <1>1, <1>2, SendInvariant, PTL DEF Spec, Abs!SafeSpec
=============================================================================
