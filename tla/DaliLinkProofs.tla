--------------------------- MODULE DaliLinkProofs ---------------------------
(***************************************************************************)
(* Proofs about the types of the composition, for every time scale and     *)
(* every set of frames, whatever the other devices do and wherever the     *)
(* main task is interrupted.  The host sends frames whenever it likes, but *)
(* sequence commands only after what it asked for before: with any other   *)
(* host the serial task can fill up tx.count between check and write of    *)
(* the main task.                                                          *)
(*                                                                         *)
(* The operations of the transmitter and of the receiver come first, since *)
(* each is called in several actions; an action then only has to be        *)
(* recognised as calls of them.                                            *)
(***************************************************************************)
EXTENDS DaliLink, DaliTxProofs, FiniteSetTheorems, SequenceTheorems

-----------------------------------------------------------------------------
(* The time scale.                                                         *)

\* Each threshold lies between 0 and the bus failure, the last of them.
LEMMA ThresholdsOrdered ==
  /\ \A t \in Thresholds : Ticks[t] \in Nat /\ Ticks[t] <= Fail
  /\ Fail \in Nat /\ Far = Fail + 1 /\ Far \in Nat /\ Never = Far + 1
<1>1. /\ \A t \in Thresholds : Ticks[t] \in Nat /\ t <= 500000
      /\ 500000 \in Thresholds
  BY TicksAssumption DEF TicksAssumption, Thresholds
<1>2. \A t \in Thresholds : Ticks[t] <= Ticks[500000]
  BY <1>1, TicksAssumption DEF TicksAssumption
<1> QED
  BY <1>1, <1>2 DEF Fail, Far, Never

\* So do the delays the code computes with.
LEMMA DelaysTyped ==
  /\ Stop \in 0..Fail /\ Reply \in 0..Fail /\ Margin \in 0..Fail
  /\ \A type : Settling(type) \in 0..Fail
<1>1. \A t \in Thresholds : Ticks[t] \in 0..Fail
  BY ThresholdsOrdered
<1>2. \A type : settling_time_us(type) \in Thresholds
  BY DEF settling_time_us, Thresholds
<1>3. {2400, 13400, 100} \subseteq Thresholds
  BY DEF Thresholds
<1> QED
  BY <1>1, <1>2, <1>3 DEF Stop, Reply, Margin, Settling

\* What a tick makes of ages, running matches and distances.
LEMMA AgesTyped ==
  ASSUME NEW a \in 0..Far PROVE Older(a) \in 0..Far
  BY ThresholdsOrdered DEF Older, Min2

\* A match that gets a tick nearer, or passes, is still a match.
LEMMA MatchTyped ==
  ASSUME NEW c \in -1..Far
  PROVE  Sooner(c) \in -1..Far /\ Approach(c) \in -1..Far
  BY ThresholdsOrdered DEF Sooner, Approach

-----------------------------------------------------------------------------
(* The transmitter, called by anybody at any time: first the operations    *)
(* that leave the length of the array alone, then the others.              *)

TxKeeps ==
  \/ TxSilence \/ TxForget
  \/ TxStart \/ TxRepeat \/ TxPhase \/ TxEnd \/ TxTick
  \/ UNCHANGED txVars

TxAny ==
  \/ TxKeeps
  \/ \E repeat \in 0..255 : TxEmpty(repeat)
  \/ \E p \in Nat : ~ArrayFull /\ TxAdd(p)
  \/ \E f \in TxFrames : tx.index_max > 0 /\ TxLoad(f)
  \/ tx.index_max > 0 /\ TxSequenceExecute

\* Written one by one, so that a leaf need not expand an EXCEPT.
TxRecord(count, next, max, repeat, query) ==
  [count |-> count, index_next |-> next, index_max |-> max, repeat |-> repeat,
   is_query |-> query]

Timers == [match : Nat, in : Nat \cup {Off}, toggle : BOOLEAN, pin : BOOLEAN]

TxFacts ==
  /\ tx \in [count : [Positions -> Nat], index_next : 0..CountArraySize + 1,
             index_max : 0..CountArraySize, repeat : 0..255, is_query : BOOLEAN]
  /\ t0 \in Timers
  /\ CountArraySize \in Nat \ {0}
  /\ 1 \in Positions

\* What the type of the transmitter says, as separate facts.
LEMMA TxTyped == ASSUME TxTypeOK PROVE TxFacts
  BY TxAssumption DEF TxTypeOK, TxFacts, TxAssumption, Positions, Timers

\* The first two steps of tx_reset
LEMMA TxForgetTyped ==
  ASSUME TxTypeOK, TxSilence \/ TxForget
  PROVE  TxTypeOK' /\ tx'.index_max = tx.index_max
<1>1. CASE TxSilence
  <2>1. tx' = tx /\ t0' \in {t0, Stopped}
    BY <1>1 DEF TxSilence
  <2> QED
    BY <2>1, StoppedType DEF TxTypeOK
<1>2. CASE TxForget
  <2>1. tx' = TxRecord(tx.count, 0, tx.index_max, tx.repeat, tx.is_query) /\ t0' = t0
    BY <1>2, TxTyped DEF TxForget, TxFacts, TxRecord
  <2> QED
    BY <2>1, TxTyped DEF TxTypeOK, TxFacts, TxRecord, Timers
<1> QED
  BY <1>1, <1>2

\* ... and the last.
LEMMA TxEmptyTyped ==
  ASSUME TxTypeOK, NEW repeat \in 0..255, TxEmpty(repeat)
  PROVE  TxTypeOK'
<1>1. tx' = TxRecord([tx.count EXCEPT ![1] = 0], tx.index_next, 0, repeat, tx.is_query)
      /\ t0' = t0
  BY TxTyped DEF TxEmpty, TxFacts, TxRecord
<1>2. [tx.count EXCEPT ![1] = 0] \in [Positions -> Nat]
  BY TxTyped, UpdateType DEF TxFacts
<1> QED
  BY <1>1, <1>2, TxTyped DEF TxTypeOK, TxFacts, TxRecord, Timers

\* A phase that was found to have room goes to a place inside the array.
LEMMA TxAddTyped ==
  ASSUME TxTypeOK, NEW p \in Nat, ~ArrayFull, TxAdd(p)
  PROVE  TxTypeOK' /\ tx'.index_max = tx.index_max + 1
<1>1. tx.index_max \in 0..CountArraySize - 1 /\ tx.index_max + 1 \in 0..CountArraySize
      /\ Base + p \in Nat
  BY TxTyped DEF ArrayFull, TxFacts, Base, Positions
<1>2. tx' = TxRecord([tx.count EXCEPT ![tx.index_max + 1] = Base + p],
                     tx.index_next, tx.index_max + 1, tx.repeat, tx.is_query)
      /\ t0' = t0
  <2>1. tx' = [tx EXCEPT !.count[tx.index_max + 1] = Base + p, !.index_max = @ + 1]
        /\ t0' = t0
    BY <1>1, TxTyped DEF TxAdd, TxFacts
  <2>2. tx = TxRecord(tx.count, tx.index_next, tx.index_max, tx.repeat, tx.is_query)
    BY TxTyped DEF TxFacts, TxRecord
  <2> DEFINE i == tx.index_max + 1
             e == Base + p
  <2>3. tx' = TxRecord([tx.count EXCEPT ![i] = e], tx.index_next, i, tx.repeat, tx.is_query)
    BY <2>1, <2>2 DEF TxRecord
  <2> QED
    BY <2>1, <2>3
<1>3. [tx.count EXCEPT ![tx.index_max + 1] = Base + p] \in [Positions -> Nat]
  BY <1>1, TxTyped, UpdateType DEF TxFacts
<1> QED
  BY <1>1, <1>2, <1>3, TxTyped DEF TxTypeOK, TxFacts, TxRecord, Timers

\* The stop condition is taken from an array that is not empty.
LEMMA TxLoadTyped ==
  ASSUME TxTypeOK, NEW f \in TxFrames, tx.index_max > 0, TxLoad(f)
  PROVE  TxTypeOK'
<1>1. PICK m \in 0..CountArraySize, r \in 0..255, q \in BOOLEAN :
        tx' = TxRecord(tx.count, tx.index_next, m, r, q) /\ t0' = t0
  <2>1. Less(tx.index_max) \in 0..CountArraySize
    BY TxTyped DEF TxFacts, Less
  <2>2. IsTxFrame(f)
    BY TxAssumption, Zenon DEF TxAssumption
  <2>3. f.repeat \in 0..255
    BY <2>2 DEF IsTxFrame
  <2>4. tx' = TxRecord(tx.count, tx.index_next, Less(tx.index_max), f.repeat,
                       tx.is_query \/ f.type \in QueryTypes) /\ t0' = t0
    BY TxTyped DEF TxLoad, TxFacts, TxRecord
  <2>5. (tx.is_query \/ f.type \in QueryTypes) \in BOOLEAN
    OBVIOUS
  <2> QED
    BY <2>1, <2>3, <2>4, <2>5
<1> QED
  BY <1>1, TxTyped DEF TxTypeOK, TxFacts, TxRecord, Timers

\* A start leaves index_next at 1 with the first count, whatever that is.
LEMMA TxStartTyped ==
  ASSUME TxTypeOK, TxStart \/ (tx.index_max > 0 /\ TxSequenceExecute)
  PROVE  TxTypeOK' /\ (TxStart => tx'.index_max = tx.index_max)
<1>1. PICK m \in 0..CountArraySize :
        /\ tx' = TxRecord(tx.count, 1, m, tx.repeat, tx.is_query)
        /\ TxStart => m = tx.index_max
  <2>1. CASE TxStart
    BY <2>1, TxTyped DEF TxStart, TxFacts, TxRecord
  <2>2. CASE ~TxStart /\ tx.index_max > 0 /\ TxSequenceExecute
    <3>1. Less(tx.index_max) \in 0..CountArraySize
      BY <2>2, TxTyped DEF Less, TxFacts
    <3> QED
      BY <2>2, <3>1, TxTyped DEF TxSequenceExecute, TxFacts, TxRecord
  <2> QED
    BY <2>1, <2>2
<1>2. t0' = Running(tx.count[1]) /\ tx.count[1] \in Nat
  BY TxTyped DEF TxStart, TxSequenceExecute, TxFacts
<1>3. t0' \in Timers /\ 1 \in 0..CountArraySize + 1
  BY <1>2, TxTyped DEF Running, Timers, TxFacts
<1> QED
  BY <1>1, <1>3, TxTyped DEF TxTypeOK, TxFacts, TxRecord, Timers

\* The interrupt takes index_next no further than one place past the array.
LEMMA TxIsrTyped ==
  ASSUME TxTypeOK, TxPhase \/ TxEnd
  PROVE  TxTypeOK' /\ tx'.index_max = tx.index_max
<1>1. CASE TxPhase
  <2>1. tx' = TxRecord(tx.count, tx.index_next + 1, tx.index_max, tx.repeat, tx.is_query)
    BY <1>1, TxTyped DEF TxPhase, TxFacts, TxRecord
  <2>2. tx.index_next + 1 \in 0..CountArraySize + 1
    BY <1>1, TxTyped DEF TxPhase, TxFacts
  <2>3. PICK count \in CountAt(tx.index_next + 1) :
          t0' = [match  |-> count, in |-> Until(count),
                 toggle |-> t0.toggle /\ tx.index_next < tx.index_max,
                 pin    |-> IF t0.toggle THEN ~t0.pin ELSE t0.pin]
    BY <1>1 DEF TxPhase
  <2>4. count \in Nat
    BY <2>3, TxTyped, TxAssumption DEF CountAt, TxFacts, TxAssumption
  <2>5. Until(count) \in Nat \cup {Off}
    BY <2>4, TxTyped DEF Until, TxFacts, Timers
  <2>6. t0' \in Timers
    BY <2>3, <2>4, <2>5, TxTyped DEF TxFacts, Timers
  <2> QED
    BY <2>1, <2>2, <2>6, TxTyped DEF TxTypeOK, TxFacts, TxRecord, Timers
<1>2. CASE TxEnd
  <2>1. PICK n \in 0..CountArraySize + 1 :
          tx' = TxRecord(tx.count, n, tx.index_max, tx.repeat, FALSE)
    <3> DEFINE n == IF tx.repeat = 0 THEN 0 ELSE tx.index_next
    <3>1. n \in 0..CountArraySize + 1
      BY TxTyped DEF TxFacts
    <3>2. tx' = TxRecord(tx.count, n, tx.index_max, tx.repeat, FALSE)
      BY <1>2, TxTyped DEF TxEnd, TxFacts, TxRecord
    <3> QED
      BY <3>1, <3>2
  <2>2. t0' = Stopped
    BY <1>2 DEF TxEnd
  <2> QED
    BY <2>1, <2>2, TxTyped, StoppedType DEF TxTypeOK, TxFacts, TxRecord
<1> QED
  BY <1>1, <1>2

\* dali_tx_repeat counts down and touches nothing else.
LEMMA TxRepeatTyped ==
  ASSUME TxTypeOK, TxRepeat
  PROVE  TxTypeOK' /\ tx'.index_max = tx.index_max
<1>1. tx' = TxRecord(tx.count, tx.index_next, tx.index_max, tx.repeat - 1, tx.is_query)
      /\ t0' = t0 /\ tx.repeat - 1 \in 0..255
  BY TxTyped DEF TxRepeat, TxFacts, TxRecord
<1> QED
  BY <1>1, TxTyped DEF TxTypeOK, TxFacts, TxRecord, Timers

\* Time only brings the match nearer.
LEMMA TxTickTyped ==
  ASSUME TxTypeOK, TxTick
  PROVE  TxTypeOK' /\ tx'.index_max = tx.index_max
<1>1. tx' = tx /\ t0' = [match |-> t0.match, in |-> Sooner(t0.in), toggle |-> t0.toggle,
                         pin |-> t0.pin]
  BY TxTyped DEF TxTick, TxElapsed, TxFacts, Timers
<1>2. Sooner(t0.in) \in Nat \cup {Off}
  BY TxTyped DEF Sooner, Off, TxFacts, Timers
<1> QED
  BY <1>1, <1>2, TxTyped DEF TxTypeOK, TxFacts, Timers

\* What everybody may call at any time
LEMMA TxKeepsTyped ==
  ASSUME TxTypeOK, TxKeeps
  PROVE  TxTypeOK' /\ tx'.index_max = tx.index_max
<1>1. CASE UNCHANGED txVars
  BY <1>1 DEF txVars, TxTypeOK
<1> QED
  BY <1>1, TxForgetTyped, TxStartTyped, TxIsrTyped, TxRepeatTyped, TxTickTyped DEF TxKeeps

\* Whichever operation comes, and whenever.
LEMMA TxAnyTyped ==
  ASSUME TxTypeOK, TxAny
  PROVE  TxTypeOK'
  BY TxKeepsTyped, TxEmptyTyped, TxAddTyped, TxLoadTyped, TxStartTyped DEF TxAny

-----------------------------------------------------------------------------
(* The receiver.  RxInv is RxTypeOK with the domain of mcr, which nothing  *)
(* states but every store relies on, and its clauses as definitions.       *)

RxRecords == [status : RxStatus, frame : Reports, waiting : BOOLEAN,
              type : FrameTypes, idle_in : -1..Far, halted : BOOLEAN]
Ages  == [edge : 0..Far, last : 0..Far, full : 0..Far]
Tasks == [notify : SUBSET Notifications, work : SUBSET (Notifications \cup {AND_PERIOD})]

\* A writer of the register holds at most one value it is going to store.
Held(s)   == s = {} \/ \E v \in Matches : s = {v}
McrTyped  == mcr \in [Writers -> SUBSET Matches] /\ \A w \in Writers : Held(mcr[w])
QueueTyped == rxq \in Seq(Reports) /\ Len(rxq) <= RxQueueSize

RxInv ==
  /\ rx \in RxRecords
  /\ t1 \in Matches
  /\ wrap \in -Far - 1..Never
  /\ McrTyped
  /\ age \in Ages
  /\ task \in Tasks
  /\ QueueTyped

\* The invariant of the receiver implies its type.
LEMMA RxInvImpliesType == RxInv => RxTypeOK
<1> SUFFICES ASSUME RxInv, NEW w \in Writers
             PROVE  mcr[w] \subseteq Matches /\ Cardinality(mcr[w]) <= 1
  BY DEF RxInv, RxTypeOK, RxRecords, Ages, Tasks, QueueTyped
<1>1. mcr[w] \subseteq Matches /\ Held(mcr[w])
  BY DEF RxInv, McrTyped
<1>2. CASE mcr[w] = {}
  BY <1>1, <1>2, FS_EmptySet
<1>3. CASE \E v \in Matches : mcr[w] = {v}
  BY <1>1, <1>3, FS_Singleton
<1> QED
  BY <1>1, <1>2, <1>3 DEF Held

\* The pieces shared by the handlers.
LEMMA QueuedTyped ==
  ASSUME RxInv, NEW r \in Reports
  PROVE  Queued(r) \in Seq(Reports) /\ Len(Queued(r)) <= RxQueueSize
<1>1. rxq \in Seq(Reports) /\ Len(rxq) <= RxQueueSize /\ Len(rxq) \in Nat
  BY DEF RxInv, QueueTyped
<1>2. Append(rxq, r) \in Seq(Reports) /\ Len(Append(rxq, r)) = Len(rxq) + 1
  BY <1>1, AppendProperties
<1> QED
  BY <1>1, <1>2, LinkAssumption DEF Queued, LinkAssumption

\* An error report is a report.
LEMMA ErrorReportTyped ==
  ASSUME RxInv, NEW code \in StatusCodes
  PROVE  ErrorReport(code) \in Reports
  BY DEF RxInv, RxRecords, Reports, ErrorReport

\* So is the empty one.
LEMMA NoFrameTyped == NoFrame \in Reports
  BY DEF NoFrame, Reports, StatusCodes

\* queue_error_frame leaves a receiver, and a queue that is not too long.
LEMMA QueueErrorTyped ==
  ASSUME RxInv, NEW code \in StatusCodes, queue_error_frame(code)
  PROVE  rx' \in RxRecords /\ QueueTyped'
<1>1. CASE rx.status = "ERROR_IN_FRAME"
  BY <1>1 DEF queue_error_frame, RxInv, QueueTyped
<1>2. CASE rx.status # "ERROR_IN_FRAME"
  <2>1. rx' = [rx EXCEPT !.frame = ErrorReport(code), !.status = "ERROR_IN_FRAME"]
        /\ rxq' = Queued(ErrorReport(code))
    BY <1>2 DEF queue_error_frame
  <2> QED
    BY <2>1, ErrorReportTyped, QueuedTyped DEF RxInv, RxRecords, RxStatus, QueueTyped
<1> QED
  BY <1>1, <1>2

\* The matches stay matches, whether a writer changes the register at once or later.
LEMMA UpdateTyped ==
  ASSUME RxInv, NEW w \in Writers, NEW v \in Matches, Update(w, v)
  PROVE  t1' \in Matches /\ McrTyped'
<1>1. mcr \in [Writers -> SUBSET Matches] /\ \A u \in Writers : Held(mcr[u])
  BY DEF RxInv, McrTyped
<1>2. CASE mcr' = mcr
  BY <1>1, <1>2 DEF Update, McrTyped
<1>3. CASE mcr' = [mcr EXCEPT ![w] = {v}]
  BY <1>1, <1>3 DEF Update, McrTyped, Held
<1> QED
  BY <1>2, <1>3 DEF Update

\* The same for what a late store undoes.
LEMMA OverwrittenTyped ==
  ASSUME RxInv, NEW v \in Matches
  PROVE  Overwritten(v) \in Matches
  BY DEF RxInv, Overwritten, Matches, Off

\* And for the late store itself.
LEMMA StoreTyped ==
  ASSUME RxInv, NEW w \in Writers, Store(w)
  PROVE  t1' \in Matches /\ McrTyped'
<1>1. mcr \in [Writers -> SUBSET Matches] /\ \A u \in Writers : Held(mcr[u])
  BY DEF RxInv, McrTyped
<1>2. PICK v \in mcr[w] : t1' = Overwritten(v) /\ mcr' = [mcr EXCEPT ![w] = {}]
  BY DEF Store
<1> QED
  BY <1>1, <1>2, OverwrittenTyped DEF McrTyped, Held

\* A start is never further away than the settling time, so its match has a type.
LEMMA StartInTyped ==
  ASSUME RxInv, NEW full \in 0..Far, NEW type
  PROVE  /\ StartIn(type, full) \in Int /\ StartIn(type, full) <= Fail
         /\ Match(PeriodIn(StartIn(type, full))) \in -1..Far
<1>1. age.last \in 0..Far
  BY DEF RxInv, Ages
<1>2. Settling(type) \in 0..Fail /\ Margin \in 0..Fail /\ Far = Fail + 1 /\ Fail \in Nat
  BY DelaysTyped, ThresholdsOrdered
<1>3. StartIn(type, full) \in Int /\ StartIn(type, full) <= Fail
  BY <1>1, <1>2 DEF StartIn
<1> QED
  BY <1>2, <1>3 DEF PeriodIn, Match, Off

\* process_pending_frame
LEMMA PendingTyped ==
  ASSUME RxInv, NEW r \in RxRecords, NEW full \in 0..Far, Pending(r, full)
  PROVE  rx' \in RxRecords /\ t1' \in Matches /\ McrTyped'
<1> DEFINE type == IF r.waiting THEN r.type ELSE "FORWARD_5"
           in   == Match(PeriodIn(StartIn(type, full)))
<1>1. in \in -1..Far
  BY StartInTyped
<1>2. rx' = [r EXCEPT !.status = "INTER_FRAME_IDLE", !.idle_in = in]
      /\ Update("rx", [t1 EXCEPT !.period = in])
  BY DEF Pending
<1> HIDE DEF in
<1>3. rx' \in RxRecords
  BY <1>1, <1>2 DEF RxRecords, RxStatus, Resting
<1>4. [t1 EXCEPT !.period = in] \in Matches /\ "rx" \in Writers
  BY <1>1 DEF RxInv, Matches, Writers
<1> QED
  BY <1>2, <1>3, <1>4, UpdateTyped

\* manage_tx calls at most dali_tx_repeat.
LEMMA ManagedTyped ==
  ASSUME RxInv
  PROVE  Managed \in RxRecords /\ (manage_tx => TxKeeps)
<1>1. Repeats \in BOOLEAN
  BY DEF Repeats, TxIsIdle
<1> QED
  BY <1>1 DEF RxInv, RxRecords, Managed, manage_tx, TxKeeps

\* The receiver after a frame was reported, and after one was discarded.
LEMMA ClearedTyped ==
  ASSUME RxInv
  PROVE  /\ [Managed EXCEPT !.frame = NoFrame] \in RxRecords
         /\ [Managed EXCEPT !.frame = NoFrame, !.halted = Len(rxq) >= RxQueueSize]
              \in RxRecords
<1>1. Managed \in RxRecords
  BY ManagedTyped
<1>2. ASSUME NEW b \in BOOLEAN
      PROVE  [Managed EXCEPT !.frame = NoFrame, !.halted = b] \in RxRecords
  BY <1>1, NoFrameTyped DEF RxRecords
<1>3. (Len(rxq) >= RxQueueSize) = TRUE \/ (Len(rxq) >= RxQueueSize) = FALSE
  OBVIOUS
<1>4. [Managed EXCEPT !.frame = NoFrame] \in RxRecords
  BY <1>1, NoFrameTyped DEF RxRecords
<1> QED
  BY <1>2, <1>3, <1>4

\* Notification bits are set and taken, and are always some of the known ones.
LEMMA NotifyTyped ==
  ASSUME RxInv, NEW n, (n \in Notifications /\ Notify(n)) \/ Serving(n)
  PROVE  task' \in Tasks
  BY DEF RxInv, Tasks, Notify, Serving

\* The interrupts of the receiver and of the matches.
LEMMA IsrTyped ==
  ASSUME RxInv, IsrCapture \/ IsrStop \/ IsrPeriod \/ IsrQuery
  PROVE  RxInv' /\ UNCHANGED txVars
<1>1. "irq" \in Writers /\ Off \in -1..Far /\ Stop \in -1..Far /\ 0 \in 0..Far
  BY DelaysTyped, ThresholdsOrdered DEF Writers, Off
<1>2. {NOTIFY_CAPTURE, NOTIFY_MATCH, NOTIFY_PRIORITY, NOTIFY_QUERY} \subseteq Notifications
  BY DEF Notifications
<1>3. /\ UNCHANGED <<rx, wrap, rxq, txVars>>
      /\ \E n \in Notifications : Notify(n)
      /\ age' = age \/ age' = [age EXCEPT !.edge = 0]
      /\ \E v \in Matches : Update("irq", v)
  <2>1. CASE IsrCapture
    <3>1. [t1 EXCEPT !.stop = Stop] \in Matches
      BY <1>1 DEF RxInv, Matches
    <3> QED
      BY <1>2, <2>1, <3>1 DEF IsrCapture
  <2>2. CASE IsrStop
    <3>1. [t1 EXCEPT !.stop = Off] \in Matches
      BY <1>1 DEF RxInv, Matches
    <3> QED
      BY <1>2, <2>2, <3>1 DEF IsrStop
  <2>3. CASE IsrPeriod
    <3>1. [t1 EXCEPT !.period = Off, !.stop = Off] \in Matches
      BY <1>1 DEF RxInv, Matches
    <3> QED
      BY <1>2, <2>3, <3>1 DEF IsrPeriod
  <2>4. CASE IsrQuery
    <3>1. [t1 EXCEPT !.query = Off] \in Matches
      BY <1>1 DEF RxInv, Matches
    <3> QED
      BY <1>2, <2>4, <3>1 DEF IsrQuery
  <2> QED
    BY <2>1, <2>2, <2>3, <2>4
<1>4. t1' \in Matches /\ McrTyped'
  BY <1>1, <1>3, UpdateTyped
<1>5. task' \in Tasks
  BY <1>3, NotifyTyped
<1>6. age' \in Ages
  BY <1>1, <1>3 DEF RxInv, Ages
<1> QED
  BY <1>3, <1>4, <1>5, <1>6 DEF RxInv, QueueTyped

\* The rx task: an edge is looked at ...
LEMMA CaptureTyped ==
  ASSUME RxInv, NEW pin,
         CaptureStart(pin) \/ CaptureIgnored(pin) \/ CaptureBit \/ CaptureRecover(pin)
  PROVE  RxInv' /\ TxKeeps
<1>1. task' \in Tasks /\ age' \in Ages /\ UNCHANGED wrap
  <2>1. CASE CaptureStart(pin)
    BY <2>1 DEF CaptureStart, EdgeCounted, RxInv, Ages, Tasks
  <2>2. CASE ~CaptureStart(pin)
    <3>1. Captured /\ UNCHANGED wrap
      BY <2>2 DEF CaptureIgnored, CaptureBit, CaptureRecover
    <3> QED
      BY <3>1, NotifyTyped DEF Captured, EdgeCounted, RxInv, Ages
  <2> QED
    BY <2>1, <2>2
<1>2. CASE CaptureStart(pin)
  <2>1. rx' \in RxRecords
    <3>1. PICK own \in BOOLEAN :
            rx' = [rx EXCEPT !.status = "START_BIT_START", !.frame.loopback = own]
      <4>1. CASE TxIsIdle
        BY <1>2, <4>1 DEF CaptureStart
      <4>2. CASE ~TxIsIdle
        BY <1>2, <4>2 DEF CaptureStart
      <4> QED
        BY <4>1, <4>2
    <3> DEFINE frame == [rx.frame EXCEPT !.loopback = own]
    <3>2. frame \in Reports
      BY DEF RxInv, RxRecords, Reports
    <3>3. rx' = [rx EXCEPT !.status = "START_BIT_START", !.frame = frame]
      BY <3>1 DEF RxInv, RxRecords
    <3> HIDE DEF frame
    <3> QED
      BY <3>2, <3>3 DEF RxInv, RxRecords, RxStatus, InFrame
  <2>2. PICK p \in {Off, t1.period} : Update("rx", [t1 EXCEPT !.query = Off, !.period = p])
    <3>1. CASE McrAtomic
      BY <1>2, <3>1 DEF CaptureStart
    <3>2. CASE ~McrAtomic
      BY <1>2, <3>2 DEF CaptureStart
    <3> QED
      BY <3>1, <3>2
  <2>4. [t1 EXCEPT !.query = Off, !.period = p] \in Matches /\ "rx" \in Writers
    <3>1. Off \in -1..Far
      BY ThresholdsOrdered DEF Off
    <3> QED
      BY <3>1 DEF RxInv, Matches, Writers
  <2>3. t1' \in Matches /\ McrTyped'
    BY <2>2, <2>4, UpdateTyped
  <2> QED
    BY <1>1, <1>2, <2>1, <2>3 DEF CaptureStart, RxInv, QueueTyped, TxKeeps
<1>3. CASE CaptureIgnored(pin)
  BY <1>1, <1>3 DEF CaptureIgnored, RxInv, McrTyped, QueueTyped, TxKeeps
<1>4. CASE CaptureBit
  <2> DEFINE next == Following(rx.status, age.last - age.edge)
  <2>1. CASE next = "ERROR_IN_FRAME"
    <3>1. queue_error_frame("RECEIVE_TIMING") /\ "RECEIVE_TIMING" \in StatusCodes
      BY <1>4, <2>1 DEF CaptureBit, StatusCodes
    <3>2. rx' \in RxRecords /\ QueueTyped'
      BY <3>1, QueueErrorTyped
    <3> QED
      BY <1>1, <1>4, <3>2 DEF CaptureBit, RxInv, McrTyped, TxKeeps
  <2>2. CASE next # "ERROR_IN_FRAME"
    <3>1. rx' = [rx EXCEPT !.status = next] /\ UNCHANGED <<rxq, t1, mcr, txVars>>
      BY <1>4, <2>2 DEF CaptureBit
    <3>2. next \in RxStatus
      BY DEF Following, RxStatus, InFrame
    <3> HIDE DEF next
    <3> QED
      BY <1>1, <3>1, <3>2 DEF RxInv, RxRecords, McrTyped, QueueTyped, TxKeeps
  <2> QED
    BY <2>1, <2>2
<1>5. CASE CaptureRecover(pin)
  <2> DEFINE code == IF rx.status = "LOW" THEN "RECEIVE_TIMING" ELSE "SYSTEM_RECOVER"
  <2>1. rxq' = Queued(ErrorReport(code)) /\ code \in StatusCodes
    BY <1>5 DEF CaptureRecover, StatusCodes
  <2>2. QueueTyped'
    BY <2>1, ErrorReportTyped, QueuedTyped DEF QueueTyped
  <2>3. rx' = [Managed EXCEPT !.status = "IDLE", !.frame = NoFrame] /\ manage_tx
        /\ UNCHANGED <<t1, mcr>>
    BY <1>5 DEF CaptureRecover
  <2>4. rx' \in RxRecords
    <3>1. Managed \in RxRecords
      BY ManagedTyped
    <3>2. rx' = [Managed EXCEPT !.status = "IDLE", !.frame = NoFrame]
      BY <2>3
    <3> QED
      BY <3>1, <3>2, NoFrameTyped DEF RxRecords, RxStatus, Resting
  <2>5. TxKeeps
    BY <2>3, ManagedTyped
  <2> QED
    BY <1>1, <2>2, <2>3, <2>4, <2>5 DEF RxInv, McrTyped
<1> QED
  BY <1>2, <1>3, <1>4, <1>5

\* ... a stop bit match ...
LEMMA MatchHandlerTyped ==
  ASSUME RxInv, NEW pin,
         MatchIgnored(pin) \/ MatchFrame(pin) \/ MatchDiscard(pin)
           \/ MatchLow(pin) \/ MatchFailure(pin)
  PROVE  RxInv' /\ TxKeeps
<1>1. task' \in Tasks /\ UNCHANGED wrap
  <2>2. Matched /\ UNCHANGED wrap
    BY DEF MatchIgnored, MatchFrame, MatchDiscard, MatchLow, MatchFailure
  <2> QED
    BY <2>2, NotifyTyped DEF Matched
<1>2. age' \in Ages
  BY DEF MatchIgnored, MatchFrame, MatchDiscard, MatchLow, MatchFailure, RxInv, Ages
<1>3. age.last \in 0..Far /\ age.full \in 0..Far
  BY DEF RxInv, Ages
<1>4. CASE MatchIgnored(pin)
  BY <1>1, <1>2, <1>4 DEF MatchIgnored, RxInv, McrTyped, QueueTyped, TxKeeps
<1>5. CASE MatchFrame(pin)
  <2> DEFINE r == [Managed EXCEPT !.frame = NoFrame, !.halted = Len(rxq) >= RxQueueSize]
  <2>1. r \in RxRecords
    BY ClearedTyped
  <2>2. Pending(r, age.last) /\ manage_tx /\ rxq' = Queued(rx.frame)
    BY <1>5 DEF MatchFrame
  <2> HIDE DEF r
  <2>3. rx' \in RxRecords /\ t1' \in Matches /\ McrTyped'
    BY <1>3, <2>1, <2>2, PendingTyped
  <2>4. QueueTyped'
    BY <2>2, QueuedTyped DEF RxInv, RxRecords, QueueTyped
  <2> QED
    BY <1>1, <1>2, <2>2, <2>3, <2>4, ManagedTyped DEF RxInv
<1>6. CASE MatchDiscard(pin)
  <2> DEFINE r == [Managed EXCEPT !.frame = NoFrame]
  <2>1. r \in RxRecords
    BY ClearedTyped
  <2>2. Pending(r, age.full) /\ manage_tx /\ UNCHANGED rxq
    BY <1>6 DEF MatchDiscard
  <2> HIDE DEF r
  <2>3. rx' \in RxRecords /\ t1' \in Matches /\ McrTyped'
    BY <1>3, <2>1, <2>2, PendingTyped
  <2> QED
    BY <1>1, <1>2, <2>2, <2>3, ManagedTyped DEF RxInv, QueueTyped
<1>7. CASE MatchLow(pin)
  <2>1. Match(Fail - age.last) \in -1..Far
    BY <1>3, ThresholdsOrdered DEF Match, Off
  <2>2. [t1 EXCEPT !.stop = Match(Fail - age.last)] \in Matches /\ "rx" \in Writers
    BY <2>1 DEF RxInv, Matches, Writers
  <2>3. t1' \in Matches /\ McrTyped'
    BY <1>7, <2>2, UpdateTyped DEF MatchLow
  <2>4. rx' \in RxRecords
    BY <1>7 DEF MatchLow, RxInv, RxRecords, RxStatus, BusDown
  <2> QED
    BY <1>1, <1>2, <1>7, <2>3, <2>4 DEF MatchLow, RxInv, QueueTyped, TxKeeps
<1>8. CASE MatchFailure(pin)
  <2>1. "SYSTEM_FAILURE" \in StatusCodes
    BY DEF StatusCodes
  <2>2. rx' \in RxRecords /\ QueueTyped'
    BY <1>8, <2>1, ErrorReportTyped, QueuedTyped
    DEF MatchFailure, RxInv, RxRecords, RxStatus, BusDown, QueueTyped
  <2> QED
    BY <1>1, <1>2, <1>8, <2>2 DEF MatchFailure, RxInv, McrTyped, TxKeeps
<1> QED
  BY <1>4, <1>5, <1>6, <1>7, <1>8

\* ... the period or the query match.
LEMMA TimeoutTyped ==
  ASSUME RxInv, PriorityTimeout \/ QueryTimeout
  PROVE  RxInv' /\ TxKeeps
<1>1. task' \in Tasks
  BY NotifyTyped DEF PriorityTimeout, QueryTimeout
<1>2. CASE PriorityTimeout
  <2>1. rx' \in RxRecords
    BY <1>2 DEF PriorityTimeout, RxInv, RxRecords, RxStatus, Resting
  <2> QED
    BY <1>1, <1>2, <2>1 DEF PriorityTimeout, RxInv, McrTyped, QueueTyped, TxKeeps
<1>3. CASE QueryTimeout
  <2>1. [code |-> "TIMEOUT", loopback |-> FALSE] \in Reports
    BY DEF Reports, StatusCodes
  <2>2. rx' \in RxRecords /\ QueueTyped'
    <3>1. CASE rx.status \in Resting
      BY <1>3, <2>1, <3>1, QueuedTyped, NoFrameTyped
      DEF QueryTimeout, RxInv, RxRecords, RxStatus, Resting, QueueTyped
    <3>2. CASE rx.status \notin Resting
      BY <1>3, <3>2 DEF QueryTimeout, RxInv, QueueTyped
    <3> QED
      BY <3>1, <3>2
  <2> QED
    BY <1>1, <1>3, <2>2 DEF QueryTimeout, RxInv, McrTyped, TxKeeps
<1> QED
  BY <1>2, <1>3

\* The second change of MCR at the start of a frame
LEMMA CapturePeriodTyped ==
  ASSUME RxInv, CapturePeriod
  PROVE  RxInv' /\ TxKeeps
<1>1. task' \in Tasks
  BY NotifyTyped DEF CapturePeriod
<1>2. [t1 EXCEPT !.period = Off] \in Matches /\ "rx" \in Writers
  <2>1. Off \in -1..Far
    BY ThresholdsOrdered DEF Off
  <2> QED
    BY <2>1 DEF RxInv, Matches, Writers
<1>3. t1' \in Matches /\ McrTyped'
  BY <1>2, UpdateTyped DEF CapturePeriod
<1> QED
  BY <1>1, <1>3 DEF CapturePeriod, RxInv, QueueTyped, TxKeeps

\* Every step of the rx task: it keeps the types, and calls the transmitter by its operations only.
LEMMA RxTaskTyped ==
  ASSUME RxInv, NEW pin, RxTask(pin)
  PROVE  RxInv' /\ TxKeeps
<1>1. CASE RxTake
  BY <1>1 DEF RxTake, RxInv, Tasks, McrTyped, QueueTyped, TxKeeps
<1> QED
  BY <1>1, CapturePeriodTyped, CaptureTyped, MatchHandlerTyped, TimeoutTyped DEF RxTask

\* All three matches get a tick nearer.
LEMMA CloserTyped ==
  ASSUME NEW v \in Matches PROVE Closer(v) \in Matches
  BY MatchTyped DEF Matches, Closer

\* A tick of the receiver's clock
LEMMA ElapsedTyped ==
  ASSUME RxInv, RxElapsed, UNCHANGED <<task, rxq>>
  PROVE  RxInv'
<1>1. t1' \in Matches
  BY CloserTyped DEF RxElapsed, RxInv
<1>2. McrTyped'
  <2>1. mcr' = [w \in Writers |-> {Closer(v) : v \in mcr[w]}]
    BY DEF RxElapsed
  <2>2. mcr \in [Writers -> SUBSET Matches] /\ \A w \in Writers : Held(mcr[w])
    BY DEF RxInv, McrTyped
  <2>3. ASSUME NEW w \in Writers
        PROVE  {Closer(v) : v \in mcr[w]} \in SUBSET Matches /\ Held({Closer(v) : v \in mcr[w]})
    <3>1. CASE mcr[w] = {}
      BY <3>1 DEF Held
    <3>2. CASE \E v \in Matches : mcr[w] = {v}
      BY <3>2, CloserTyped DEF Held
    <3> QED
      BY <2>2, <3>1, <3>2 DEF Held
  <2> QED
    BY <2>1, <2>3 DEF McrTyped
<1>3. age' \in Ages
  <2>1. age' = [a \in DOMAIN age |-> Older(age[a])]
    BY DEF RxElapsed
  <2> QED
    BY <2>1, AgesTyped DEF RxInv, Ages
<1>4. rx' \in RxRecords
  BY MatchTyped DEF RxElapsed, RxInv, RxRecords
<1>5. wrap' \in -Far - 1..Never
  BY ThresholdsOrdered DEF RxElapsed, RxInv
<1> QED
  BY <1>1, <1>2, <1>3, <1>4, <1>5 DEF RxInv, QueueTyped

-----------------------------------------------------------------------------
(* The composition.  dali_101_send is only ever inside its steps with a    *)
(* frame that the queue held: a frame of type NONE is dropped at once.     *)

MainPlaces == {"loop", "print"} \cup Places
Mains == [pc : MainPlaces, frame : TxFrames \cup {NoCommand}, phase : Nat,
          start : -1..Far, late : BOOLEAN]
Serials == [pc : {"idle", "print", "forget", "empty", "add", "execute"}, arg : Nat]
Histories == [owed : Nat, query : BOOLEAN, asked : BOOLEAN, echo : Int]

FrameTaken == main.pc \notin {"loop", "print"} => main.frame \in TxFrames
CommandsTyped == cmds \in Seq(TxFrames) /\ Len(cmds) <= QueueLength

\* Where the main task is in the phases of its frame.
PhaseOfFrame ==
  /\ main.pc \in {"check", "write"} => main.phase < Len(main.frame.phases)
  /\ main.pc = "load" => main.phase = Len(main.frame.phases)
  /\ main.pc \notin {"check", "write", "load"} => main.phase = 0

LinkInv ==
  /\ ext \in [pin : BOOLEAN, in : -1..Far, left : 0..ExtPulses]
  /\ bus \in [edge : BOOLEAN, quiet : 0..Far]
  /\ main \in Mains
  /\ FrameTaken
  /\ PhaseOfFrame
  /\ CommandsTyped
  /\ ser \in Serials
  /\ ser.pc \in {"forget", "empty", "add"} => ser.arg \in SeqPeriods
  /\ host \in [commands : 0..MaxCommands, sequence : 0..MaxSequence]
  /\ h \in Histories

\* What was true of the array when it was looked at still is when it is used,
\* and only one of the two tasks is changing it.
ArrayInv ==
  /\ main.pc = "write" => ~ArrayFull
  /\ main.pc = "load" => tx.index_max > 0
  /\ ser.pc \notin {"idle", "print"} => main.pc = "loop"
  /\ ser.pc = "execute" => tx.index_max > 0

LinkIInv == TxTypeOK /\ RxInv /\ LinkInv /\ ArrayInv

\* What a step does to the parts the invariant is made of.
StepWell == TxAny /\ RxInv' /\ LinkInv' /\ ArrayInv'

\* A host that keeps its sequences apart from its frames.
Orderly == HostWaits \/ MaxSequence = 0

\* The bus follows whoever pulls it low.
LEMMA BusTyped ==
  ASSUME LinkInv, BusFollows PROVE bus' \in [edge : BOOLEAN, quiet : 0..Far]
  BY ThresholdsOrdered DEF LinkInv, BusFollows

\* A command that enters the queue.
LEMMA EnqueuedTyped ==
  ASSUME LinkInv, NEW f \in TxFrames
  PROVE  Enqueued(f) \in Seq(TxFrames) /\ Len(Enqueued(f)) <= QueueLength
<1>1. cmds \in Seq(TxFrames) /\ Len(cmds) <= QueueLength /\ Len(cmds) \in Nat
  BY DEF LinkInv, CommandsTyped
<1>2. Append(cmds, f) \in Seq(TxFrames) /\ Len(Append(cmds, f)) = Len(cmds) + 1
  BY <1>1, AppendProperties
<1> QED
  BY <1>1, <1>2, LinkAssumption DEF Enqueued, LinkAssumption

\* What the main task has in hand, and the parts of it.
LEMMA FrameTyped ==
  ASSUME NEW f \in TxFrames
  PROVE  /\ f.type \in FrameTypes /\ f.repeat \in 0..255
         /\ Len(f.phases) \in Nat \ {0} /\ Len(f.phases) \in Positions
         /\ f.phases \in Seq(Nat \ {0})
         /\ \A i \in 1..Len(f.phases) : f.phases[i] \in Nat \ {0}
<1>1. IsTxFrame(f)
  BY TxAssumption, Zenon DEF TxAssumption
<1>2. CountArraySize \in Nat
  BY TxAssumption DEF TxAssumption
<1> QED
  BY <1>1, <1>2 DEF IsTxFrame, Positions

\* The main task goes from one place to another with a frame in hand.
LEMMA GotoTyped ==
  ASSUME LinkInv, NEW pc \in MainPlaces, Goto(pc),
         pc \in {"loop", "print"} \/ main.frame \in TxFrames,
         pc \notin {"check", "write", "load"}, main.pc \notin {"check", "write", "load"}
  PROVE  main' \in Mains /\ FrameTaken' /\ PhaseOfFrame' /\ main'.pc = pc
<1>1. main' = [pc |-> pc, frame |-> main.frame, phase |-> main.phase,
               start |-> main.start, late |-> main.late]
  BY DEF LinkInv, Mains, Goto
<1> QED
  BY <1>1 DEF LinkInv, Mains, FrameTaken, PhaseOfFrame

\* It goes back to the loop of main.
LEMMA GoBackTyped ==
  ASSUME LinkInv, GoBack
  PROVE  main' \in Mains /\ FrameTaken' /\ PhaseOfFrame' /\ main'.pc = "loop"
<1>1. main' = [pc |-> "loop", frame |-> main.frame, phase |-> 0,
               start |-> main.start, late |-> FALSE]
  BY DEF LinkInv, Mains, GoBack
<1> QED
  BY <1>1 DEF LinkInv, Mains, MainPlaces, FrameTaken, PhaseOfFrame

\* What neither the main nor the serial task does
LEMMA ElsewhereKept ==
  ASSUME LinkIInv, TxKeeps, UNCHANGED <<main, ser>>
  PROVE  ArrayInv'
<1>1. tx'.index_max = tx.index_max
  BY TxKeepsTyped DEF LinkIInv
<1> QED
  BY <1>1 DEF LinkIInv, ArrayInv, ArrayFull

\* The interrupts, the rx task and the stores of MCR.
LEMMA InterruptStep ==
  ASSUME LinkIInv,
         TxIsrPhase \/ TxIsrEnd \/ RxIsrCapture \/ RxIsrMatch \/ McrStore \/ RxTaskStep
  PROVE  StepWell
<1>1. CASE TxIsrPhase
  <2>1. TxKeeps /\ UNCHANGED <<rxVars, ext, main, cmds, ser, host, h>> /\ BusFollows
    BY <1>1 DEF TxIsrPhase, TxKeeps
  <2> QED
    BY <2>1, BusTyped, ElsewhereKept
    DEF StepWell, TxAny, LinkIInv, RxInv, McrTyped, QueueTyped, LinkInv, FrameTaken,
        PhaseOfFrame, CommandsTyped, rxVars
<1>2. CASE TxIsrEnd
  <2>1. TxKeeps /\ BusFollows
        /\ UNCHANGED <<wrap, mcr, rx, age, task, rxq, ext, main, cmds, ser, host>>
    BY <1>2 DEF TxIsrEnd, TxKeeps
  <2>2. t1' \in Matches
    <3>1. [t1 EXCEPT !.query = Reply] \in Matches /\ t1 \in Matches
      BY DelaysTyped, ThresholdsOrdered DEF LinkIInv, RxInv, Matches
    <3> QED
      BY <1>2, <3>1 DEF TxIsrEnd, ScheduleQuery
  <2>3. h' \in Histories
    <3>1. PICK o \in Nat, a \in BOOLEAN, e \in Int :
            h' = [h EXCEPT !.owed = o, !.asked = a, !.echo = e]
      <4>1. (IF h.owed > 0 THEN h.owed - 1 ELSE 0) \in Nat /\ h.echo + 1 \in Int
        BY DEF LinkIInv, LinkInv, Histories
      <4>2. CASE h.asked \/ h.query
        BY <1>2, <4>1, <4>2 DEF TxIsrEnd
      <4>3. CASE ~(h.asked \/ h.query)
        BY <1>2, <4>1, <4>3 DEF TxIsrEnd
      <4> QED
        BY <4>2, <4>3
    <3> QED
      BY <3>1 DEF LinkIInv, LinkInv, Histories
  <2> QED
    BY <2>1, <2>2, <2>3, BusTyped, ElsewhereKept
    DEF StepWell, TxAny, LinkIInv, RxInv, McrTyped, QueueTyped, LinkInv, FrameTaken,
        PhaseOfFrame, CommandsTyped
<1>3. CASE RxIsrCapture \/ RxIsrMatch
  <2>1. RxInv' /\ TxKeeps
    BY <1>3, IsrTyped DEF RxIsrCapture, RxIsrMatch, LinkIInv, TxKeeps
  <2>2. (bus' = bus \/ bus' = [bus EXCEPT !.edge = FALSE])
        /\ UNCHANGED <<ext, main, cmds, ser, host, h>>
    BY <1>3 DEF RxIsrCapture, RxIsrMatch, linkVars
  <2> QED
    BY <2>1, <2>2, ElsewhereKept
    DEF StepWell, TxAny, LinkIInv, LinkInv, FrameTaken, PhaseOfFrame, CommandsTyped
<1>4. CASE McrStore
  <2>1. PICK w \in Writers : Store(w)
    BY <1>4 DEF McrStore, Writers
  <2>2. UNCHANGED <<txVars, rx, wrap, age, task, rxq, linkVars>>
    BY <1>4 DEF McrStore
  <2> QED
    BY <2>1, <2>2, StoreTyped, ElsewhereKept
    DEF StepWell, TxAny, TxKeeps, LinkIInv, RxInv, QueueTyped, LinkInv, FrameTaken,
        PhaseOfFrame, CommandsTyped, linkVars
<1>5. CASE RxTaskStep
  <2>1. RxTask(Pin) /\ UNCHANGED <<ext, main, cmds, ser, host, h>> /\ BusFollows
    BY <1>5 DEF RxTaskStep
  <2>2. RxInv' /\ TxKeeps
    BY <2>1, RxTaskTyped DEF LinkIInv
  <2> QED
    BY <2>1, <2>2, BusTyped, ElsewhereKept
    DEF StepWell, TxAny, LinkIInv, LinkInv, FrameTaken, PhaseOfFrame, CommandsTyped
<1> QED
  BY <1>1, <1>2, <1>3, <1>4, <1>5

\* What a step of the main task leaves alone while the serial task is idle.
LEMMA MainLeaves ==
  ASSUME LinkIInv, SerialIdle, UNCHANGED <<ext, ser, host>>,
         main' \in Mains, FrameTaken', PhaseOfFrame',
         h' \in Histories, CommandsTyped', bus' \in [edge : BOOLEAN, quiet : 0..Far],
         main'.pc \notin {"write", "load"}, TxAny, RxInv'
  PROVE  StepWell
<1>1. ser'.pc = "idle"
  BY DEF SerialIdle
<1> QED
  BY <1>1 DEF StepWell, LinkIInv, LinkInv, ArrayInv

\* The loop of main
LEMMA LoopStep ==
  ASSUME LinkIInv, MainPrint \/ MainPrinted \/ MainTake
  PROVE  StepWell
<1>1. CASE MainPrint
  <2>1. At("loop") /\ rxq # <<>> /\ rxq' = Tail(rxq)
        /\ UNCHANGED <<txVars, rx, t1, wrap, mcr, age, task, ext, bus, cmds, ser, host>>
    BY <1>1 DEF MainPrint, CanPrint
  <2>2. QueueTyped'
    <3>1. rxq \in Seq(Reports) /\ Len(rxq) <= RxQueueSize /\ Len(rxq) \in Nat
      BY DEF LinkIInv, RxInv, QueueTyped
    <3>2. Tail(rxq) \in Seq(Reports) /\ Len(Tail(rxq)) = Len(rxq) - 1
      BY <2>1, <3>1, HeadTailProperties
    <3> QED
      BY <2>1, <3>1, <3>2, LinkAssumption DEF QueueTyped, LinkAssumption
  <2>3. h' \in Histories
    <3>1. h.echo - 1 \in Int
      BY DEF LinkIInv, LinkInv, Histories
    <3>2. PICK e \in Int : h' = [h EXCEPT !.echo = e] \/ h' = [h EXCEPT !.asked = FALSE]
      BY <1>1, <3>1 DEF MainPrint
    <3> QED
      BY <3>2 DEF LinkIInv, LinkInv, Histories
  <2>4. main' \in Mains /\ FrameTaken' /\ PhaseOfFrame' /\ main'.pc = "print"
    BY <1>1, <2>1, GotoTyped DEF MainPrint, At, LinkIInv, MainPlaces
  <2>5. RxInv' /\ TxAny
    BY <2>1, <2>2 DEF LinkIInv, RxInv, McrTyped, TxAny, TxKeeps
  <2> QED
    BY <2>1, <2>3, <2>4, <2>5, MainLeaves
    DEF At, LinkIInv, LinkInv, CommandsTyped
<1>2. CASE MainPrinted
  <2>1. At("print") /\ GoBack /\ UNCHANGED <<txVars, rxVars, ext, bus, cmds, ser, host, h>>
    BY <1>2 DEF MainPrinted
  <2>2. main' \in Mains /\ FrameTaken' /\ PhaseOfFrame' /\ main'.pc = "loop"
    BY <2>1, GoBackTyped DEF LinkIInv
  <2>3. RxInv' /\ TxAny
    BY <2>1 DEF LinkIInv, RxInv, McrTyped, QueueTyped, TxAny, TxKeeps, rxVars
  <2> QED
    BY <2>1, <2>2, <2>3, MainLeaves DEF At, LinkIInv, LinkInv, CommandsTyped
<1>3. CASE MainTake
  <2>1. At("loop") /\ cmds # <<>> /\ cmds' = Tail(cmds)
        /\ UNCHANGED <<txVars, rxVars, ext, bus, ser, host, h>>
    BY <1>3 DEF MainTake, CanTake
  <2>2. Head(cmds) \in TxFrames /\ CommandsTyped'
    <3>1. cmds \in Seq(TxFrames) /\ Len(cmds) <= QueueLength /\ Len(cmds) \in Nat
      BY DEF LinkIInv, LinkInv, CommandsTyped
    <3>2. Head(cmds) \in TxFrames /\ Tail(cmds) \in Seq(TxFrames)
          /\ Len(Tail(cmds)) = Len(cmds) - 1
      BY <2>1, <3>1, HeadTailProperties
    <3> QED
      BY <2>1, <3>1, <3>2, LinkAssumption DEF CommandsTyped, LinkAssumption
  <2>3. PICK pc \in {"loop", "reset"} :
          main' = [main EXCEPT !.pc = pc, !.frame = Head(cmds)]
    BY <1>3 DEF MainTake
  <2>4. main' = [pc |-> pc, frame |-> Head(cmds), phase |-> main.phase,
                 start |-> main.start, late |-> main.late]
    BY <2>3 DEF LinkIInv, LinkInv, Mains
  <2>5. main' \in Mains /\ FrameTaken' /\ PhaseOfFrame' /\ main'.pc \in {"loop", "reset"}
    <3>1. pc \in MainPlaces
      BY DEF MainPlaces, Places, Calculating
    <3> QED
      BY <2>1, <2>2, <2>4, <3>1
      DEF At, LinkIInv, LinkInv, Mains, FrameTaken, PhaseOfFrame
  <2>6. RxInv' /\ TxAny
    BY <2>1 DEF LinkIInv, RxInv, McrTyped, QueueTyped, TxAny, TxKeeps, rxVars
  <2> QED
    BY <2>1, <2>2, <2>5, <2>6, MainLeaves DEF At, LinkIInv, LinkInv
<1> QED
  BY <1>1, <1>2, <1>3

\* dali_101_send while it calculates
LEMMA CalculateStep ==
  ASSUME LinkIInv, MainReset \/ MainCheck \/ MainWrite \/ MainLoad
  PROVE  StepWell
<1>0. {"forget", "empty", "check", "write", "load", "schedule"} \subseteq MainPlaces
  BY DEF MainPlaces, Places, Calculating, Scheduling
<1>1. CASE MainReset
  <2>1. SerialIdle /\ UNCHANGED <<rxVars, ext, cmds, ser, host, h>> /\ BusFollows
    BY <1>1 DEF MainReset, At
  <2>2. PICK pc \in {"forget", "empty", "check"} :
          main.pc \in {"reset", "forget", "empty"} /\ Goto(pc) /\ TxAny
    <3>1. tx.repeat \in 0..255
      BY DEF LinkIInv, TxTypeOK
    <3> QED
      BY <1>1, <3>1 DEF MainReset, At, TxAny, TxKeeps
  <2>3. main' \in Mains /\ FrameTaken' /\ PhaseOfFrame' /\ main'.pc = pc
    <3>1. main' = [pc |-> pc, frame |-> main.frame, phase |-> main.phase,
                   start |-> main.start, late |-> main.late]
      BY <2>2 DEF LinkIInv, LinkInv, Mains, Goto
    <3>2. main.frame \in TxFrames /\ main.phase = 0
      BY <2>2 DEF LinkIInv, LinkInv, FrameTaken, PhaseOfFrame
    <3>3. Len(main.frame.phases) \in Nat \ {0}
      BY <3>2, FrameTyped
    <3> QED
      BY <1>0, <3>1, <3>2, <3>3 DEF LinkIInv, LinkInv, Mains, FrameTaken, PhaseOfFrame
  <2>4. RxInv'
    BY <2>1 DEF LinkIInv, RxInv, McrTyped, QueueTyped, rxVars
  <2> QED
    BY <2>1, <2>2, <2>3, <2>4, BusTyped, MainLeaves DEF LinkIInv, LinkInv, CommandsTyped
<1>2. CASE MainCheck
  <2>1. At("check") /\ UNCHANGED <<txVars, t1, wrap, mcr, age, task, ext, bus, cmds, ser, host, h>>
    BY <1>2 DEF MainCheck
  <2>2. TxAny /\ main.frame \in TxFrames
    BY <2>1 DEF TxAny, TxKeeps, At, LinkIInv, LinkInv, FrameTaken
  <2>3. CASE ArrayFull
    <3>1. queue_error_frame("CAN_NOT_PROCESS") /\ GoBack /\ "CAN_NOT_PROCESS" \in StatusCodes
      BY <1>2, <2>3 DEF MainCheck, StatusCodes
    <3>2. RxInv'
      BY <2>1, <3>1, QueueErrorTyped DEF LinkIInv, RxInv, McrTyped
    <3> QED
      BY <2>1, <2>2, <3>1, <3>2, GoBackTyped, MainLeaves
      DEF At, LinkIInv, LinkInv, CommandsTyped
  <2>4. CASE ~ArrayFull
    <3>1. UNCHANGED <<rx, rxq>>
          /\ main' = [pc |-> "write", frame |-> main.frame, phase |-> main.phase,
                      start |-> main.start, late |-> main.late]
      BY <1>2, <2>4 DEF MainCheck, Goto, LinkIInv, LinkInv, Mains
    <3>2. main' \in Mains /\ FrameTaken' /\ PhaseOfFrame'
      BY <1>0, <2>1, <2>2, <3>1 DEF At, LinkIInv, LinkInv, Mains, FrameTaken, PhaseOfFrame
    <3>3. ArrayInv'
      BY <2>1, <2>4, <3>1 DEF At, SerialIdle, ArrayInv, ArrayFull, txVars
    <3> QED
      BY <2>1, <2>2, <3>1, <3>2, <3>3
      DEF StepWell, LinkIInv, RxInv, McrTyped, QueueTyped, LinkInv, CommandsTyped
  <2> QED
    BY <2>3, <2>4
<1>3. CASE MainWrite
  <2>1. /\ At("write") /\ TxAdd(main.frame.phases[main.phase + 1])
        /\ UNCHANGED <<rxVars, ext, bus, cmds, ser, host, h>>
    BY <1>3 DEF MainWrite
  <2>2. main.frame \in TxFrames /\ main.phase < Len(main.frame.phases) /\ main.phase \in Nat
        /\ ~ArrayFull
    BY <2>1 DEF At, LinkIInv, LinkInv, Mains, FrameTaken, PhaseOfFrame, ArrayInv
  <2>3. main.frame.phases[main.phase + 1] \in Nat /\ Len(main.frame.phases) \in Nat
    BY <2>2, FrameTyped
  <2>4. TxAny /\ tx'.index_max = tx.index_max + 1 /\ tx.index_max \in Nat
    <3> DEFINE p == main.frame.phases[main.phase + 1]
    <3>1. p \in Nat /\ ~ArrayFull /\ TxAdd(p)
      BY <2>1, <2>2, <2>3
    <3> HIDE DEF p
    <3>2. TxAny
      BY <3>1 DEF TxAny
    <3> QED
      BY <3>1, <3>2, TxAddTyped, TxTyped DEF LinkIInv, TxFacts
  <2>5. PICK pc \in {"check", "load"} :
          /\ main' = [main EXCEPT !.phase = @ + 1, !.pc = pc]
          /\ pc = "load" <=> main.phase + 1 = Len(main.frame.phases)
    BY <1>3 DEF MainWrite
  <2>6. main' = [pc |-> pc, frame |-> main.frame, phase |-> main.phase + 1,
                 start |-> main.start, late |-> main.late]
    BY <2>5 DEF LinkIInv, LinkInv, Mains
  <2>7. main' \in Mains /\ FrameTaken' /\ PhaseOfFrame'
    BY <1>0, <2>2, <2>3, <2>5, <2>6 DEF LinkIInv, LinkInv, Mains, FrameTaken, PhaseOfFrame
  <2>8. ArrayInv'
    BY <2>1, <2>4, <2>6 DEF At, SerialIdle, ArrayInv
  <2> QED
    BY <2>1, <2>4, <2>7, <2>8
    DEF StepWell, LinkIInv, RxInv, McrTyped, QueueTyped, LinkInv, CommandsTyped, rxVars
<1>4. CASE MainLoad
  <2>1. /\ At("load") /\ TxLoad(main.frame)
        /\ main' = [main EXCEPT !.pc = "schedule", !.phase = 0]
        /\ UNCHANGED <<rxVars, ext, bus, cmds, ser, host>>
    BY <1>4 DEF MainLoad
  <2>2. main.frame \in TxFrames /\ TxAny
    BY <2>1 DEF At, LinkIInv, LinkInv, FrameTaken, ArrayInv, TxAny
  <2>3. main' \in Mains /\ FrameTaken' /\ PhaseOfFrame' /\ main'.pc = "schedule"
    <3>1. main' = [pc |-> "schedule", frame |-> main.frame, phase |-> 0,
                   start |-> main.start, late |-> main.late]
      BY <2>1 DEF LinkIInv, LinkInv, Mains
    <3> QED
      BY <1>0, <2>2, <3>1 DEF LinkIInv, LinkInv, Mains, FrameTaken, PhaseOfFrame
  <2>4. h' \in Histories
    <3>1. h.owed + 1 + main.frame.repeat \in Nat
      <4>1. main.frame.repeat \in 0..255
        BY <2>2, FrameTyped
      <4> QED
        BY <4>1 DEF LinkIInv, LinkInv, Histories
    <3>2. h' = [owed |-> h.owed + 1 + main.frame.repeat,
                query |-> main.frame.type \in QueryTypes,
                asked |-> h.asked, echo |-> h.echo]
      BY <1>4 DEF MainLoad, LinkIInv, LinkInv, Histories
    <3>3. (main.frame.type \in QueryTypes) \in BOOLEAN
      OBVIOUS
    <3> QED
      BY <3>1, <3>2, <3>3 DEF LinkIInv, LinkInv, Histories
  <2>5. RxInv'
    BY <2>1 DEF LinkIInv, RxInv, McrTyped, QueueTyped, rxVars
  <2> QED
    BY <2>1, <2>2, <2>3, <2>4, <2>5, MainLeaves DEF At, LinkIInv, LinkInv, CommandsTyped
<1> QED
  BY <1>1, <1>2, <1>3, <1>4

\* rx_schedule_transmission
LEMMA ScheduleStep ==
  ASSUME LinkIInv, MainType \/ MainTest \/ MainGap \/ MainStart \/ MainArm \/ MainWait
  PROVE  StepWell
<1>1. {"test", "start", "clear", "gap", "start_gap", "arm", "armed", "wait"} \subseteq MainPlaces
  BY DEF MainPlaces, Places, Scheduling
<1>2. /\ SerialIdle /\ UNCHANGED <<ext, cmds, ser, host, h>>
      /\ main.pc \in Scheduling
      /\ TxAny /\ bus' \in [edge : BOOLEAN, quiet : 0..Far]
  <2>1. /\ SerialIdle /\ UNCHANGED <<ext, cmds, ser, host, h>>
        /\ main.pc \in Scheduling /\ TxAny
    BY DEF MainType, MainTest, MainGap, MainStart, MainArm, MainWait, At, Scheduling,
           TxAny, TxKeeps, rxVars
  <2>2. UNCHANGED bus \/ BusFollows
    BY DEF MainType, MainTest, MainGap, MainStart, MainArm, MainWait
  <2> QED
    BY <2>1, <2>2, BusTyped DEF LinkIInv, LinkInv
<1>3. main.pc \in MainPlaces /\ main.frame \in TxFrames /\ main.phase = 0
      /\ main.pc \notin {"loop", "print", "check", "write", "load"}
  BY <1>2 DEF Scheduling, MainPlaces, Places, LinkIInv, LinkInv, FrameTaken, PhaseOfFrame
<1>4. ASSUME NEW pc \in MainPlaces \ {"check", "write", "load"}, NEW start \in -1..Far,
             NEW late \in BOOLEAN,
             main' = [pc |-> pc, frame |-> main.frame, phase |-> 0, start |-> start,
                      late |-> late]
      PROVE  main' \in Mains /\ FrameTaken' /\ PhaseOfFrame' /\ main'.pc \notin {"write", "load"}
  BY <1>3, <1>4 DEF LinkIInv, LinkInv, Mains, FrameTaken, PhaseOfFrame
<1>5. /\ main' \in Mains /\ FrameTaken' /\ PhaseOfFrame'
      /\ main'.pc \notin {"write", "load"}
  <2>1. ASSUME NEW pc \in MainPlaces \ {"check", "write", "load"}, Goto(pc)
        PROVE  /\ main' \in Mains /\ FrameTaken' /\ PhaseOfFrame'
               /\ main'.pc \notin {"write", "load"}
    BY <1>3, <2>1, GotoTyped DEF LinkIInv
  <2>2. ASSUME GoBack
        PROVE  /\ main' \in Mains /\ FrameTaken' /\ PhaseOfFrame'
               /\ main'.pc \notin {"write", "load"}
    BY <2>2, GoBackTyped DEF LinkIInv
  <2>3. CASE MainType \/ MainTest
    <3>1. \E pc \in {"test", "start", "gap"} : Goto(pc)
      BY <2>3 DEF MainType, MainTest
    <3> QED
      BY <1>1, <2>1, <3>1
  <2>4. CASE MainGap
    <3>1. CASE \E pc \in {"wait", "start_gap"} : Goto(pc)
      BY <1>1, <2>1, <3>1
    <3>2. CASE main' = [main EXCEPT !.pc = "arm",
                        !.start = Match(PeriodIn(StartIn(main.frame.type, age.full)))]
      <4> DEFINE start == Match(PeriodIn(StartIn(main.frame.type, age.full)))
      <4>1. start \in -1..Far
        BY StartInTyped DEF LinkIInv, RxInv, Ages
      <4>2. main' = [pc |-> "arm", frame |-> main.frame, phase |-> 0, start |-> start,
                     late |-> main.late]
        BY <1>3, <3>2 DEF LinkIInv, LinkInv, Mains
      <4>3. main.late \in BOOLEAN /\ "arm" \in MainPlaces \ {"check", "write", "load"}
        BY <1>1 DEF LinkIInv, LinkInv, Mains
      <4> HIDE DEF start
      <4> QED
        BY <1>4, <4>1, <4>2, <4>3
    <3> QED
      BY <2>4, <3>1, <3>2 DEF MainGap
  <2>5. CASE MainStart
    <3>1. Goto("clear") \/ GoBack
      BY <2>5 DEF MainStart
    <3> QED
      BY <1>1, <2>1, <2>2, <3>1
  <2>6. CASE MainArm
    <3>1. main' = [pc |-> "armed", frame |-> main.frame, phase |-> 0, start |-> Off,
                   late |-> main.late]
      BY <1>3, <2>6 DEF MainArm, LinkIInv, LinkInv, Mains
    <3>2. main.late \in BOOLEAN /\ "armed" \in MainPlaces \ {"check", "write", "load"}
          /\ Off \in -1..Far
      BY <1>1, ThresholdsOrdered DEF LinkIInv, LinkInv, Mains, Off
    <3> QED
      BY <1>4, <3>1, <3>2
  <2>7. CASE MainWait
    BY <2>2, <2>7 DEF MainWait
  <2> QED
    BY <2>3, <2>4, <2>5, <2>6, <2>7
<1>6. RxInv'
  <2>1. CASE MainType
    <3>1. main.frame.type \in FrameTypes
      BY <1>3, FrameTyped
    <3>2. rx' = [rx EXCEPT !.type = main.frame.type]
          /\ UNCHANGED <<t1, wrap, mcr, age, task, rxq>>
      BY <2>1 DEF MainType
    <3> QED
      BY <3>1, <3>2 DEF LinkIInv, RxInv, RxRecords, McrTyped, QueueTyped
  <2>2. CASE MainTest \/ MainGap \/ MainStart
    <3>1. UNCHANGED <<rx, t1, wrap, mcr, age, task, rxq>>
      BY <2>2 DEF MainTest, MainGap, MainStart, rxVars
    <3> QED
      BY <3>1 DEF LinkIInv, RxInv, McrTyped, QueueTyped
  <2>3. CASE MainArm
    <3>1. /\ Update("main", [t1 EXCEPT !.period = main.start])
          /\ UNCHANGED <<rx, wrap, age, task, rxq>>
      BY <2>3 DEF MainArm
    <3>2. [t1 EXCEPT !.period = main.start] \in Matches /\ "main" \in Writers
      BY DEF LinkIInv, RxInv, LinkInv, Mains, Matches, Writers
    <3>3. t1' \in Matches /\ McrTyped'
      BY <3>1, <3>2, UpdateTyped DEF LinkIInv
    <3> QED
      BY <3>1, <3>3 DEF LinkIInv, RxInv, QueueTyped
  <2>4. CASE MainWait
    <3>1. rx' = [rx EXCEPT !.waiting = main.pc # "clear"]
          /\ UNCHANGED <<t1, wrap, mcr, age, task, rxq>>
      BY <2>4 DEF MainWait
    <3>2. (main.pc # "clear") \in BOOLEAN
      OBVIOUS
    <3>3. rx' \in RxRecords
      BY <3>1, <3>2 DEF LinkIInv, RxInv, RxRecords
    <3> QED
      BY <3>1, <3>3 DEF LinkIInv, RxInv, McrTyped, QueueTyped
  <2> QED
    BY <2>1, <2>2, <2>3, <2>4
<1> QED
  BY <1>2, <1>5, <1>6, MainLeaves DEF LinkIInv, LinkInv, CommandsTyped

\* The main task.
LEMMA MainStepWell ==
  ASSUME LinkIInv, MainStep PROVE StepWell
  BY LoopStep, CalculateStep, ScheduleStep DEF MainStep

\* The host asks for a frame, makes a mistake or wants the header.
LEMMA HostStep ==
  ASSUME LinkIInv, HostCommand \/ HostPrint
  PROVE  StepWell
<1>1. /\ host.commands > 0 /\ host' = [host EXCEPT !.commands = @ - 1]
      /\ UNCHANGED <<txVars, rxVars, ext, bus, main, h>>
      /\ SerialIdle
  BY DEF HostCommand, HostPrint
<1>2. PICK ticks \in {1, 3} : ser' = ser \/ ser' = Doing("print", ticks)
  BY DEF HostCommand, HostPrint, Prints
<1>3. ser' \in Serials /\ ser'.pc \in {"idle", "print"}
  BY <1>1, <1>2 DEF SerialIdle, Doing, LinkIInv, LinkInv, Serials
<1>4. CommandsTyped'
  <2>1. cmds' = cmds \/ \E f \in TxFrames : cmds' = Enqueued(f)
    BY DEF HostCommand, HostPrint
  <2> QED
    BY <2>1, EnqueuedTyped DEF LinkIInv, LinkInv, CommandsTyped
<1>5. host' \in [commands : 0..MaxCommands, sequence : 0..MaxSequence]
  <2>1. PICK c \in 0..MaxCommands : host' = [host EXCEPT !.commands = c]
    BY <1>1, LinkAssumption DEF LinkIInv, LinkInv, LinkAssumption
  <2> QED
    BY <2>1 DEF LinkIInv, LinkInv
<1>6. TxKeeps
  BY <1>1 DEF TxKeeps
<1>7. ArrayInv'
  <2>1. tx' = tx
    BY <1>1 DEF txVars
  <2> QED
    BY <1>1, <1>3, <2>1 DEF LinkIInv, ArrayInv, ArrayFull
<1> QED
  BY <1>1, <1>3, <1>4, <1>5, <1>6, <1>7
  DEF StepWell, TxAny, LinkIInv, RxInv, McrTyped, QueueTyped, LinkInv, FrameTaken,
      PhaseOfFrame, rxVars

\* A sequence command takes one off the host's supply, and finds the main task
\* in its loop.
LEMMA SequenceCommandWell ==
  ASSUME LinkIInv, Orderly, SequenceCommand
  PROVE  /\ host' \in [commands : 0..MaxCommands, sequence : 0..MaxSequence]
         /\ main.pc = "loop" /\ SerialIdle
<1>1. PICK c \in 0..MaxSequence : host' = [host EXCEPT !.sequence = c]
  BY LinkAssumption DEF SequenceCommand, LinkIInv, LinkInv, LinkAssumption
<1>2. host' \in [commands : 0..MaxCommands, sequence : 0..MaxSequence]
  BY <1>1 DEF LinkIInv, LinkInv
<1>3. MaxSequence # 0
  BY LinkAssumption DEF SequenceCommand, LinkIInv, LinkInv, LinkAssumption
<1> QED
  BY <1>2, <1>3 DEF Orderly, SequenceCommand, Settled

\* add_signal_phase as the serial task calls it.
LEMMA AddPeriodWell ==
  ASSUME LinkIInv, NEW p \in SeqPeriods, AddPeriod(p)
  PROVE  TxAny /\ rx' \in RxRecords /\ QueueTyped'
<1>1. "CAN_NOT_PROCESS" \in StatusCodes
  BY DEF StatusCodes
<1>2. p \in Nat
  BY TxAssumption DEF TxAssumption
<1> QED
  BY <1>1, <1>2, QueueErrorTyped DEF AddPeriod, TxAny, TxKeeps, LinkIInv, RxInv, QueueTyped

\* What a step of the serial task leaves alone while main is in its loop.
LEMMA SerialLeaves ==
  ASSUME LinkIInv, main.pc = "loop", UNCHANGED <<ext, main, cmds>>,
         ser' \in Serials, ser'.pc \in {"forget", "empty", "add"} => ser'.arg \in SeqPeriods,
         ser'.pc = "execute" => tx'.index_max > 0,
         host' \in [commands : 0..MaxCommands, sequence : 0..MaxSequence],
         h' \in Histories, bus' \in [edge : BOOLEAN, quiet : 0..Far], TxAny, RxInv'
  PROVE  StepWell
  BY DEF StepWell, LinkIInv, LinkInv, ArrayInv, FrameTaken, PhaseOfFrame, CommandsTyped

\* W
LEMMA SerialStartWell ==
  ASSUME LinkIInv, Orderly, SerialStart \/ SerialReset \/ SerialAdd
  PROVE  StepWell
<1>1. CASE SerialStart
  <2>1. /\ TxAny /\ SequenceCommand
        /\ UNCHANGED <<rxVars, ext, main, cmds, h>> /\ BusFollows
    BY <1>1 DEF SerialStart, TxAny, TxKeeps
  <2>2. PICK p \in SeqPeriods : ser' = Doing("forget", p)
    BY <1>1 DEF SerialStart
  <2>3. p \in Nat
    BY TxAssumption DEF TxAssumption
  <2>4. ser' \in Serials /\ ser'.pc = "forget" /\ ser'.arg = p
    BY <2>2, <2>3 DEF Serials, Doing
  <2>5. RxInv' /\ h' \in Histories /\ bus' \in [edge : BOOLEAN, quiet : 0..Far]
    BY <2>1, BusTyped DEF LinkIInv, LinkInv, RxInv, McrTyped, QueueTyped, rxVars
  <2> QED
    BY <2>1, <2>4, <2>5, SequenceCommandWell, SerialLeaves
<1>2. CASE SerialReset
  <2>1. main.pc = "loop" /\ UNCHANGED <<rxVars, ext, bus, main, cmds, host, h>>
    BY <1>2 DEF SerialReset, LinkIInv, ArrayInv
  <2>2. TxAny
    <3>1. 0 \in 0..255
      OBVIOUS
    <3> QED
      BY <1>2, <3>1 DEF SerialReset, TxAny, TxKeeps
  <2>3. PICK pc \in {"empty", "add"} : ser' = [ser EXCEPT !.pc = pc]
        /\ ser.pc \in {"forget", "empty"}
    BY <1>2 DEF SerialReset
  <2>4. ser' = [pc |-> pc, arg |-> ser.arg]
    BY <2>3 DEF LinkIInv, LinkInv, Serials
  <2>5. ser' \in Serials /\ ser'.pc # "execute" /\ ser'.arg \in SeqPeriods
    BY <2>3, <2>4 DEF LinkIInv, LinkInv, Serials
  <2>6. RxInv' /\ h' \in Histories /\ bus' \in [edge : BOOLEAN, quiet : 0..Far]
        /\ host' \in [commands : 0..MaxCommands, sequence : 0..MaxSequence]
    BY <2>1 DEF LinkIInv, LinkInv, RxInv, McrTyped, QueueTyped, rxVars
  <2> QED
    BY <2>1, <2>2, <2>5, <2>6, SerialLeaves
<1>3. CASE SerialAdd
  <2>1. /\ main.pc = "loop" /\ ser.arg \in SeqPeriods /\ AddPeriod(ser.arg)
        /\ ser' = NothingToDo
        /\ UNCHANGED <<t1, wrap, mcr, age, task, ext, bus, main, cmds, host, h>>
    BY <1>3 DEF SerialAdd, LinkIInv, LinkInv, ArrayInv
  <2>2. ser' \in Serials /\ ser'.pc = "idle"
    BY <2>1 DEF NothingToDo, Doing, Serials
  <2>3. TxAny /\ RxInv'
    BY <2>1, AddPeriodWell DEF LinkIInv, RxInv, McrTyped
  <2>4. h' \in Histories /\ bus' \in [edge : BOOLEAN, quiet : 0..Far]
        /\ host' \in [commands : 0..MaxCommands, sequence : 0..MaxSequence]
    BY <2>1 DEF LinkIInv, LinkInv
  <2> QED
    BY <2>1, <2>2, <2>3, <2>4, SerialLeaves
<1> QED
  BY <1>1, <1>2, <1>3

\* N and X
LEMMA SerialNextWell ==
  ASSUME LinkIInv, Orderly, SerialNext \/ SerialExecute \/ SerialBegin
  PROVE  StepWell
<1>1. CASE SerialNext
  <2>1. /\ SequenceCommand
        /\ UNCHANGED <<t1, wrap, mcr, age, task, ext, bus, main, cmds, ser, h>>
    BY <1>1 DEF SerialNext
  <2>2. PICK p \in SeqPeriods : AddPeriod(p)
    BY <1>1 DEF SerialNext
  <2>3. TxAny /\ RxInv'
    BY <2>1, <2>2, AddPeriodWell DEF LinkIInv, RxInv, McrTyped
  <2>4. h' \in Histories /\ bus' \in [edge : BOOLEAN, quiet : 0..Far]
        /\ ser' \in Serials /\ ser'.pc = "idle"
    BY <2>1, SequenceCommandWell DEF LinkIInv, LinkInv, SerialIdle
  <2> QED
    BY <2>1, <2>3, <2>4, SequenceCommandWell, SerialLeaves
<1>2. CASE SerialExecute
  <2>1. /\ SequenceCommand
        /\ UNCHANGED <<txVars, t1, wrap, mcr, age, task, ext, bus, main, cmds, h>>
    BY <1>2 DEF SerialExecute
  <2>2. TxAny /\ RxInv' /\ ser' \in Serials /\ ser'.pc \in {"idle", "execute"}
        /\ (ser'.pc = "execute" => tx.index_max > 0)
    <3>1. CASE SequenceRefused
      <4>1. queue_error_frame("CAN_NOT_PROCESS") /\ ser' = ser
            /\ "CAN_NOT_PROCESS" \in StatusCodes
        BY <1>2, <3>1 DEF SerialExecute, StatusCodes
      <4> QED
        BY <2>1, <4>1, QueueErrorTyped, SequenceCommandWell
        DEF LinkIInv, LinkInv, RxInv, McrTyped, SerialIdle, TxAny, TxKeeps
    <3>2. CASE ~SequenceRefused
      <4>1. ser' = Doing("execute", 0) /\ UNCHANGED <<rx, rxq>>
        BY <1>2, <3>2 DEF SerialExecute
      <4>2. tx.index_max > 0
        BY <3>2, TxTyped DEF SequenceRefused, LinkIInv, TxFacts
      <4> QED
        BY <2>1, <4>1, <4>2
        DEF LinkIInv, RxInv, McrTyped, QueueTyped, Doing, Serials, TxAny, TxKeeps
    <3> QED
      BY <3>1, <3>2
  <2>3. tx' = tx /\ h' \in Histories /\ bus' \in [edge : BOOLEAN, quiet : 0..Far]
    BY <2>1 DEF txVars, LinkIInv, LinkInv
  <2> QED
    BY <2>1, <2>2, <2>3, SequenceCommandWell, SerialLeaves
<1>3. CASE SerialBegin
  <2>1. /\ ser.pc = "execute" /\ ser' = NothingToDo /\ TxSequenceExecute
        /\ h' = [h EXCEPT !.query = FALSE]
        /\ UNCHANGED <<rxVars, ext, main, cmds, host>> /\ BusFollows
    BY <1>3 DEF SerialBegin
  <2>2. main.pc = "loop" /\ TxAny
    BY <2>1 DEF LinkIInv, ArrayInv, TxAny
  <2>3. ser' \in Serials /\ ser'.pc = "idle"
    BY <2>1 DEF NothingToDo, Doing, Serials
  <2>4. RxInv' /\ h' \in Histories /\ bus' \in [edge : BOOLEAN, quiet : 0..Far]
        /\ host' \in [commands : 0..MaxCommands, sequence : 0..MaxSequence]
    BY <2>1, BusTyped DEF LinkIInv, LinkInv, Histories, RxInv, McrTyped, QueueTyped, rxVars
  <2> QED
    BY <2>1, <2>2, <2>3, <2>4, SerialLeaves
<1> QED
  BY <1>1, <1>2, <1>3

\* The other devices, and time.
LEMMA ExtStep ==
  ASSUME LinkIInv, ExtStart \/ ExtEnd \/ Tick
  PROVE  StepWell
<1>1. CASE ExtStart \/ ExtEnd
  <2>1. UNCHANGED <<txVars, rxVars, main, cmds, ser, host, h>> /\ BusFollows
    BY <1>1 DEF ExtStart, ExtEnd
  <2>2. ext' \in [pin : BOOLEAN, in : -1..Far, left : 0..ExtPulses]
    <3>1. CASE ExtStart
      <4>1. PICK d \in ExtLows : ext' = [pin |-> TRUE, in |-> d, left |-> ext.left - 1]
        BY <3>1 DEF ExtStart
      <4>2. d \in -1..Far
        BY LinkAssumption, ThresholdsOrdered DEF LinkAssumption
      <4>3. ext.left - 1 \in 0..ExtPulses
        BY <3>1, LinkAssumption DEF ExtStart, LinkIInv, LinkInv, LinkAssumption
      <4> QED
        BY <4>1, <4>2, <4>3
    <3>2. CASE ExtEnd
      <4>1. Off \in -1..Far
        BY ThresholdsOrdered DEF Off
      <4> QED
        BY <3>2, <4>1 DEF ExtEnd, LinkIInv, LinkInv
    <3> QED
      BY <1>1, <3>1, <3>2
  <2>3. TxKeeps
    BY <2>1 DEF TxKeeps
  <2> QED
    BY <2>1, <2>2, <2>3, BusTyped, ElsewhereKept
    DEF StepWell, TxAny, LinkIInv, RxInv, McrTyped, QueueTyped, LinkInv, FrameTaken,
        PhaseOfFrame, CommandsTyped, rxVars
<1>2. CASE Tick
  <2>1. TxKeeps /\ RxElapsed /\ UNCHANGED <<task, rxq, cmds, host, h>>
    BY <1>2 DEF Tick, TxKeeps
  <2>2. RxInv'
    BY <2>1, ElapsedTyped DEF LinkIInv
  <2>3. ext' \in [pin : BOOLEAN, in : -1..Far, left : 0..ExtPulses]
    <3>1. ext' = [ext EXCEPT !.in = Sooner(ext.in)] /\ Sooner(ext.in) \in -1..Far
      BY <1>2, MatchTyped DEF Tick, LinkIInv, LinkInv
    <3> QED
      BY <3>1 DEF LinkIInv, LinkInv
  <2>4. bus' \in [edge : BOOLEAN, quiet : 0..Far]
    <3>1. bus' = [bus EXCEPT !.quiet = Older(bus.quiet)] /\ Older(bus.quiet) \in 0..Far
      BY <1>2, AgesTyped DEF Tick, LinkIInv, LinkInv
    <3> QED
      BY <3>1 DEF LinkIInv, LinkInv
  <2>5. main' \in Mains /\ FrameTaken' /\ PhaseOfFrame' /\ main'.pc = main.pc
    <3>1. main' = [pc |-> main.pc, frame |-> main.frame, phase |-> main.phase,
                   start |-> Approach(main.start),
                   late |-> main.pc # "loop" /\ (main.late \/ SerialIdle)]
      BY <1>2 DEF Tick, LinkIInv, LinkInv, Mains
    <3>2. Approach(main.start) \in -1..Far
      BY MatchTyped DEF LinkIInv, LinkInv, Mains
    <3>3. (main.pc # "loop" /\ (main.late \/ SerialIdle)) \in BOOLEAN
      OBVIOUS
    <3> QED
      BY <3>1, <3>2, <3>3 DEF LinkIInv, LinkInv, Mains, FrameTaken, PhaseOfFrame
  <2>6. ser' \in Serials /\ ser'.pc \in {"idle", "print"} /\ ser.pc \in {"idle", "print"}
    <3>1. ser.pc \in {"idle", "print"}
      BY <1>2 DEF Tick, Due, SerialIdle, Printing
    <3>2. CASE ser.arg > 1
      <4>1. ser' = [pc |-> ser.pc, arg |-> ser.arg - 1] /\ ser.arg - 1 \in Nat
        BY <1>2, <3>2 DEF Tick, LinkIInv, LinkInv, Serials
      <4> QED
        BY <3>1, <4>1 DEF Serials
    <3>3. CASE ~(ser.arg > 1)
      BY <1>2, <3>1, <3>3 DEF Tick, NothingToDo, Doing, Serials
    <3> QED
      BY <3>2, <3>3
  <2>7. ArrayInv'
    <3>1. tx'.index_max = tx.index_max
      BY <2>1, TxKeepsTyped DEF LinkIInv
    <3> QED
      BY <2>5, <2>6, <3>1 DEF LinkIInv, ArrayInv, ArrayFull
  <2> QED
    BY <2>1, <2>2, <2>3, <2>4, <2>5, <2>6, <2>7
    DEF StepWell, TxAny, LinkIInv, LinkInv, CommandsTyped
<1> QED
  BY <1>1, <1>2

-----------------------------------------------------------------------------
(* The theorems.                                                           *)

\* The firmware starts within the invariant ...
LEMMA LinkInitIInv == Init => LinkIInv
<1> SUFFICES ASSUME Init PROVE LinkIInv
  OBVIOUS
<1>1. TxTypeOK
  BY TxAssumption, StoppedType DEF Init, TxInit, TxTypeOK, TxAssumption
<1>2. PICK low \in BootLows \cup {Off} :
        ext = [pin |-> low # Off, in |-> low, left |-> ExtPulses]
  BY DEF Init
<1>3. low \in -1..Far /\ Off \in -1..Far /\ 0 \in 0..Far /\ Far \in 0..Far
  BY LinkAssumption, ThresholdsOrdered DEF LinkAssumption, Off
<1>4. RxInv
  <2>1. rx \in RxRecords
    BY <1>3, NoFrameTyped DEF Init, RxInit, RxRecords, RxStatus, Resting, BusDown, FrameTypes
  <2>2. t1 \in Matches
    BY <1>3 DEF Init, RxInit, Matches
  <2>3. wrap \in -Far - 1..Never
    BY LinkAssumption, ThresholdsOrdered DEF Init, RxInit, LinkAssumption
  <2>4. McrTyped
    BY DEF Init, RxInit, McrTyped, Held
  <2>5. age \in Ages /\ task \in Tasks
    BY <1>3 DEF Init, RxInit, Ages, Tasks
  <2>6. QueueTyped
    BY LinkAssumption DEF Init, RxInit, QueueTyped, LinkAssumption
  <2> QED
    BY <2>1, <2>2, <2>3, <2>4, <2>5, <2>6 DEF RxInv
<1>5. LinkInv
  <2>1. ext \in [pin : BOOLEAN, in : -1..Far, left : 0..ExtPulses]
    <3>1. ExtPulses \in 0..ExtPulses
      BY LinkAssumption DEF LinkAssumption
    <3>2. CASE low = Off
      BY <1>2, <1>3, <3>1, <3>2
    <3>3. CASE low # Off
      BY <1>2, <1>3, <3>1, <3>3
    <3> QED
      BY <3>2, <3>3
  <2>2. bus \in [edge : BOOLEAN, quiet : 0..Far]
    BY <1>3 DEF Init
  <2>3. main \in Mains /\ FrameTaken /\ PhaseOfFrame
    BY <1>3 DEF Init, Mains, MainPlaces, FrameTaken, PhaseOfFrame
  <2>4. CommandsTyped /\ ser \in Serials /\ ser.pc = "idle"
    BY LinkAssumption DEF Init, CommandsTyped, LinkAssumption, NothingToDo, Doing, Serials
  <2>5. host \in [commands : 0..MaxCommands, sequence : 0..MaxSequence]
    BY LinkAssumption DEF Init, LinkAssumption
  <2>6. h \in Histories
    BY DEF Init, Histories
  <2> QED
    BY <2>1, <2>2, <2>3, <2>4, <2>5, <2>6 DEF LinkInv
<1>6. ArrayInv
  BY DEF Init, ArrayInv, NothingToDo, Doing
<1> QED
  BY <1>1, <1>4, <1>5, <1>6 DEF LinkIInv

\* ... no step leaves it ...
LEMMA LinkNextIInv == ASSUME Orderly PROVE LinkIInv /\ [Next]_vars => LinkIInv'
<1> SUFFICES ASSUME LinkIInv, [Next]_vars PROVE LinkIInv'
  OBVIOUS
<1>1. CASE UNCHANGED vars
  BY <1>1 DEF vars, txVars, rxVars, linkVars, LinkIInv, TxTypeOK, ArrayInv, ArrayFull,
              RxInv, McrTyped, QueueTyped, LinkInv, FrameTaken, PhaseOfFrame, CommandsTyped
<1>2. CASE Next
  <2>1. StepWell
    BY <1>2, InterruptStep, MainStepWell, HostStep, SerialStartWell, SerialNextWell, ExtStep
    DEF Next, Progress, SerialStep
  <2> QED
    BY <2>1, TxAnyTyped DEF StepWell, LinkIInv
<1> QED
  BY <1>1, <1>2

\* ... so it holds always.
LEMMA LinkInvariant == ASSUME Orderly PROVE Spec => []LinkIInv
  BY LinkInitIInv, LinkNextIInv, PTL DEF Spec

\* LinkTypeOK: every variable of the composition keeps its type, whatever the
\* time scale, the frames, the sizes of the queues and of the array, and
\* wherever the main task is interrupted: no index leaves tx.count by more than
\* the one position past its end the interrupt handler reads, no queue its
\* size.  The host either sends no sequence commands, and frames whenever it
\* likes, or waits for what it asked for before.
THEOREM LinkTypeCorrect == ASSUME HostWaits \/ MaxSequence = 0 PROVE Spec => []LinkTypeOK
<1>1. LinkIInv => LinkTypeOK
  <2> SUFFICES ASSUME LinkIInv PROVE LinkTypeOK
    OBVIOUS
  <2>1. main.phase \in 0..Len(main.frame.phases)
    <3>1. CASE main.frame \in TxFrames
      BY <3>1, FrameTyped DEF LinkIInv, LinkInv, Mains, PhaseOfFrame
    <3>2. CASE main.frame \notin TxFrames
      <4>1. main.frame = NoCommand /\ main.pc \in {"loop", "print"}
        BY <3>2 DEF LinkIInv, LinkInv, Mains, FrameTaken
      <4>2. main.frame.phases = <<>> /\ main.phase = 0
        BY <4>1 DEF NoCommand, LinkIInv, LinkInv, PhaseOfFrame
      <4> QED
        BY <4>2
    <3> QED
      BY <3>1, <3>2
  <2>2. RxTypeOK
    BY RxInvImpliesType DEF LinkIInv
  <2> QED
    BY <2>1, <2>2
    DEF LinkIInv, LinkTypeOK, LinkInv, CommandsTyped, Mains, MainPlaces, Serials, Histories
<1> QED
  BY <1>1, LinkInvariant, PTL DEF Orderly
=============================================================================
