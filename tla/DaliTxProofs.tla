---------------------------- MODULE DaliTxProofs ----------------------------
(***************************************************************************)
(* Proofs about the transmitter: for every array size, every set of frames *)
(* and every period of a raw sequence, the contract of DaliTx is enough    *)
(* for its promises.                                                       *)
(*                                                                         *)
(* The promises are not inductive by themselves.  That a match is always   *)
(* still to come rests on the counts increasing as far as they are played  *)
(* (Playable), which the interrupt handler never checks; so the invariant  *)
(* follows the array from the operations that fill it, for which Built     *)
(* holds, to those that start playing it.                                  *)
(***************************************************************************)
EXTENDS DaliTx, TLAPS

\* The phases written so far end one after the other.
Built == \A i \in 1..tx.index_max - 1 : tx.count[i] < tx.count[i + 1]

\* A transmitter that waits for no match has stopped its timer altogether.
StoppedOrRunning == t0.in = Off => t0 = Stopped

\* What is true as long as a transmission runs.
RunningWell ==
  t0.in # Off =>
    /\ Playable
    /\ tx.index_next \in 1..tx.index_max + 1
    /\ t0.match = tx.count[tx.index_next]
    /\ t0.pin <=> tx.index_next % 2 = 1
    /\ tx.index_next <= tx.index_max => t0.toggle

TxIInv ==
  /\ TxTypeOK
  /\ Built
  /\ StoppedOrRunning
  /\ IdleIsSilent
  /\ RunningWell

-----------------------------------------------------------------------------
(* Facts about the pieces.                                                 *)

\* The half of the bit after an odd one is even, and the other way round.
LEMMA ParityFlips ==
  ASSUME NEW n \in Nat
  PROVE  (n + 1) % 2 = 1 <=> ~(n % 2 = 1)
  OBVIOUS

\* A stopped timer has the type of a timer and waits for nothing.
LEMMA StoppedType ==
  /\ Stopped \in [match : Nat, in : Nat \cup {Off}, toggle : BOOLEAN, pin : BOOLEAN]
  /\ Stopped.in = Off
  BY DEF Stopped, Off

\* Writing a natural number into an array of natural numbers, or past it.
LEMMA UpdateType ==
  ASSUME NEW S, NEW a \in [S -> Nat], NEW i, NEW n \in Nat
  PROVE  [a EXCEPT ![i] = n] \in [S -> Nat]
  OBVIOUS

\* Whatever anybody asks for, a phase takes time.
LEMMA DurationsPositive ==
  ASSUME TxAssumption, NEW p \in Durations
  PROVE  p \in Nat \ {0}
PROOF
  <1>1. CASE p \in SeqPeriods
    BY <1>1 DEF TxAssumption
  <1>2. ASSUME NEW f \in TxFrames, p \in {f.phases[i] : i \in DOMAIN f.phases}
        PROVE  p \in Nat \ {0}
    <2>1. f.phases \in Seq(Nat \ {0})
      BY DEF TxAssumption, IsTxFrame
    <2> QED  BY <1>2, <2>1
  <1> QED  BY <1>1, <1>2 DEF Durations

-----------------------------------------------------------------------------
(* Every operation preserves the invariant: one lemma each.                *)

\* An invariant of a stopped transmitter needs its type and Built only.
LEMMA StoppedIsWell ==
  ASSUME TxTypeOK', Built', t0' = Stopped
  PROVE  TxIInv'
  BY StoppedType DEF TxIInv, StoppedOrRunning, IdleIsSilent, RunningWell

\* What main starts with: nothing written, nothing running.
LEMMA InitWell == TxInit /\ TxAssumption => TxIInv
PROOF
  <1> SUFFICES ASSUME TxInit, TxAssumption PROVE TxIInv
    OBVIOUS
  <1>1. TxTypeOK
    BY StoppedType DEF TxInit, TxTypeOK, TxAssumption, Positions
  <1>2. Built
    BY DEF TxInit, Built
  <1>3. t0 = Stopped
    BY DEF TxInit
  <1> QED
    BY <1>1, <1>2, <1>3, StoppedType
    DEF TxIInv, StoppedOrRunning, IdleIsSilent, RunningWell

\* tx_reset stops a transmitter that is not idle ...
LEMMA SilenceWell ==
  ASSUME TxIInv, TxAssumption, TxSilence
  PROVE  TxIInv' /\ t0' = Stopped
PROOF
  <1>1. t0' = Stopped /\ tx' = tx
    BY DEF TxSilence, TxIInv, IdleIsSilent
  <1>2. TxTypeOK' /\ Built'
    BY <1>1, StoppedType DEF TxIInv, TxTypeOK, Built
  <1> QED  BY <1>1, <1>2, StoppedIsWell

\* ... the transmitter becomes idle ...
LEMMA ForgetWell ==
  ASSUME TxIInv, TxAssumption, t0 = Stopped, TxForget
  PROVE  TxIInv'
PROOF
  <1>1. /\ t0' = Stopped
        /\ tx' = [count |-> tx.count, index_next |-> 0, index_max |-> tx.index_max,
                  repeat |-> tx.repeat, is_query |-> tx.is_query]
    BY DEF TxForget, TxIInv, TxTypeOK
  <1>2. TxTypeOK' /\ Built'
    BY <1>1, StoppedType DEF TxIInv, TxTypeOK, Built, TxAssumption
  <1> QED  BY <1>1, <1>2, StoppedIsWell

\* ... and its array empty.
LEMMA EmptyWell ==
  ASSUME TxIInv, TxAssumption, t0 = Stopped,
         NEW repeat \in 0..255, TxEmpty(repeat)
  PROVE  TxIInv'
PROOF
  <1>1. /\ t0' = Stopped
        /\ tx' = [count |-> [tx.count EXCEPT ![1] = 0], index_next |-> tx.index_next,
                  index_max |-> 0, repeat |-> repeat, is_query |-> tx.is_query]
    BY DEF TxEmpty, TxIInv, TxTypeOK
  <1>2. [tx.count EXCEPT ![1] = 0] \in [Positions -> Nat]
    BY UpdateType DEF TxIInv, TxTypeOK
  <1>3. TxTypeOK' /\ Built'
    BY <1>1, <1>2, StoppedType DEF TxIInv, TxTypeOK, Built, TxAssumption
  <1> QED  BY <1>1, <1>3, StoppedIsWell

\* add_signal_phase appends a phase to an array with room for it.
LEMMA AddWell ==
  ASSUME TxIInv, TxAssumption, NEW p \in Nat \ {0}, TxIsIdle, ~ArrayFull, TxAdd(p)
  PROVE  TxIInv'
PROOF
  <1> DEFINE m == tx.index_max
  <1>1. /\ CountArraySize \in Nat \ {0} /\ p \in Nat \ {0}
        /\ m \in 0..CountArraySize /\ m < CountArraySize
        /\ tx.count \in [Positions -> Nat]
    BY DEF TxAssumption, TxIInv, TxTypeOK, ArrayFull
  <1>2. Base \in Nat /\ (m > 0 => Base = tx.count[m])
    BY <1>1 DEF Base, Positions
  <1>3. t0' = Stopped
    BY DEF TxAdd, TxIInv, IdleIsSilent
  <1>4. tx' = [count |-> [tx.count EXCEPT ![m + 1] = Base + p],
               index_next |-> tx.index_next, index_max |-> m + 1,
               repeat |-> tx.repeat, is_query |-> tx.is_query]
    BY <1>1 DEF TxAdd, TxIInv, TxTypeOK
  <1>7. TxTypeOK'
    <2>1. Base + p \in Nat
      BY <1>1, <1>2
    <2>2. [tx.count EXCEPT ![m + 1] = Base + p] \in [Positions -> Nat]
      BY <1>1, <2>1, UpdateType
    <2> QED  BY <1>1, <1>3, <1>4, <2>2, StoppedType DEF TxIInv, TxTypeOK
  <1>5. ASSUME NEW i \in 1..m
        PROVE  tx'.count[i] < tx'.count[i + 1]
    <2>1. i \in Positions /\ i + 1 \in Positions /\ i # m + 1 /\ m + 1 \in Positions
      BY <1>1 DEF Positions
    <2>2. CASE i = m
      BY <2>1, <2>2, <1>1, <1>2, <1>4
    <2>3. CASE i # m
      <3>1. i \in 1..tx.index_max - 1 /\ i + 1 # m + 1
        BY <2>3, <1>1
      <3>2. tx.count[i] < tx.count[i + 1]
        BY <3>1 DEF TxIInv, Built
      <3> QED  BY <3>1, <3>2, <2>1, <1>1, <1>4
    <2> QED  BY <2>2, <2>3
  <1>6. Built'
    BY <1>1, <1>4, <1>5 DEF Built
  <1> QED  BY <1>3, <1>6, <1>7, StoppedIsWell

\* dali_101_send takes the last phase for the stop condition and sets the flags.
LEMMA LoadWell ==
  ASSUME TxIInv, TxAssumption, NEW f \in TxFrames, TxIsIdle, tx.index_max > 0, TxLoad(f)
  PROVE  TxIInv'
PROOF
  <1>1. /\ CountArraySize \in Nat \ {0} /\ tx.index_max \in 1..CountArraySize
        /\ f.repeat \in 0..255
    BY DEF TxAssumption, IsTxFrame, TxIInv, TxTypeOK
  <1>2. /\ t0' = Stopped
        /\ tx' = [count |-> tx.count, index_next |-> tx.index_next,
                  index_max |-> tx.index_max - 1, repeat |-> f.repeat,
                  is_query |-> tx.is_query \/ f.type \in QueryTypes]
    <2>1. Less(tx.index_max) = tx.index_max - 1
      BY <1>1 DEF Less
    <2> QED  BY <2>1 DEF TxLoad, TxIInv, TxTypeOK, IdleIsSilent
  <1>3. TxTypeOK'
    BY <1>1, <1>2, StoppedType DEF TxIInv, TxTypeOK
  <1>4. Built'
    BY <1>1, <1>2 DEF TxIInv, Built
  <1> QED  BY <1>2, <1>3, <1>4, StoppedIsWell

\* What a start leaves behind is well if the phases it is going to play end
\* one after the other and leave a place in the array.
LEMMA StartedIsWell ==
  ASSUME TxIInv, TxAssumption, NEW m \in 0..tx.index_max, m < CountArraySize,
         \A i \in 1..m : tx.count[i] < tx.count[i + 1],
         tx' = [count |-> tx.count, index_next |-> 1, index_max |-> m,
                repeat |-> tx.repeat, is_query |-> tx.is_query],
         t0' = Running(tx.count[1])
  PROVE  TxIInv'
PROOF
  <1>1. /\ CountArraySize \in Nat \ {0}
        /\ tx.index_max \in 0..CountArraySize
        /\ tx.count \in [Positions -> Nat] /\ tx.count[1] \in Nat
    BY DEF TxAssumption, TxIInv, TxTypeOK, Positions
  <1>2. TxTypeOK'
    <2>1. 1 \in 0..CountArraySize + 1 /\ m \in 0..CountArraySize
      BY <1>1
    <2>2. tx' \in [count : [Positions -> Nat], index_next : 0..CountArraySize + 1,
                   index_max : 0..CountArraySize, repeat : 0..255,
                   is_query : BOOLEAN]
      BY <1>1, <2>1 DEF TxIInv, TxTypeOK
    <2>3. t0' \in [match : Nat, in : Nat \cup {Off}, toggle : BOOLEAN,
                   pin : BOOLEAN]
      BY <1>1 DEF Running
    <2> QED  BY <2>2, <2>3 DEF TxTypeOK
  <1>3. Built' /\ Playable'
    <2>1. tx'.index_max = m /\ tx'.count = tx.count
      OBVIOUS
    <2>2. m \in Nat /\ \A i \in 1..m - 1 : i \in 1..m
      BY <1>1
    <2> QED  BY <2>1, <2>2 DEF Built, Playable
  <1>4. t0'.in # Off
    BY <1>1 DEF Running, Off
  <1>5. RunningWell'
    BY <1>1, <1>3 DEF RunningWell, Running
  <1> QED  BY <1>2, <1>3, <1>4, <1>5
           DEF TxIInv, StoppedOrRunning, IdleIsSilent, TxIsIdle

\* dali_tx_start_send, of a frame whose phases are complete.
LEMMA StartWell ==
  ASSUME TxIInv, TxAssumption, Playable, TxStart
  PROVE  TxIInv'
PROOF
  <1>1. tx' = [count |-> tx.count, index_next |-> 1, index_max |-> tx.index_max,
               repeat |-> tx.repeat, is_query |-> tx.is_query]
    BY DEF TxStart, TxIInv, TxTypeOK
  <1>2. tx.index_max \in 0..tx.index_max
    BY DEF TxIInv, TxTypeOK, TxAssumption
  <1> QED  BY <1>1, <1>2, StartedIsWell DEF Playable, TxStart

\* dali_101_sequence_execute plays all periods but the last, which it takes
\* for the stop condition; that one is where the room comes from.
LEMMA SequenceExecuteWell ==
  ASSUME TxIInv, TxAssumption, ~SequenceRefused, TxSequenceExecute
  PROVE  TxIInv'
PROOF
  <1> DEFINE m == tx.index_max - 1
  <1>1. /\ CountArraySize \in Nat \ {0} /\ tx.index_max \in 1..CountArraySize
        /\ m \in 0..tx.index_max /\ m < CountArraySize
    BY DEF SequenceRefused, TxIInv, TxTypeOK, TxAssumption
  <1>2. tx' = [count |-> tx.count, index_next |-> 1, index_max |-> m,
               repeat |-> tx.repeat, is_query |-> tx.is_query]
    <2>1. Less(tx.index_max) = m
      BY <1>1 DEF Less
    <2> HIDE DEF m
    <2> QED  BY <2>1 DEF TxSequenceExecute, TxIInv, TxTypeOK
  <1>3. \A i \in 1..m : tx.count[i] < tx.count[i + 1]
    BY DEF TxIInv, Built
  <1>4. t0' = Running(tx.count[1])
    BY DEF TxSequenceExecute
  <1> HIDE DEF m
  <1> QED  BY <1>1, <1>2, <1>3, <1>4, StartedIsWell

\* dali_tx_repeat touches the number of repetitions only.
LEMMA RepeatWell ==
  ASSUME TxIInv, TxAssumption, TxRepeat
  PROVE  TxIInv'
PROOF
  <1>1. /\ tx.repeat - 1 \in 0..255
        /\ tx' = [count |-> tx.count, index_next |-> tx.index_next,
                  index_max |-> tx.index_max, repeat |-> tx.repeat - 1,
                  is_query |-> tx.is_query]
        /\ t0' = t0
    BY DEF TxRepeat, TxIInv, TxTypeOK
  <1>2. TxTypeOK'
    BY <1>1 DEF TxIInv, TxTypeOK
  <1> QED  BY <1>1, <1>2
           DEF TxIInv, Built, StoppedOrRunning, IdleIsSilent, TxIsIdle,
               RunningWell, Playable

\* dali_tx_irq_callback in the middle of a transmission: the count it waits
\* for next exists and lies ahead, so the match is still to come.
LEMMA PhaseWell ==
  ASSUME TxIInv, TxAssumption, TxPhase
  PROVE  TxIInv'
PROOF
  <1> DEFINE n == tx.index_next
             m == tx.index_max
  <1>1. /\ CountArraySize \in Nat \ {0}
        /\ t0.in # Off /\ n <= m
    BY DEF TxPhase, TxAssumption, Off
  <1>2. /\ n \in 1..m /\ m \in Nat /\ m < CountArraySize
        /\ tx.count \in [Positions -> Nat]
        /\ t0.match = tx.count[n]
        /\ t0.pin <=> n % 2 = 1
        /\ t0.toggle = TRUE /\ t0.pin \in BOOLEAN
    BY <1>1 DEF TxIInv, TxTypeOK, RunningWell, Playable
  <1>3. n + 1 \in Positions /\ n \in Positions /\ n \in Nat
    BY <1>1, <1>2 DEF Positions
  <1> DEFINE next == tx.count[n + 1]
  <1>4. next \in Nat /\ t0.match \in Nat /\ t0.match < next
    BY <1>1, <1>2, <1>3 DEF TxIInv, RunningWell, Playable
  <1>5. /\ t0' = [match |-> next, in |-> next - t0.match,
                  toggle |-> n < m, pin |-> ~t0.pin]
        /\ tx' = [tx EXCEPT !.index_next = n + 1]
    BY <1>2, <1>3, <1>4 DEF TxPhase, CountAt, Until
  <1>6. tx' = [count |-> tx.count, index_next |-> n + 1, index_max |-> m,
               repeat |-> tx.repeat, is_query |-> tx.is_query]
    BY <1>5 DEF TxIInv, TxTypeOK
  <1>7. next - t0.match \in Nat /\ n + 1 \in 1..m + 1
    BY <1>2, <1>4
  <1>8. TxTypeOK'
    BY <1>1, <1>2, <1>4, <1>5, <1>6, <1>7 DEF TxIInv, TxTypeOK
  <1>9. Built' /\ Playable'
    BY <1>1, <1>6 DEF TxIInv, Built, RunningWell, Playable
  <1>10. t0'.in # Off /\ tx'.index_next # 0
    BY <1>3, <1>5, <1>6, <1>7 DEF Off
  <1>11. t0'.pin <=> tx'.index_next % 2 = 1
    <2>1. (n + 1) % 2 = 1 <=> ~(n % 2 = 1)
      BY <1>3, ParityFlips
    <2>2. t0'.pin = ~t0.pin /\ tx'.index_next = n + 1
      BY <1>5, <1>6
    <2> QED  BY <2>1, <2>2, <1>2
  <1>12. RunningWell'
    <2>1. tx'.index_next = n + 1 /\ tx'.index_max = m /\ tx'.count = tx.count
      BY <1>6
    <2>2. tx'.index_next \in 1..tx'.index_max + 1
      BY <2>1, <1>7
    <2>3. t0'.match = tx'.count[tx'.index_next]
      BY <2>1, <1>5
    <2>4. tx'.index_next <= tx'.index_max => t0'.toggle
      <3>1. t0'.toggle = (n < m)
        BY <1>5
      <3>2. n + 1 <= m => n < m
        BY <1>2
      <3> QED  BY <2>1, <3>1, <3>2
    <2> QED  BY <2>2, <2>3, <2>4, <1>9, <1>11 DEF RunningWell
  <1> QED  BY <1>8, <1>9, <1>10, <1>12
           DEF TxIInv, StoppedOrRunning, IdleIsSilent, TxIsIdle

\* dali_tx_irq_callback after the stop condition releases the bus.
LEMMA EndWell ==
  ASSUME TxIInv, TxAssumption, TxEnd
  PROVE  TxIInv'
PROOF
  <1> DEFINE n == IF tx.repeat = 0 THEN 0 ELSE tx.index_next
  <1>1. /\ t0' = Stopped
        /\ tx' = [count |-> tx.count, index_next |-> n, index_max |-> tx.index_max,
                  repeat |-> tx.repeat, is_query |-> FALSE]
    BY DEF TxEnd, TxIInv, TxTypeOK
  <1>2. n \in 0..CountArraySize + 1
    BY DEF TxIInv, TxTypeOK, TxAssumption
  <1>3. TxTypeOK'
    BY <1>1, <1>2, StoppedType DEF TxIInv, TxTypeOK
  <1>4. Built'
    BY <1>1 DEF TxIInv, Built
  <1> QED  BY <1>1, <1>3, <1>4, StoppedIsWell

\* Time brings a match closer and stops at it.
LEMMA TickWell ==
  ASSUME TxIInv, TxAssumption, TxTick
  PROVE  TxIInv'
PROOF
  <1>1. /\ t0.in \in Nat \cup {Off} /\ t0.in # 0
        /\ tx' = tx
        /\ t0' = [match |-> t0.match, in |-> Sooner(t0.in),
                  toggle |-> t0.toggle, pin |-> t0.pin]
    BY DEF TxTick, TxElapsed, TxIInv, TxTypeOK
  <1>2. /\ Sooner(t0.in) \in Nat \cup {Off}
        /\ Sooner(t0.in) = Off <=> t0.in = Off
    BY <1>1 DEF Sooner, Off
  <1>3. TxTypeOK'
    BY <1>1, <1>2 DEF TxIInv, TxTypeOK
  <1>4. Built'
    BY <1>1 DEF TxIInv, Built
  <1>5. CASE t0.in = Off
    <2>1. t0 = Stopped
      BY <1>5 DEF TxIInv, StoppedOrRunning
    <2>2. t0' = Stopped
      BY <2>1, <1>1 DEF Sooner, Stopped, Off
    <2> QED  BY <2>2, <1>3, <1>4, StoppedIsWell
  <1>6. CASE t0.in # Off
    <2>1. RunningWell'
      BY <1>1, <1>6 DEF TxIInv, RunningWell, Playable
    <2>2. t0'.in # Off /\ ~TxIsIdle'
      BY <1>1, <1>2, <1>6, StoppedType DEF TxIInv, IdleIsSilent, TxIsIdle
    <2> QED  BY <2>1, <2>2, <1>3, <1>4
             DEF TxIInv, StoppedOrRunning, IdleIsSilent
  <1> QED  BY <1>5, <1>6

-----------------------------------------------------------------------------
(* The theorems.                                                           *)

\* Whatever its callers do within the contract keeps the invariant.
LEMMA NextWell ==
  ASSUME TxIInv, TxAssumption, [TxNext]_txVars
  PROVE  TxIInv'
PROOF
  <1>1. CASE TxSilence
    BY <1>1, SilenceWell
  <1>2. CASE t0 = Stopped /\ (TxForget \/ \E repeat \in {0, tx.repeat} : TxEmpty(repeat))
    <2>1. 0 \in 0..255 /\ tx.repeat \in 0..255
      BY DEF TxIInv, TxTypeOK
    <2> QED  BY <1>2, <2>1, ForgetWell, EmptyWell
  <1>3. CASE Playable /\ TxStart
    BY <1>3, StartWell
  <1>4. CASE TxRepeat
    BY <1>4, RepeatWell
  <1>5. CASE TxPhase
    BY <1>5, PhaseWell
  <1>6. CASE TxEnd
    BY <1>6, EndWell
  <1>7. CASE \E p \in Durations : TxIsIdle /\ ~ArrayFull /\ TxAdd(p)
    BY <1>7, DurationsPositive, AddWell
  <1>8. CASE \E f \in TxFrames : TxIsIdle /\ tx.index_max > 0 /\ TxLoad(f)
    BY <1>8, LoadWell
  <1>9. CASE ~SequenceRefused /\ TxSequenceExecute
    BY <1>9, SequenceExecuteWell
  <1>10. CASE TxTick
    BY <1>10, TickWell
  <1>11. CASE UNCHANGED txVars
    BY <1>11
    DEF txVars, TxIInv, TxTypeOK, Built, StoppedOrRunning, IdleIsSilent,
        TxIsIdle, RunningWell, Playable
  <1> QED
    BY <1>1, <1>2, <1>3, <1>4, <1>5, <1>6, <1>7, <1>8, <1>9, <1>10, <1>11
    DEF TxNext

\* The inductive invariant holds in every state of the transmitter.
THEOREM TxInvariant == TxSpec => []TxIInv
PROOF
  <1>1. TxInit => TxIInv
    BY InitWell, TxAssumption
  <1>2. TxIInv /\ [TxNext]_txVars => TxIInv'
    BY NextWell, TxAssumption
  <1> QED  BY <1>1, <1>2, PTL DEF TxSpec

\* The C types of struct tx and the index ranges: whatever the sizes of the
\* array and of the frames, no operation takes index_max past the end of
\* tx.count or counts the repetitions below zero (dali_tx_repeat), as long as
\* nothing comes between check and write of add_signal_phase.
THEOREM TxTypeCorrect == TxSpec => []TxTypeOK
PROOF
  <1>1. TxIInv => TxTypeOK
    BY DEF TxIInv
  <1> QED  BY <1>1, TxInvariant, PTL

\* Whatever is sent, cut short, repeated or restarted: while the pin pulls the
\* bus low there is a match to come that releases it (dali_tx_irq_callback).
THEOREM TxReleasesBus == TxSpec => []BusReleased
PROOF
  <1>1. TxIInv => BusReleased
    <2> SUFFICES ASSUME TxIInv, t0.in = Off
                 PROVE  ~t0.pin
      BY DEF BusReleased
    <2>1. t0 = Stopped
      BY DEF TxIInv, StoppedOrRunning
    <2> QED  BY <2>1 DEF Stopped
  <1> QED  BY <1>1, TxInvariant, PTL

\* An idle transmitter has let go of the pin and stopped its timer: tx_reset,
\* whenever it comes, leaves no match behind as long as nothing starts between
\* its steps.
THEOREM TxIdleSilent == TxSpec => []IdleIsSilent
PROOF
  <1>1. TxIInv => IdleIsSilent
    BY DEF TxIInv
  <1> QED  BY <1>1, TxInvariant, PTL

\* The polarity of the phase being sent follows from its position alone, for
\* every frame and every sequence of periods.
THEOREM TxPolarity == TxSpec => []PhasePolarity
PROOF
  <1>1. TxIInv => PhasePolarity
    BY DEF TxIInv, RunningWell, PhasePolarity
  <1> QED  BY <1>1, TxInvariant, PTL

\* dali_tx_irq_callback reads only counts that were written for the
\* transmission it plays: no stale count, nothing past the end of the array.
THEOREM TxPlaysLoaded == TxSpec => []PlaysWhatWasLoaded
PROOF
  <1>1. TxIInv => PlaysWhatWasLoaded
    BY DEF TxIInv, RunningWell, PlaysWhatWasLoaded
  <1> QED  BY <1>1, TxInvariant, PTL
=============================================================================
