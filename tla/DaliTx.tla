------------------------------- MODULE DaliTx -------------------------------
(***************************************************************************)
(* The transmitter of the DALI driver: struct tx of dali_101_tx.c, timer   *)
(* TMR32B0 that drives the output pin (board/dali.c), and every function   *)
(* that touches them.  Each operation is what the code does, whoever calls *)
(* it; DaliLink composes them with the tasks of the firmware.  TxSpec lets *)
(* its callers do anything the code below them can bear: it states the     *)
(* contract under which the transmitter keeps its promises.                *)
(*                                                                         *)
(* tx.count holds absolute match counts, as in C, in ticks; its positions  *)
(* are one higher than in C.  The pin is TRUE while it pulls the bus low.  *)
(***************************************************************************)
EXTENDS DaliTiming, Sequences, FiniteSets

CONSTANTS
  TxFrames,        \* the frames the main task may send
  CountArraySize,  \* COUNT_ARRAY_SIZE
  SeqPeriods,      \* the periods used to define raw sequences
  StrayCounts      \* what a read one past the end of tx.count may yield

VARIABLES
  tx,  \* struct _tx: count, index_next, index_max, repeat, is_query
  t0   \* TMR32B0: match register, ticks to the match, toggle on match, pin

txVars == <<tx, t0>>

Positions == 1..CountArraySize

\* A frame to send: its type, the length of each phase calculate_counts makes
\* of it, the stop condition being the last one, and the number of repetitions.
IsTxFrame(f) ==
  /\ f.type \in FrameTypes
  /\ f.phases \in Seq(Nat \ {0})
  /\ Len(f.phases) \in Positions
  /\ f.repeat \in 0..255

ASSUME TxAssumption ==
  /\ CountArraySize \in Nat \ {0}
  /\ \A f \in TxFrames : IsTxFrame(f)
  /\ SeqPeriods \subseteq Nat \ {0}
  /\ StrayCounts \subseteq Nat

-----------------------------------------------------------------------------
(* Predicates and pieces shared by the operations.                         *)

\* dali_101_tx_is_idle
TxIsIdle == tx.index_next = 0

\* board_dali_tx_set(DALI_TX_IDLE) followed by board_dali_tx_timer_stop
Stopped == [match |-> 0, in |-> Off, toggle |-> FALSE, pin |-> FALSE]

\* board_dali_tx_timer_setup: restart at zero, pin active, toggle on match
Running(count) == [match |-> count, in |-> count, toggle |-> TRUE, pin |-> TRUE]

TxInit ==
  /\ tx = [count |-> [i \in Positions |-> 0], index_next |-> 0,
           index_max |-> 0, repeat |-> 0, is_query |-> FALSE]
  /\ t0 = Stopped

\* The end of the last phase written so far, to which a new one is added.
Base == IF tx.index_max = 0 THEN 0 ELSE tx.count[tx.index_max]

\* An index is unsigned: one less than 0 is, like others behind the array, kept
\* as Beyond.
Beyond  == CountArraySize + 2
Less(i) == IF i = 0 THEN Beyond ELSE i - 1

\* The values a read of tx.count at a position can return.
CountAt(i) == IF i \in Positions THEN {tx.count[i]} ELSE StrayCounts

\* Ticks until the timer, now at its last match, reaches a count: a count
\* already passed is reached only after the timer has wrapped around.
Until(count) == IF count > t0.match THEN count - t0.match ELSE Off

-----------------------------------------------------------------------------
(* Operations.                                                             *)

\* tx_reset, in the three steps between which a caller may be interrupted: a
\* transmitter that is not idle is stopped ...
TxSilence ==
  /\ t0' = IF TxIsIdle THEN t0 ELSE Stopped
  /\ UNCHANGED tx

\* ... the transmitter becomes idle ...
TxForget ==
  /\ tx' = [tx EXCEPT !.index_next = 0]
  /\ UNCHANGED t0

\* ... and the array empty.  dali_101_sequence_start resets repeat, too.
TxEmpty(repeat) ==
  /\ tx' = [tx EXCEPT !.index_max = 0, !.count[1] = 0, !.repeat = repeat]
  /\ UNCHANGED t0

\* Faulty variant: one phase too many is let in.
ArrayFullLate == tx.index_max > CountArraySize

\* add_signal_phase checks whether there is room ...
ArrayFull == tx.index_max >= CountArraySize

\* ... and writes the end of the phase.  Behind the array lies index_next: a
\* count written there is an index beyond every position.
TxAdd(duration) ==
  /\ tx' = IF tx.index_max < CountArraySize
           THEN [tx EXCEPT !.count[tx.index_max + 1] = Base + duration, !.index_max = @ + 1]
           ELSE [tx EXCEPT !.index_next = Beyond, !.index_max = @ + 1]
  /\ UNCHANGED t0

\* The end of add_stop_condition, and the flags dali_101_send sets.
TxLoad(f) ==
  /\ tx' = [tx EXCEPT !.index_max = Less(@),
                      !.repeat    = f.repeat,
                      !.is_query  = @ \/ f.type \in QueryTypes]
  /\ UNCHANGED t0

\* dali_tx_start_send
TxStart ==
  /\ tx' = [tx EXCEPT !.index_next = 1]
  /\ t0' = Running(tx.count[1])

\* dali_tx_repeat when it returns true
TxRepeat ==
  /\ tx.repeat > 0
  /\ tx' = [tx EXCEPT !.repeat = @ - 1]
  /\ UNCHANGED t0

\* Faulty variant: the phase just played is programmed again.
TxPhaseRepeated ==
  /\ t0.in = 0 /\ tx.index_next <= tx.index_max
  /\ t0' = [t0 EXCEPT !.in = tx.count[tx.index_next], !.pin = ~@]
  /\ tx' = [tx EXCEPT !.index_next = @ + 1]

\* Faulty variant: the toggle is disabled one phase too early.
TxPhaseEarlyDisable ==
  /\ t0.in = 0 /\ tx.index_next <= tx.index_max
  /\ \E count \in CountAt(tx.index_next + 1) :
       t0' = [match  |-> count,
              in     |-> Until(count),
              toggle |-> t0.toggle /\ tx.index_next + 1 < tx.index_max,
              pin    |-> IF t0.toggle THEN ~t0.pin ELSE t0.pin]
  /\ tx' = [tx EXCEPT !.index_next = @ + 1]

\* The match of TMR32B0 toggles the pin and raises dali_tx_irq_callback,
\* which programs the next phase ...
TxPhase ==
  /\ t0.in = 0
  /\ tx.index_next <= tx.index_max
  /\ \E count \in CountAt(tx.index_next + 1) :
       t0' = [match  |-> count,
              in     |-> Until(count),
              toggle |-> t0.toggle /\ tx.index_next < tx.index_max,
              pin    |-> IF t0.toggle THEN ~t0.pin ELSE t0.pin]
  /\ tx' = [tx EXCEPT !.index_next = @ + 1]

\* Faulty variant: the timer is not stopped.
TxEndKeepsTimer ==
  /\ t0.in = 0 /\ tx.index_next > tx.index_max
  /\ t0' = [t0 EXCEPT !.pin = FALSE]
  /\ tx' = [tx EXCEPT !.index_next = IF tx.repeat = 0 THEN 0 ELSE @,
                      !.is_query = FALSE]

\* Faulty variant: the position is not reset after the last repetition.
TxEndStaysBusy ==
  /\ t0.in = 0 /\ tx.index_next > tx.index_max
  /\ t0' = Stopped
  /\ tx' = [tx EXCEPT !.is_query = FALSE]

\* Faulty variant: the query flag survives the query.
TxEndKeepsQuery ==
  /\ t0.in = 0 /\ tx.index_next > tx.index_max
  /\ t0' = Stopped
  /\ tx' = [tx EXCEPT !.index_next = IF tx.repeat = 0 THEN 0 ELSE @]

\* Faulty variant: the timer is stopped, the pin is left as it is.
TxEndKeepsPin ==
  /\ t0.in = 0 /\ tx.index_next > tx.index_max
  /\ t0' = [Stopped EXCEPT !.pin = t0.pin]
  /\ tx' = [tx EXCEPT !.index_next = IF tx.repeat = 0 THEN 0 ELSE @,
                      !.is_query = FALSE]

\* ... or, after the stop condition, releases the bus.  A transmitter that
\* owes repetitions keeps its index, that is, it does not become idle.
TxEnd ==
  /\ t0.in = 0
  /\ tx.index_next > tx.index_max
  /\ t0' = Stopped
  /\ tx' = [tx EXCEPT !.index_next = IF tx.repeat = 0 THEN 0 ELSE @,
                      !.is_query   = FALSE]

\* dali_101_sequence_execute
SequenceRefused == tx.index_next >= tx.index_max \/ tx.index_max = 0

TxSequenceExecute ==
  /\ tx' = [tx EXCEPT !.index_max = Less(@), !.index_next = 1]
  /\ t0' = Running(tx.count[1])

\* Time passes; a match that is due is served first.
TxElapsed == [t0 EXCEPT !.in = Sooner(@)]

TxTick ==
  /\ t0.in # 0
  /\ t0' = TxElapsed
  /\ UNCHANGED tx

-----------------------------------------------------------------------------
(* The contract.  The phases a transmission is going to play have to be    *)
(* complete before it starts, and stay as they are until it is over, and   *)
(* nothing may start between the steps of a reset.  The code checks none   *)
(* of this, it relies on its callers.                                      *)

\* The lengths of phases anybody asks for.
Durations ==
  SeqPeriods \cup UNION {{f.phases[i] : i \in DOMAIN f.phases} : f \in TxFrames}

Playable ==
  /\ tx.index_max < CountArraySize
  /\ \A i \in 1..tx.index_max : tx.count[i] < tx.count[i + 1]

TxNext ==
  \/ TxSilence
  \/ t0 = Stopped /\ (TxForget \/ \E repeat \in {0, tx.repeat} : TxEmpty(repeat))
  \/ \E p \in Durations : TxIsIdle /\ ~ArrayFull /\ TxAdd(p)
  \/ \E f \in TxFrames : TxIsIdle /\ tx.index_max > 0 /\ TxLoad(f)
  \/ Playable /\ TxStart
  \/ TxRepeat
  \/ TxPhase
  \/ TxEnd
  \/ ~SequenceRefused /\ TxSequenceExecute
  \/ TxTick

TxSpec == TxInit /\ [][TxNext]_txVars

-----------------------------------------------------------------------------
(* Properties.                                                             *)

\* The C types of struct tx, with the index ranges the array leaves room for.
TxTypeOK ==
  /\ tx \in [count : [Positions -> Nat], index_next : 0..CountArraySize + 1,
             index_max : 0..CountArraySize, repeat : 0..255, is_query : BOOLEAN]
  /\ t0 \in [match : Nat, in : Nat \cup {Off}, toggle : BOOLEAN, pin : BOOLEAN]

\* As long as its callers keep the contract the transmitter never leaves the
\* bus pulled low with nothing left to release it: an active pin always has
\* a match to come (dali_tx_irq_callback, add_signal_phase).
BusReleased == t0.pin => t0.in # Off

\* An idle transmitter has let go of the pin and stopped its timer, whatever
\* was called, and when: no interrupt comes that would find index_next at 0
\* (tx_reset, dali_tx_irq_callback).
IdleIsSilent == TxIsIdle => t0 = Stopped

\* The phases alternate: while a transmission runs, the pin is active in the
\* odd phases and idle in the even ones, up to and including the last phase,
\* whose end releases the bus.  Every frame calculate_counts builds has an
\* even number of phases, so its stop condition is sent with the bus idle,
\* however often the transmission was restarted, cut short or repeated.
PhasePolarity ==
  t0.in # Off => (t0.pin <=> tx.index_next % 2 = 1)

\* The interrupt handler never reads past the phases that were written: the
\* count it waits for is the end of the phase being sent, at its place in
\* the array, even when a caller reset or shortened the array meanwhile.
PlaysWhatWasLoaded ==
  t0.in # Off => /\ tx.index_next \in 1..tx.index_max + 1
                 /\ t0.match = tx.count[tx.index_next]
=============================================================================
