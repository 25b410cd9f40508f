------------------------------ MODULE DaliBits ------------------------------
(***************************************************************************)
(* Bits and microseconds: what calculate_counts and the raw sequences make *)
(* of a frame, how the edges reach the receiver, and what it decodes from  *)
(* them.  DaliTx and DaliRx leave this out: a frame there is the list of   *)
(* its phases, and each length is nominal or far off.                      *)
(*                                                                         *)
(* The adapter receives its own transmissions one after the other, on a    *)
(* bus of its own.  TRUE is the active level, the bus is low.              *)
(***************************************************************************)
EXTENDS Integers, Sequences

CONSTANTS
  Sources,       \* what is sent: see IsSource
  Series,        \* those of them that are sent one after the other
  Jitters,       \* by how much the edge of a frame may be off
  Gaps,          \* milliseconds from the start of one to that of the next
  MaxSent,       \* bound: number of transmissions
  CountModulus   \* counts are modulo 2^32; TLC has only half of that

DALI_MAX_DATA_LENGTH == 32
COUNT_ARRAY_SIZE == 2 + DALI_MAX_DATA_LENGTH * 2 + 1

DALI_TX_FALL_US       == 4
DALI_TX_RISE_US       == 20
DALI_RX_FALL_US       == 20
DALI_RX_RISE_US       == 4
DALI_SAFTEY_MARGIN_US == 8

dali_timing == [half_bit_us |-> 417, full_bit_us |-> 833, corrupt_bit_us |-> 1500,
                stop_condition_us |-> 2450]

max_receive_twice_delay_ms == 95

\* A frame with its bits, most significant first; a corrupt frame; a sequence
\* of periods the receiver has to take for these bits ("legal"), or one it has
\* to refuse ("illegal") after these bits.  A sequence has a period, no active
\* one is so short that its compensation underflows, and none lasts, as it is
\* sent, until the stop condition.
Periods(n) == IF n % 2 = 1 THEN 25..2423 ELSE 1..2375

IsFrame(s) == s.kind \in {"frame", "corrupt"}

IsSource(s) ==
  /\ s.kind \in {"frame", "corrupt", "legal", "illegal"}
  /\ s.bits \in Seq(BOOLEAN) /\ Len(s.bits) <= DALI_MAX_DATA_LENGTH
  /\ s.periods \in Seq(Nat) /\ Len(s.periods) <= COUNT_ARRAY_SIZE
  /\ \A n \in 1..Len(s.periods) : s.periods[n] \in Periods(n)
  /\ s.kind = "corrupt" => s.bits = <<TRUE>>
  /\ ~IsFrame(s) => Len(s.periods) > 0

ASSUME BitsAssumption ==
  /\ \A s \in Sources : IsSource(s)
  /\ Series \subseteq Sources
  /\ Jitters \subseteq Int /\ 0 \in Jitters
  /\ Gaps \subseteq Nat /\ MaxSent \in Nat \ {0}
  /\ CountModulus \in Nat /\ CountModulus > COUNT_ARRAY_SIZE * 2500

VARIABLES
  source,  \* what is on the bus
  tx,      \* count up to index_max, in microseconds, state_now, and whether
           \* the array was too small
  item,    \* what is written next: 0 is the start bit
  edge,    \* edges the receiver has seen, and by how much the last was off
  rx,      \* status, last_data_bit, and what was decoded so far
  report,  \* the report on this transmission
  last,    \* last_frame of is_frame_received_twice, and its age in ms
  past,    \* history: the last complete frame that was sent, and its age
  sent     \* number of transmissions

vars == <<source, tx, item, edge, rx, report, last, past, sent>>

-----------------------------------------------------------------------------
(* The transmitter: the counts are calculated bit by bit, or period by      *)
(* period.                                                                 *)

\* tx_reset
Reset == [count |-> <<>>, state_now |-> TRUE, full |-> FALSE]

\* The end of the last of some phases, to which the next one is added.
End(phases) == IF phases = <<>> THEN 0 ELSE phases[Len(phases)]

\* Faulty variant: the last phase stays when a full bit should replace it.
PhaseKept(e, duration_us, change_last_phase) ==
  [e EXCEPT !.count = Append(@, End(@) + duration_us)]

\* Active phases are shortened and idle ones extended by what the edges add.
\* The parity is that of index_max before the last phase is taken back: what
\* replaces it gets the compensation of the other level.
add_signal_phase(e, duration_us, change_last_phase) ==
  LET shift == DALI_TX_RISE_US + DALI_TX_FALL_US
      now   == IF Len(e.count) % 2 = 1 THEN duration_us + shift ELSE duration_us - shift
      kept  == IF change_last_phase THEN SubSeq(e.count, 1, Len(e.count) - 1) ELSE e.count
  IN IF Len(e.count) >= COUNT_ARRAY_SIZE THEN [e EXCEPT !.full = TRUE]
     ELSE [e EXCEPT !.count = Append(kept, (End(kept) + now) % CountModulus)]

add_bit(e, value) ==
  LET same  == e.state_now = value
      first == add_signal_phase(e, IF same THEN dali_timing.half_bit_us
                                   ELSE dali_timing.full_bit_us, ~same)
  IN [add_signal_phase(first, dali_timing.half_bit_us, FALSE)
        EXCEPT !.state_now = value]

\* The idle half bit before it is part of the stop condition.
add_stop_condition(e) ==
  add_signal_phase(e, dali_timing.stop_condition_us, e.state_now)

\* The phases of a corrupt frame after its start bit
CorruptPhases ==
  [i \in 1..16 |-> IF i = 3 THEN dali_timing.corrupt_bit_us ELSE dali_timing.half_bit_us]

\* How many bits or periods there are between start bit and stop condition.
Items ==
  IF source.kind = "frame" THEN Len(source.bits)
  ELSE IF source.kind = "corrupt" THEN 16
  ELSE Len(source.periods)

Writes(e) ==
  /\ ~tx.full /\ tx' = e /\ item' = item + 1
  /\ UNCHANGED <<source, edge, rx, report, last, past, sent>>

\* calculate_counts: start bit, data bits or the phases of a corrupt frame, and
\* stop condition.  It ends when the array is full.
StartBit == IsFrame(source) /\ item = 0 /\ Writes(add_bit(tx, TRUE))

DataBit ==
  /\ source.kind = "frame" /\ item \in 1..Items
  /\ Writes(add_bit(tx, source.bits[item]))

CorruptPhase ==
  /\ source.kind = "corrupt" /\ item \in 1..Items
  /\ Writes(add_signal_phase(tx, CorruptPhases[item], FALSE))

StopCondition ==
  /\ IsFrame(source) /\ item = Items + 1
  /\ Writes(add_stop_condition(tx))

\* The W and N commands
Period ==
  /\ ~IsFrame(source) /\ item \in 1..Items
  /\ Writes(add_signal_phase(tx, source.periods[item], FALSE))

\* Nothing is sent of a frame that does not fit.
Ready == ~tx.full /\ item = IF IsFrame(source) THEN Items + 2 ELSE Items + 1

\* How often the pin changes, and when.  It is active from the start, toggles
\* at each count but the last, and is released at that if it is still active.
Toggles == Len(tx.count) + (Len(tx.count) % 2)
Toggle(n) == IF n = 1 THEN 0 ELSE tx.count[n - 1]

\* When the receiver captures the n-th change: the bus follows the pin, and
\* the receiver follows the bus.
Captured(n) ==
  Toggle(n) + IF n % 2 = 1 THEN DALI_TX_FALL_US + DALI_RX_FALL_US
              ELSE DALI_TX_RISE_US + DALI_RX_RISE_US

-----------------------------------------------------------------------------
(* The receiver.                                                           *)

\* Faulty variant: the bits stay in rx.frame.
ClearedStatus(r) == [r EXCEPT !.status = "IDLE"]

\* queue_frame or rx_reset at the end.  Two transmissions are far apart, and
\* what IDLE and INTER_FRAME_IDLE do with the next edge is the same.
Cleared(r) == [r EXCEPT !.status = "IDLE", !.data = <<>>]

NoReport == [status |-> "", bits |-> <<>>, bit |-> 0, time_us |-> 0, twice |-> FALSE]

is_valid_halfbit_timing(t) ==
  t \in 333 - DALI_SAFTEY_MARGIN_US .. 500 + DALI_SAFTEY_MARGIN_US
is_valid_fullbit_timing(t) ==
  t \in 666 - DALI_SAFTEY_MARGIN_US .. 1000 + DALI_SAFTEY_MARGIN_US

\* Faulty variant: the level the phase had is taken the other way round.
CorrectedSwapped(t, invert) ==
  LET shift == DALI_RX_FALL_US - DALI_RX_RISE_US
  IN IF rx.last_data_bit # invert THEN t - shift ELSE t + shift

get_corrected_time_difference_us(t, invert) ==
  LET shift == DALI_RX_FALL_US - DALI_RX_RISE_US
  IN IF rx.last_data_bit # invert THEN t + shift ELSE t - shift

\* Faulty variant: the rest of a frame that was reported is decoded.
FailsStays(status, t) ==
  /\ report' = [NoReport EXCEPT !.status = status, !.bit = Len(rx.data), !.time_us = t]
  /\ rx' = [rx EXCEPT !.status = "DATA_BIT_START", !.data = <<>>]

\* queue_error_frame: one report for a frame
Fails(status, t) ==
  /\ report' = [NoReport EXCEPT !.status = status, !.bit = Len(rx.data), !.time_us = t]
  /\ rx' = [rx EXCEPT !.status = "ERROR_IN_FRAME", !.data = <<>>]

Becomes(status) == rx' = [rx EXCEPT !.status = status] /\ UNCHANGED report

Bit(r, value, status) ==
  /\ rx' = [status |-> status, last_data_bit |-> value, data |-> Append(r.data, value)]
  /\ UNCHANGED report

\* The edge that begins a start bit
Begin ==
  /\ rx.status = "IDLE"
  /\ rx' = [rx EXCEPT !.status = "START_BIT_START", !.last_data_bit = TRUE]
  /\ UNCHANGED report

\* check_start_timing
StartEdge(diff) ==
  LET t == get_corrected_time_difference_us(diff, FALSE)
  IN \/ /\ rx.status = "START_BIT_START"
        /\ IF is_valid_halfbit_timing(t) THEN Becomes("START_BIT_INSIDE")
           ELSE Fails("START_TIMING", t)
     \/ /\ rx.status = "DATA_BIT_START"
        /\ IF is_valid_halfbit_timing(t)
           THEN Bit(rx, rx.last_data_bit, "DATA_BIT_INSIDE")
           ELSE Fails("DATA_TIMING", t)

\* check_inside_timing
InsideEdge(diff) ==
  LET t == get_corrected_time_difference_us(diff, TRUE)
  IN /\ rx.status \in {"START_BIT_INSIDE", "DATA_BIT_INSIDE"}
     /\ IF is_valid_halfbit_timing(t) THEN Becomes("DATA_BIT_START")
        ELSE IF is_valid_fullbit_timing(t)
        THEN Bit(rx, ~rx.last_data_bit, "DATA_BIT_INSIDE")
        ELSE Fails("DATA_TIMING", t)

IgnoredEdge == rx.status = "ERROR_IN_FRAME" /\ UNCHANGED <<rx, report>>

Displacements == IF IsFrame(source) THEN Jitters ELSE {0}

\* How long after the edge before it the next one comes.
Since(off) ==
  Captured(edge.n + 1) + off - (IF edge.n = 0 THEN 0 ELSE Captured(edge.n) + edge.off)

\* The capture of the next edge
Edge ==
  /\ Ready /\ edge.n < Toggles
  /\ \E off \in Displacements :
       /\ Begin \/ StartEdge(Since(off)) \/ InsideEdge(Since(off)) \/ IgnoredEdge
       /\ edge' = [n |-> edge.n + 1, off |-> off]
  /\ UNCHANGED <<source, tx, item, last, past, sent>>

\* Faulty variant: a frame that differs does not become the last one.
last_frame_kept(new, twice) == IF twice THEN new ELSE last

\* is_frame_received_twice keeps each complete frame it sees ...
last_frame(new, twice) == new

\* ... and compares it with the one before.
is_frame_received_twice ==
  rx.data = last.bits /\ last.age < max_receive_twice_delay_ms

\* The stop bit match: a complete frame is reported.
StopFrame ==
  /\ edge.n > 0 /\ edge.n = Toggles
  /\ rx.status \notin {"IDLE", "ERROR_IN_FRAME"}
  /\ report' = [NoReport EXCEPT !.status = "OK", !.bits = rx.data,
                                !.twice = is_frame_received_twice]
  /\ last' = last_frame([bits |-> rx.data, age |-> 0], is_frame_received_twice)
  /\ past' = [bits |-> source.bits, age |-> 0]
  /\ rx' = Cleared(rx)
  /\ UNCHANGED <<source, tx, item, edge, sent>>

\* The stop bit match after an error
StopError ==
  /\ edge.n > 0 /\ edge.n = Toggles
  /\ rx.status = "ERROR_IN_FRAME"
  /\ rx' = Cleared(rx)
  /\ UNCHANGED <<source, tx, item, edge, report, last, past, sent>>

Finished == edge.n > 0 /\ edge.n = Toggles /\ rx.status = "IDLE"

-----------------------------------------------------------------------------
Old == max_receive_twice_delay_ms
Aged(f, gap) == [f EXCEPT !.age = IF @ + gap < Old THEN @ + gap ELSE Old]

\* The adapter is up for longer than the receive-twice delay.
Init ==
  /\ source \in Sources
  /\ tx = Reset
  /\ item = IF IsFrame(source) THEN 0 ELSE 1
  /\ edge = [n |-> 0, off |-> 0]
  /\ rx = [status |-> "IDLE", last_data_bit |-> FALSE, data |-> <<>>]
  /\ report = NoReport
  /\ last = [bits |-> <<>>, age |-> Old]
  /\ past = [bits |-> <<>>, age |-> Old]
  /\ sent = 1

\* Bound: of a series of transmissions each is a member of Series.
SendNext ==
  /\ Finished
  /\ sent < MaxSent /\ source \in Series
  /\ source' \in Series
  /\ tx' = Reset
  /\ item' = IF IsFrame(source') THEN 0 ELSE 1
  /\ edge' = [n |-> 0, off |-> 0]
  /\ report' = NoReport
  /\ \E gap \in Gaps : last' = Aged(last, gap) /\ past' = Aged(past, gap)
  /\ sent' = sent + 1
  /\ UNCHANGED rx

Next ==
  \/ StartBit \/ DataBit \/ CorruptPhase \/ StopCondition \/ Period
  \/ Edge \/ StopFrame \/ StopError \/ SendNext

Spec == Init /\ [][Next]_vars

-----------------------------------------------------------------------------
Errors == {"START_TIMING", "DATA_TIMING"}

\* Every variable has its type, and the receiver never collects more bits
\* than are on the bus: rx.frame.data has 32 of them.
BitsTypeOK ==
  /\ source \in Sources /\ sent \in 1..MaxSent
  /\ tx \in [count : Seq(0..CountModulus - 1), state_now : BOOLEAN, full : BOOLEAN]
  /\ item \in 0..Items + 2
  /\ edge.n \in 0..COUNT_ARRAY_SIZE + 1 /\ edge.off \in Jitters
  /\ rx.status \in {"IDLE", "START_BIT_START", "START_BIT_INSIDE", "DATA_BIT_START",
                    "DATA_BIT_INSIDE", "ERROR_IN_FRAME"}
  /\ rx.last_data_bit \in BOOLEAN
  /\ rx.data \in Seq(BOOLEAN) /\ Len(rx.data) <= Len(source.bits)
  /\ report.status \in Errors \cup {"", "OK"} /\ report.twice \in BOOLEAN
  /\ \A f \in {last, past} : f.bits \in Seq(BOOLEAN) /\ f.age \in 0..Old

\* What calculate_counts and the sequence commands hand to the transmitter is
\* what its interrupt relies on: it fits into the array, the times of the
\* matches increase (the compensation underflows for no active period of 25 us
\* or more), and a frame has an even number of phases, so that its last one is
\* idle and is not toggled.
FitsTransmitter ==
  /\ ~tx.full
  /\ Ready => /\ Len(tx.count) \in 1..COUNT_ARRAY_SIZE
              /\ tx.count[1] > 0
              /\ \A i \in 1..Len(tx.count) - 1 : tx.count[i] < tx.count[i + 1]
              /\ IsFrame(source) => Len(tx.count) % 2 = 0

\* What is sent is what is received, wherever the edges lie within their
\* tolerance: a frame and a legal sequence give one report with their bits, a
\* corrupt frame and an illegal sequence give an error report that says after
\* how many bits.  Transmitter and receiver compensate the delays of the two
\* edges each in its own way.
DecodesAsSent ==
  Finished =>
    IF source.kind \in {"frame", "legal"}
    THEN report.status = "OK" /\ report.bits = source.bits
    ELSE report.status \in Errors /\ report.bit = Len(source.bits)

time_loopback_tolerance_us == 10

\* The time in the error report of an illegal sequence is the period that was
\* asked for, within the tolerance of the tests.
MeasuredAsAsked ==
  [][(source.kind = "illegal" /\ report.status = "" /\ report'.status \in Errors)
     => report'.time_us - source.periods[edge.n]
          \in 1 - time_loopback_tolerance_us .. time_loopback_tolerance_us - 1]_vars

\* A frame is flagged as received twice when the last complete frame before it
\* had the same bits and started less than 95 ms earlier, and only then:
\* whatever was refused in between is not a frame.
TwiceFlag ==
  [][(report.status # "OK" /\ report'.status = "OK")
     => (report'.twice <=> /\ past.bits = source.bits
                           /\ past.age < max_receive_twice_delay_ms)]_vars
=============================================================================
