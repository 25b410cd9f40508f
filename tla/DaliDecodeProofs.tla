-------------------------- MODULE DaliDecodeProofs --------------------------
(***************************************************************************)
(* The receiver decodes what the encoder of DaliBitsProofs has made of a   *)
(* frame, wherever each edge lies within its tolerance.                    *)
(***************************************************************************)
EXTENDS DaliBitsProofs

-----------------------------------------------------------------------------
(* The receiver: its level is that of the pin, so what it corrects is what   *)
(* the edges add.                                                            *)

Starts   == {"START_BIT_START", "DATA_BIT_START"}
Insides  == {"START_BIT_INSIDE", "DATA_BIT_INSIDE"}
Statuses == {"IDLE", "ERROR_IN_FRAME"} \cup Starts \cup Insides

Receivers == [status : Statuses, last_data_bit : BOOLEAN, data : Seq(BOOLEAN)]
Reports   == [status : Errors \cup {"", "OK"}, bits : Seq(BOOLEAN), bit : Nat,
              time_us : Int, twice : BOOLEAN]

\* The level that a receiver remembers after n edges.
Level(r, n) ==
  /\ r.status \in Starts => n > 0 /\ (r.last_data_bit <=> n % 2 = 1)
  /\ r.status \in Insides => n > 0 /\ (r.last_data_bit <=> n % 2 = 0)

\* The inductive invariant that holds whatever is sent.
Sampled ==
  /\ edge \in [n : Nat, off : Jitters] /\ edge.n <= Toggles
  /\ edge.n > 0 => Ready
  /\ ~IsFrame(source) => edge.off = 0
  /\ rx \in Receivers /\ report \in Reports
  /\ rx.status = "IDLE" => edge.n \in {0, Toggles}
  /\ edge.n = 0 => rx.status = "IDLE"
  /\ Level(rx, edge.n)

\* The time between two edges is the length of the phase between them, and how
\* much they are off.
LEMMA Sampling ==
  ASSUME NEW n \in Nat, n > 0, n < Toggles, Fit(tx.count),
         NEW off \in Int, NEW before \in Int
  PROVE  /\ Captured(n + 1) + off - (Captured(n) + before)
              = Length(tx.count, n) + off - before
         /\ Length(tx.count, n) \in Int /\ n <= Len(tx.count)
<1>1. tx.count \in Seq(Nat) /\ Len(tx.count) \in Nat
  BY DEF Fit
<1>2. n <= Len(tx.count)
  <2>1. PICK p \in {0, 1} : p = Len(tx.count) % 2
    BY <1>1, Parity
  <2>2. n < Len(tx.count) + p
    BY <2>1 DEF Toggles
  <2>3. \A k, m \in Nat, q \in {0, 1} : k < m + q => k <= m
    OBVIOUS
  <2> QED BY <1>1, <2>2, <2>3
<1>3. \A i \in Nat : Captured(i) = Toggle(i) + 24
  BY DEF Captured, DALI_TX_FALL_US, DALI_RX_FALL_US, DALI_TX_RISE_US, DALI_RX_RISE_US
<1>4. Toggle(n + 1) = tx.count[n] /\ tx.count[n] \in Nat
  BY <1>1, <1>2 DEF Toggle
<1>5. Toggle(n) = IF n = 1 THEN 0 ELSE tx.count[n - 1]
  BY DEF Toggle
<1>6. n # 1 => tx.count[n - 1] \in Nat
  BY <1>1, <1>2
<1>7. /\ Captured(n) = Toggle(n) + 24 /\ Captured(n + 1) = tx.count[n] + 24
  BY <1>3, <1>4
<1>8. Length(tx.count, n) = tx.count[n] - Toggle(n) /\ Toggle(n) \in Nat
  BY <1>4, <1>5, <1>6 DEF Length
<1>9. \A x, y \in Nat : x + 24 + off - (y + 24 + before) = x - y + off - before
  OBVIOUS
<1>10. Length(tx.count, n) \in Int
  BY <1>4, <1>8
<1>11. Captured(n + 1) + off - (Captured(n) + before) = Length(tx.count, n) + off - before
  BY <1>4, <1>7, <1>8, <1>9
<1> QED BY <1>2, <1>10, <1>11

\* What get_corrected_time_difference_us adds after n edges.
Back(n) == IF n % 2 = 1 THEN 16 ELSE -16

\* The correction of the receiver, by the number of edges it has seen.
LEMMA Corrected ==
  ASSUME NEW n \in Nat, rx \in Receivers, Level(rx, n), NEW t \in Int
  PROVE  /\ rx.status \in Starts =>
              get_corrected_time_difference_us(t, FALSE) = t + Back(n)
         /\ rx.status \in Insides =>
              get_corrected_time_difference_us(t, TRUE) = t + Back(n)
<1>1. DALI_RX_FALL_US - DALI_RX_RISE_US = 16
  BY DEF DALI_RX_FALL_US, DALI_RX_RISE_US
<1>2. n % 2 \in {0, 1} /\ rx.last_data_bit \in BOOLEAN
  BY Parity DEF Receivers
<1>3. Back(n) = IF n % 2 = 1 THEN 16 ELSE -16
  BY DEF Back
<1>4. ASSUME rx.status \in Starts
      PROVE  get_corrected_time_difference_us(t, FALSE) = t + Back(n)
  <2>1. rx.last_data_bit # FALSE <=> n % 2 = 1
    BY <1>2, <1>4 DEF Level
  <2> QED BY <1>1, <1>3, <2>1 DEF get_corrected_time_difference_us
<1>5. ASSUME rx.status \in Insides
      PROVE  get_corrected_time_difference_us(t, TRUE) = t + Back(n)
  <2>1. rx.last_data_bit <=> n % 2 = 0
    BY <1>5 DEF Level
  <2>2. n % 2 = 0 <=> ~(n % 2 = 1)
    BY <1>2
  <2>3. rx.last_data_bit # TRUE <=> n % 2 = 1
    BY <1>2, <2>1, <2>2
  <2> QED BY <1>1, <1>3, <2>3 DEF get_corrected_time_difference_us
<1> QED BY <1>4, <1>5

\* What an edge makes of the receiver, in START_BIT_START or DATA_BIT_START ...
LEMMA StartStep ==
  ASSUME NEW n \in Nat, rx \in Receivers, Level(rx, n), NEW diff \in Int, StartEdge(diff)
  PROVE  LET t == diff + Back(n)
         IN /\ t \in Int /\ rx.status \in Starts
            /\ is_valid_halfbit_timing(t) =>
                 \/ rx.status = "START_BIT_START" /\ Becomes("START_BIT_INSIDE")
                 \/ /\ rx.status = "DATA_BIT_START"
                    /\ Bit(rx, rx.last_data_bit, "DATA_BIT_INSIDE")
            /\ ~is_valid_halfbit_timing(t) =>
                 \E status \in Errors : Fails(status, t)
<1> DEFINE t == diff + Back(n)
<1>1. rx.status \in Starts
  BY DEF StartEdge, Starts
<1>2. get_corrected_time_difference_us(diff, FALSE) = t
  BY <1>1, Corrected
<1>3. t \in Int
  BY Parity DEF Back
<1> HIDE DEF t
<1>4. "START_TIMING" \in Errors /\ "DATA_TIMING" \in Errors
  BY DEF Errors
<1>5. \/ /\ rx.status = "START_BIT_START"
         /\ IF is_valid_halfbit_timing(t) THEN Becomes("START_BIT_INSIDE")
            ELSE Fails("START_TIMING", t)
      \/ /\ rx.status = "DATA_BIT_START"
         /\ IF is_valid_halfbit_timing(t)
            THEN Bit(rx, rx.last_data_bit, "DATA_BIT_INSIDE")
            ELSE Fails("DATA_TIMING", t)
  BY <1>2 DEF StartEdge
<1>6. /\ is_valid_halfbit_timing(t) =>
           \/ rx.status = "START_BIT_START" /\ Becomes("START_BIT_INSIDE")
           \/ /\ rx.status = "DATA_BIT_START"
              /\ Bit(rx, rx.last_data_bit, "DATA_BIT_INSIDE")
      /\ ~is_valid_halfbit_timing(t) => \E status \in Errors : Fails(status, t)
  BY <1>4, <1>5
<1> QED BY <1>1, <1>3, <1>6 DEF t

\* ... and in START_BIT_INSIDE or DATA_BIT_INSIDE.
LEMMA InsideStep ==
  ASSUME NEW n \in Nat, rx \in Receivers, Level(rx, n), NEW diff \in Int, InsideEdge(diff)
  PROVE  LET t == diff + Back(n)
         IN /\ t \in Int /\ rx.status \in Insides
            /\ is_valid_halfbit_timing(t) => Becomes("DATA_BIT_START")
            /\ ~is_valid_halfbit_timing(t) /\ is_valid_fullbit_timing(t) =>
                 Bit(rx, ~rx.last_data_bit, "DATA_BIT_INSIDE")
            /\ ~is_valid_halfbit_timing(t) /\ ~is_valid_fullbit_timing(t) =>
                 \E status \in Errors : Fails(status, t)
<1> DEFINE t == diff + Back(n)
<1>1. rx.status \in Insides
  BY DEF InsideEdge, Insides
<1>2. get_corrected_time_difference_us(diff, TRUE) = t
  BY <1>1, Corrected
<1>3. t \in Int
  BY Parity DEF Back
<1> HIDE DEF t
<1>4. "DATA_TIMING" \in Errors
  BY DEF Errors
<1>5. IF is_valid_halfbit_timing(t) THEN Becomes("DATA_BIT_START")
      ELSE IF is_valid_fullbit_timing(t)
      THEN Bit(rx, ~rx.last_data_bit, "DATA_BIT_INSIDE")
      ELSE Fails("DATA_TIMING", t)
  BY <1>2 DEF InsideEdge
<1>6. /\ is_valid_halfbit_timing(t) => Becomes("DATA_BIT_START")
      /\ ~is_valid_halfbit_timing(t) /\ is_valid_fullbit_timing(t) =>
           Bit(rx, ~rx.last_data_bit, "DATA_BIT_INSIDE")
      /\ ~is_valid_halfbit_timing(t) /\ ~is_valid_fullbit_timing(t) =>
           \E status \in Errors : Fails(status, t)
  BY <1>4, <1>5
<1> QED BY <1>1, <1>3, <1>6 DEF t

\* The four ways in which an edge changes a receiver keep types and level.
LEMMA StepTyped ==
  ASSUME NEW n \in Nat, rx \in Receivers, report \in Reports, Level(rx, n)
  PROVE  /\ rx.status = "START_BIT_START" /\ Becomes("START_BIT_INSIDE")
              => rx' \in Receivers /\ report' \in Reports /\ Level(rx', n + 1)
                 /\ rx'.status # "IDLE"
         /\ rx.status \in Insides /\ Becomes("DATA_BIT_START")
              => rx' \in Receivers /\ report' \in Reports /\ Level(rx', n + 1)
                 /\ rx'.status # "IDLE"
         /\ rx.status \in Starts /\ Bit(rx, rx.last_data_bit, "DATA_BIT_INSIDE")
              => rx' \in Receivers /\ report' \in Reports /\ Level(rx', n + 1)
                 /\ rx'.status # "IDLE"
         /\ rx.status \in Insides /\ Bit(rx, ~rx.last_data_bit, "DATA_BIT_INSIDE")
              => rx' \in Receivers /\ report' \in Reports /\ Level(rx', n + 1)
                 /\ rx'.status # "IDLE"
         /\ \A status \in Errors, t \in Int : Fails(status, t)
              => rx' \in Receivers /\ report' \in Reports /\ Level(rx', n + 1)
                 /\ rx'.status # "IDLE"
<1> DEFINE Good == rx' \in Receivers /\ report' \in Reports /\ Level(rx', n + 1)
                   /\ rx'.status # "IDLE"
<1>0. n % 2 \in {0, 1} /\ (n + 1) % 2 = 1 - (n % 2) /\ n + 1 > 0
  BY Parity
<1>1. ASSUME rx.status = "START_BIT_START", Becomes("START_BIT_INSIDE") PROVE Good
  <2>1. rx' = [rx EXCEPT !.status = "START_BIT_INSIDE"] /\ report' = report
    BY <1>1 DEF Becomes
  <2>2. rx'.status = "START_BIT_INSIDE" /\ rx'.last_data_bit = rx.last_data_bit
    BY <2>1 DEF Receivers
  <2>3. rx' \in Receivers
    BY <2>1 DEF Receivers, Statuses, Insides
  <2>4. rx.last_data_bit <=> n % 2 = 1
    BY <1>1 DEF Level, Starts
  <2>5. Level(rx', n + 1)
    BY <1>0, <2>2, <2>4 DEF Level, Starts, Insides
  <2> QED BY <2>1, <2>2, <2>3, <2>5
<1>2. ASSUME rx.status \in Insides, Becomes("DATA_BIT_START") PROVE Good
  <2>1. rx' = [rx EXCEPT !.status = "DATA_BIT_START"] /\ report' = report
    BY <1>2 DEF Becomes
  <2>2. rx'.status = "DATA_BIT_START" /\ rx'.last_data_bit = rx.last_data_bit
    BY <2>1 DEF Receivers
  <2>3. rx' \in Receivers
    BY <2>1 DEF Receivers, Statuses, Starts
  <2>4. rx.last_data_bit <=> n % 2 = 0
    BY <1>2 DEF Level
  <2>5. Level(rx', n + 1)
    BY <1>0, <2>2, <2>4 DEF Level, Starts, Insides
  <2> QED BY <2>1, <2>2, <2>3, <2>5
<1>3. ASSUME NEW value \in BOOLEAN, value <=> (n + 1) % 2 = 0,
             Bit(rx, value, "DATA_BIT_INSIDE")
      PROVE  Good
  <2>1. /\ rx' = [status |-> "DATA_BIT_INSIDE", last_data_bit |-> value,
                  data |-> Append(rx.data, value)]
        /\ report' = report
    BY <1>3 DEF Bit
  <2>2. rx'.status = "DATA_BIT_INSIDE" /\ rx'.last_data_bit = value
    BY <2>1
  <2>3. rx' \in Receivers
    <3>1. Append(rx.data, value) \in Seq(BOOLEAN)
      BY DEF Receivers
    <3> QED BY <2>1, <3>1 DEF Receivers, Statuses, Insides
  <2>4. Level(rx', n + 1)
    BY <1>0, <1>3, <2>2 DEF Level, Starts, Insides
  <2> QED BY <2>1, <2>2, <2>3, <2>4
<1>4. ASSUME NEW status \in Errors, NEW t \in Int, Fails(status, t) PROVE Good
  <2>1. /\ report' = [NoReport EXCEPT !.status = status, !.bit = Len(rx.data), !.time_us = t]
        /\ rx' = [rx EXCEPT !.status = "ERROR_IN_FRAME", !.data = <<>>]
    BY <1>4 DEF Fails
  <2>2. <<>> \in Seq(BOOLEAN) /\ Len(rx.data) \in Nat
    BY DEF Receivers
  <2>3. rx'.status = "ERROR_IN_FRAME" /\ rx' \in Receivers
    <3>1. rx = [status |-> rx.status, last_data_bit |-> rx.last_data_bit, data |-> rx.data]
          /\ rx.last_data_bit \in BOOLEAN
      BY DEF Receivers
    <3>2. rx' = [status |-> "ERROR_IN_FRAME", last_data_bit |-> rx.last_data_bit,
                 data |-> <<>>]
      BY <2>1, <3>1
    <3> QED BY <2>2, <3>1, <3>2 DEF Receivers, Statuses
  <2>4. report' \in Reports
    <3>1. report' = [status |-> status, bits |-> <<>>, bit |-> Len(rx.data),
                     time_us |-> t, twice |-> FALSE]
      BY <2>1 DEF NoReport
    <3> QED BY <2>2, <3>1 DEF Reports
  <2>5. Level(rx', n + 1)
    BY <2>3 DEF Level, Starts, Insides
  <2> QED BY <2>3, <2>4, <2>5
<1> HIDE DEF Good
<1>5. rx.status \in Starts /\ Bit(rx, rx.last_data_bit, "DATA_BIT_INSIDE") => Good
  <2>1. rx.last_data_bit \in BOOLEAN
    BY DEF Receivers
  <2>2. rx.status \in Starts => (rx.last_data_bit <=> (n + 1) % 2 = 0)
    BY <1>0 DEF Level
  <2> QED BY <1>3, <2>1, <2>2
<1>6. rx.status \in Insides /\ Bit(rx, ~rx.last_data_bit, "DATA_BIT_INSIDE") => Good
  <2>1. (~rx.last_data_bit) \in BOOLEAN
    OBVIOUS
  <2>2. rx.status \in Insides => (~rx.last_data_bit <=> (n + 1) % 2 = 0)
    BY <1>0 DEF Level
  <2> QED BY <1>3, <2>1, <2>2
<1> QED BY <1>1, <1>2, <1>4, <1>5, <1>6 DEF Good

\* What is on its way to the pin has its type.
LEMMA TxTyped ==
  ASSUME Encoded
  PROVE  /\ Typed(tx) /\ Fit(tx.count) /\ Len(tx.count) \in Nat /\ Toggles \in Nat
         /\ source \in Sources /\ Items \in Nat
         /\ item \in 0..Items + 2
<1>1. source \in Sources /\ EncodedFor(source, tx, item)
  BY DEF Encoded
<1>2. /\ Len(source.periods) \in Nat /\ Len(source.bits) \in Nat
      /\ IsFrame(source) <=> source.kind = "frame" \/ source.kind = "corrupt"
  BY <1>1, SourceTyped, BitCount
<1>3. Typed(Reset) /\ Fit(Reset.count)
  BY ResetTyped DEF Holds
<1>4. Typed(tx) /\ Fit(tx.count) /\ Items \in Nat /\ item \in 0..Items + 2
  <2>1. CASE source.kind = "frame"
    <3>1. FrameEncoded(source, tx, item) /\ Items = Len(source.bits)
      BY <1>1, <2>1 DEF EncodedFor, Items
    <3>2. item \in 0..Items + 2
      BY <1>2, <3>1 DEF FrameEncoded
    <3>3. Typed(tx) /\ Fit(tx.count)
      BY <1>3, <3>1 DEF FrameEncoded, Coded, Complete, Typed
    <3> QED BY <1>2, <3>1, <3>2, <3>3
  <2>2. CASE source.kind = "corrupt"
    <3>1. CorruptEncoded(tx, item) /\ Items = 16
      BY <1>1, <2>2 DEF EncodedFor, Items
    <3>2. item \in 0..18
      BY <3>1 DEF CorruptEncoded
    <3>3. Typed(tx) /\ Fit(tx.count)
      BY <1>3, <3>1 DEF CorruptEncoded, Holds
    <3> QED BY <3>1, <3>2, <3>3
  <2>3. CASE ~IsFrame(source)
    <3>1. SequenceEncoded(source, tx, item) /\ Items = Len(source.periods)
      BY <1>1, <2>3 DEF EncodedFor, Items, IsFrame
    <3>2. item \in 0..Items + 2
      BY <1>2, <3>1 DEF SequenceEncoded
    <3>3. Typed(tx) /\ Fit(tx.count)
      BY <3>1 DEF SequenceEncoded, Holds
    <3> QED BY <1>2, <3>1, <3>2, <3>3
  <2> QED BY <1>2, <2>1, <2>2, <2>3
<1>5. tx.count \in Seq(Nat) /\ Len(tx.count) \in Nat
  BY <1>4 DEF Fit
<1>6. Toggles \in Nat
  <2>1. Len(tx.count) % 2 \in {0, 1}
    BY <1>5, Parity
  <2>2. \A k \in Nat, p \in {0, 1} : k + p \in Nat
    OBVIOUS
  <2> QED BY <1>5, <2>1, <2>2 DEF Toggles
<1> QED BY <1>1, <1>4, <1>5, <1>6

\* Nothing is sent before everything is encoded.
LEMMA WrittenFirst ==
  ASSUME Encoded, Sampled, StartBit \/ DataBit \/ CorruptPhase \/ StopCondition \/ Period
  PROVE  edge.n = 0 /\ UNCHANGED <<source, edge, rx, report, last, past, sent>>
<1>1. Items \in Nat /\ item \in 0..Items + 2 /\ edge.n \in Nat
  BY TxTyped DEF Sampled
<1>2. ~Ready
  <2>1. CASE StartBit
    BY <1>1, <2>1 DEF StartBit, Ready
  <2>2. CASE DataBit
    BY <1>1, <2>2 DEF DataBit, Ready, IsFrame
  <2>3. CASE CorruptPhase
    BY <1>1, <2>3 DEF CorruptPhase, Ready, IsFrame
  <2>4. CASE StopCondition
    BY <1>1, <2>4 DEF StopCondition, Ready
  <2>5. CASE Period
    BY <1>1, <2>5 DEF Period, Ready
  <2> QED BY <2>1, <2>2, <2>3, <2>4, <2>5
<1>3. edge.n = 0
  BY <1>1, <1>2 DEF Sampled
<1>4. UNCHANGED <<source, edge, rx, report, last, past, sent>>
  BY DEF StartBit, DataBit, CorruptPhase, StopCondition, Period, Writes
<1> QED BY <1>3, <1>4

\* The edge after n others comes a phase after the one before.
LEMMA EdgeStep ==
  ASSUME Encoded, Sampled, Edge
  PROVE  \E off \in Displacements :
           /\ edge' = [n |-> edge.n + 1, off |-> off] /\ off \in Int /\ edge.off \in Int
           /\ edge.n = 0 => Begin
           /\ edge.n > 0 =>
                /\ Length(tx.count, edge.n) \in Int /\ edge.n <= Len(tx.count)
                /\ \/ StartEdge(Length(tx.count, edge.n) + off - edge.off)
                   \/ InsideEdge(Length(tx.count, edge.n) + off - edge.off)
                   \/ IgnoredEdge
<1>1. PICK off \in Displacements :
        /\ Begin \/ StartEdge(Since(off)) \/ InsideEdge(Since(off)) \/ IgnoredEdge
        /\ edge' = [n |-> edge.n + 1, off |-> off]
  BY DEF Edge
<1>2. off \in Int /\ edge.off \in Int /\ edge.n \in Nat /\ edge.n < Toggles /\ Toggles \in Nat
  <2>1. Jitters \subseteq Int /\ 0 \in Int
    BY BitsAssumption
  <2>2. off \in Jitters \/ off = 0
    BY DEF Displacements
  <2>3. edge.off \in Jitters /\ edge.n \in Nat
    BY DEF Sampled
  <2> QED BY <2>1, <2>2, <2>3, TxTyped DEF Edge
<1>3. CASE edge.n = 0
  <2>1. rx.status = "IDLE"
    BY <1>3 DEF Sampled
  <2>2. ~StartEdge(Since(off)) /\ ~InsideEdge(Since(off)) /\ ~IgnoredEdge
    BY <2>1 DEF StartEdge, InsideEdge, IgnoredEdge
  <2> QED BY <1>1, <1>2, <1>3, <2>2
<1>4. CASE edge.n > 0
  <2>1. rx.status # "IDLE"
    BY <1>2, <1>4 DEF Sampled
  <2>2. ~Begin
    BY <2>1 DEF Begin
  <2>3. Fit(tx.count)
    BY TxTyped
  <2>4. PICK n \in Nat : n = edge.n /\ n > 0 /\ n < Toggles
    BY <1>2, <1>4
  <2>5. /\ Captured(n + 1) + off - (Captured(n) + edge.off)
             = Length(tx.count, n) + off - edge.off
        /\ Length(tx.count, n) \in Int /\ n <= Len(tx.count)
    BY <1>2, <2>3, <2>4, Sampling
  <2>6. edge.n + 1 # 1 /\ edge.n + 1 - 1 = n /\ edge.n = n
    BY <2>4
  <2>7. Since(off) = Length(tx.count, edge.n) + off - edge.off
    <3>1. Since(off) = Captured(n + 1) + off - (Captured(n) + edge.off)
      BY <1>4, <2>6 DEF Since
    <3> QED BY <2>5, <2>6, <3>1
  <2> QED BY <1>1, <1>2, <1>4, <2>2, <2>5, <2>6, <2>7
<1> QED BY <1>2, <1>3, <1>4

\* As long as the source and its encoding stay, so does what follows from them.
LEMMA SentOn ==
  ASSUME UNCHANGED <<source, tx, item>>
  PROVE  Toggles' = Toggles /\ (Ready => Ready') /\ (IsFrame(source)' <=> IsFrame(source))
  BY DEF Toggles, Ready, Items, IsFrame

\* How many edges there are is a number.
LEMMA TogglesTyped == Encoded => Toggles \in Nat
  BY TxTyped

\* A report is a report.
LEMMA ReportTyped ==
  /\ \A bits \in Seq(BOOLEAN), twice \in BOOLEAN :
       [status |-> "OK", bits |-> bits, bit |-> 0, time_us |-> 0, twice |-> twice] \in Reports
  /\ NoReport \in Reports
<1>1. <<>> \in Seq(BOOLEAN) /\ FALSE \in BOOLEAN /\ 0 \in Nat /\ 0 \in Int
  OBVIOUS
<1>2. \A status \in {"", "OK"}, bits \in Seq(BOOLEAN), twice \in BOOLEAN :
        [status |-> status, bits |-> bits, bit |-> 0, time_us |-> 0, twice |-> twice] \in Reports
  BY <1>1 DEF Reports
<1> QED BY <1>1, <1>2 DEF NoReport

\* A receiver that is cleared is idle.
LEMMA ClearedTyped ==
  ASSUME NEW r \in Receivers
  PROVE  Cleared(r) \in Receivers /\ Cleared(r).status = "IDLE" /\ Cleared(r).data = <<>>
<1>1. <<>> \in Seq(BOOLEAN) /\ "IDLE" \in Statuses
  BY DEF Statuses
<1>2. ASSUME NEW d \in Seq(BOOLEAN), NEW s \in Statuses
      PROVE  LET new == [r EXCEPT !.status = s, !.data = d]
             IN new \in Receivers /\ new.status = s /\ new.data = d
  BY DEF Receivers
<1> QED BY <1>1, <1>2 DEF Cleared

\* An edge keeps the receiver in step with the pin.
LEMMA SampledEdge == ASSUME Encoded, Sampled, Edge PROVE Sampled' /\ rx'.status # "IDLE"
<1>1. PICK off \in Displacements :
        /\ edge' = [n |-> edge.n + 1, off |-> off] /\ off \in Int /\ edge.off \in Int
        /\ edge.n = 0 => Begin
        /\ edge.n > 0 =>
             /\ Length(tx.count, edge.n) \in Int /\ edge.n <= Len(tx.count)
             /\ \/ StartEdge(Length(tx.count, edge.n) + off - edge.off)
                \/ InsideEdge(Length(tx.count, edge.n) + off - edge.off)
                \/ IgnoredEdge
  BY EdgeStep
<1>2. /\ Ready /\ edge.n < Toggles /\ Toggles \in Nat /\ edge.n \in Nat
      /\ rx \in Receivers /\ report \in Reports /\ Level(rx, edge.n)
  BY TxTyped DEF Edge, Sampled
<1>3. Toggles' = Toggles /\ Ready' /\ (IsFrame(source)' <=> IsFrame(source))
  <2>1. UNCHANGED <<source, tx, item>>
    BY DEF Edge
  <2> QED BY <1>2, <2>1, SentOn
<1>4. edge'.n = edge.n + 1 /\ edge'.off = off
  BY <1>1
<1>5. rx' \in Receivers /\ report' \in Reports /\ Level(rx', edge.n + 1) /\ rx'.status # "IDLE"
  <2>1. CASE edge.n = 0
    <3>1. /\ rx' = [rx EXCEPT !.status = "START_BIT_START", !.last_data_bit = TRUE]
          /\ report' = report
      BY <1>1, <2>1 DEF Begin
    <3>2. rx' \in Receivers /\ rx'.status = "START_BIT_START" /\ rx'.last_data_bit = TRUE
      BY <1>2, <3>1 DEF Receivers, Statuses, Starts
    <3>3. Level(rx', edge.n + 1)
      <4>1. (0 + 1) % 2 = 1
        OBVIOUS
      <4> QED BY <2>1, <3>2, <4>1 DEF Level, Starts, Insides
    <3> QED BY <1>2, <3>1, <3>2, <3>3
  <2>2. CASE edge.n > 0
    <3> DEFINE diff == Length(tx.count, edge.n) + off - edge.off
    <3>1. diff \in Int
      BY <1>1, <2>2
    <3>2. StartEdge(diff) \/ InsideEdge(diff) \/ IgnoredEdge
      BY <1>1, <2>2
    <3> HIDE DEF diff
    <3>3. CASE StartEdge(diff)
      <4>1. LET t == diff + Back(edge.n)
            IN /\ t \in Int /\ rx.status \in Starts
               /\ is_valid_halfbit_timing(t) =>
                    \/ rx.status = "START_BIT_START" /\ Becomes("START_BIT_INSIDE")
                    \/ /\ rx.status = "DATA_BIT_START"
                       /\ Bit(rx, rx.last_data_bit, "DATA_BIT_INSIDE")
               /\ ~is_valid_halfbit_timing(t) =>
                    \E status \in Errors : Fails(status, t)
        BY <1>2, <3>1, <3>3, StartStep
      <4> QED BY <1>2, <4>1, StepTyped
    <3>4. CASE InsideEdge(diff)
      <4>1. LET t == diff + Back(edge.n)
            IN /\ t \in Int /\ rx.status \in Insides
               /\ is_valid_halfbit_timing(t) => Becomes("DATA_BIT_START")
               /\ ~is_valid_halfbit_timing(t) /\ is_valid_fullbit_timing(t) =>
                    Bit(rx, ~rx.last_data_bit, "DATA_BIT_INSIDE")
               /\ ~is_valid_halfbit_timing(t) /\ ~is_valid_fullbit_timing(t) =>
                    \E status \in Errors : Fails(status, t)
        BY <1>2, <3>1, <3>4, InsideStep
      <4> QED BY <1>2, <4>1, StepTyped
    <3>5. CASE IgnoredEdge
      <4>1. rx' = rx /\ report' = report /\ rx.status = "ERROR_IN_FRAME"
        BY <3>5 DEF IgnoredEdge
      <4>2. Level(rx', edge.n + 1)
        BY <4>1 DEF Level, Starts, Insides
      <4> QED BY <1>2, <4>1, <4>2
    <3> QED BY <3>2, <3>3, <3>4, <3>5
  <2> QED BY <1>2, <2>1, <2>2
<1>6. edge' \in [n : Nat, off : Jitters] /\ (~IsFrame(source)' => edge'.off = 0)
  <2>1. off \in Jitters /\ (~IsFrame(source) => off = 0)
    BY BitsAssumption DEF Displacements
  <2>2. edge.n + 1 \in Nat
    BY <1>2
  <2> QED BY <1>1, <1>3, <2>1, <2>2
<1>7. edge'.n \in Nat /\ edge'.n <= Toggles' /\ edge'.n > 0 /\ edge'.n # 0
  BY <1>2, <1>3, <1>4
<1> QED BY <1>3, <1>4, <1>5, <1>6, <1>7 DEF Sampled

\* The receiver is in step at first.
LEMMA SampledInit == Init => Sampled
<1> SUFFICES ASSUME Init PROVE Sampled
  OBVIOUS
<1>1. /\ edge = [n |-> 0, off |-> 0] /\ report = NoReport /\ tx = Reset
      /\ rx = [status |-> "IDLE", last_data_bit |-> FALSE, data |-> <<>>]
  BY DEF Init
<1>2. Toggles \in Nat
  BY EncodedInit, TxTyped
<1>3. edge \in [n : Nat, off : Jitters] /\ edge.n = 0 /\ edge.off = 0
  BY <1>1, BitsAssumption
<1>4. rx \in Receivers /\ rx.status = "IDLE"
  BY <1>1 DEF Receivers, Statuses
<1>5. report \in Reports
  BY <1>1, ReportTyped
<1>6. Level(rx, edge.n)
  BY <1>4 DEF Level, Starts, Insides
<1> QED BY <1>2, <1>3, <1>4, <1>5, <1>6 DEF Sampled

\* The next transmission begins as the first.
LEMMA SampledSend == ASSUME Toggles' \in Nat, Sampled, SendNext PROVE Sampled'
<1>1. /\ edge' = [n |-> 0, off |-> 0] /\ report' = NoReport /\ rx' = rx
      /\ rx.status = "IDLE" /\ rx \in Receivers
  BY DEF SendNext, Finished, Sampled
<1>2. Toggles' \in Nat
  OBVIOUS
<1>3. edge' \in [n : Nat, off : Jitters] /\ edge'.n = 0 /\ edge'.off = 0
  BY <1>1, BitsAssumption
<1>4. report' \in Reports
  BY <1>1, ReportTyped
<1>5. Level(rx', edge'.n)
  BY <1>1 DEF Level, Starts, Insides
<1> QED BY <1>1, <1>2, <1>3, <1>4, <1>5 DEF Sampled

\* So does every step.
LEMMA SampledNext == Encoded /\ Sampled /\ [Next]_vars => Sampled'
<1> SUFFICES ASSUME Encoded, Sampled, [Next]_vars PROVE Sampled'
  OBVIOUS
<1>0. Encoded' /\ Toggles \in Nat /\ Toggles' \in Nat
  <2>1. Encoded'
    BY EncodedNext
  <2>2. (Encoded => Toggles \in Nat)'
    BY TogglesTyped, PTL
  <2> QED BY <2>1, <2>2, TogglesTyped
<1>1. CASE StartBit \/ DataBit \/ CorruptPhase \/ StopCondition \/ Period
  <2>1. edge.n = 0 /\ UNCHANGED <<source, edge, rx, report>>
    BY <1>1, WrittenFirst
  <2>2. (Level(rx, edge.n))' /\ (IsFrame(source)' <=> IsFrame(source))
    BY <2>1 DEF Sampled, Level, IsFrame
  <2> QED BY <1>0, <2>1, <2>2 DEF Sampled
<1>2. CASE Edge
  BY <1>2, SampledEdge
<1>3. CASE StopFrame \/ StopError
  <2>1. /\ UNCHANGED <<source, tx, item, edge>> /\ edge.n > 0 /\ edge.n = Toggles
        /\ rx' = Cleared(rx)
    BY <1>3 DEF StopFrame, StopError
  <2>2. rx' \in Receivers /\ rx'.status = "IDLE"
    BY <2>1, ClearedTyped DEF Sampled
  <2>3. report' \in Reports
    <3>1. CASE StopFrame
      <4>1. /\ rx.data \in Seq(BOOLEAN) /\ report \in Reports
            /\ is_frame_received_twice \in BOOLEAN
        BY DEF Sampled, Receivers, is_frame_received_twice
      <4>2. report' = [status |-> "OK", bits |-> rx.data, bit |-> 0, time_us |-> 0,
                       twice |-> is_frame_received_twice]
        BY <3>1 DEF StopFrame, NoReport
      <4> HIDE DEF is_frame_received_twice
      <4> QED BY <4>1, <4>2, ReportTyped
    <3>2. CASE StopError
      BY <3>2 DEF StopError, Sampled
    <3> QED BY <1>3, <3>1, <3>2
  <2>4. Toggles' = Toggles /\ (Ready => Ready') /\ (IsFrame(source)' <=> IsFrame(source))
    BY <2>1, SentOn
  <2>5. (Level(rx, edge.n))'
    BY <2>2 DEF Level, Starts, Insides
  <2> QED BY <2>1, <2>2, <2>3, <2>4, <2>5 DEF Sampled
<1>4. CASE SendNext
  BY <1>0, <1>4, SampledSend
<1>5. CASE UNCHANGED vars
  <2>1. UNCHANGED <<source, tx, item, edge, rx, report>>
    BY <1>5 DEF vars
  <2>2. Toggles' = Toggles /\ (Ready => Ready') /\ (IsFrame(source)' <=> IsFrame(source))
    BY <2>1, SentOn
  <2>3. (Level(rx, edge.n))'
    BY <2>1 DEF Sampled, Level
  <2> QED BY <2>1, <2>2, <2>3 DEF Sampled
<1> QED BY <1>1, <1>2, <1>3, <1>4, <1>5 DEF Next

\* The receiver is always in step with the pin.
LEMMA SampledAlways == Spec => [](Encoded /\ Sampled)
<1>1. Init => Encoded /\ Sampled
  BY EncodedInit, SampledInit
<1>2. Encoded /\ Sampled /\ [Next]_vars => Encoded' /\ Sampled'
  BY EncodedNext, SampledNext
<1> QED BY <1>1, <1>2, PTL DEF Spec

\* An error report gives the time from one edge to the next as it is corrected.
LEMMA ErrorTimed ==
  ASSUME Encoded, Sampled, Edge, report'.status # report.status
  PROVE  \E off \in Displacements :
           /\ edge.n > 0 /\ edge.n <= Len(tx.count)
           /\ report'.time_us = Length(tx.count, edge.n) + off - edge.off + Back(edge.n)
<1>1. PICK off \in Displacements :
        /\ edge' = [n |-> edge.n + 1, off |-> off] /\ off \in Int /\ edge.off \in Int
        /\ edge.n = 0 => Begin
        /\ edge.n > 0 =>
             /\ Length(tx.count, edge.n) \in Int /\ edge.n <= Len(tx.count)
             /\ \/ StartEdge(Length(tx.count, edge.n) + off - edge.off)
                \/ InsideEdge(Length(tx.count, edge.n) + off - edge.off)
                \/ IgnoredEdge
  BY EdgeStep
<1>2. edge.n \in Nat /\ rx \in Receivers /\ Level(rx, edge.n)
  BY DEF Sampled
<1>3. edge.n > 0
  <2>1. edge.n # 0
    BY <1>1 DEF Begin
  <2> QED BY <1>2, <2>1
<1> DEFINE diff == Length(tx.count, edge.n) + off - edge.off
<1>4. diff \in Int /\ ~IgnoredEdge
  BY <1>1, <1>3 DEF IgnoredEdge
<1>5. StartEdge(diff) \/ InsideEdge(diff)
  BY <1>1, <1>3, <1>4
<1> HIDE DEF diff
<1>6. ASSUME NEW t, NEW status \in Errors, Fails(status, t)
      PROVE  report'.time_us = t
  BY <1>6 DEF Fails, NoReport
<1>7. ASSUME NEW status, Becomes(status) PROVE FALSE
  BY <1>7 DEF Becomes
<1>8. ASSUME NEW r, NEW value, NEW status, Bit(r, value, status) PROVE FALSE
  BY <1>8 DEF Bit
<1>9. report'.time_us = diff + Back(edge.n)
  <2>1. CASE StartEdge(diff)
    <3>1. LET t == diff + Back(edge.n)
          IN /\ is_valid_halfbit_timing(t) =>
                  \/ rx.status = "START_BIT_START" /\ Becomes("START_BIT_INSIDE")
                  \/ /\ rx.status = "DATA_BIT_START"
                     /\ Bit(rx, rx.last_data_bit, "DATA_BIT_INSIDE")
             /\ ~is_valid_halfbit_timing(t) =>
                  \E status \in Errors : Fails(status, t)
      BY <1>2, <1>4, <2>1, StartStep
    <3> QED BY <1>6, <1>7, <1>8, <3>1
  <2>2. CASE InsideEdge(diff)
    <3>1. LET t == diff + Back(edge.n)
          IN /\ is_valid_halfbit_timing(t) => Becomes("DATA_BIT_START")
             /\ ~is_valid_halfbit_timing(t) /\ is_valid_fullbit_timing(t) =>
                  Bit(rx, ~rx.last_data_bit, "DATA_BIT_INSIDE")
             /\ ~is_valid_halfbit_timing(t) /\ ~is_valid_fullbit_timing(t) =>
                  \E status \in Errors : Fails(status, t)
      BY <1>2, <1>4, <2>2, InsideStep
    <3> QED BY <1>6, <1>7, <1>8, <3>1
  <2> QED BY <1>5, <2>1, <2>2
<1> QED BY <1>1, <1>3, <1>9 DEF diff

\* The compensations of transmitter and receiver leave 8 us.
LEMMA Remainder ==
  ASSUME NEW n \in Nat, n > 0
  PROVE  Shift(n - 1) + Back(n) \in {8, -8} /\ Shift(n - 1) \in Int /\ Back(n) \in Int
<1>1. PICK m \in Nat : m = n - 1 /\ n = m + 1
  OBVIOUS
<1>2. m % 2 \in {0, 1} /\ n % 2 = 1 - (m % 2)
  BY <1>1, Parity
<1> QED BY <1>1, <1>2 DEF Shift, Back

\* The time in the error report of a sequence the receiver refuses is the
\* period that was asked for, up to 8 us: within the tolerance of the tests,
\* for every sequence the encoder can compensate: active periods of 25 us and
\* more, idle ones of 1 us and more, none that reaches the stop condition.
THEOREM ReportsAskedPeriod == Spec => MeasuredAsAsked
<1>1. ASSUME Encoded, Sampled, [Next]_vars, source.kind = "illegal",
             report.status = "", report'.status \in Errors
      PROVE  report'.time_us - source.periods[edge.n]
               \in 1 - time_loopback_tolerance_us .. time_loopback_tolerance_us - 1
  <2>1. report'.status # report.status
    BY <1>1 DEF Errors
  <2>2. ~IsFrame(source)
    BY <1>1 DEF IsFrame
  <2>3. Edge
    <3>1. CASE StartBit \/ DataBit \/ CorruptPhase \/ StopCondition \/ Period
      BY <1>1, <2>1, <3>1, WrittenFirst
    <3>2. CASE StopFrame
      BY <1>1, <3>2 DEF StopFrame, NoReport, Errors
    <3>3. CASE StopError \/ UNCHANGED vars
      BY <2>1, <3>3 DEF StopError, vars
    <3>4. CASE SendNext
      BY <1>1, <3>4 DEF SendNext, NoReport, Errors
    <3> QED BY <1>1, <3>1, <3>2, <3>3, <3>4 DEF Next
  <2>4. PICK off \in Displacements :
           /\ edge.n > 0 /\ edge.n <= Len(tx.count)
           /\ report'.time_us = Length(tx.count, edge.n) + off - edge.off + Back(edge.n)
    BY <1>1, <2>1, <2>3, ErrorTimed
  <2>5. off = 0 /\ edge.off = 0 /\ edge.n \in Nat /\ Ready
    BY <1>1, <2>2, <2>3 DEF Displacements, Sampled, Edge
  <2>6. /\ Holds(tx.count, Len(source.periods))
        /\ \A j \in 1..Len(source.periods) :
             Length(tx.count, j) = source.periods[j] + Shift(j - 1)
    BY <1>1, <2>2, <2>5, ReadyEncoded
  <2>7. edge.n \in 1..Len(source.periods)
    <3>1. Len(source.periods) \in Nat
      BY TxTyped, SourceTyped, <1>1
    <3> QED BY <2>4, <2>5, <2>6, <3>1 DEF Holds
  <2>8. source.periods[edge.n] \in Int
    <3>1. source.periods \in Seq(Nat) /\ Len(source.periods) \in Nat
      BY TxTyped, SourceTyped, <1>1
    <3> QED BY <2>7, <3>1
  <2>9. Length(tx.count, edge.n) = source.periods[edge.n] + Shift(edge.n - 1)
    BY <2>6, <2>7
  <2>10. Shift(edge.n - 1) + Back(edge.n) \in {8, -8}
         /\ Shift(edge.n - 1) \in Int /\ Back(edge.n) \in Int
    BY <2>4, <2>5, Remainder
  <2>11. report'.time_us - source.periods[edge.n] \in {8, -8}
    <3>1. \A x, p, q \in Int : x + p + 0 - 0 + q - x = p + q
      OBVIOUS
    <3>2. report'.time_us = source.periods[edge.n] + Shift(edge.n - 1) + 0 - 0 + Back(edge.n)
      BY <2>4, <2>5, <2>9
    <3> QED BY <2>8, <2>10, <3>1, <3>2
  <2> QED BY <2>11 DEF time_loopback_tolerance_us
<1>2. Encoded /\ Sampled /\ [Next]_vars =>
        [(source.kind = "illegal" /\ report.status = "" /\ report'.status \in Errors)
         => report'.time_us - source.periods[edge.n]
              \in 1 - time_loopback_tolerance_us .. time_loopback_tolerance_us - 1]_vars
  BY <1>1
<1> QED BY <1>2, SampledAlways, PTL DEF Spec, MeasuredAsAsked

-----------------------------------------------------------------------------
(* Frames, when each edge is at most 41 us off: two edges are then at most   *)
(* 82 us nearer or further than they should be, and the window of a half bit *)
(* leaves 83 us.                                                             *)

\* Each edge is seen within 41 us of its place.
JitterBound == Jitters \subseteq -41..41

\* The windows of the receiver take every half bit, every full bit, and not the
\* long phase of a corrupt frame.
LEMMA Windows ==
  ASSUME JitterBound, NEW n \in Nat, n > 0, NEW off \in Jitters, NEW before \in Jitters
  PROVE  /\ is_valid_halfbit_timing(HalfBit(n) + off - before + Back(n))
         /\ ~is_valid_halfbit_timing(FullBit(n) + off - before + Back(n))
         /\ is_valid_fullbit_timing(FullBit(n) + off - before + Back(n))
         /\ HalfBit(n) = 417 + Shift(n - 1)
         /\ ~is_valid_halfbit_timing(1500 + Shift(n - 1) + off - before + Back(n))
<1>1. off \in -41..41 /\ before \in -41..41
  BY DEF JitterBound
<1>2. PICK m \in Nat : m = n - 1 /\ n = m + 1
  OBVIOUS
<1>3. Shift(n) = -Shift(n - 1) /\ Shift(n - 1) \in {24, -24} /\ HalfBit(n) = 417 + Shift(n - 1)
  BY <1>2, Shifts
<1>4. Shift(n - 1) + Back(n) \in {8, -8} /\ Back(n) \in {16, -16}
  BY Remainder DEF Back
<1>5. HalfBit(n) = 417 - Shift(n) /\ FullBit(n) = 833 + Shift(n)
  BY DEF HalfBit, FullBit
<1>6. \A t : /\ is_valid_halfbit_timing(t) <=> t \in 325..508
             /\ is_valid_fullbit_timing(t) <=> t \in 658..1008
  BY DEF is_valid_halfbit_timing, is_valid_fullbit_timing, DALI_SAFTEY_MARGIN_US
<1>7. /\ 417 + Shift(n - 1) + off - before + Back(n) \in 325..508
      /\ 833 + (-Shift(n - 1)) + off - before + Back(n) \in 658..1008
      /\ 833 + (-Shift(n - 1)) + off - before + Back(n) \notin 325..508
      /\ 1500 + Shift(n - 1) + off - before + Back(n) \notin 325..508
  <2>1. PICK s \in {24, -24}, r \in {16, -16} : s = Shift(n - 1) /\ r = Back(n)
    BY <1>3, <1>4
  <2>2. s + r \in {8, -8}
    BY <1>4, <2>1
  <2>3. /\ 417 + s + off - before + r \in 325..508
        /\ 833 + (-s) + off - before + r \in 658..1008
        /\ 833 + (-s) + off - before + r \notin 325..508
        /\ 1500 + s + off - before + r \notin 325..508
    <3>1. \/ s = 24 /\ r = -16
          \/ s = -24 /\ r = 16
      BY <2>2
    <3> QED BY <1>1, <3>1
  <2> QED BY <2>1, <2>3
<1>8. FullBit(n) = 833 + (-Shift(n - 1)) /\ HalfBit(n) = 417 + Shift(n - 1)
  BY <1>3, <1>5
<1> HIDE DEF is_valid_halfbit_timing, is_valid_fullbit_timing
<1> QED BY <1>6, <1>7, <1>8

\* The state of a receiver that has seen an edge at the beginning (h = 0) or in
\* the middle (h = 1) of bit b, and how many bits it has then.
Listens(b, h) ==
  IF h = 0 THEN (IF b = 0 THEN "START_BIT_START" ELSE "DATA_BIT_START")
  ELSE (IF b = 0 THEN "START_BIT_INSIDE" ELSE "DATA_BIT_INSIDE")

Collected(b, h) == IF h = 1 \/ b = 0 THEN b ELSE b - 1

FirstBits(s, data, m) ==
  data \in Seq(BOOLEAN) /\ Len(data) = m /\ \A i \in 1..m : data[i] = s.bits[i]

Located(s, c, r, bit, half, n) ==
  /\ n \in 1..Len(c) /\ r.status = Listens(bit[n], half[n])
  /\ FirstBits(s, r.data, Collected(bit[n], half[n]))

\* One more bit is the next one.
LEMMA BitHeard ==
  ASSUME NEW s, FrameSource(s), NEW m \in Nat, m + 1 <= Len(s.bits),
         NEW data, FirstBits(s, data, m), NEW v, v = Value(s, m + 1)
  PROVE  FirstBits(s, Append(data, v), m + 1)
<1>1. /\ Value(s, m + 1) \in BOOLEAN /\ Value(s, m + 1) = s.bits[m + 1]
  <2>1. m + 1 \in Nat /\ m + 1 # 0
    OBVIOUS
  <2> QED BY <2>1, ValueTyped DEF Value
<1>2. data \in Seq(BOOLEAN) /\ Len(data) = m /\ \A i \in 1..m : data[i] = s.bits[i]
  BY DEF FirstBits
<1>3. PICK w \in BOOLEAN : w = v
  BY <1>1
<1>4. /\ Append(data, w) \in Seq(BOOLEAN) /\ Len(Append(data, w)) = m + 1
      /\ \A i \in 1..m : Append(data, w)[i] = data[i]
      /\ Append(data, w)[m + 1] = w
  BY <1>2
<1>5. \A i \in 1..m + 1 : i \in 1..m \/ i = m + 1
  OBVIOUS
<1> QED BY <1>1, <1>2, <1>3, <1>4, <1>5 DEF FirstBits

\* The level the receiver remembers is that of the bit it is in.
LEMMA LastBit ==
  ASSUME NEW s, FrameSource(s), NEW r \in Receivers, NEW n \in Nat, Level(r, n),
         NEW b \in Nat, NEW h \in {0, 1}, r.status = Listens(b, h),
         Value(s, b) = (n % 2 # h)
  PROVE  r.last_data_bit = Value(s, b)
<1>1. r.last_data_bit \in BOOLEAN /\ Value(s, b) \in BOOLEAN /\ n % 2 \in {0, 1}
  BY ValueTyped, Parity DEF Receivers
<1>2. CASE h = 0
  <2>1. r.last_data_bit <=> n % 2 = 1
    BY <1>2 DEF Listens, Level, Starts
  <2>2. Value(s, b) <=> n % 2 = 1
    <3>1. Value(s, b) <=> n % 2 # 0
      BY <1>1, <1>2, Zenon
    <3>2. n % 2 # 0 <=> n % 2 = 1
      BY <1>1
    <3> QED BY <3>1, <3>2
  <2> QED BY <1>1, <2>1, <2>2
<1>3. CASE h = 1
  <2>1. r.last_data_bit <=> n % 2 = 0
    BY <1>3 DEF Listens, Level, Insides
  <2>2. Value(s, b) <=> n % 2 = 0
    <3>1. Value(s, b) <=> n % 2 # 1
      BY <1>1, <1>3, Zenon
    <3>2. n % 2 # 1 <=> n % 2 = 0
      BY <1>1
    <3> QED BY <3>1, <3>2
  <2> QED BY <1>1, <2>1, <2>2
<1> QED BY <1>2, <1>3

\* What is known of the n-th edge of a frame and of the one after it.
LEMMA EdgesPlaced ==
  ASSUME NEW s, FrameSource(s), NEW c \in Seq(Nat), NEW bit, NEW half,
         OnGrid(s, c, bit, half), NEW n \in Nat, n > 0, n < Len(c)
  PROVE  /\ bit[n] \in Nat /\ half[n] \in {0, 1}
         /\ Value(s, bit[n]) = (n % 2 # half[n])
         /\ bit[n + 1] \in Nat /\ half[n + 1] \in {0, 1}
         /\ half[n + 1] = 1 => bit[n + 1] <= Len(s.bits)
         /\ Follows(s, c, bit, half, n)
<1>1. n \in 1..Len(c) /\ n + 1 \in 1..Len(c) /\ n \in 1..Len(c) - 1 /\ n + 1 \in Nat
  OBVIOUS
<1>2. /\ Placed(s, bit, half, n) /\ Placed(s, bit, half, n + 1)
      /\ Follows(s, c, bit, half, n) /\ Grids(bit, half)
  BY <1>1 DEF OnGrid
<1>3. /\ bit[n] \in Nat /\ half[n] \in {0, 1}
      /\ bit[n + 1] \in Nat /\ half[n + 1] \in {0, 1}
  BY <1>1, <1>2 DEF Grids
<1>4. half[n + 1] = 1 => bit[n + 1] <= Len(s.bits)
  <2>1. bit[n + 1] <= Len(s.bits) + 1 - half[n + 1]
    BY <1>2 DEF Placed
  <2>2. Len(s.bits) \in Nat
    BY BitCount
  <2> QED BY <2>1, <2>2
<1> QED BY <1>2, <1>3, <1>4 DEF Placed

\* An edge takes the receiver from one place of a frame to the next.
LEMMA FrameStep ==
  ASSUME JitterBound, NEW s, FrameSource(s), NEW c \in Seq(Nat), NEW bit, NEW half,
         OnGrid(s, c, bit, half), NEW n \in Nat, n > 0, n < Len(c),
         rx \in Receivers, Level(rx, n), Located(s, c, rx, bit, half, n),
         NEW off \in Jitters, NEW before \in Jitters,
         NEW diff \in Int, diff = Length(c, n) + off - before,
         StartEdge(diff) \/ InsideEdge(diff) \/ IgnoredEdge
  PROVE  Located(s, c, rx', bit, half, n + 1) /\ report' = report
<1>1. /\ bit[n] \in Nat /\ half[n] \in {0, 1}
      /\ Value(s, bit[n]) = (n % 2 # half[n])
      /\ bit[n + 1] \in Nat /\ half[n + 1] \in {0, 1}
      /\ half[n + 1] = 1 => bit[n + 1] <= Len(s.bits)
      /\ Follows(s, c, bit, half, n)
  BY EdgesPlaced
<1>2. PICK b \in Nat, h \in {0, 1} : b = bit[n] /\ h = half[n]
  BY <1>1
<1>3. rx.status = Listens(b, h) /\ FirstBits(s, rx.data, Collected(b, h))
  BY <1>2 DEF Located
<1>4. rx.last_data_bit = Value(s, b) /\ Value(s, b) \in BOOLEAN
  <2>1. Value(s, b) = (n % 2 # h)
    BY <1>1, <1>2
  <2> QED BY <1>2, <1>3, <2>1, LastBit, ValueTyped
<1>5. n + 1 \in 1..Len(c) /\ Len(s.bits) \in Nat
  BY BitCount
<1> DEFINE t == diff + Back(n)
<1>6. CASE h = 0
  <2>1. bit[n + 1] = b /\ half[n + 1] = 1 /\ Length(c, n) = HalfBit(n) /\ b <= Len(s.bits)
    BY <1>1, <1>2, <1>6 DEF Follows
  <2>2. is_valid_halfbit_timing(t)
    BY <2>1, Windows
  <2>3. StartEdge(diff)
    <3>1. rx.status \in Starts /\ rx.status \notin Insides /\ rx.status # "ERROR_IN_FRAME"
      BY <1>3, <1>6 DEF Listens, Starts, Insides
    <3> QED BY <3>1 DEF InsideEdge, IgnoredEdge, Insides
  <2>4. \/ rx.status = "START_BIT_START" /\ Becomes("START_BIT_INSIDE")
        \/ rx.status = "DATA_BIT_START" /\ Bit(rx, rx.last_data_bit, "DATA_BIT_INSIDE")
    <3> HIDE DEF is_valid_halfbit_timing, t
    <3>1. LET u == diff + Back(n)
          IN is_valid_halfbit_timing(u) =>
                  \/ rx.status = "START_BIT_START" /\ Becomes("START_BIT_INSIDE")
                  \/ /\ rx.status = "DATA_BIT_START"
                     /\ Bit(rx, rx.last_data_bit, "DATA_BIT_INSIDE")
      BY <2>3, StartStep
    <3> QED BY <2>2, <3>1 DEF t
  <2> HIDE DEF t
  <2>5. CASE b = 0
    <3>1. rx' = [rx EXCEPT !.status = "START_BIT_INSIDE"] /\ report' = report
      BY <1>3, <1>6, <2>4, <2>5 DEF Listens, Becomes
    <3>2. rx'.status = "START_BIT_INSIDE" /\ rx'.data = rx.data
      BY <3>1 DEF Receivers
    <3>3. rx'.status = Listens(b, 1) /\ Collected(b, 1) = Collected(b, h)
      BY <2>5, <3>2 DEF Listens, Collected
    <3> QED BY <1>3, <1>5, <2>1, <3>1, <3>2, <3>3 DEF Located
  <2>6. CASE b # 0
    <3>1. /\ rx' = [status |-> "DATA_BIT_INSIDE", last_data_bit |-> rx.last_data_bit,
                    data |-> Append(rx.data, rx.last_data_bit)]
          /\ report' = report
      BY <1>3, <1>6, <2>4, <2>6 DEF Listens, Bit
    <3>2. rx'.status = Listens(b, 1) /\ rx'.data = Append(rx.data, rx.last_data_bit)
      BY <2>6, <3>1 DEF Listens
    <3>3. PICK m \in Nat : m = b - 1 /\ b = m + 1
      BY <2>6
    <3>4. FirstBits(s, rx.data, m) /\ Collected(b, 1) = m + 1
      BY <1>3, <1>6, <2>6, <3>3 DEF Collected
    <3>5. FirstBits(s, Append(rx.data, rx.last_data_bit), m + 1)
      BY <1>4, <2>1, <3>3, <3>4, BitHeard
    <3> QED BY <1>5, <2>1, <3>1, <3>2, <3>4, <3>5 DEF Located
  <2> QED BY <2>5, <2>6
<1>7. CASE h = 1
  <2>1. InsideEdge(diff)
    <3>1. rx.status \in Insides /\ rx.status \notin Starts /\ rx.status # "ERROR_IN_FRAME"
      BY <1>3, <1>7 DEF Listens, Starts, Insides
    <3> QED BY <3>1 DEF StartEdge, IgnoredEdge, Starts
  <2>2. /\ is_valid_halfbit_timing(t) => Becomes("DATA_BIT_START")
        /\ ~is_valid_halfbit_timing(t) /\ is_valid_fullbit_timing(t) =>
             Bit(rx, ~rx.last_data_bit, "DATA_BIT_INSIDE")
    BY <2>1, InsideStep
  <2>3. FirstBits(s, rx.data, b)
    BY <1>3, <1>7 DEF Collected
  <2>4. CASE Value(s, b + 1) # Value(s, b)
    <3>1. /\ bit[n + 1] = b + 1 /\ half[n + 1] = 1 /\ Length(c, n) = FullBit(n)
          /\ b + 1 <= Len(s.bits)
      BY <1>1, <1>2, <1>7, <2>4 DEF Follows
    <3>2. ~is_valid_halfbit_timing(t) /\ is_valid_fullbit_timing(t)
      BY <3>1, Windows
    <3> HIDE DEF is_valid_halfbit_timing, is_valid_fullbit_timing, t
    <3>3. Bit(rx, ~rx.last_data_bit, "DATA_BIT_INSIDE")
      BY <2>2, <3>2
    <3>4. PICK v \in BOOLEAN : v = ~rx.last_data_bit /\ v = Value(s, b + 1)
      <4>1. Value(s, b + 1) \in BOOLEAN
        BY ValueTyped
      <4> QED BY <1>4, <2>4, <4>1
    <3>5. /\ rx' = [status |-> "DATA_BIT_INSIDE", last_data_bit |-> v,
                    data |-> Append(rx.data, v)]
          /\ report' = report
      BY <3>3, <3>4 DEF Bit
    <3>6. rx'.status = Listens(b + 1, 1) /\ rx'.data = Append(rx.data, v)
          /\ Collected(b + 1, 1) = b + 1
      BY <3>5 DEF Listens, Collected
    <3>7. FirstBits(s, Append(rx.data, v), b + 1)
      BY <2>3, <3>1, <3>4, BitHeard
    <3> QED BY <1>5, <3>1, <3>5, <3>6, <3>7 DEF Located
  <2>5. CASE Value(s, b + 1) = Value(s, b)
    <3>1. bit[n + 1] = b + 1 /\ half[n + 1] = 0 /\ Length(c, n) = HalfBit(n)
      BY <1>1, <1>2, <1>7, <2>5 DEF Follows
    <3>2. is_valid_halfbit_timing(t)
      BY <3>1, Windows
    <3> HIDE DEF is_valid_halfbit_timing, t
    <3>3. Becomes("DATA_BIT_START")
      BY <2>2, <3>2
    <3>4. rx' = [rx EXCEPT !.status = "DATA_BIT_START"] /\ report' = report
      BY <3>3 DEF Becomes
    <3>5. rx'.status = "DATA_BIT_START" /\ rx'.data = rx.data
      BY <3>4 DEF Receivers
    <3>6. rx'.status = Listens(b + 1, 0) /\ Collected(b + 1, 0) = b
      BY <3>5 DEF Listens, Collected
    <3> QED BY <1>5, <2>3, <3>1, <3>4, <3>5, <3>6 DEF Located
  <2> QED BY <2>4, <2>5
<1> QED BY <1>6, <1>7

\* What a receiver makes of a corrupt frame: after its one bit, the fifth phase
\* is too long.
CorruptStatus(n) ==
  IF n = 1 THEN "START_BIT_START" ELSE IF n = 2 THEN "START_BIT_INSIDE"
  ELSE IF n = 4 THEN "DATA_BIT_INSIDE" ELSE "DATA_BIT_START"

CorruptAt(n, r, rep) ==
  IF n < 6
  THEN rep = NoReport /\ r.status = CorruptStatus(n)
       /\ r.data = (IF n < 4 THEN <<>> ELSE <<TRUE>>)
  ELSE r.status = "ERROR_IN_FRAME" /\ r.data = <<>>
       /\ rep.status \in Errors /\ rep.bit = 1

\* An edge takes the receiver from one place of a corrupt frame to the next.
LEMMA CorruptStep ==
  ASSUME JitterBound, NEW n \in Nat, n > 0, n < 18,
         rx \in Receivers, Level(rx, n), CorruptAt(n, rx, report),
         NEW off \in Jitters, NEW before \in Jitters,
         NEW diff \in Int, diff = CorruptLength(n) + off - before,
         StartEdge(diff) \/ InsideEdge(diff) \/ IgnoredEdge
  PROVE  CorruptAt(n + 1, rx', report')
<1> DEFINE t == diff + Back(n)
<1>1. /\ n # 5 => is_valid_halfbit_timing(t)
      /\ n = 5 => ~is_valid_halfbit_timing(t)
  <2>1. CASE n = 5
    <3>1. diff = 1500 + Shift(n - 1) + off - before
      BY <2>1 DEF CorruptLength
    <3>2. ~is_valid_halfbit_timing(1500 + Shift(n - 1) + off - before + Back(n))
      BY Windows
    <3> QED BY <2>1, <3>1, <3>2
  <2>2. CASE n # 5
    <3>1. HalfBit(n) = 417 + Shift(n - 1)
          /\ is_valid_halfbit_timing(HalfBit(n) + off - before + Back(n))
      BY Windows
    <3>2. diff = HalfBit(n) + off - before
      BY <2>2, <3>1 DEF CorruptLength
    <3> QED BY <2>2, <3>1, <3>2
  <2> QED BY <2>1, <2>2
<1>2. StartEdge(diff) =>
        /\ is_valid_halfbit_timing(t) =>
             \/ rx.status = "START_BIT_START" /\ Becomes("START_BIT_INSIDE")
             \/ /\ rx.status = "DATA_BIT_START"
                /\ Bit(rx, rx.last_data_bit, "DATA_BIT_INSIDE")
        /\ ~is_valid_halfbit_timing(t) => \E status \in Errors : Fails(status, t)
  BY StartStep
<1>3. InsideEdge(diff) => (is_valid_halfbit_timing(t) => Becomes("DATA_BIT_START"))
  BY InsideStep
<1> HIDE DEF t, is_valid_halfbit_timing
<1>4. StartEdge(diff) => rx.status \in Starts
  BY DEF StartEdge, Starts
<1>5. InsideEdge(diff) => rx.status \in Insides
  BY DEF InsideEdge, Insides
<1>6. IgnoredEdge => rx.status = "ERROR_IN_FRAME" /\ rx' = rx /\ report' = report
  BY DEF IgnoredEdge
<1>7. CASE n = 1
  <2>1. report = NoReport /\ rx.status = "START_BIT_START" /\ rx.data = <<>>
    BY <1>7 DEF CorruptAt, CorruptStatus
  <2>2. Becomes("START_BIT_INSIDE")
    BY <1>1, <1>2, <1>5, <1>6, <1>7, <2>1 DEF Insides
  <2>3. rx'.status = "START_BIT_INSIDE" /\ rx'.data = <<>> /\ report' = NoReport
    BY <2>1, <2>2 DEF Becomes, Receivers
  <2> QED BY <1>7, <2>3 DEF CorruptAt, CorruptStatus
<1>8. CASE n = 2
  <2>1. report = NoReport /\ rx.status = "START_BIT_INSIDE" /\ rx.data = <<>>
    BY <1>8 DEF CorruptAt, CorruptStatus
  <2>2. Becomes("DATA_BIT_START")
    BY <1>1, <1>3, <1>4, <1>6, <1>8, <2>1 DEF Starts
  <2>3. rx'.status = "DATA_BIT_START" /\ rx'.data = <<>> /\ report' = NoReport
    BY <2>1, <2>2 DEF Becomes, Receivers
  <2> QED BY <1>8, <2>3 DEF CorruptAt, CorruptStatus
<1>9. CASE n = 3
  <2>1. report = NoReport /\ rx.status = "DATA_BIT_START" /\ rx.data = <<>>
    BY <1>9 DEF CorruptAt, CorruptStatus
  <2>2. Bit(rx, rx.last_data_bit, "DATA_BIT_INSIDE")
    BY <1>1, <1>2, <1>5, <1>6, <1>9, <2>1 DEF Insides
  <2>3. rx.last_data_bit = TRUE
    <3>1. rx.last_data_bit <=> n % 2 = 1
      BY <2>1 DEF Level, Starts
    <3>2. n % 2 = 1
      BY <1>9
    <3>3. rx.last_data_bit \in BOOLEAN
      BY DEF Receivers
    <3> QED BY <3>1, <3>2, <3>3
  <2>4. /\ rx' = [status |-> "DATA_BIT_INSIDE", last_data_bit |-> rx.last_data_bit,
                  data |-> Append(rx.data, rx.last_data_bit)]
        /\ report' = report
    BY <2>2 DEF Bit
  <2>5. Append(<<>>, TRUE) = <<TRUE>>
    OBVIOUS
  <2>6. rx'.status = "DATA_BIT_INSIDE" /\ rx'.data = <<TRUE>> /\ report' = NoReport
    BY <2>1, <2>3, <2>4, <2>5
  <2> QED BY <1>9, <2>6 DEF CorruptAt, CorruptStatus
<1>10. CASE n = 4
  <2>1. report = NoReport /\ rx.status = "DATA_BIT_INSIDE" /\ rx.data = <<TRUE>>
    <3>1. n < 6 /\ ~(n < 4) /\ n # 1 /\ n # 2 /\ n = 4
      BY <1>10
    <3>2. /\ report = NoReport /\ rx.status = CorruptStatus(n)
          /\ rx.data = (IF n < 4 THEN <<>> ELSE <<TRUE>>)
      BY <3>1 DEF CorruptAt
    <3>3. CorruptStatus(n) = "DATA_BIT_INSIDE"
      BY <3>1 DEF CorruptStatus
    <3>4. rx.data = <<TRUE>>
      BY <3>1, <3>2
    <3> QED BY <3>2, <3>3, <3>4
  <2>2. Becomes("DATA_BIT_START")
    BY <1>1, <1>3, <1>4, <1>6, <1>10, <2>1 DEF Starts
  <2>3. rx'.status = "DATA_BIT_START" /\ rx'.data = <<TRUE>> /\ report' = NoReport
    BY <2>1, <2>2 DEF Becomes, Receivers
  <2> QED BY <1>10, <2>3 DEF CorruptAt, CorruptStatus
<1>11. CASE n = 5
  <2>1. report = NoReport /\ rx.status = "DATA_BIT_START" /\ rx.data = <<TRUE>>
    <3>1. n < 6 /\ ~(n < 4) /\ n # 1 /\ n # 2 /\ n # 4
      BY <1>11
    <3>2. /\ report = NoReport /\ rx.status = CorruptStatus(n)
          /\ rx.data = (IF n < 4 THEN <<>> ELSE <<TRUE>>)
      BY <3>1 DEF CorruptAt
    <3>3. CorruptStatus(n) = "DATA_BIT_START"
      BY <3>1 DEF CorruptStatus
    <3>4. rx.data = <<TRUE>>
      BY <3>1, <3>2
    <3> QED BY <3>2, <3>3, <3>4
  <2>2. PICK status \in Errors : Fails(status, t)
    BY <1>1, <1>2, <1>5, <1>6, <1>11, <2>1 DEF Insides
  <2>3. rx'.status = "ERROR_IN_FRAME" /\ rx'.data = <<>>
        /\ report'.status = status /\ report'.bit = Len(rx.data)
    BY <2>2 DEF Fails, NoReport, Receivers
  <2>4. report'.bit = 1
    BY <2>1, <2>3
  <2> QED BY <1>11, <2>3, <2>4 DEF CorruptAt
<1>12. CASE n >= 6
  <2>1. rx.status = "ERROR_IN_FRAME" /\ rx.data = <<>>
        /\ report.status \in Errors /\ report.bit = 1
    BY <1>12 DEF CorruptAt
  <2>2. rx' = rx /\ report' = report
    BY <1>4, <1>5, <1>6, <2>1 DEF Starts, Insides
  <2> QED BY <1>12, <2>1, <2>2 DEF CorruptAt
<1> QED BY <1>7, <1>8, <1>9, <1>10, <1>11, <1>12

-----------------------------------------------------------------------------
(* Where the receiver is in a frame.                                         *)

FrameHeard(s, c, r, rep, n) ==
  IF r.status = "IDLE" THEN rep.status = "OK" /\ rep.bits = s.bits
  ELSE /\ rep = NoReport
       /\ \E bit, half : /\ OnGrid(s, c, bit, half) /\ Ended(s, c, bit, half)
                         /\ Located(s, c, r, bit, half, n)

CorruptHeard(r, rep, n) ==
  IF r.status = "IDLE" THEN rep.status \in Errors /\ rep.bit = 1
  ELSE CorruptAt(n, r, rep)

\* The inductive invariant of a receiver that is sent frames.
Tracked ==
  /\ rx.status = "IDLE" => rx.data = <<>>
  /\ edge.n = 0 => report = NoReport
  /\ source.kind = "frame" /\ edge.n > 0 => FrameHeard(source, tx.count, rx, report, edge.n)
  /\ source.kind = "corrupt" /\ edge.n > 0 => CorruptHeard(rx, report, edge.n)

\* The first edge, and each that follows, of a frame ...
LEMMA FrameEdge ==
  ASSUME JitterBound, Encoded, Sampled, Tracked, Edge, source.kind = "frame"
  PROVE  FrameHeard(source, tx.count, rx', report', edge.n + 1)
<1>1. PICK off \in Displacements :
        /\ edge' = [n |-> edge.n + 1, off |-> off] /\ off \in Int /\ edge.off \in Int
        /\ edge.n = 0 => Begin
        /\ edge.n > 0 =>
             /\ Length(tx.count, edge.n) \in Int /\ edge.n <= Len(tx.count)
             /\ \/ StartEdge(Length(tx.count, edge.n) + off - edge.off)
                \/ InsideEdge(Length(tx.count, edge.n) + off - edge.off)
                \/ IgnoredEdge
  BY EdgeStep
<1>2. /\ edge.n \in Nat /\ edge.n < Toggles /\ rx \in Receivers /\ Level(rx, edge.n)
      /\ off \in Jitters /\ edge.off \in Jitters /\ rx'.status # "IDLE"
      /\ edge.n > 0 => rx.status # "IDLE"
  <2>1. IsFrame(source)
    BY DEF IsFrame
  <2>2. Toggles \in Nat /\ edge.n < Toggles
    BY TxTyped DEF Edge
  <2> QED BY <1>1, <2>1, <2>2, SampledEdge DEF Sampled, Displacements
<1>3. FrameSource(source) /\ tx.count \in Seq(Nat) /\ Len(tx.count) \in Nat
  BY TxTyped, SourceTyped DEF Fit
<1>4. Complete(source, tx)
  BY ReadyEncoded DEF Edge
<1>5. CASE edge.n = 0
  <2>1. PICK bit, half : OnGrid(source, tx.count, bit, half) /\ Ended(source, tx.count, bit, half)
    BY <1>4 DEF Complete
  <2>2. bit[1] = 0 /\ half[1] = 0 /\ 1 \in 1..Len(tx.count)
    BY <1>3, <2>1 DEF OnGrid, Ended
  <2>3. rx.status = "IDLE" /\ rx.data = <<>> /\ report = NoReport
    BY <1>5 DEF Sampled, Tracked
  <2>4. /\ rx' = [rx EXCEPT !.status = "START_BIT_START", !.last_data_bit = TRUE]
        /\ report' = report
    BY <1>1, <1>5 DEF Begin
  <2>5. rx'.status = "START_BIT_START" /\ rx'.data = <<>> /\ report' = NoReport
    BY <1>2, <2>3, <2>4 DEF Receivers
  <2>6. FirstBits(source, <<>>, 0)
    BY DEF FirstBits
  <2>7. Located(source, tx.count, rx', bit, half, 1)
    BY <2>2, <2>5, <2>6 DEF Located, Listens, Collected
  <2>8. edge.n + 1 = 1
    BY <1>5
  <2> QED BY <2>1, <2>5, <2>7, <2>8 DEF FrameHeard
<1>6. CASE edge.n > 0
  <2>1. FrameHeard(source, tx.count, rx, report, edge.n) /\ rx.status # "IDLE"
    BY <1>2, <1>6 DEF Tracked
  <2>2. PICK bit, half : /\ OnGrid(source, tx.count, bit, half)
                         /\ Ended(source, tx.count, bit, half)
                         /\ Located(source, tx.count, rx, bit, half, edge.n)
    BY <2>1 DEF FrameHeard
  <2>3. report = NoReport
    BY <2>1 DEF FrameHeard
  <2>4. edge.n < Len(tx.count)
    <3>1. Toggles = Len(tx.count)
      <4>1. Len(tx.count) % 2 = 0
        BY <2>2 DEF Ended
      <4>2. Toggles = Len(tx.count) + 0
        BY <4>1 DEF Toggles
      <4> QED BY <1>3, <4>2
    <3> QED BY <1>2, <3>1
  <2> DEFINE diff == Length(tx.count, edge.n) + off - edge.off
  <2>5. diff \in Int /\ (StartEdge(diff) \/ InsideEdge(diff) \/ IgnoredEdge)
    BY <1>1, <1>6
  <2>6. PICK n \in Nat, before \in Jitters : n = edge.n /\ before = edge.off
    BY <1>2
  <2>7. PICK d \in Int : d = diff
    BY <2>5
  <2> HIDE DEF diff
  <2>8. /\ d = Length(tx.count, n) + off - before
        /\ StartEdge(d) \/ InsideEdge(d) \/ IgnoredEdge
    BY <2>5, <2>6, <2>7 DEF diff
  <2>9. /\ n > 0 /\ n < Len(tx.count) /\ Level(rx, n) /\ rx \in Receivers
        /\ Located(source, tx.count, rx, bit, half, n)
    BY <1>2, <1>6, <2>2, <2>4, <2>6
  <2>10. Located(source, tx.count, rx', bit, half, n + 1) /\ report' = report
    BY <1>2, <1>3, <2>2, <2>8, <2>9, FrameStep
  <2> QED BY <1>2, <2>2, <2>3, <2>6, <2>10 DEF FrameHeard
<1> QED BY <1>2, <1>5, <1>6

\* ... and of a corrupt frame.
LEMMA CorruptEdge ==
  ASSUME JitterBound, Encoded, Sampled, Tracked, Edge, source.kind = "corrupt"
  PROVE  CorruptHeard(rx', report', edge.n + 1)
<1>1. PICK off \in Displacements :
        /\ edge' = [n |-> edge.n + 1, off |-> off] /\ off \in Int /\ edge.off \in Int
        /\ edge.n = 0 => Begin
        /\ edge.n > 0 =>
             /\ Length(tx.count, edge.n) \in Int /\ edge.n <= Len(tx.count)
             /\ \/ StartEdge(Length(tx.count, edge.n) + off - edge.off)
                \/ InsideEdge(Length(tx.count, edge.n) + off - edge.off)
                \/ IgnoredEdge
  BY EdgeStep
<1>2. /\ edge.n \in Nat /\ edge.n < Toggles /\ rx \in Receivers /\ Level(rx, edge.n)
      /\ off \in Jitters /\ edge.off \in Jitters /\ rx'.status # "IDLE"
      /\ edge.n > 0 => rx.status # "IDLE"
  <2>1. IsFrame(source)
    BY DEF IsFrame
  <2>2. Toggles \in Nat /\ edge.n < Toggles
    BY TxTyped DEF Edge
  <2> QED BY <1>1, <2>1, <2>2, SampledEdge DEF Sampled, Displacements
<1>3. /\ Holds(tx.count, 18)
      /\ \A j \in 1..17 : Length(tx.count, j) = CorruptLength(j)
  BY ReadyEncoded DEF Edge
<1>4. CASE edge.n = 0
  <2>1. rx.status = "IDLE" /\ rx.data = <<>> /\ report = NoReport
    BY <1>4 DEF Sampled, Tracked
  <2>2. /\ rx' = [rx EXCEPT !.status = "START_BIT_START", !.last_data_bit = TRUE]
        /\ report' = report
    BY <1>1, <1>4 DEF Begin
  <2>3. rx'.status = "START_BIT_START" /\ rx'.data = <<>> /\ report' = NoReport
    BY <1>2, <2>1, <2>2 DEF Receivers
  <2>4. edge.n + 1 = 1 /\ 1 < 6 /\ 1 < 4
    BY <1>4
  <2>5. CorruptAt(1, rx', report')
    BY <2>3, <2>4 DEF CorruptAt, CorruptStatus
  <2> QED BY <2>3, <2>4, <2>5 DEF CorruptHeard
<1>5. CASE edge.n > 0
  <2>1. CorruptAt(edge.n, rx, report)
    BY <1>2, <1>5 DEF Tracked, CorruptHeard
  <2>2. edge.n < 18 /\ edge.n \in 1..17
    <3>1. Toggles = 18
      BY <1>3 DEF Toggles, Holds
    <3> QED BY <1>2, <1>5, <3>1
  <2> DEFINE diff == Length(tx.count, edge.n) + off - edge.off
  <2>3. diff \in Int /\ (StartEdge(diff) \/ InsideEdge(diff) \/ IgnoredEdge)
    BY <1>1, <1>5
  <2>4. diff = CorruptLength(edge.n) + off - edge.off
    BY <1>3, <2>2
  <2>5. PICK n \in Nat, before \in Jitters, d \in Int :
          n = edge.n /\ before = edge.off /\ d = diff
    BY <1>2, <2>3
  <2> HIDE DEF diff
  <2>6. /\ d = CorruptLength(n) + off - before /\ n > 0 /\ n < 18 /\ CorruptAt(n, rx, report)
        /\ StartEdge(d) \/ InsideEdge(d) \/ IgnoredEdge
        /\ Level(rx, n) /\ rx \in Receivers
    BY <1>2, <1>5, <2>1, <2>2, <2>3, <2>4, <2>5
  <2>7. CorruptAt(n + 1, rx', report')
    BY <1>2, <2>6, CorruptStep
  <2> QED BY <1>2, <2>5, <2>7 DEF CorruptHeard
<1> QED BY <1>2, <1>4, <1>5

\* Nothing has been received at first.
LEMMA TrackedInit == Init => Tracked
<1> SUFFICES ASSUME Init PROVE Tracked
  OBVIOUS
<1>1. /\ edge = [n |-> 0, off |-> 0] /\ report = NoReport
      /\ rx = [status |-> "IDLE", last_data_bit |-> FALSE, data |-> <<>>]
  BY DEF Init
<1>2. edge.n = 0 /\ ~(edge.n > 0) /\ rx.data = <<>>
  BY <1>1
<1> QED BY <1>1, <1>2 DEF Tracked

\* A complete frame has all its bits when the stop condition is there.
LEMMA FrameStopped ==
  ASSUME Encoded, Sampled, Tracked, source.kind = "frame", edge.n > 0, edge.n = Toggles,
         rx.status # "IDLE"
  PROVE  rx.data = source.bits /\ rx.status # "ERROR_IN_FRAME"
<1>1. FrameSource(source) /\ tx.count \in Seq(Nat) /\ Len(tx.count) \in Nat
      /\ Len(source.bits) \in Nat
  BY TxTyped, SourceTyped, BitCount DEF Fit
<1>2. PICK bit, half : /\ OnGrid(source, tx.count, bit, half)
                       /\ Ended(source, tx.count, bit, half)
                       /\ Located(source, tx.count, rx, bit, half, edge.n)
  BY DEF Tracked, FrameHeard
<1>3. Toggles = Len(tx.count)
  <2>1. Len(tx.count) % 2 = 0
    BY <1>2 DEF Ended
  <2>2. Toggles = Len(tx.count) + 0
    BY <2>1 DEF Toggles
  <2> QED BY <1>1, <2>2
<1>4. PICK n \in Nat : n = edge.n /\ n = Len(tx.count)
  BY <1>1, <1>3
<1>5. bit[n] = Len(source.bits) + 1 - half[n] /\ half[n] \in {0, 1}
  <2>1. Grids(bit, half)
    BY <1>2 DEF OnGrid
  <2> QED BY <1>2, <1>4, <2>1 DEF Ended, Grids
<1>6. Collected(bit[n], half[n]) = Len(source.bits)
  <2>1. CASE half[n] = 1
    BY <1>1, <1>5, <2>1 DEF Collected
  <2>2. CASE half[n] = 0
    <3>1. bit[n] # 0 /\ bit[n] - 1 = Len(source.bits) /\ half[n] # 1
      BY <1>1, <1>5, <2>2
    <3> QED BY <3>1 DEF Collected
  <2> QED BY <1>5, <2>1, <2>2
<1>7. FirstBits(source, rx.data, Len(source.bits)) /\ rx.status = Listens(bit[n], half[n])
  BY <1>2, <1>4, <1>6 DEF Located
<1>8. rx.data = source.bits
  <2>1. source.bits \in Seq(BOOLEAN)
    BY <1>1 DEF FrameSource
  <2>2. /\ rx.data \in Seq(BOOLEAN) /\ Len(rx.data) = Len(source.bits)
        /\ \A i \in 1..Len(source.bits) : rx.data[i] = source.bits[i]
    BY <1>7 DEF FirstBits
  <2> QED BY <2>1, <2>2, SeqEqual
<1>9. rx.status # "ERROR_IN_FRAME"
  BY <1>7 DEF Listens
<1> QED BY <1>8, <1>9

\* A corrupt frame has been refused when the stop condition is there.
LEMMA CorruptStopped ==
  ASSUME Encoded, Sampled, Tracked, source.kind = "corrupt", edge.n > 0, edge.n = Toggles,
         rx.status # "IDLE"
  PROVE  rx.status = "ERROR_IN_FRAME" /\ report.status \in Errors /\ report.bit = 1
<1>1. Ready
  BY DEF Sampled
<1>2. Holds(tx.count, 18)
  BY <1>1, ReadyEncoded
<1>3. edge.n = 18
  BY <1>2 DEF Toggles, Holds
<1>4. CorruptAt(edge.n, rx, report)
  BY DEF Tracked, CorruptHeard
<1> QED BY <1>3, <1>4 DEF CorruptAt

\* The receiver keeps track of whatever frame is sent.
LEMMA TrackedNext ==
  ASSUME JitterBound, Encoded, Sampled, Tracked, [Next]_vars PROVE Tracked'
<1>0. edge.n \in Nat /\ rx \in Receivers
  BY DEF Sampled
<1>1. CASE StartBit \/ DataBit \/ CorruptPhase \/ StopCondition \/ Period
  <2>1. edge.n = 0 /\ UNCHANGED <<source, edge, rx, report>>
    BY <1>1, WrittenFirst
  <2> QED BY <2>1 DEF Tracked
<1>2. CASE Edge
  <2>1. edge'.n = edge.n + 1 /\ source' = source /\ tx' = tx
    BY <1>2, EdgeStep DEF Edge
  <2>2. edge'.n # 0 /\ rx'.status # "IDLE"
    BY <1>0, <1>2, <2>1, SampledEdge
  <2>3. source.kind = "frame" => FrameHeard(source, tx.count, rx', report', edge.n + 1)
    BY <1>2, FrameEdge
  <2>4. source.kind = "corrupt" => CorruptHeard(rx', report', edge.n + 1)
    BY <1>2, CorruptEdge
  <2> QED BY <2>1, <2>2, <2>3, <2>4 DEF Tracked
<1>3. CASE StopFrame
  <2>1. /\ UNCHANGED <<source, tx, edge>> /\ edge.n > 0 /\ edge.n = Toggles
        /\ rx.status \notin {"IDLE", "ERROR_IN_FRAME"} /\ rx' = Cleared(rx)
        /\ report' = [NoReport EXCEPT !.status = "OK", !.bits = rx.data,
                                !.twice = is_frame_received_twice]
    BY <1>3 DEF StopFrame
  <2>2. rx'.status = "IDLE" /\ rx'.data = <<>>
    BY <1>0, <2>1, ClearedTyped
  <2>3. source.kind = "frame" => report'.status = "OK" /\ report'.bits = source.bits
    <3>1. report'.status = "OK" /\ report'.bits = rx.data
      BY <2>1 DEF NoReport
    <3> QED BY <2>1, <3>1, FrameStopped
  <2>4. source.kind # "corrupt"
    BY <2>1, CorruptStopped
  <2>5. edge'.n # 0
    BY <2>1
  <2> QED BY <2>1, <2>2, <2>3, <2>4, <2>5 DEF Tracked, FrameHeard
<1>4. CASE StopError
  <2>1. /\ UNCHANGED <<source, tx, edge, report>> /\ edge.n > 0 /\ edge.n = Toggles
        /\ rx.status = "ERROR_IN_FRAME" /\ rx' = Cleared(rx)
    BY <1>4 DEF StopError
  <2>2. rx'.status = "IDLE" /\ rx'.data = <<>> /\ edge'.n # 0
    BY <1>0, <2>1, ClearedTyped
  <2>3. source.kind # "frame"
    BY <2>1, FrameStopped
  <2>4. source.kind = "corrupt" => report.status \in Errors /\ report.bit = 1
    BY <2>1, CorruptStopped
  <2> QED BY <2>1, <2>2, <2>3, <2>4 DEF Tracked, CorruptHeard
<1>5. CASE SendNext
  <2>1. edge' = [n |-> 0, off |-> 0] /\ report' = NoReport /\ rx' = rx /\ rx.status = "IDLE"
    BY <1>5 DEF SendNext, Finished
  <2>2. edge'.n = 0 /\ ~(edge'.n > 0)
    BY <2>1
  <2> QED BY <2>1, <2>2 DEF Tracked
<1>6. CASE UNCHANGED vars
  <2>1. UNCHANGED <<source, tx, edge, rx, report>>
    BY <1>6 DEF vars
  <2> QED BY <2>1 DEF Tracked
<1> QED BY <1>1, <1>2, <1>3, <1>4, <1>5, <1>6 DEF Next

\* The receiver always keeps track of what is sent.
LEMMA TrackedAlways == ASSUME JitterBound PROVE Spec => [](Encoded /\ Sampled /\ Tracked)
<1>1. Init => Encoded /\ Sampled /\ Tracked
  BY EncodedInit, SampledInit, TrackedInit
<1>2. Encoded /\ Sampled /\ Tracked /\ [Next]_vars => Encoded' /\ Sampled' /\ Tracked'
  BY EncodedNext, SampledNext, TrackedNext
<1> QED BY <1>1, <1>2, PTL DEF Spec

\* Whatever frame of up to 32 bits is sent, and wherever within 41 us of its
\* place each edge is seen, the receiver reports it once with its bits, and
\* refuses a corrupt frame after its one bit.
THEOREM FramesDecoded ==
  ASSUME JitterBound PROVE Spec => [](IsFrame(source) => DecodesAsSent)
<1>1. ASSUME Encoded, Tracked, IsFrame(source) PROVE DecodesAsSent
  <2>1. /\ source.kind = "frame" \/ source.kind = "corrupt"
        /\ source.kind = "corrupt" => source.bits = <<TRUE>>
    BY <1>1, SourceTyped DEF Encoded
  <2>2. ASSUME Finished, source.kind = "frame"
        PROVE  report.status = "OK" /\ report.bits = source.bits
    BY <1>1, <2>2 DEF Tracked, FrameHeard, Finished
  <2>3. ASSUME Finished, source.kind = "corrupt"
        PROVE  report.status \in Errors /\ report.bit = Len(source.bits)
    <3>1. report.status \in Errors /\ report.bit = 1
      BY <1>1, <2>3 DEF Tracked, CorruptHeard, Finished
    <3>2. Len(source.bits) = 1
      BY <2>1, <2>3
    <3> QED BY <3>1, <3>2
  <2> QED BY <2>1, <2>2, <2>3 DEF DecodesAsSent
<1>2. Encoded /\ Sampled /\ Tracked => (IsFrame(source) => DecodesAsSent)
  BY <1>1
<1> QED BY <1>2, TrackedAlways, PTL

-----------------------------------------------------------------------------
(* The frame before.                                                         *)

Frames == [bits : Seq(BOOLEAN), age : 0..Old]

\* An age ends at that from which on a frame is not compared.
LEMMA AgedTyped ==
  ASSUME NEW f \in Frames, NEW gap \in Nat
  PROVE  Aged(f, gap) \in Frames
<1>1. Old = 95
  BY DEF Old, max_receive_twice_delay_ms
<1>2. f.age \in 0..95 /\ f.bits \in Seq(BOOLEAN)
  BY <1>1 DEF Frames
<1>3. (IF f.age + gap < 95 THEN f.age + gap ELSE 95) \in 0..95
  <2>1. PICK k \in 0..95 : k = f.age
    BY <1>2
  <2>2. k + gap < 95 => k + gap \in 0..95
    OBVIOUS
  <2>3. 95 \in 0..95
    OBVIOUS
  <2> QED BY <2>1, <2>2, <2>3
<1>4. PICK a \in 0..95 : a = IF f.age + gap < 95 THEN f.age + gap ELSE 95
  BY <1>3
<1>5. Aged(f, gap) = [f EXCEPT !.age = a]
  BY <1>1, <1>4 DEF Aged
<1> QED BY <1>1, <1>5 DEF Frames

\* The types of what is remembered.
Dated == last \in Frames /\ past \in Frames /\ sent \in 1..MaxSent

\* There is none at first.
LEMMA DatedInit == Init => Dated
<1> SUFFICES ASSUME Init PROVE Dated
  OBVIOUS
<1>1. /\ last = [bits |-> <<>>, age |-> Old] /\ past = [bits |-> <<>>, age |-> Old]
      /\ sent = 1
  BY DEF Init
<1>2. <<>> \in Seq(BOOLEAN) /\ Old \in 0..Old
  BY DEF Old, max_receive_twice_delay_ms
<1>3. 1 \in 1..MaxSent
  BY BitsAssumption
<1> QED BY <1>1, <1>2, <1>3 DEF Dated, Frames

\* Every step keeps these types.
LEMMA DatedNext == ASSUME Encoded, Sampled, Dated, [Next]_vars PROVE Dated'
<1>1. CASE StartBit \/ DataBit \/ CorruptPhase \/ StopCondition \/ Period
  BY <1>1, WrittenFirst DEF Dated
<1>2. CASE Edge \/ StopError \/ UNCHANGED vars
  BY <1>2 DEF Edge, StopError, vars, Dated
<1>3. CASE StopFrame
  <2>1. /\ sent' = sent /\ last' = [bits |-> rx.data, age |-> 0]
        /\ past' = [bits |-> source.bits, age |-> 0]
    BY <1>3 DEF StopFrame, last_frame
  <2>2. rx.data \in Seq(BOOLEAN) /\ source.bits \in Seq(BOOLEAN)
    BY SourceTyped DEF Sampled, Encoded, Receivers, FrameSource
  <2>3. 0 \in 0..Old
    BY DEF Old, max_receive_twice_delay_ms
  <2> QED BY <2>1, <2>2, <2>3 DEF Dated, Frames
<1>4. CASE SendNext
  <2>1. PICK gap \in Gaps : last' = Aged(last, gap) /\ past' = Aged(past, gap)
    BY <1>4 DEF SendNext
  <2>2. gap \in Nat /\ sent < MaxSent /\ sent' = sent + 1
    BY <1>4, BitsAssumption DEF SendNext
  <2>3. sent' \in 1..MaxSent
    BY <2>2, BitsAssumption DEF Dated
  <2> QED BY <2>1, <2>2, <2>3, AgedTyped DEF Dated
<1> QED BY <1>1, <1>2, <1>3, <1>4 DEF Next

\* The inductive invariant about the frame before: what the receiver remembers
\* of it is what was sent.
Remembered ==
  /\ IsFrame(source) => last = past
  /\ ~IsFrame(source) => Finished \/ (last.age = Old /\ past.age = Old)

\* Frames and corrupt frames follow each other, and no sequences.
SeriesOfFrames == \A s \in Series : IsFrame(s)

\* Nothing was sent before the first transmission.
LEMMA RememberedInit == Init => Remembered
<1> SUFFICES ASSUME Init PROVE Remembered
  OBVIOUS
<1>1. last = [bits |-> <<>>, age |-> Old] /\ past = [bits |-> <<>>, age |-> Old]
  BY DEF Init
<1> QED BY <1>1 DEF Remembered

\* Every step keeps the two the same.
LEMMA RememberedNext ==
  ASSUME SeriesOfFrames, Encoded, Sampled, Tracked, Remembered, [Next]_vars
  PROVE  Remembered'
<1>0. /\ edge.n \in Nat /\ rx \in Receivers /\ source \in Sources
      /\ IsFrame(source) <=> source.kind = "frame" \/ source.kind = "corrupt"
  BY SourceTyped DEF Sampled, Encoded
<1>1. CASE StartBit \/ DataBit \/ CorruptPhase \/ StopCondition \/ Period
  <2>1. edge.n = 0 /\ UNCHANGED <<source, last, past>>
    BY <1>1, WrittenFirst
  <2>2. ~Finished /\ (IsFrame(source)' <=> IsFrame(source))
    BY <2>1 DEF Finished, IsFrame
  <2> QED BY <2>1, <2>2 DEF Remembered
<1>2. CASE Edge \/ StopError
  <2>1. UNCHANGED <<source, last, past>> /\ ~Finished
    <3>1. Toggles \in Nat
      BY TxTyped
    <3> QED BY <1>0, <1>2, <3>1 DEF Edge, StopError, Finished
  <2>2. IsFrame(source)' <=> IsFrame(source)
    BY <2>1 DEF IsFrame
  <2> QED BY <2>1, <2>2 DEF Remembered
<1>3. CASE StopFrame
  <2>1. /\ UNCHANGED <<source, tx, item, edge>> /\ edge.n > 0 /\ edge.n = Toggles
        /\ rx.status \notin {"IDLE", "ERROR_IN_FRAME"} /\ rx' = Cleared(rx)
        /\ last' = [bits |-> rx.data, age |-> 0] /\ past' = [bits |-> source.bits, age |-> 0]
    BY <1>3 DEF StopFrame, last_frame
  <2>2. /\ Toggles' = Toggles /\ (IsFrame(source)' <=> IsFrame(source))
    BY <2>1, SentOn
  <2>3. IsFrame(source) => last' = past'
    <3>1. source.kind # "corrupt"
      BY <2>1, CorruptStopped
    <3>2. source.kind = "frame" => rx.data = source.bits
      BY <2>1, FrameStopped
    <3> QED BY <1>0, <2>1, <3>1, <3>2
  <2>4. Finished'
    <3>1. rx'.status = "IDLE"
      BY <1>0, <2>1, ClearedTyped
    <3> QED BY <2>1, <2>2, <3>1 DEF Finished
  <2> QED BY <2>1, <2>2, <2>3, <2>4 DEF Remembered
<1>4. CASE SendNext
  <2>1. IsFrame(source) /\ IsFrame(source')
    BY <1>4 DEF SendNext, SeriesOfFrames
  <2>2. \E gap \in Gaps : last' = Aged(last, gap) /\ past' = Aged(past, gap)
    BY <1>4 DEF SendNext
  <2>3. last' = past'
    BY <2>1, <2>2 DEF Remembered
  <2> QED BY <2>1, <2>3 DEF Remembered
<1>5. CASE UNCHANGED vars
  <2>1. UNCHANGED <<source, tx, item, edge, rx, last, past>>
    BY <1>5 DEF vars
  <2>2. Toggles' = Toggles /\ (IsFrame(source)' <=> IsFrame(source))
    BY <2>1, SentOn
  <2>3. Finished' = Finished
    BY <2>1, <2>2 DEF Finished
  <2> QED BY <2>1, <2>2, <2>3 DEF Remembered
<1> QED BY <1>1, <1>2, <1>3, <1>4, <1>5 DEF Next

\* What the receiver remembers is always what was sent.
LEMMA RememberedAlways ==
  ASSUME JitterBound, SeriesOfFrames
  PROVE  Spec => [](Encoded /\ Sampled /\ Tracked /\ Remembered)
<1>1. Init => Encoded /\ Sampled /\ Tracked /\ Remembered
  BY EncodedInit, SampledInit, TrackedInit, RememberedInit
<1>2. Encoded /\ Sampled /\ Tracked /\ Remembered /\ [Next]_vars
        => Encoded' /\ Sampled' /\ Tracked' /\ Remembered'
  BY EncodedNext, SampledNext, TrackedNext, RememberedNext
<1> QED BY <1>1, <1>2, PTL DEF Spec

\* An edge does not complete a frame.
LEMMA EdgeReports ==
  ASSUME Edge PROVE report' = report \/ report'.status \in Errors
<1>1. PICK off : Begin \/ StartEdge(Since(off)) \/ InsideEdge(Since(off)) \/ IgnoredEdge
  BY DEF Edge
<1>2. ASSUME NEW status \in Errors, NEW t, Fails(status, t) PROVE report'.status \in Errors
  BY <1>2 DEF Fails, NoReport
<1>3. "START_TIMING" \in Errors /\ "DATA_TIMING" \in Errors
  BY DEF Errors
<1>4. CASE Begin \/ IgnoredEdge
  BY <1>4 DEF Begin, IgnoredEdge
<1>5. ASSUME NEW diff, StartEdge(diff)
      PROVE  report' = report \/ report'.status \in Errors
  <2> DEFINE t == get_corrected_time_difference_us(diff, FALSE)
  <2>1. \/ Becomes("START_BIT_INSIDE") \/ Fails("START_TIMING", t)
        \/ Bit(rx, rx.last_data_bit, "DATA_BIT_INSIDE") \/ Fails("DATA_TIMING", t)
    BY <1>5 DEF StartEdge
  <2> HIDE DEF t
  <2> QED BY <1>2, <1>3, <2>1 DEF Becomes, Bit
<1>6. ASSUME NEW diff, InsideEdge(diff)
      PROVE  report' = report \/ report'.status \in Errors
  <2> DEFINE t == get_corrected_time_difference_us(diff, TRUE)
  <2>1. \/ Becomes("DATA_BIT_START") \/ Fails("DATA_TIMING", t)
        \/ Bit(rx, ~rx.last_data_bit, "DATA_BIT_INSIDE")
    BY <1>6 DEF InsideEdge
  <2> HIDE DEF t
  <2> QED BY <1>2, <1>3, <2>1 DEF Becomes, Bit
<1> QED BY <1>1, <1>4, <1>5, <1>6

\* In a series of frames of up to 32 bits, corrupt ones among them, the
\* receiver flags a frame as received twice when it is the same as the last
\* complete one and that is less than 95 ms ago, and no other.
THEOREM TwiceFlagged == ASSUME JitterBound, SeriesOfFrames PROVE Spec => TwiceFlag
<1>1. ASSUME Encoded, Sampled, Tracked, Remembered, [Next]_vars,
             report.status # "OK", report'.status = "OK"
      PROVE  report'.twice <=> /\ past.bits = source.bits
                               /\ past.age < max_receive_twice_delay_ms
  <2>1. StopFrame
    <3>1. CASE StartBit \/ DataBit \/ CorruptPhase \/ StopCondition \/ Period
      BY <1>1, <3>1, WrittenFirst
    <3>2. CASE Edge
      <4>1. report' = report \/ report'.status \in Errors
        BY <3>2, EdgeReports
      <4> QED BY <1>1, <4>1 DEF Errors
    <3>3. CASE StopError \/ UNCHANGED vars
      BY <1>1, <3>3 DEF StopError, vars
    <3>4. CASE SendNext
      BY <1>1, <3>4 DEF SendNext, NoReport
    <3> QED BY <1>1, <3>1, <3>2, <3>3, <3>4 DEF Next
  <2>2. /\ edge.n > 0 /\ edge.n = Toggles /\ rx.status \notin {"IDLE", "ERROR_IN_FRAME"}
        /\ report' = [NoReport EXCEPT !.status = "OK", !.bits = rx.data,
                                      !.twice = is_frame_received_twice]
    BY <2>1 DEF StopFrame
  <2>3. report'.twice = is_frame_received_twice
    BY <2>2 DEF NoReport
  <2>4. /\ source \in Sources
        /\ IsFrame(source) <=> source.kind = "frame" \/ source.kind = "corrupt"
    BY <1>1, SourceTyped DEF Encoded
  <2>5. CASE IsFrame(source)
    <3>1. source.kind # "corrupt"
      BY <1>1, <2>2, CorruptStopped
    <3>2. rx.data = source.bits /\ last = past
      BY <1>1, <2>2, <2>4, <2>5, <3>1, FrameStopped DEF Remembered
    <3> QED BY <2>3, <3>2 DEF is_frame_received_twice
  <2>6. CASE ~IsFrame(source)
    <3>1. last.age = Old /\ past.age = Old
      BY <1>1, <2>2, <2>6 DEF Remembered, Finished
    <3>2. ~(Old < max_receive_twice_delay_ms)
      BY DEF Old, max_receive_twice_delay_ms
    <3> QED BY <2>3, <3>1, <3>2 DEF is_frame_received_twice
  <2> QED BY <2>5, <2>6
<1>2. Encoded /\ Sampled /\ Tracked /\ Remembered /\ [Next]_vars =>
        [(report.status # "OK" /\ report'.status = "OK")
         => (report'.twice <=> /\ past.bits = source.bits
                               /\ past.age < max_receive_twice_delay_ms)]_vars
  BY <1>1
<1> QED BY <1>2, RememberedAlways, PTL DEF Spec, TwiceFlag

-----------------------------------------------------------------------------
(* Types.                                                                    *)

\* The receiver never has more bits of a frame than were sent.
LEMMA CollectedFits ==
  ASSUME Encoded, Sampled, Tracked, IsFrame(source)
  PROVE  Len(rx.data) <= Len(source.bits)
<1>1. /\ source \in Sources /\ edge.n \in Nat /\ rx \in Receivers
      /\ source.kind = "frame" \/ source.kind = "corrupt"
      /\ source.kind = "corrupt" => source.bits = <<TRUE>>
      /\ FrameSource(source) /\ tx.count \in Seq(Nat)
  BY SourceTyped, TxTyped DEF Encoded, Sampled, Fit
<1>2. Len(source.bits) \in Nat
  BY <1>1, BitCount
<1>3. CASE rx.status = "IDLE"
  BY <1>2, <1>3 DEF Tracked
<1>4. CASE rx.status # "IDLE" /\ source.kind = "frame"
  <2>1. edge.n > 0
    BY <1>1, <1>4 DEF Sampled
  <2>2. PICK bit, half : /\ OnGrid(source, tx.count, bit, half)
                         /\ Located(source, tx.count, rx, bit, half, edge.n)
    BY <1>4, <2>1 DEF Tracked, FrameHeard
  <2>3. PICK n \in Nat : n = edge.n /\ n \in 1..Len(tx.count)
    BY <1>1, <2>2 DEF Located
  <2>4. bit[n] \in Nat /\ half[n] \in {0, 1} /\ bit[n] <= Len(source.bits) + 1 - half[n]
    BY <2>2, <2>3 DEF OnGrid, Grids, Placed
  <2>5. PICK b \in Nat, h \in {0, 1} : b = bit[n] /\ h = half[n]
    BY <2>4
  <2>6. Collected(b, h) <= Len(source.bits)
    <3>1. b <= Len(source.bits) + 1 - h
      BY <2>4, <2>5
    <3> QED BY <1>2, <3>1 DEF Collected
  <2>7. Len(rx.data) = Collected(b, h)
    BY <2>2, <2>3, <2>5 DEF Located, FirstBits
  <2> QED BY <2>6, <2>7
<1>5. CASE rx.status # "IDLE" /\ source.kind = "corrupt"
  <2>1. edge.n > 0
    BY <1>1, <1>5 DEF Sampled
  <2>2. CorruptAt(edge.n, rx, report) /\ Len(source.bits) = 1
    BY <1>1, <1>5, <2>1 DEF Tracked, CorruptHeard
  <2>3. rx.data = <<>> \/ rx.data = <<TRUE>>
    BY <2>2 DEF CorruptAt
  <2>4. Len(<<>>) = 0 /\ Len(<<TRUE>>) = 1 /\ 0 <= 1 /\ 1 <= 1
    OBVIOUS
  <2>5. CASE rx.data = <<>>
    BY <2>2, <2>4, <2>5
  <2>6. CASE rx.data = <<TRUE>>
    BY <2>2, <2>4, <2>6
  <2> QED BY <2>3, <2>5, <2>6
<1> QED BY <1>1, <1>3, <1>4, <1>5

\* Counts are below the modulus.
LEMMA CountsTyped ==
  ASSUME NEW c, Fit(c)
  PROVE  c \in Seq(0..CountModulus - 1)
<1>1. c \in Seq(Nat) /\ Len(c) \in Nat /\ Len(c) <= 67
  BY ArraySize DEF Fit
<1>2. ASSUME NEW i \in 1..Len(c) PROVE c[i] \in 0..CountModulus - 1
  <2>1. c[i] \in Nat /\ c[i] <= Longest * i
    BY <1>1 DEF Fit
  <2>2. PICK m \in Room : i = m + 1
    <3>1. i - 1 \in Room /\ i = (i - 1) + 1
      BY <1>1 DEF Room
    <3> QED BY <3>1
  <2>3. c[i] < CountModulus
    BY <2>1, <2>2, Countable
  <2>4. \A k, p \in Nat : k < p => k \in 0..p - 1
    OBVIOUS
  <2>5. CountModulus \in Nat
    BY BitsAssumption
  <2> QED BY <2>1, <2>3, <2>4, <2>5
<1>3. ASSUME NEW S, \A i \in 1..Len(c) : c[i] \in S PROVE c \in Seq(S)
  BY <1>1, <1>3
<1> QED BY <1>2, <1>3

\* The types of everything, as the runs check them.
LEMMA TypesFollow ==
  ASSUME Encoded, Sampled, Tracked, Dated, IsFrame(source) PROVE BitsTypeOK
<1>1. /\ Typed(tx) /\ Fit(tx.count) /\ Len(tx.count) \in Nat /\ Toggles \in Nat
      /\ source \in Sources /\ Items \in Nat /\ item \in 0..Items + 2
  BY TxTyped
<1>2. tx \in [count : Seq(0..CountModulus - 1), state_now : BOOLEAN, full : BOOLEAN]
  <2>1. tx.count \in Seq(0..CountModulus - 1)
    BY <1>1, CountsTyped
  <2> QED BY <1>1, <2>1 DEF Typed, Encoders
<1>3. edge.n \in 0..COUNT_ARRAY_SIZE + 1 /\ edge.off \in Jitters
  <2>1. Len(tx.count) <= 67 /\ Len(tx.count) % 2 \in {0, 1}
    BY <1>1, ArraySize, Parity DEF Fit
  <2>2. \A k \in Nat, p \in {0, 1} : k <= 67 => k + p <= 68
    OBVIOUS
  <2>3. Toggles <= 68
    BY <1>1, <2>1, <2>2 DEF Toggles
  <2>4. edge.n \in Nat /\ edge.n <= Toggles /\ edge.off \in Jitters
    BY DEF Sampled
  <2>5. edge.n \in 0..67 + 1
    <3>1. \A k, t \in Nat : k <= t /\ t <= 68 => k \in 0..67 + 1
      OBVIOUS
    <3> QED BY <1>1, <2>3, <2>4, <3>1
  <2> QED BY <2>4, <2>5, ArraySize
<1>4. /\ rx.status \in {"IDLE", "START_BIT_START", "START_BIT_INSIDE", "DATA_BIT_START",
                        "DATA_BIT_INSIDE", "ERROR_IN_FRAME"}
      /\ rx.last_data_bit \in BOOLEAN
      /\ rx.data \in Seq(BOOLEAN) /\ Len(rx.data) <= Len(source.bits)
  BY CollectedFits DEF Sampled, Receivers, Statuses, Starts, Insides
<1>5. report.status \in Errors \cup {"", "OK"} /\ report.twice \in BOOLEAN
  BY DEF Sampled, Reports
<1>6. /\ \A f \in {last, past} : f.bits \in Seq(BOOLEAN) /\ f.age \in 0..Old
      /\ sent \in 1..MaxSent
  BY DEF Dated, Frames
<1> QED BY <1>1, <1>2, <1>3, <1>4, <1>5, <1>6 DEF BitsTypeOK

\* Whatever frame is sent, every variable has its type; above all the receiver
\* never collects more bits than were sent, so that 32 bits are room enough.
THEOREM FramesTyped == ASSUME JitterBound PROVE Spec => [](IsFrame(source) => BitsTypeOK)
<1>1. Init => Dated
  BY DatedInit
<1>2. Encoded /\ Sampled /\ Dated /\ [Next]_vars => Dated'
  BY DatedNext
<1>3. Encoded /\ Sampled /\ Tracked /\ Dated => (IsFrame(source) => BitsTypeOK)
  BY TypesFollow
<1> QED BY <1>1, <1>2, <1>3, TrackedAlways, PTL DEF Spec
=============================================================================
