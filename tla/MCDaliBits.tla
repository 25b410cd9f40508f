----------------------------- MODULE MCDaliBits -----------------------------
(***************************************************************************)
(* Frames of up to MaxBits bits and some of 32, and the sequences of       *)
(* tests/scripts/test_20_timing.py.                                        *)
(***************************************************************************)
EXTENDS DaliBits, FiniteSets

CONSTANTS MaxBits

frame(b)      == [kind |-> "frame", bits |-> b, periods |-> <<>>]
legal(p, b)   == [kind |-> "legal", bits |-> b, periods |-> p]
illegal(p, b) == [kind |-> "illegal", bits |-> b, periods |-> p]
corrupt       == [kind |-> "corrupt", bits |-> <<TRUE>>, periods |-> <<>>]

ShortFrames == UNION {{frame(b) : b \in [1..n -> BOOLEAN]} : n \in 0..MaxBits}
LongFrames  == {frame([i \in 1..32 |-> TRUE]), frame([i \in 1..32 |-> FALSE]),
                frame([i \in 1..32 |-> i % 2 = 0]), frame([i \in 1..32 |-> i % 2 = 1]),
                frame([i \in 1..32 |-> i % 3 = 0])}

\* test_legal_bittiming, test_more_legal_timings
OneFullBit == {legal([i \in 1..17 |-> IF i = 2 * k THEN 833 ELSE 417],
                     [i \in 1..8 |-> i < k]) : k \in 1..9}

\* test_startbit_lengths
StartBits == {legal(<<p>>, <<>>) : p \in {375, 400, 450, 500}}
               \cup {illegal(<<p>>, <<>>) : p \in {25, 200, 250, 300, 750, 1000, 1500, 2000, 2423}}

\* An idle period that is hardly there, and one that all but ends the frame
IdlePeriods == {illegal(<<417, p, 417>>, <<>>) : p \in {1, 2375}}

\* test_3_11_receiver_bit_timing
LowHigh(low, high) ==
  LET three == <<low, high, low, high, low, high>>
  IN legal(<<416, 416>> \o three \o <<low, 2 * high>> \o three \o <<low>>,
           [i \in 1..8 |-> i <= 4])
Receiver_3_11 == {LowHigh(low, high) : low, high \in {334, 375, 416, 458, 500}}

\* test_kill_sequence
Kill == illegal(<<420, 420, 1000, 420>>, <<>>)

SomeSources == ShortFrames \cup LongFrames \cup OneFullBit \cup StartBits
                 \cup Receiver_3_11 \cup IdlePeriods \cup {corrupt, Kill}
SomeSeries  == {frame(<<>>), frame(<<TRUE>>), frame(<<FALSE>>), corrupt, Kill}
SomeJitters == {-41, 0, 41}
SomeGaps    == {47, 48}
Half32      == 2^30
=============================================================================
