----------------------------- MODULE DaliTiming -----------------------------
(***************************************************************************)
(* The frame types, status codes and time thresholds of the DALI driver    *)
(* (src/source/dali_101_lpc).  The code measures time in microseconds on   *)
(* a free running 32-bit timer.  The protocol logic depends only on how    *)
(* the thresholds below are ordered, so the models count in ticks: the     *)
(* constant function Ticks maps every threshold of the code to ticks and   *)
(* may compress time in any way that keeps their order.                    *)
(***************************************************************************)
EXTENDS Integers

CONSTANT Ticks

\* Every duration, in microseconds, that the modelled code compares or adds.
Thresholds == {0, 100, 417, 833, 1500, 2400, 2450, 5500, 13400, 13500,
               14900, 16300, 17900, 19500, 500000}

ForwardTypes == {"FORWARD_1", "FORWARD_2", "FORWARD_3", "FORWARD_4", "FORWARD_5"}
QueryTypes   == {"QUERY_1", "QUERY_2", "QUERY_3", "QUERY_4", "QUERY_5"}
FrameTypes   == ForwardTypes \cup QueryTypes
                  \cup {"NONE", "BACKWARD", "BACK_TO_BACK", "CORRUPT"}

\* Status codes of the reports the receiver queues.  RECEIVE_TIMING stands for
\* both receive timing errors, of the start bit and of a data bit.
StatusCodes == {"OK", "TIMEOUT", "RECEIVE_TIMING", "SYSTEM_FAILURE",
                "SYSTEM_RECOVER", "CAN_NOT_PROCESS"}

\* Inter-frame settling time of a frame type; NONE and CORRUPT have none.
settling_time_us(type) ==
  CASE type = "BACKWARD"                    -> 5500
    [] type \in {"FORWARD_1", "QUERY_1"}    -> 13500
    [] type \in {"FORWARD_2", "QUERY_2"}    -> 14900
    [] type \in {"FORWARD_3", "QUERY_3"}    -> 16300
    [] type \in {"FORWARD_4", "QUERY_4"}    -> 17900
    [] type \in {"FORWARD_5", "QUERY_5"}    -> 19500
    [] type = "BACK_TO_BACK"                -> 2450
    [] OTHER                                -> 0

Settling(type) == Ticks[settling_time_us(type)]

HalfBit == Ticks[417]      \* the transmitter's half bit, valid at the receiver
FullBit == Ticks[833]      \* the transmitter's full bit, valid inside a frame
Stop    == Ticks[2400]     \* min_stop_condition_us
Fail    == Ticks[500000]   \* min_failure_condition_us
Reply   == Ticks[13400]    \* max_backward_settling_us
Margin  == Ticks[100]      \* shortest delay a match is programmed for

\* A saturated age: older than every threshold the code compares ages with.
Far == Fail + 1

\* A match interrupt that is disabled, or whose count has already passed and
\* which therefore stays silent until the counter wraps.
Off == -1

Min2(a, b) == IF a <= b THEN a ELSE b

\* One tick later: an age grows until it saturates, a running match comes
\* closer; a deadline (kept as a distance) may also pass, and then stays so.
Older(a)    == Min2(a + 1, Far)
Sooner(c)   == IF c > 0 THEN c - 1 ELSE c
Approach(c) == IF c >= 0 THEN c - 1 ELSE c

\* The compressed time scale keeps the order of the thresholds, keeps the
\* ones a receiver must tell apart distinct, and places the query timeout
\* (started when the stop condition of the query has been sent) between the
\* settling times of priorities 2 and 3.
ASSUME TicksAssumption ==
  /\ Ticks \in [Thresholds -> Nat]
  /\ \A a, b \in Thresholds : a <= b => Ticks[a] <= Ticks[b]
  /\ Ticks[0] = 0
  /\ \A a, b \in {0, 417, 833, 1500, 2400, 5500, 13500, 14900, 16300, 17900,
                  19500, 500000} : a < b => Ticks[a] < Ticks[b]
  /\ Ticks[14900] < Ticks[2450] + Ticks[13400]
  /\ Ticks[2450] + Ticks[13400] < Ticks[16300]
=============================================================================
