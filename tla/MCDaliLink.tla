----------------------------- MODULE MCDaliLink -----------------------------
(***************************************************************************)
(* Values for the constants of DaliLink.  Frames are as short as the code  *)
(* allows: without data bits a frame is one active half bit and the stop   *)
(* condition.                                                              *)
(***************************************************************************)
EXTENDS DaliLink, TLC

\* Half bit 1, full bit 2, stop condition 4, settling times 5 to 12, bus
\* failure 14 ticks.
MCTicks ==
  0 :> 0 @@ 100 :> 1 @@ 417 :> 1 @@ 833 :> 2 @@ 1500 :> 3 @@ 2400 :> 4 @@
  2450 :> 4 @@ 5500 :> 5 @@ 13400 :> 5 @@ 13500 :> 6 @@ 14900 :> 7 @@
  16300 :> 10 @@ 17900 :> 11 @@ 19500 :> 12 @@ 500000 :> 14

Frame(type, repeat) == [type |-> type, phases |-> <<1, 4>>, repeat |-> repeat]

\* A frame with data bits 1 and 0: its phases last 1, 1, 1, 2 and 1 ticks.
LongFrame(type) == [type |-> type, phases |-> <<1, 1, 1, 2, 1, 4>>, repeat |-> 0]

\* A frame with one long active phase.
CorruptFrame == [type |-> "CORRUPT", phases |-> <<1, 1, 1, 3, 1, 4>>, repeat |-> 0]

\* What the host of each configuration asks for.
FramesPolite == {Frame("FORWARD_1", 0), LongFrame("QUERY_1"), Frame("FORWARD_2", 0),
                 Frame("BACKWARD", 0)}
FramesRaw    == {Frame("FORWARD_1", 0), LongFrame("QUERY_1")}
FramesOwn    == {Frame("FORWARD_1", 2), Frame("BACK_TO_BACK", 1),
                 LongFrame("FORWARD_3"), LongFrame("QUERY_1"), Frame("QUERY_3", 0)}
FramesRough  == {Frame("FORWARD_1", 1), Frame("QUERY_3", 0), CorruptFrame}
FrameOnce    == {Frame("FORWARD_1", 0)}
FrameSlow    == {Frame("FORWARD_5", 0)}
QueryTwice   == {Frame("QUERY_1", 1)}
QueryAndSlow == {Frame("QUERY_1", 0), Frame("FORWARD_4", 0)}

\* The counter of TMR32B1 does not wrap, or it does at some time early in the run.
NoWrap   == {Never}
AllWraps == 0..Far \cup {Never}

\* Where others may interrupt dali_101_send: anywhere; not where it has yet to act
\* upon what it has read in a gap between two frames; not between the decision to
\* start and the start either; or not between the decision to wait and waiting.
AnyPlace    == Places
SteadyGaps  == Places \ {"gap", "arm"}
SteadyStart == SteadyGaps \ {"start", "start_gap"}
SteadyWait  == SteadyGaps \ {"wait"}
NoPlace     == {}
=============================================================================
