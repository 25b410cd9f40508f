------------------------------ MODULE MCDaliTx ------------------------------
(***************************************************************************)
(* A small instance of the transmitter called at random, within its        *)
(* contract.                                                               *)
(***************************************************************************)
EXTENDS DaliTx, TLC

\* Half bit 1, full bit 2, stop condition 4 ticks, and so on.
MCTicks ==
  0 :> 0 @@ 100 :> 1 @@ 417 :> 1 @@ 833 :> 2 @@ 1500 :> 3 @@ 2400 :> 4 @@
  2450 :> 4 @@ 5500 :> 5 @@ 13400 :> 5 @@ 13500 :> 6 @@ 14900 :> 7 @@
  16300 :> 10 @@ 17900 :> 11 @@ 19500 :> 12 @@ 500000 :> 14

\* A frame without data bits, sent twice, and a query with one data bit 0.
MCTxFrames ==
  {[type |-> "FORWARD_1", phases |-> <<1, 4>>, repeat |-> 1],
   [type |-> "QUERY_1", phases |-> <<1, 2, 1, 4>>, repeat |-> 0]}
=============================================================================
