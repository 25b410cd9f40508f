------------------------------ MODULE Adapter ------------------------------
(***************************************************************************)
(* What the adapter promises its host, without timers, interrupts, tasks   *)
(* or a receiver: it sends the frames it accepted one after the other,     *)
(* each with all its repetitions, none cut short or overwritten, and       *)
(* answers a query only after it was sent.  DaliLink implements it.        *)
(***************************************************************************)
EXTENDS Integers, Sequences

CONSTANTS
  Frames,       \* the frames a host may ask for, with type and repeat
  Queries,      \* the types of frames that ask for an answer
  QueueLength   \* frames the adapter can keep

VARIABLES
  queue,    \* frames accepted and not yet begun
  owed,     \* transmissions the current frame still needs
  query,    \* the current frame is a query
  sending,  \* a transmission is on the bus
  asked     \* a query was sent, its answer was not reported yet

vars == <<queue, owed, query, sending, asked>>

Init ==
  /\ queue = <<>> /\ owed = 0
  /\ query = FALSE /\ sending = FALSE /\ asked = FALSE

Accept ==
  /\ Len(queue) <= QueueLength
  /\ \E f \in Frames : queue' = Append(queue, f)
  /\ UNCHANGED <<owed, query, sending, asked>>

\* Nothing is taken from the queue before the last frame is done.
Take ==
  /\ queue # <<>> /\ owed = 0 /\ ~sending
  /\ queue' = Tail(queue)
  /\ owed' = 1 + Head(queue).repeat
  /\ query' = (Head(queue).type \in Queries)
  /\ UNCHANGED <<sending, asked>>

Start ==
  /\ owed > 0 /\ ~sending
  /\ sending' = TRUE
  /\ UNCHANGED <<queue, owed, query, asked>>

Finish ==
  /\ sending
  /\ sending' = FALSE
  /\ owed' = owed - 1
  /\ asked' = (asked \/ query)
  /\ UNCHANGED <<queue, query>>

Answer ==
  /\ asked
  /\ asked' = FALSE
  /\ UNCHANGED <<queue, owed, query, sending>>

Next == Accept \/ Take \/ Start \/ Finish \/ Answer

SafeSpec == Init /\ [][Next]_vars
Spec == SafeSpec /\ WF_vars(Take \/ Start \/ Finish)
=============================================================================
