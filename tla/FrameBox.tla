------------------------------ MODULE FrameBox ------------------------------
(***************************************************************************)
(* What the receiving half of the block TCPsocketAsync promises: a box for *)
(* one frame.  A frame the peer has sent replaces the one that waits, and  *)
(* the outputs take whole the frame that waits: the newest there is.  So,  *)
(* while the block is open, a frame is passed over only for a newer one,   *)
(* and none is shown twice or late.  What waits when the block is closed   *)
(* is lost when it is opened again.  A connection that has failed promises *)
(* nothing.                                                                *)
(***************************************************************************)
EXTENDS Naturals

VARIABLES
  width,   \* words in a frame, fixed
  up,      \* the block is open
  count,   \* frames put into the box so far; the words of frame n are all n
  box,     \* the frame that waits, if there is one: a set of at most one
  shown,   \* the frame in the outputs, 0 in every word before the first
  failed   \* a read has failed

vars == <<width, up, count, box, shown, failed>>

Whole(n) == [p \in 1..width |-> n]

Init ==
  /\ up = FALSE
  /\ count = 0
  /\ box = {}
  /\ shown = Whole(0)
  /\ failed = FALSE

(* The outputs outlive the connection, the frame that waits does not. *)
Open ==
  /\ ~up /\ up' = TRUE
  /\ box' = {}
  /\ UNCHANGED <<width, count, shown>>

Close ==
  /\ up /\ up' = FALSE
  /\ UNCHANGED <<width, count, box, shown>>

Deposit ==
  /\ up
  /\ count' = count + 1
  /\ box' = {Whole(count + 1)}
  /\ UNCHANGED <<width, up, shown>>

Take ==
  /\ up
  /\ \E frame \in box : shown' = frame
  /\ box' = {}
  /\ UNCHANGED <<width, up, count>>

Reliable ==
  UNCHANGED failed /\ ~failed /\ (Open \/ Close \/ Deposit \/ Take)

Unreliable == failed' = TRUE /\ UNCHANGED width

Next == Reliable \/ Unreliable

Spec == Init /\ [][Next]_vars
=============================================================================
