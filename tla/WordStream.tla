----------------------------- MODULE WordStream -----------------------------
(***************************************************************************)
(* What the sending half of the block TCPsocketAsync promises: the words   *)
(* of a sample enter a queue of bounded capacity together or not at all,   *)
(* and leave it on the connection in the order they came in, none skipped, *)
(* repeated or made up, as long as the block is open.                      *)
(***************************************************************************)
EXTENDS Naturals, Sequences

CONSTANT Words  \* the values a signal can have

VARIABLES
  width,     \* words in a sample, fixed
  capacity,  \* words the queue holds, fixed
  up,        \* the block is open
  pending,   \* accepted and not yet on the connection, oldest first
  open,      \* words of the present sample already accepted, 0 between samples
  wire       \* the word last put on the connection

vars == <<width, capacity, up, pending, open, wire>>

Init ==
  /\ up = FALSE
  /\ pending = <<>>
  /\ open = 0

(* A sample is begun only if there is room for all of it. *)
Accept ==
  /\ up
  /\ open = 0 => Len(pending) + width <= capacity
  /\ \E w \in Words : pending' = Append(pending, w)
  /\ open' = (open + 1) % width
  /\ UNCHANGED <<width, capacity, up, wire>>

Deliver ==
  /\ up
  /\ pending # <<>>
  /\ wire' = Head(pending)
  /\ pending' = Tail(pending)
  /\ UNCHANGED <<width, capacity, up, open>>

(* A new connection does not carry what the previous one left behind. *)
Open ==
  /\ ~up /\ up' = TRUE
  /\ pending' = <<>>
  /\ UNCHANGED <<width, capacity, open, wire>>

(* A sample is never left half accepted; what the connection did not take  *)
(* stays behind.                                                           *)
Close ==
  /\ up /\ up' = FALSE
  /\ open = 0
  /\ UNCHANGED <<width, capacity, pending, open, wire>>

Next == Open \/ Close \/ Accept \/ Deliver

Spec == Init /\ [][Next]_vars
=============================================================================
