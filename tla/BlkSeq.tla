------------------------------- MODULE BlkSeq -------------------------------
(***************************************************************************)
(* genCode puts the blocks of a diagram into the order in which            *)
(* MODEL_isr calls them: toolbox/supsisim/supsisim/RCPgen.py, the checks   *)
(* of genCode and detBlkSeq.                                               *)
(*                                                                         *)
(* A diagram is a sequence of blocks with the nodes their inputs and       *)
(* outputs are on; uy says whether a block's outputs depend on its inputs  *)
(* within one sample.  Blocks are named by their place in that sequence.   *)
(*                                                                         *)
(* An operator that nothing uses, such as CollectBackwards, is the one     *)
(* after it with a bug in it: README.md says which property notices.       *)
(***************************************************************************)
EXTENDS Naturals, Sequences, FiniteSets

CONSTANTS
  Diagrams,  \* the diagrams considered; one is fixed by Init
  Nodes      \* the nodes of a diagram

Block == [pin : Seq(Nodes), pout : Seq(Nodes), uy : {0, 1}]

ASSUME DiagramsAssumption == Diagrams \subseteq Seq(Block)

VARIABLES
  blocks,      \* the diagram, never changes
  pc,          \* "check", "collect", "order", "done" or "failed"
  k,           \* the next block the loop of "collect" looks at
  blks,        \* the blocks ordered so far
  blks2order,  \* the work queue
  block_in,    \* of each block, how often each other block is in its list of
               \* feed-through inputs that are not ordered yet
  counter,     \* how many blocks in a row could not be ordered
  error        \* why no code is generated

vars == <<blocks, pc, k, blks, blks2order, block_in, counter, error>>

Ids == 1..Len(blocks)

Driving(node) == {b \in Ids : \E p \in DOMAIN blocks[b].pout : blocks[b].pout[p] = node}

(* nodeL[node].block_in[0] *)
Driver(node) == CHOOSE b \in Driving(node) : \A c \in Driving(node) : b <= c

(* From which output of block d to which input of block b there are wires. *)
Wires(d, b) ==
  {w \in (DOMAIN blocks[d].pout) \X (DOMAIN blocks[b].pin) :
     blocks[d].pout[w[1]] = blocks[b].pin[w[2]]}

TypeOK ==
  /\ blocks \in Seq(Block)
  /\ pc \in {"check", "collect", "order", "done", "failed"}
  /\ k \in 1..(Len(blocks) + 1)
  /\ blks \in Seq(Ids) /\ Len(blks) <= Len(blocks)
  /\ blks2order \in Seq(Ids) /\ Len(blks2order) <= Len(blocks)
  /\ block_in \in [Ids -> [Ids -> Nat]]
  /\ counter \in 0..Len(blks2order)
  /\ error \in {"none", "connected", "undriven", "loop", "empty"}

-----------------------------------------------------------------------------
Init ==
  /\ blocks \in Diagrams
  /\ pc = "check"
  /\ k = 1
  /\ blks = <<>> /\ blks2order = <<>>
  /\ block_in = [b \in Ids |-> [d \in Ids |-> 0]]
  /\ counter = 0
  /\ error = "none"

Fail(why) ==
  /\ pc' = "failed" /\ error' = why
  /\ UNCHANGED <<blocks, k, blks, blks2order, block_in, counter>>

(* Every output has its node to itself. *)
OutputsApart ==
  /\ \A b \in Ids : \A o, p \in DOMAIN blocks[b].pout :
       blocks[b].pout[o] = blocks[b].pout[p] => o = p
  /\ \A node \in Nodes : Cardinality(Driving(node)) <= 1

CheckOutputs ==
  /\ pc = "check"
  /\ IF OutputsApart
       THEN pc' = "collect" /\ UNCHANGED <<blocks, k, blks, blks2order, block_in, counter, error>>
       ELSE Fail("connected")

CollectSourceTwice ==
  /\ pc = "collect" /\ k <= Len(blocks)
  /\ blocks[k].uy = 0
  /\ blks' = IF blocks[k].pin = <<>> /\ blocks[k].pout = <<>>
               THEN <<k>> \o Append(blks, k) ELSE Append(blks, k)
  /\ k' = k + 1
  /\ UNCHANGED <<blocks, pc, blks2order, block_in, counter, error>>

(* The first loop: a block without feed-through is ordered at once, the    *)
(* others are queued with a list of the feed-through blocks at their       *)
(* inputs, one entry per input.                                            *)
CollectSource ==
  /\ pc = "collect" /\ k <= Len(blocks)
  /\ blocks[k].uy = 0
  /\ blks' = IF blocks[k].pin = <<>> /\ blocks[k].pout = <<>>
               THEN <<k>> \o blks ELSE Append(blks, k)
  /\ k' = k + 1
  /\ UNCHANGED <<blocks, pc, blks2order, block_in, counter, error>>

CollectBackwards ==
  /\ pc = "collect" /\ k <= Len(blocks)
  /\ blocks[k].uy = 1
  /\ \A p \in DOMAIN blocks[k].pin : Driving(blocks[k].pin[p]) # {}
  /\ blks2order' = Append(blks2order, k)
  /\ block_in' = [block_in EXCEPT ![k] =
       [d \in Ids |-> IF blocks[d].uy = 0
          THEN Cardinality({p \in DOMAIN blocks[k].pin : Driver(blocks[k].pin[p]) = d})
          ELSE 0]]
  /\ k' = k + 1
  /\ UNCHANGED <<blocks, pc, blks, counter, error>>

CollectFeedThrough ==
  /\ pc = "collect" /\ k <= Len(blocks)
  /\ blocks[k].uy = 1
  /\ \A p \in DOMAIN blocks[k].pin : Driving(blocks[k].pin[p]) # {}
  /\ blks2order' = Append(blks2order, k)
  /\ block_in' = [block_in EXCEPT ![k] =
       [d \in Ids |-> IF blocks[d].uy = 1
          THEN Cardinality({p \in DOMAIN blocks[k].pin : Driver(blocks[k].pin[p]) = d})
          ELSE 0]]
  /\ k' = k + 1
  /\ UNCHANGED <<blocks, pc, blks, counter, error>>

(* An input nothing drives: block_in[0] of its node raises an exception. *)
CollectUndriven ==
  /\ pc = "collect" /\ k <= Len(blocks)
  /\ blocks[k].uy = 1
  /\ \E p \in DOMAIN blocks[k].pin : Driving(blocks[k].pin[p]) = {}
  /\ Fail("undriven")

Collected ==
  /\ pc = "collect" /\ k > Len(blocks)
  /\ pc' = "order"
  /\ UNCHANGED <<blocks, k, blks, blks2order, block_in, counter, error>>

-----------------------------------------------------------------------------
(* The second loop. *)

Ordering == pc = "order" /\ Len(blks2order) # counter
Ready(b) == \A d \in Ids : block_in[b][d] = 0
Less(a, b) == IF a > b THEN a - b ELSE 0

(* Once for each wire from the block just ordered to a block in the queue, *)
(* one entry is removed from the list of the latter, if there is one.      *)
Released(b, queue) ==
  [r \in Ids |->
    IF \E q \in DOMAIN queue : queue[q] = r
      THEN [block_in[r] EXCEPT ![b] = Less(@, Cardinality(Wires(b, r)))]
      ELSE block_in[r]]

PlaceKeepsCounter ==
  /\ Ordering
  /\ Ready(Head(blks2order))
  /\ blks' = Append(blks, Head(blks2order))
  /\ blks2order' = Tail(blks2order)
  /\ block_in' = Released(Head(blks2order), Tail(blks2order))
  /\ UNCHANGED <<blocks, pc, k, counter, error>>

Place ==
  /\ Ordering
  /\ Ready(Head(blks2order))
  /\ blks' = Append(blks, Head(blks2order))
  /\ blks2order' = Tail(blks2order)
  /\ counter' = 0
  /\ block_in' = Released(Head(blks2order), Tail(blks2order))
  /\ UNCHANGED <<blocks, pc, k, error>>

DeferUncounted ==
  /\ Ordering
  /\ ~Ready(Head(blks2order))
  /\ blks2order' = Append(Tail(blks2order), Head(blks2order))
  /\ UNCHANGED <<blocks, pc, k, blks, block_in, counter, error>>

DeferLost ==
  /\ Ordering
  /\ ~Ready(Head(blks2order))
  /\ blks2order' = Tail(blks2order)
  /\ counter' = 0
  /\ UNCHANGED <<blocks, pc, k, blks, block_in, error>>

Defer ==
  /\ Ordering
  /\ ~Ready(Head(blks2order))
  /\ blks2order' = Append(Tail(blks2order), Head(blks2order))
  /\ counter' = counter + 1
  /\ UNCHANGED <<blocks, pc, k, blks, block_in, error>>

AlgebraicLoop ==
  /\ pc = "order" /\ Len(blks2order) = counter
  /\ blks2order # <<>>
  /\ Fail("loop")

NothingOrdered ==
  /\ pc = "order" /\ blks2order = <<>> /\ blks = <<>>
  /\ Fail("empty")

Ordered ==
  /\ pc = "order" /\ blks2order = <<>> /\ blks # <<>>
  /\ pc' = "done"
  /\ UNCHANGED <<blocks, k, blks, blks2order, block_in, counter, error>>

Finished == pc \in {"done", "failed"} /\ UNCHANGED vars

Step ==
  \/ CheckOutputs
  \/ CollectSource \/ CollectFeedThrough \/ CollectUndriven \/ Collected
  \/ Place \/ Defer
  \/ AlgebraicLoop \/ NothingOrdered \/ Ordered

Next == Step \/ Finished

(* genCode runs to its end. *)
Spec == Init /\ [][Next]_vars /\ WF_vars(Step)

-----------------------------------------------------------------------------
(* The blocks whose outputs a feed-through block needs within the sample.  *)
Needs(b) ==
  IF blocks[b].uy = 0 THEN {}
  ELSE {d \in Ids : blocks[d].uy = 1 /\ Wires(d, b) # {}}

(* A feed-through loop: blocks each of which needs another one of them.    *)
Loop == \E S \in SUBSET Ids : S # {} /\ \A b \in S : Needs(b) \cap S # {}

(* When MODEL_isr calls a block whose outputs depend on its inputs, every  *)
(* block that drives one of its inputs has been called in this sample.     *)
FreshInputs ==
  pc = "done" =>
    \A n \in DOMAIN blks : blocks[blks[n]].uy = 1 =>
      \A p \in DOMAIN blocks[blks[n]].pin : \E m \in 1..(n - 1) :
        blks[m] \in Driving(blocks[blks[n]].pin[p])

(* MODEL_isr calls every block of the diagram, and calls it once. *)
EveryBlockOnce ==
  pc = "done" =>
    /\ Len(blks) = Len(blocks)
    /\ \A b \in Ids : \E n \in DOMAIN blks : blks[n] = b

(* A diagram is refused for an algebraic loop exactly if it has one: the   *)
(* loop of detBlkSeq gives up after a full turn of the queue, not before.  *)
LoopRefused ==
  /\ error = "loop" => Loop
  /\ pc = "done" => ~Loop

(* detBlkSeq comes to an end for every diagram, cyclic or not. *)
Terminates == <>(pc \in {"done", "failed"})
=============================================================================
