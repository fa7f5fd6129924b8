---------------------------- MODULE BlkSeqProofs ----------------------------
(***************************************************************************)
(* Theorems about BlkSeq, for any set of diagrams of any size: an order    *)
(* that detBlkSeq finds is right, and what it refuses has a loop.          *)
(*                                                                         *)
(* Nothing here is by induction over the diagram.  That no block of a loop *)
(* is ever ordered, for instance, is an invariant of the algorithm.        *)
(***************************************************************************)
EXTENDS BlkSeq, FiniteSetTheorems, SequenceTheorems, TLAPS

(* The relations of a diagram, as functions of it alone. *)
Drives(ds, d, node) ==
  d \in 1..Len(ds) /\ \E o \in DOMAIN ds[d].pout : ds[d].pout[o] = node

Feeds(ds, d, b) == \E p \in DOMAIN ds[b].pin : Drives(ds, d, ds[b].pin[p])

WireCount(ds, d, b) ==
  Cardinality({w \in (DOMAIN ds[d].pout) \X (DOMAIN ds[b].pin) :
                 ds[d].pout[w[1]] = ds[b].pin[w[2]]})

Driven(ds, b) ==
  \A p \in DOMAIN ds[b].pin : \E d \in 1..Len(ds) : Drives(ds, d, ds[b].pin[p])

SingleDrivers(ds) ==
  \A node \in Nodes : \A d, e \in 1..Len(ds) :
    Drives(ds, d, node) /\ Drives(ds, e, node) => d = e

LoopSet(ds, S) ==
  /\ S \subseteq 1..Len(ds) /\ S # {}
  /\ \A b \in S : /\ ds[b].uy = 1
                  /\ \E d \in S : ds[d].uy = 1 /\ Feeds(ds, d, b)

-----------------------------------------------------------------------------
(* The invariant.                                                          *)

Types ==
  /\ blocks \in Seq(Block)
  /\ pc \in {"check", "collect", "order", "done", "failed"}
  /\ k \in 1..(Len(blocks) + 1)
  /\ blks \in Seq(Ids)
  /\ blks2order \in Seq(Ids)
  /\ block_in \in [Ids -> [Ids -> Nat]]
  /\ counter \in 0..Len(blks2order)
  /\ error \in {"none", "connected", "undriven", "loop", "empty"}

InBlks(b) == \E n \in 1..Len(blks) : blks[n] = b
InQueue(b) == \E q \in 1..Len(blks2order) : blks2order[q] = b

(* Each block seen so far is in one of the two lists, and there are no     *)
(* other entries: this is what makes each block appear once.               *)
Shared ==
  /\ Len(blks) + Len(blks2order) = k - 1
  /\ \A b \in 1..(k - 1) : InBlks(b) \/ InQueue(b)
  /\ pc \in {"order", "done"} => k = Len(blocks) + 1
  /\ pc = "done" => blks2order = <<>>

Sorted ==
  /\ \A q \in 1..Len(blks2order) :
       blks2order[q] < k /\ blocks[blks2order[q]].uy = 1
  /\ pc = "collect" => \A n \in 1..Len(blks) : blocks[blks[n]].uy = 0
  /\ pc = "check" => blks = <<>> /\ blks2order = <<>>
  /\ pc \notin {"check", "failed"} => SingleDrivers(blocks)

(* A queued block's list names all it still has to wait for, ...           *)
Complete ==
  \A q \in 1..Len(blks2order) :
    /\ Driven(blocks, blks2order[q])
    /\ \A d \in Ids :
         blocks[d].uy = 1 /\ Feeds(blocks, d, blks2order[q])
           => block_in[blks2order[q]][d] > 0 \/ InBlks(d)

(* ... and nothing else.                                                   *)
Honest ==
  \A q \in 1..Len(blks2order) : \A d \in Ids :
    block_in[blks2order[q]][d] > 0 =>
      /\ blocks[d].uy = 1
      /\ block_in[blks2order[q]][d] <= WireCount(blocks, d, blks2order[q])
      /\ d >= k \/ InQueue(d)

(* The last blocks in the queue have been tried since one was ordered. *)
Tried ==
  /\ pc \in {"check", "collect"} => counter = 0
  /\ \A q \in 1..Len(blks2order) : q > Len(blks2order) - counter =>
       ~ \A d \in Ids : block_in[blks2order[q]][d] = 0

Fresh ==
  \A n \in 1..Len(blks) : blocks[blks[n]].uy = 1 =>
    \A p \in DOMAIN blocks[blks[n]].pin : \E m \in 1..(n - 1) :
      Drives(blocks, blks[m], blocks[blks[n]].pin[p])

Acyclic ==
  \A S \in SUBSET Ids : LoopSet(blocks, S) => \A n \in 1..Len(blks) : blks[n] \notin S

Refused == error = "loop" => \E S \in SUBSET Ids : LoopSet(blocks, S)

BlkInv ==
  /\ Types /\ Shared /\ Sorted /\ Complete /\ Honest /\ Tried
  /\ Fresh /\ Acyclic /\ Refused

-----------------------------------------------------------------------------
(* Sequences.                                                              *)

(* What Append does to a sequence. *)
LEMMA Appended ==
  ASSUME NEW U, NEW s \in Seq(U), NEW e \in U
  PROVE  /\ Append(s, e) \in Seq(U)
         /\ Len(Append(s, e)) = Len(s) + 1
         /\ \A n \in 1..Len(s) : Append(s, e)[n] = s[n]
         /\ Append(s, e)[Len(s) + 1] = e
  OBVIOUS

(* What a new first element does to a sequence. *)
LEMMA Prepended ==
  ASSUME NEW U, NEW s \in Seq(U), NEW e \in U
  PROVE  /\ <<e>> \o s \in Seq(U)
         /\ Len(<<e>> \o s) = Len(s) + 1
         /\ \A n \in 1..Len(s) : (<<e>> \o s)[n + 1] = s[n]
         /\ (<<e>> \o s)[1] = e
<1>1. <<e>> \in Seq(U) /\ Len(<<e>>) = 1 /\ <<e>>[1] = e
  OBVIOUS
<1>2. /\ <<e>> \o s \in Seq(U)
      /\ Len(<<e>> \o s) = 1 + Len(s)
      /\ \A n \in 1..(1 + Len(s)) :
           (<<e>> \o s)[n] = IF n <= 1 THEN <<e>>[n] ELSE s[n - 1]
  BY <1>1, ConcatProperties
<1>3. Len(s) \in Nat
  BY LenProperties
<1> QED
  BY <1>1, <1>2, <1>3

(* What is left of a sequence without its first element. *)
LEMMA Shortened ==
  ASSUME NEW U, NEW s \in Seq(U), s # <<>>
  PROVE  /\ Len(s) \in Nat \ {0}
         /\ Head(s) = s[1] /\ Head(s) \in U
         /\ Tail(s) \in Seq(U)
         /\ Len(Tail(s)) = Len(s) - 1
         /\ \A n \in 1..(Len(s) - 1) : Tail(s)[n] = s[n + 1]
  BY HeadTailProperties, EmptySeq, LenProperties

-----------------------------------------------------------------------------
(* The relations, and the operators of BlkSeq.                             *)

LEMMA DrivingIs ==
  ASSUME NEW d, NEW node
  PROVE  d \in Driving(node) <=> Drives(blocks, d, node)
  BY DEF Driving, Drives, Ids

LEMMA PinTypes ==
  ASSUME Types, NEW b \in Ids
  PROVE  /\ blocks[b] \in Block
         /\ blocks[b].pin \in Seq(Nodes) /\ blocks[b].pout \in Seq(Nodes)
         /\ DOMAIN blocks[b].pin = 1..Len(blocks[b].pin)
         /\ DOMAIN blocks[b].pout = 1..Len(blocks[b].pout)
         /\ Len(blocks[b].pin) \in Nat /\ Len(blocks[b].pout) \in Nat
         /\ \A p \in DOMAIN blocks[b].pin : blocks[b].pin[p] \in Nodes
         /\ IsFiniteSet(DOMAIN blocks[b].pin)
         /\ IsFiniteSet(DOMAIN blocks[b].pout)
<1>1. blocks[b] \in Block
  BY ElementOfSeq DEF Types, Ids
<1>2. blocks[b].pin \in Seq(Nodes) /\ blocks[b].pout \in Seq(Nodes)
  BY <1>1 DEF Block
<1>3. /\ Len(blocks[b].pin) \in Nat /\ Len(blocks[b].pout) \in Nat
      /\ DOMAIN blocks[b].pin = 1..Len(blocks[b].pin)
      /\ DOMAIN blocks[b].pout = 1..Len(blocks[b].pout)
  BY <1>2, LenProperties
<1>4. \A p \in DOMAIN blocks[b].pin : blocks[b].pin[p] \in Nodes
  BY <1>2, <1>3, ElementOfSeq
<1>5. \A n \in Nat : IsFiniteSet(1..n)
  BY FS_Interval
<1>6. /\ IsFiniteSet(DOMAIN blocks[b].pin)
      /\ IsFiniteSet(DOMAIN blocks[b].pout)
  BY <1>3, <1>5
<1> QED
  BY <1>1, <1>2, <1>3, <1>4, <1>6

(* The check of genCode leaves one driver to a node. *)
LEMMA ApartIsSingle ==
  ASSUME Types, OutputsApart
  PROVE  SingleDrivers(blocks)
<1> SUFFICES ASSUME NEW node \in Nodes, NEW d \in Ids, NEW e \in Ids,
                    d \in Driving(node), e \in Driving(node), d # e
             PROVE  FALSE
  BY DrivingIs DEF SingleDrivers, Ids
<1>1. Len(blocks) \in Nat
  BY LenProperties DEF Types
<1>2. IsFiniteSet(Ids)
  BY <1>1, FS_Interval DEF Ids
<1>3. Driving(node) \in SUBSET Ids
  BY DEF Driving
<1>4. IsFiniteSet(Driving(node))
  BY <1>2, <1>3, FS_Subset
<1>5. Cardinality({d, e}) = 2 /\ IsFiniteSet({d, e})
  <2>1. IsFiniteSet({d}) /\ Cardinality({d}) = 1
    BY FS_Singleton
  <2>2. {d} \cup {e} = {d, e} /\ e \notin {d}
    OBVIOUS
  <2> QED
    BY <2>1, <2>2, FS_AddElement
<1>6. {d, e} \in SUBSET Driving(node)
  OBVIOUS
<1>7. Cardinality({d, e}) <= Cardinality(Driving(node))
  BY <1>4, <1>6, FS_Subset
<1>8. Cardinality(Driving(node)) <= 1
  BY DEF OutputsApart
<1>9. Cardinality(Driving(node)) \in Nat
  BY <1>4, FS_CardinalityType
<1> QED
  BY <1>5, <1>7, <1>8, <1>9

(* nodeL[node].block_in[0] is a block whose output is on the node. *)
LEMMA DriverDrives ==
  ASSUME Types, SingleDrivers(blocks), NEW node \in Nodes, NEW d \in Ids,
         Drives(blocks, d, node)
  PROVE  Driver(node) = d
<1>1. d \in Driving(node)
  BY DrivingIs
<1>2. \A c \in Driving(node) : c = d
  BY DrivingIs DEF SingleDrivers, Drives, Ids
<1>3. Driving(node) = {d}
  BY <1>1, <1>2
<1>4. d <= d
  BY DEF Ids
<1> QED
  BY <1>3, <1>4 DEF Driver

(* There is a wire from d to b if and only if d drives an input of b.      *)
LEMMA WiresCounted ==
  ASSUME Types, NEW d \in Ids, NEW b \in Ids
  PROVE  /\ WireCount(blocks, d, b) = Cardinality(Wires(d, b))
         /\ IsFiniteSet(Wires(d, b))
         /\ WireCount(blocks, d, b) \in Nat
         /\ WireCount(blocks, d, b) > 0 <=> Feeds(blocks, d, b)
<1>1. WireCount(blocks, d, b) = Cardinality(Wires(d, b))
  BY DEF WireCount, Wires
<1>2. IsFiniteSet((DOMAIN blocks[d].pout) \X (DOMAIN blocks[b].pin))
  BY PinTypes, FS_Product
<1>3. IsFiniteSet(Wires(d, b))
  <2>1. Wires(d, b) \in SUBSET ((DOMAIN blocks[d].pout) \X (DOMAIN blocks[b].pin))
    BY DEF Wires
  <2> QED
    BY <1>2, <2>1, FS_Subset
<1>4. Cardinality(Wires(d, b)) \in Nat
  BY <1>3, FS_CardinalityType
<1>5. Cardinality(Wires(d, b)) = 0 <=> Wires(d, b) = {}
  BY <1>3, FS_EmptySet
<1>6. Wires(d, b) # {} <=> Feeds(blocks, d, b)
  <2>1. ASSUME NEW w \in Wires(d, b) PROVE Feeds(blocks, d, b)
    BY <2>1 DEF Wires, Feeds, Drives, Ids
  <2>2. ASSUME Feeds(blocks, d, b) PROVE Wires(d, b) # {}
    <3>1. PICK p \in DOMAIN blocks[b].pin, o \in DOMAIN blocks[d].pout :
            blocks[d].pout[o] = blocks[b].pin[p]
      BY <2>2 DEF Feeds, Drives
    <3>2. <<o, p>> \in Wires(d, b)
      BY <3>1 DEF Wires
    <3> QED
      BY <3>2
  <2> QED
    BY <2>1, <2>2
<1> QED
  BY <1>1, <1>3, <1>4, <1>5, <1>6

(* What CollectFeedThrough counts for a block d at the inputs of b. *)
Listed(d, b) == {p \in DOMAIN blocks[b].pin : Driver(blocks[b].pin[p]) = d}

LEMMA ListedWires ==
  ASSUME Types, SingleDrivers(blocks), NEW d \in Ids, NEW b \in Ids,
         Driven(blocks, b)
  PROVE  /\ Cardinality(Listed(d, b)) \in Nat
         /\ Feeds(blocks, d, b) => Cardinality(Listed(d, b)) > 0
         /\ Cardinality(Listed(d, b)) <= WireCount(blocks, d, b)
<1>1. Listed(d, b) \in SUBSET (DOMAIN blocks[b].pin)
  BY DEF Listed
<1>2. IsFiniteSet(Listed(d, b))
  BY <1>1, PinTypes, FS_Subset
<1>3. Cardinality(Listed(d, b)) \in Nat
  BY <1>2, FS_CardinalityType
<1>4. Cardinality(Listed(d, b)) = 0 <=> Listed(d, b) = {}
  BY <1>2, FS_EmptySet
<1>5. ASSUME Feeds(blocks, d, b) PROVE Listed(d, b) # {}
  BY <1>5, PinTypes, DriverDrives DEF Feeds, Listed
<1>6. \A p \in Listed(d, b) : Drives(blocks, d, blocks[b].pin[p])
  <2> SUFFICES ASSUME NEW p \in Listed(d, b)
               PROVE  Drives(blocks, d, blocks[b].pin[p])
    OBVIOUS
  <2>1. p \in DOMAIN blocks[b].pin /\ Driver(blocks[b].pin[p]) = d
    BY DEF Listed
  <2>2. PICK e \in Ids : Drives(blocks, e, blocks[b].pin[p])
    BY <2>1 DEF Driven, Ids
  <2>3. blocks[b].pin[p] \in Nodes
    BY <2>1, PinTypes
  <2> QED
    BY <2>1, <2>2, <2>3, DriverDrives
<1> DEFINE out(p) == CHOOSE o \in DOMAIN blocks[d].pout :
                       blocks[d].pout[o] = blocks[b].pin[p]
           wire == [p \in Listed(d, b) |-> <<out(p), p>>]
<1>7. \A p \in Listed(d, b) : <<out(p), p>> \in Wires(d, b)
  <2> SUFFICES ASSUME NEW p \in Listed(d, b)
               PROVE  <<out(p), p>> \in Wires(d, b)
    OBVIOUS
  <2>1. \E o \in DOMAIN blocks[d].pout : blocks[d].pout[o] = blocks[b].pin[p]
    BY <1>6 DEF Drives
  <2>2. /\ out(p) \in DOMAIN blocks[d].pout
        /\ blocks[d].pout[out(p)] = blocks[b].pin[p]
    BY <2>1
  <2>3. p \in DOMAIN blocks[b].pin
    BY DEF Listed
  <2> HIDE DEF out
  <2> QED
    BY <2>2, <2>3 DEF Wires
<1> HIDE DEF out
<1>8. wire \in Injection(Listed(d, b), Wires(d, b))
  <2>1. wire \in [Listed(d, b) -> Wires(d, b)]
    BY <1>7
  <2>2. \A p, q \in Listed(d, b) : wire[p] = wire[q] => p = q
    OBVIOUS
  <2> QED
    BY <2>1, <2>2 DEF Injection, IsInjective
<1> HIDE DEF wire
<1>9. Cardinality(Listed(d, b)) <= Cardinality(Wires(d, b))
  BY <1>8, WiresCounted, FS_Injection
<1> QED
  BY <1>3, <1>4, <1>5, <1>9, WiresCounted

-----------------------------------------------------------------------------
(* The invariant holds initially and in every step.                        *)

LEMMA InitInv == Init => BlkInv
<1> SUFFICES ASSUME Init PROVE BlkInv
  OBVIOUS
<1> USE DEF Init
<1>1. blocks \in Seq(Block)
  BY DiagramsAssumption
<1>2. Len(blocks) \in Nat
  BY <1>1, LenProperties
<1>3. Types
  BY <1>1, <1>2, EmptySeq DEF Types, Ids
<1>4. Shared /\ Sorted /\ Complete /\ Honest /\ Tried /\ Fresh
  BY DEF Shared, Sorted, Complete, Honest, Tried, Fresh
<1>5. Acyclic /\ Refused
  BY DEF Acyclic, Refused
<1> QED
  BY <1>3, <1>4, <1>5 DEF BlkInv

(* Lists and diagram stay, only pc and error change. *)
LEMMA QuietStep ==
  ASSUME BlkInv, UNCHANGED <<blocks, k, blks, blks2order, block_in, counter>>,
         pc' \in {"check", "collect", "order", "done", "failed"},
         error' \in {"none", "connected", "undriven", "loop", "empty"},
         pc' \in {"order", "done"} => k = Len(blocks) + 1,
         pc' = "done" => blks2order = <<>>,
         pc' \in {"check", "collect"} => counter = 0,
         pc' \in {"check", "collect"} => blks = <<>> \/ pc' = pc,
         pc' = "check" => pc = "check",
         pc' \notin {"check", "failed"} => SingleDrivers(blocks),
         error' = "loop" => \E S \in SUBSET Ids : LoopSet(blocks, S)
  PROVE  BlkInv'
<1> USE DEF BlkInv
<1>1. Types'
  BY DEF Types, Ids
<1>2. Shared'
  BY DEF Shared, InBlks, InQueue
<1>3. Sorted'
  BY DEF Sorted
<1>4. Complete' /\ Honest'
  BY DEF Complete, Honest, InBlks, InQueue, Ids
<1>5. Tried'
  BY DEF Tried, Ids
<1>6. Fresh' /\ Acyclic' /\ Refused'
  BY DEF Fresh, Acyclic, Refused, Ids
<1> QED
  BY <1>1, <1>2, <1>3, <1>4, <1>5, <1>6

(* A block without feed-through is ordered at once, and is in no loop.     *)
LEMMA CollectSourceStep == BlkInv /\ CollectSource => BlkInv'
<1> SUFFICES ASSUME BlkInv, CollectSource PROVE BlkInv'
  OBVIOUS
<1> USE DEF BlkInv
<1>1. /\ pc = "collect" /\ k \in Ids /\ k \in Nat /\ Len(blocks) \in Nat
      /\ blocks[k].uy = 0 /\ k' = k + 1
      /\ UNCHANGED <<blocks, pc, blks2order, block_in, counter, error>>
  BY LenProperties DEF CollectSource, Types, Ids
<1>2. blks \in Seq(Ids) /\ Len(blks) \in Nat
  BY LenProperties DEF Types
<1>3. /\ blks' \in Seq(Ids) /\ Len(blks') = Len(blks) + 1
      /\ \E m \in 1..Len(blks') : blks'[m] = k
      /\ \A n \in 1..Len(blks) : \E m \in 1..Len(blks') : blks'[m] = blks[n]
      /\ \A m \in 1..Len(blks') :
           blks'[m] = k \/ \E n \in 1..Len(blks) : blks'[m] = blks[n]
  <2>1. CASE blks' = Append(blks, k)
    BY <1>1, <1>2, <2>1, Appended
  <2>2. CASE blks' = <<k>> \o blks
    <3>1. /\ <<k>> \o blks \in Seq(Ids)
          /\ Len(<<k>> \o blks) = Len(blks) + 1
          /\ \A n \in 1..Len(blks) : (<<k>> \o blks)[n + 1] = blks[n]
          /\ (<<k>> \o blks)[1] = k
      BY <1>1, <1>2, Prepended
    <3>2. blks'[1] = k /\ 1 \in 1..Len(blks')
      BY <1>2, <2>2, <3>1
    <3>3. \A n \in 1..Len(blks) : n + 1 \in 1..Len(blks') /\ blks'[n + 1] = blks[n]
      BY <1>2, <2>2, <3>1
    <3>4. ASSUME NEW m \in 1..Len(blks')
          PROVE  blks'[m] = k \/ \E n \in 1..Len(blks) : blks'[m] = blks[n]
      <4>1. CASE m = 1
        BY <3>2, <4>1
      <4>2. CASE m # 1
        <5>1. m - 1 \in 1..Len(blks) /\ (m - 1) + 1 = m
          BY <1>2, <2>2, <3>1, <4>2
        <5> QED
          BY <3>3, <5>1
      <4> QED
        BY <4>1, <4>2
    <3> QED
      BY <2>2, <3>1, <3>2, <3>3, <3>4
  <2> QED
    BY <2>1, <2>2 DEF CollectSource
<1>4. Types'
  BY <1>1, <1>3 DEF Types, Ids
<1>5. Len(blks2order) \in Nat
  BY LenProperties DEF Types
<1>6. Shared'
  BY <1>1, <1>2, <1>3, <1>5 DEF Shared, InBlks, InQueue
<1>7. \A m \in 1..Len(blks') : blocks'[blks'[m]].uy = 0
  BY <1>1, <1>3 DEF Sorted
<1>8. Sorted'
  <2>1. \A q \in 1..Len(blks2order) : blks2order[q] \in Nat
    BY ElementOfSeq DEF Types, Ids
  <2>2. \A q \in 1..Len(blks2order) :
          blks2order[q] < k' /\ blocks[blks2order[q]].uy = 1
    BY <1>1, <2>1 DEF Sorted
  <2>3. blocks' = blocks /\ pc' = pc /\ blks2order' = blks2order
    BY <1>1
  <2>4. pc' \notin {"check", "failed"} => SingleDrivers(blocks')
    BY <1>1 DEF Sorted
  <2>5. pc' # "check"
    BY <1>1
  <2>6. \A q \in 1..Len(blks2order') :
          blks2order'[q] < k' /\ blocks'[blks2order'[q]].uy = 1
    BY <2>2, <2>3
  <2> QED
    BY <1>7, <2>4, <2>5, <2>6 DEF Sorted
<1>9. Complete'
  <2>1. \A d : InBlks(d) => InBlks(d)'
    BY <1>3 DEF InBlks
  <2>2. Ids' = Ids
    BY <1>1 DEF Ids
  <2> QED
    BY <1>1, <2>1, <2>2 DEF Complete
<1>10. Honest'
  <2>1. ASSUME NEW q \in 1..Len(blks2order), NEW d \in Ids,
               block_in[blks2order[q]][d] > 0
        PROVE  d >= k' \/ InQueue(d)
    <3>1. blocks[d].uy = 1 /\ (d >= k \/ InQueue(d))
      BY <2>1 DEF Honest
    <3>2. d # k /\ d \in Nat
      BY <1>1, <3>1 DEF Ids
    <3> QED
      BY <1>1, <3>1, <3>2
  <2> QED
    BY <1>1, <2>1 DEF Honest, InQueue, Ids
<1>11. Tried'
  BY <1>1 DEF Tried, Ids
<1>12. Fresh'
  BY <1>7 DEF Fresh
<1>13. Acyclic'
  <2> SUFFICES ASSUME NEW S, LoopSet(blocks', S), NEW n \in 1..Len(blks')
               PROVE  blks'[n] \notin S
    BY DEF Acyclic
  <2>1. \A b \in S : blocks'[b].uy = 1
    BY DEF LoopSet
  <2> QED
    BY <1>7, <2>1
<1>14. Refused'
  BY <1>1 DEF Refused, Ids
<1> QED
  BY <1>4, <1>6, <1>8, <1>9, <1>10, <1>11, <1>12, <1>13, <1>14

(* A feed-through block is queued with the list of those it waits for.     *)
LEMMA CollectFeedThroughStep == BlkInv /\ CollectFeedThrough => BlkInv'
<1> SUFFICES ASSUME BlkInv, CollectFeedThrough PROVE BlkInv'
  OBVIOUS
<1> USE DEF BlkInv
<1>1. /\ pc = "collect" /\ k \in Ids /\ k \in Nat /\ Len(blocks) \in Nat
      /\ blocks[k].uy = 1 /\ k' = k + 1
      /\ blks2order' = Append(blks2order, k)
      /\ UNCHANGED <<blocks, pc, blks, counter, error>>
  BY LenProperties DEF CollectFeedThrough, Types, Ids
<1>2. Ids' = Ids
  BY <1>1 DEF Ids
<1>3. blks2order \in Seq(Ids) /\ Len(blks2order) \in Nat /\ Len(blks) \in Nat
  BY LenProperties DEF Types
<1>4. /\ blks2order' \in Seq(Ids) /\ Len(blks2order') = Len(blks2order) + 1
      /\ blks2order'[Len(blks2order) + 1] = k
      /\ \A q \in 1..Len(blks2order) : blks2order'[q] = blks2order[q]
  BY <1>1, <1>3, Appended
<1>5. \A q \in 1..Len(blks2order') :
        \/ q = Len(blks2order) + 1 /\ blks2order'[q] = k
        \/ q \in 1..Len(blks2order) /\ blks2order'[q] = blks2order[q]
  BY <1>3, <1>4
<1>6. \A q \in 1..Len(blks2order) :
        blks2order[q] \in Ids /\ blks2order[q] < k /\ blks2order[q] # k
  BY <1>1, <1>3, ElementOfSeq DEF Sorted, Ids
<1>7. SingleDrivers(blocks)
  BY <1>1 DEF Sorted
<1>8. Driven(blocks, k)
  BY <1>1, DrivingIs DEF CollectFeedThrough, Driven, Driving, Ids
<1>9. /\ block_in' \in [Ids -> [Ids -> Nat]]
      /\ \A b \in Ids : b # k => block_in'[b] = block_in[b]
      /\ \A d \in Ids : block_in'[k][d] =
           IF blocks[d].uy = 1 THEN Cardinality(Listed(d, k)) ELSE 0
  <2>1. \A d \in Ids : Cardinality(Listed(d, k)) \in Nat
    BY <1>1, <1>7, <1>8, ListedWires
  <2> DEFINE new == [d \in Ids |-> IF blocks[d].uy = 1
                                     THEN Cardinality(Listed(d, k)) ELSE 0]
  <2>2. block_in' = [block_in EXCEPT ![k] = new]
    BY DEF CollectFeedThrough, Listed
  <2>3. new \in [Ids -> Nat]
    BY <2>1
  <2>4. \A d \in Ids : new[d] =
          IF blocks[d].uy = 1 THEN Cardinality(Listed(d, k)) ELSE 0
    OBVIOUS
  <2>5. block_in \in [Ids -> [Ids -> Nat]]
    BY DEF Types
  <2> HIDE DEF new
  <2> QED
    BY <1>1, <2>2, <2>3, <2>4, <2>5
<1>10. Types'
  <2>1. counter' \in 0..Len(blks2order')
    BY <1>1, <1>3, <1>4 DEF Types
  <2>2. k' \in 1..(Len(blocks') + 1)
    BY <1>1 DEF Ids
  <2> QED
    BY <1>1, <1>2, <1>4, <1>9, <2>1, <2>2 DEF Types
<1>11. Shared'
  <2>1. \A b : InQueue(b) => InQueue(b)'
    BY <1>3, <1>4 DEF InQueue
  <2>2. \A b : b = k => InQueue(b)'
    <3>1. Len(blks2order) + 1 \in 1..Len(blks2order')
      BY <1>3, <1>4
    <3> QED
      BY <1>1, <1>4, <3>1 DEF InQueue
  <2>3. \A b : InBlks(b)' <=> InBlks(b)
    BY <1>1 DEF InBlks
  <2>4. \A b \in 1..(k' - 1) : b = k \/ b \in 1..(k - 1)
    BY <1>1
  <2>5. \A b \in 1..(k' - 1) : (InBlks(b) \/ InQueue(b))'
    BY <2>1, <2>2, <2>3, <2>4 DEF Shared
  <2>6. Len(blks') + Len(blks2order') = k' - 1
    BY <1>1, <1>3, <1>4 DEF Shared
  <2>7. pc' \notin {"order", "done"}
    BY <1>1
  <2> QED
    BY <2>5, <2>6, <2>7 DEF Shared
<1>12. Sorted'
  <2>1. ASSUME NEW q \in 1..Len(blks2order')
        PROVE  blks2order'[q] < k' /\ blocks'[blks2order'[q]].uy = 1
    BY <1>1, <1>5, <1>6 DEF Sorted, Ids
  <2>2. \A n \in 1..Len(blks') : blocks'[blks'[n]].uy = 0
    BY <1>1 DEF Sorted
  <2>3. pc' # "check" /\ SingleDrivers(blocks')
    BY <1>1, <1>7
  <2> QED
    BY <2>1, <2>2, <2>3 DEF Sorted
<1>13. \A d : InBlks(d)' <=> InBlks(d)
  BY <1>1 DEF InBlks
<1>14. Complete'
  <2> SUFFICES ASSUME NEW q \in 1..Len(blks2order')
               PROVE  /\ Driven(blocks, blks2order'[q])
                      /\ \A d \in Ids :
                           blocks[d].uy = 1 /\ Feeds(blocks, d, blks2order'[q])
                             => block_in'[blks2order'[q]][d] > 0 \/ InBlks(d)
    BY <1>1, <1>2, <1>13 DEF Complete
  <2>1. CASE blks2order'[q] = k
    BY <1>1, <1>7, <1>8, <1>9, <2>1, ListedWires
  <2>2. CASE q \in 1..Len(blks2order) /\ blks2order'[q] = blks2order[q]
    BY <1>6, <1>9, <2>2 DEF Complete
  <2> QED
    BY <1>5, <2>1, <2>2
<1>15. Honest'
  <2>1. \A d : InQueue(d) => InQueue(d)'
    BY <1>3, <1>4 DEF InQueue
  <2>2. \A b : b = k => InQueue(b)'
    <3>1. Len(blks2order) + 1 \in 1..Len(blks2order')
      BY <1>3, <1>4
    <3> QED
      BY <1>1, <1>4, <3>1 DEF InQueue
  <2> SUFFICES ASSUME NEW q \in 1..Len(blks2order'), NEW d \in Ids,
                      block_in'[blks2order'[q]][d] > 0
               PROVE  /\ blocks[d].uy = 1
                      /\ block_in'[blks2order'[q]][d]
                           <= WireCount(blocks, d, blks2order'[q])
                      /\ d >= k' \/ InQueue(d)'
    BY <1>1, <1>2 DEF Honest
  <2>3. CASE blks2order'[q] = k
    <3>1. blocks[d].uy = 1
      BY <1>9, <2>3
    <3>2. block_in'[k][d] <= WireCount(blocks, d, k)
      BY <1>1, <1>7, <1>8, <1>9, <3>1, ListedWires
    <3>3. d >= k' \/ InQueue(d)'
      <4>1. CASE d \in 1..(k - 1)
        <5>1. InBlks(d) \/ InQueue(d)
          BY <4>1 DEF Shared
        <5>2. ~InBlks(d)
          BY <1>1, <3>1 DEF Sorted, InBlks
        <5> QED
          BY <2>1, <5>1, <5>2
      <4>2. CASE d \notin 1..(k - 1)
        <5>1. d = k \/ d >= k'
          BY <1>1, <4>2 DEF Ids
        <5> QED
          BY <2>2, <5>1
      <4> QED
        BY <4>1, <4>2
    <3> QED
      BY <2>3, <3>1, <3>2, <3>3
  <2>4. CASE q \in 1..Len(blks2order) /\ blks2order'[q] = blks2order[q]
    <3>1. block_in'[blks2order[q]][d] = block_in[blks2order[q]][d]
      BY <1>6, <1>9, <2>4
    <3>2. /\ blocks[d].uy = 1
          /\ block_in[blks2order[q]][d] <= WireCount(blocks, d, blks2order[q])
          /\ d >= k \/ InQueue(d)
      BY <2>4, <3>1 DEF Honest
    <3>3. d = k \/ d >= k' \/ InQueue(d)
      BY <1>1, <3>2 DEF Ids
    <3> QED
      BY <2>1, <2>2, <2>4, <3>1, <3>2, <3>3
  <2> QED
    BY <1>5, <2>3, <2>4
<1>16. Tried'
  <2>1. counter' = 0
    BY <1>1 DEF Tried
  <2>2. \A q \in 1..Len(blks2order') : ~(q > Len(blks2order') - 0)
    BY <1>3, <1>4
  <2> QED
    BY <2>1, <2>2 DEF Tried
<1>17. Fresh'
  BY <1>1 DEF Fresh
<1>18. Acyclic' /\ Refused'
  BY <1>1, <1>2 DEF Acyclic, Refused
<1> QED
  BY <1>10, <1>11, <1>12, <1>14, <1>15, <1>16, <1>17, <1>18

(* The first block of the queue, if it waits for nothing, is ordered.      *)
LEMMA PlaceStep == BlkInv /\ Place => BlkInv'
<1> SUFFICES ASSUME BlkInv, Place PROVE BlkInv'
  OBVIOUS
<1> USE DEF BlkInv
<1> DEFINE b0 == Head(blks2order)
           rest == Tail(blks2order)
<1>1. /\ pc = "order" /\ Len(blks2order) # counter
      /\ \A d \in Ids : block_in[b0][d] = 0
      /\ blks' = Append(blks, b0) /\ blks2order' = rest
      /\ counter' = 0
      /\ UNCHANGED <<blocks, pc, k, error>>
  BY DEF Place, Ordering, Ready
<1>2. block_in' = Released(b0, rest)
  BY DEF Place
<1>3. Ids' = Ids
  BY <1>1 DEF Ids
<1>4. blks2order \in Seq(Ids) /\ blks \in Seq(Ids) /\ blks2order # <<>>
      /\ Len(blks) \in Nat
  <2>1. Len(blks2order) \in Nat /\ counter \in 0..Len(blks2order)
    BY LenProperties DEF Types
  <2>2. blks2order # <<>>
    BY <1>1, <2>1, EmptySeq
  <2> QED
    BY <2>2, LenProperties DEF Types
<1>5. /\ Len(blks2order) \in Nat \ {0}
      /\ b0 = blks2order[1] /\ b0 \in Ids
      /\ rest \in Seq(Ids) /\ Len(rest) = Len(blks2order) - 1
      /\ \A q \in 1..(Len(blks2order) - 1) : rest[q] = blks2order[q + 1]
  BY <1>4, Shortened
<1>6. /\ blks' \in Seq(Ids) /\ Len(blks') = Len(blks) + 1
      /\ \A n \in 1..Len(blks) : blks'[n] = blks[n]
      /\ blks'[Len(blks) + 1] = b0
  BY <1>1, <1>4, <1>5, Appended
<1> HIDE DEF b0, rest
<1>7. /\ \A q \in 1..Len(rest) :
           q + 1 \in 1..Len(blks2order) /\ rest[q] = blks2order[q + 1]
      /\ \A q \in 1..Len(rest) : rest[q] \in Ids
      /\ DOMAIN rest = 1..Len(rest)
      /\ 1 \in 1..Len(blks2order)
  BY <1>5, ElementOfSeq, LenProperties
<1>8. \A b : InQueue(b) => b = b0 \/ InQueue(b)'
  <2> SUFFICES ASSUME NEW b, NEW q \in 1..Len(blks2order), blks2order[q] = b,
                      b # b0
               PROVE  InQueue(b)'
    BY DEF InQueue
  <2>1. q # 1
    BY <1>5
  <2>2. q - 1 \in 1..Len(rest) /\ (q - 1) + 1 = q
    BY <1>5, <2>1
  <2>3. rest[q - 1] = b
    BY <1>7, <2>2
  <2> QED
    BY <1>1, <2>2, <2>3 DEF InQueue
<1>9. \A b : InBlks(b)' <=> InBlks(b) \/ b = b0
  <2>1. \A n \in 1..Len(blks') : n = Len(blks) + 1 \/ n \in 1..Len(blks)
    BY <1>4, <1>6
  <2>2. Len(blks) + 1 \in 1..Len(blks')
    BY <1>4, <1>6
  <2>3. \A n \in 1..Len(blks) : n \in 1..Len(blks')
    BY <1>4, <1>6
  <2> QED
    BY <1>6, <2>1, <2>2, <2>3 DEF InBlks
<1>10. block_in \in [Ids -> [Ids -> Nat]]
  BY DEF Types
<1>11. \A d \in Ids : Cardinality(Wires(b0, d)) \in Nat
                      /\ Cardinality(Wires(b0, d)) = WireCount(blocks, b0, d)
  BY <1>5, WiresCounted
<1>12. /\ block_in' \in [Ids -> [Ids -> Nat]]
       /\ \A q \in 1..Len(rest), d \in Ids :
            block_in'[rest[q]][d] =
              IF d = b0 THEN Less(block_in[rest[q]][d], WireCount(blocks, b0, rest[q]))
              ELSE block_in[rest[q]][d]
  <2> DEFINE new(r) == IF \E q \in DOMAIN rest : rest[q] = r
               THEN [block_in[r] EXCEPT ![b0] = Less(@, Cardinality(Wires(b0, r)))]
               ELSE block_in[r]
  <2>1. block_in' = [r \in Ids |-> new(r)]
    BY <1>2 DEF Released
  <2>2. ASSUME NEW r \in Ids PROVE new(r) \in [Ids -> Nat]
    <3>1. block_in[r] \in [Ids -> Nat]
      BY <1>10
    <3>2. Less(block_in[r][b0], Cardinality(Wires(b0, r))) \in Nat
      BY <1>5, <1>11, <3>1 DEF Less
    <3> QED
      BY <1>5, <3>1, <3>2
  <2>3. ASSUME NEW q \in 1..Len(rest), NEW d \in Ids
        PROVE  new(rest[q])[d] =
                 IF d = b0
                   THEN Less(block_in[rest[q]][d], WireCount(blocks, b0, rest[q]))
                   ELSE block_in[rest[q]][d]
    <3>1. block_in[rest[q]] \in [Ids -> Nat]
      BY <1>7, <1>10
    <3>2. \E p \in DOMAIN rest : rest[p] = rest[q]
      BY <1>7
    <3>3. Cardinality(Wires(b0, rest[q])) = WireCount(blocks, b0, rest[q])
      BY <1>7, <1>11
    <3> QED
      BY <3>1, <3>2, <3>3
  <2> HIDE DEF new
  <2> QED
    BY <1>7, <2>1, <2>2, <2>3
<1>13. Types'
  <2>1. counter' \in 0..Len(blks2order')
    BY <1>1, <1>5
  <2>2. k' \in 1..(Len(blocks') + 1)
    BY <1>1 DEF Types
  <2>3. blks2order' \in Seq(Ids)
    BY <1>1, <1>5
  <2> QED
    BY <1>1, <1>3, <1>6, <1>12, <2>1, <2>2, <2>3 DEF Types
<1>14. Shared'
  <2>1. Len(blks') + Len(blks2order') = k' - 1
    <3>1. Len(blks) + Len(blks2order) = k - 1
      BY DEF Shared
    <3>2. Len(blks2order') = Len(blks2order) - 1
      BY <1>1, <1>5
    <3> QED
      BY <1>1, <1>4, <1>5, <1>6, <3>1, <3>2
  <2>2. \A b \in 1..(k' - 1) : (InBlks(b) \/ InQueue(b))'
    BY <1>1, <1>8, <1>9 DEF Shared
  <2>3. pc' = "order" /\ k' = Len(blocks') + 1
    BY <1>1 DEF Shared
  <2> QED
    BY <2>1, <2>2, <2>3 DEF Shared
<1>15. Sorted'
  <2>1. \A q \in 1..Len(rest) : rest[q] < k /\ blocks[rest[q]].uy = 1
    BY <1>7 DEF Sorted
  <2>2. SingleDrivers(blocks') /\ pc' = "order"
    BY <1>1 DEF Sorted
  <2> QED
    BY <1>1, <2>1, <2>2 DEF Sorted
<1>16. Complete'
  <2> SUFFICES ASSUME NEW q \in 1..Len(rest)
               PROVE  /\ Driven(blocks, rest[q])
                      /\ \A d \in Ids :
                           blocks[d].uy = 1 /\ Feeds(blocks, d, rest[q])
                             => block_in'[rest[q]][d] > 0 \/ InBlks(d) \/ d = b0
    BY <1>1, <1>3, <1>9 DEF Complete
  <2> QED
    BY <1>7, <1>12 DEF Complete
<1>17. Honest'
  <2> SUFFICES ASSUME NEW q \in 1..Len(rest), NEW d \in Ids,
                      block_in'[rest[q]][d] > 0
               PROVE  /\ blocks[d].uy = 1
                      /\ block_in'[rest[q]][d] <= WireCount(blocks, d, rest[q])
                      /\ d >= k \/ InQueue(d)'
    BY <1>1, <1>3 DEF Honest
  <2>1. rest[q] = blks2order[q + 1] /\ q + 1 \in 1..Len(blks2order)
    BY <1>7
  <2>2. d # b0
    <3> SUFFICES ASSUME d = b0 PROVE FALSE
      OBVIOUS
    <3>1. Less(block_in[rest[q]][d], WireCount(blocks, b0, rest[q])) > 0
      BY <1>12
    <3>2. block_in[rest[q]][d] \in Nat /\ WireCount(blocks, b0, rest[q]) \in Nat
      BY <1>7, <1>10, <1>11
    <3>3. block_in[rest[q]][d] > WireCount(blocks, b0, rest[q])
      BY <3>1, <3>2 DEF Less
    <3>4. block_in[rest[q]][d] > 0
      BY <3>2, <3>3
    <3>5. block_in[rest[q]][d] <= WireCount(blocks, d, rest[q])
      BY <2>1, <3>4 DEF Honest
    <3> QED
      BY <3>2, <3>3, <3>5
  <2>3. block_in'[rest[q]][d] = block_in[rest[q]][d]
    BY <1>12, <2>2
  <2>4. /\ blocks[d].uy = 1
        /\ block_in[rest[q]][d] <= WireCount(blocks, d, rest[q])
        /\ d >= k \/ InQueue(d)
    BY <2>1, <2>3 DEF Honest
  <2>5. InQueue(d) => InQueue(d)'
    BY <1>8, <2>2
  <2> QED
    BY <2>3, <2>4, <2>5
<1>18. Tried'
  <2>1. pc' = "order" /\ \A q \in 1..Len(rest) : ~(q > Len(rest) - 0)
    BY <1>1, <1>5
  <2> QED
    BY <1>1, <2>1 DEF Tried
<1>19. /\ blocks[b0].uy = 1 /\ Driven(blocks, b0)
       /\ \A d \in Ids : blocks[d].uy = 1 /\ Feeds(blocks, d, b0) => InBlks(d)
  <2>1. blocks[b0].uy = 1
    BY <1>5, <1>7 DEF Sorted
  <2>2. /\ Driven(blocks, b0)
        /\ \A d \in Ids : blocks[d].uy = 1 /\ Feeds(blocks, d, b0)
                            => block_in[b0][d] > 0 \/ InBlks(d)
    BY <1>5, <1>7 DEF Complete
  <2>3. \A d \in Ids : ~(block_in[b0][d] > 0)
    BY <1>1
  <2> QED
    BY <2>1, <2>2, <2>3
<1>20. Fresh'
  <2> SUFFICES ASSUME NEW n \in 1..Len(blks'), blocks[blks'[n]].uy = 1,
                      NEW p \in DOMAIN blocks[blks'[n]].pin
               PROVE  \E m \in 1..(n - 1) :
                        Drives(blocks, blks'[m], blocks[blks'[n]].pin[p])
    BY <1>1 DEF Fresh
  <2>1. CASE n \in 1..Len(blks)
    <3>1. PICK m \in 1..(n - 1) : Drives(blocks, blks[m], blocks[blks[n]].pin[p])
      BY <1>6, <2>1 DEF Fresh
    <3>2. m \in 1..Len(blks)
      BY <1>4, <2>1
    <3> QED
      BY <1>6, <2>1, <3>1, <3>2
  <2>2. CASE n = Len(blks) + 1
    <3>1. blks'[n] = b0 /\ p \in DOMAIN blocks[b0].pin
      BY <1>6, <2>2
    <3>2. PICK d \in Ids : Drives(blocks, d, blocks[b0].pin[p])
      BY <1>19, <3>1 DEF Driven, Ids
    <3>3. InBlks(d)
      <4>1. CASE blocks[d].uy = 1
        BY <1>19, <3>1, <3>2, <4>1 DEF Feeds
      <4>2. CASE blocks[d].uy # 1
        <5>1. d \in 1..(k - 1)
          <6>1. Len(blocks) \in Nat /\ k = Len(blocks) + 1
            BY <1>1, LenProperties DEF Types, Shared
          <6> QED
            BY <6>1 DEF Ids
        <5>2. ~InQueue(d)
          BY <4>2 DEF Sorted, InQueue
        <5> QED
          BY <5>1, <5>2 DEF Shared
      <4> QED
        BY <4>1, <4>2
    <3>4. PICK m \in 1..Len(blks) : blks[m] = d
      BY <3>3 DEF InBlks
    <3>5. m \in 1..(n - 1) /\ blks'[m] = d
      BY <1>4, <1>6, <2>2, <3>4
    <3> QED
      BY <3>1, <3>2, <3>5
  <2> QED
    BY <1>4, <1>6, <2>1, <2>2
<1>21. Acyclic'
  <2> SUFFICES ASSUME NEW S \in SUBSET Ids, LoopSet(blocks, S),
                      NEW n \in 1..Len(blks'), blks'[n] \in S
               PROVE  FALSE
    BY <1>1, <1>3 DEF Acyclic
  <2>1. \A m \in 1..Len(blks) : blks[m] \notin S
    BY DEF Acyclic
  <2>2. blks'[n] = b0
    BY <1>4, <1>6, <2>1
  <2>3. PICK d \in S : blocks[d].uy = 1 /\ Feeds(blocks, d, b0)
    BY <2>2 DEF LoopSet
  <2>4. InBlks(d)
    BY <1>19, <2>3
  <2> QED
    BY <2>1, <2>4 DEF InBlks
<1>22. Refused'
  BY <1>1, <1>3 DEF Refused
<1> QED
  BY <1>13, <1>14, <1>15, <1>16, <1>17, <1>18, <1>20, <1>21, <1>22

(* A block that waits goes to the end of the queue.                        *)
LEMMA DeferStep == BlkInv /\ Defer => BlkInv'
<1> SUFFICES ASSUME BlkInv, Defer PROVE BlkInv'
  OBVIOUS
<1> USE DEF BlkInv
<1> DEFINE b0 == Head(blks2order)
           rest == Tail(blks2order)
<1>1. /\ pc = "order" /\ Len(blks2order) # counter
      /\ ~ \A d \in Ids : block_in[b0][d] = 0
      /\ blks2order' = Append(rest, b0)
      /\ counter' = counter + 1
      /\ UNCHANGED <<blocks, pc, k, blks, block_in, error>>
  BY DEF Defer, Ordering, Ready
<1>2. Ids' = Ids
  BY <1>1 DEF Ids
<1>3. blks2order \in Seq(Ids) /\ blks2order # <<>> /\ counter \in Nat
      /\ counter + 1 <= Len(blks2order)
  <2>1. Len(blks2order) \in Nat /\ counter \in 0..Len(blks2order)
    BY LenProperties DEF Types
  <2>2. blks2order # <<>>
    BY <1>1, <2>1, EmptySeq
  <2> QED
    BY <1>1, <2>1, <2>2 DEF Types
<1>4. /\ Len(blks2order) \in Nat \ {0}
      /\ b0 = blks2order[1] /\ b0 \in Ids
      /\ rest \in Seq(Ids) /\ Len(rest) = Len(blks2order) - 1
      /\ \A q \in 1..(Len(blks2order) - 1) : rest[q] = blks2order[q + 1]
  BY <1>3, Shortened
<1> HIDE DEF b0, rest
<1>5. /\ blks2order' \in Seq(Ids) /\ Len(blks2order') = Len(blks2order)
      /\ \A q \in 1..(Len(blks2order) - 1) : blks2order'[q] = blks2order[q + 1]
      /\ blks2order'[Len(blks2order)] = blks2order[1]
  <2>1. /\ Append(rest, b0) \in Seq(Ids)
        /\ Len(Append(rest, b0)) = Len(rest) + 1
        /\ \A q \in 1..Len(rest) : Append(rest, b0)[q] = rest[q]
        /\ Append(rest, b0)[Len(rest) + 1] = b0
    BY <1>4, Appended
  <2>2. Len(rest) + 1 = Len(blks2order)
    BY <1>4
  <2> QED
    BY <1>1, <1>4, <2>1, <2>2
<1>6. \A q \in 1..Len(blks2order') : \E r \in 1..Len(blks2order) :
        blks2order'[q] = blks2order[r]
  <2> SUFFICES ASSUME NEW q \in 1..Len(blks2order')
               PROVE  \E r \in 1..Len(blks2order) : blks2order'[q] = blks2order[r]
    OBVIOUS
  <2>1. CASE q = Len(blks2order)
    BY <1>4, <1>5, <2>1
  <2>2. CASE q # Len(blks2order)
    <3>1. q \in 1..(Len(blks2order) - 1) /\ q + 1 \in 1..Len(blks2order)
      BY <1>4, <1>5, <2>2
    <3> QED
      BY <1>5, <3>1
  <2> QED
    BY <2>1, <2>2
<1>7. \A b : InQueue(b) => InQueue(b)'
  <2> SUFFICES ASSUME NEW b, NEW r \in 1..Len(blks2order), blks2order[r] = b
               PROVE  InQueue(b)'
    BY DEF InQueue
  <2>1. CASE r = 1
    <3>1. Len(blks2order) \in 1..Len(blks2order')
      BY <1>4, <1>5
    <3> QED
      BY <1>5, <2>1, <3>1 DEF InQueue
  <2>2. CASE r # 1
    <3>1. /\ r - 1 \in 1..(Len(blks2order) - 1) /\ r - 1 \in 1..Len(blks2order')
          /\ (r - 1) + 1 = r
      BY <1>4, <1>5, <2>2
    <3>2. blks2order'[r - 1] = b
      BY <1>5, <3>1
    <3> QED
      BY <3>1, <3>2 DEF InQueue
  <2> QED
    BY <2>1, <2>2
<1>8. \A b : InBlks(b)' <=> InBlks(b)
  BY <1>1 DEF InBlks
<1>9. Types'
  <2>1. counter' \in 0..Len(blks2order')
    BY <1>1, <1>3, <1>4, <1>5
  <2> QED
    BY <1>1, <1>2, <1>5, <2>1 DEF Types
<1>10. Shared'
  <2>1. \A b \in 1..(k' - 1) : (InBlks(b) \/ InQueue(b))'
    BY <1>1, <1>7, <1>8 DEF Shared
  <2> QED
    BY <1>1, <1>5, <2>1 DEF Shared
<1>11. Sorted'
  <2>1. \A q \in 1..Len(blks2order') :
          blks2order'[q] < k' /\ blocks'[blks2order'[q]].uy = 1
    BY <1>1, <1>6 DEF Sorted
  <2>2. pc' = "order" /\ SingleDrivers(blocks')
    BY <1>1 DEF Sorted
  <2> QED
    BY <2>1, <2>2 DEF Sorted
<1>12. Complete'
  <2> SUFFICES ASSUME NEW q \in 1..Len(blks2order')
               PROVE  /\ Driven(blocks, blks2order'[q])
                      /\ \A d \in Ids :
                           blocks[d].uy = 1 /\ Feeds(blocks, d, blks2order'[q])
                             => block_in[blks2order'[q]][d] > 0 \/ InBlks(d)
    BY <1>1, <1>2, <1>8 DEF Complete
  <2>1. PICK r \in 1..Len(blks2order) : blks2order'[q] = blks2order[r]
    BY <1>6
  <2> QED
    BY <2>1 DEF Complete
<1>13. Honest'
  <2> SUFFICES ASSUME NEW q \in 1..Len(blks2order'), NEW d \in Ids,
                      block_in[blks2order'[q]][d] > 0
               PROVE  /\ blocks[d].uy = 1
                      /\ block_in[blks2order'[q]][d]
                           <= WireCount(blocks, d, blks2order'[q])
                      /\ d >= k \/ InQueue(d)'
    BY <1>1, <1>2 DEF Honest
  <2>1. PICK r \in 1..Len(blks2order) : blks2order'[q] = blks2order[r]
    BY <1>6
  <2> QED
    BY <1>7, <2>1 DEF Honest
<1>14. Tried'
  <2> SUFFICES ASSUME NEW q \in 1..Len(blks2order'),
                      q > Len(blks2order') - counter'
               PROVE  ~ \A d \in Ids : block_in[blks2order'[q]][d] = 0
    BY <1>1, <1>2 DEF Tried
  <2>1. CASE q = Len(blks2order)
    BY <1>1, <1>4, <1>5, <2>1
  <2>2. CASE q # Len(blks2order)
    <3>1. /\ q \in 1..(Len(blks2order) - 1) /\ q + 1 \in 1..Len(blks2order)
          /\ q + 1 > Len(blks2order) - counter
      BY <1>1, <1>3, <1>4, <1>5, <2>2
    <3>2. ~ \A d \in Ids : block_in[blks2order[q + 1]][d] = 0
      BY <3>1 DEF Tried
    <3> QED
      BY <1>5, <3>1, <3>2
  <2> QED
    BY <2>1, <2>2
<1>15. Fresh' /\ Acyclic' /\ Refused'
  BY <1>1, <1>2 DEF Fresh, Acyclic, Refused
<1> QED
  BY <1>9, <1>10, <1>11, <1>12, <1>13, <1>14, <1>15

(* When the queue has been turned over in vain, its blocks are a loop.     *)
LEMMA AlgebraicLoopStep == BlkInv /\ AlgebraicLoop => BlkInv'
<1> SUFFICES ASSUME BlkInv, AlgebraicLoop PROVE BlkInv'
  OBVIOUS
<1> USE DEF BlkInv
<1>1. /\ pc = "order" /\ Len(blks2order) = counter /\ blks2order # <<>>
      /\ pc' = "failed" /\ error' = "loop"
      /\ UNCHANGED <<blocks, k, blks, blks2order, block_in, counter>>
  BY DEF AlgebraicLoop, Fail
<1>2. blks2order \in Seq(Ids) /\ Len(blks2order) \in Nat \ {0}
  BY <1>1, EmptySeq DEF Types
<1> DEFINE S == {b \in Ids : InQueue(b)}
<1>3. S \in SUBSET Ids /\ S # {}
  <2>1. 1 \in 1..Len(blks2order) /\ blks2order[1] \in Ids
    BY <1>2, ElementOfSeq
  <2>2. blks2order[1] \in S
    BY <2>1 DEF InQueue
  <2> QED
    BY <2>2
<1>4. ASSUME NEW b \in S
      PROVE  /\ blocks[b].uy = 1
             /\ \E d \in S : blocks[d].uy = 1 /\ Feeds(blocks, d, b)
  <2>1. PICK q \in 1..Len(blks2order) : blks2order[q] = b
    BY DEF InQueue
  <2>2. blocks[b].uy = 1
    BY <2>1 DEF Sorted
  <2>3. q > Len(blks2order) - counter
    BY <1>1, <1>2
  <2>4. PICK d \in Ids : block_in[b][d] # 0
    BY <2>1, <2>3 DEF Tried
  <2>5. b \in Ids /\ block_in[b][d] \in Nat
    BY DEF Types
  <2>6. block_in[b][d] > 0
    BY <2>4, <2>5
  <2>7. /\ blocks[d].uy = 1 /\ block_in[b][d] <= WireCount(blocks, d, b)
        /\ d >= k \/ InQueue(d)
    BY <2>1, <2>6 DEF Honest
  <2>8. Feeds(blocks, d, b)
    <3>1. WireCount(blocks, d, b) \in Nat
      BY <2>5, WiresCounted
    <3>2. WireCount(blocks, d, b) > 0
      BY <2>5, <2>6, <2>7, <3>1
    <3> QED
      BY <2>5, <3>2, WiresCounted
  <2>9. InQueue(d)
    <3>1. Len(blocks) \in Nat /\ k = Len(blocks) + 1
      BY <1>1, LenProperties DEF Types, Shared
    <3>2. ~(d >= k)
      BY <3>1 DEF Ids
    <3> QED
      BY <2>7, <3>2
  <2> QED
    BY <2>2, <2>7, <2>8, <2>9
<1>5. LoopSet(blocks, S)
  <2>1. S \subseteq 1..Len(blocks)
    BY DEF Ids
  <2> HIDE DEF S
  <2> QED
    BY <1>3, <1>4, <2>1 DEF LoopSet
<1>6. \E L \in SUBSET Ids : LoopSet(blocks, L)
  BY <1>3, <1>5
<1> QED
  BY <1>1, <1>6, QuietStep

LEMMA NextInv == BlkInv /\ [Next]_vars => BlkInv'
<1> SUFFICES ASSUME BlkInv, [Next]_vars PROVE BlkInv'
  OBVIOUS
<1> USE DEF BlkInv
<1>1. /\ k \in 1..(Len(blocks) + 1) /\ Len(blocks) \in Nat
      /\ pc \in {"check", "collect", "order", "done", "failed"}
      /\ error \in {"none", "connected", "undriven", "loop", "empty"}
  BY LenProperties DEF Types
<1>2. ASSUME NEW why \in {"connected", "undriven", "empty"}, Fail(why)
      PROVE  BlkInv'
  BY <1>2, QuietStep DEF Fail
<1>3. CASE CheckOutputs
  <2>1. CASE Fail("connected")
    BY <1>2, <2>1
  <2>2. CASE /\ OutputsApart /\ pc' = "collect"
             /\ UNCHANGED <<blocks, k, blks, blks2order, block_in, counter, error>>
    <3>1. SingleDrivers(blocks)
      BY <2>2, ApartIsSingle
    <3>2. blks = <<>> /\ counter = 0
      BY <1>3 DEF CheckOutputs, Sorted, Tried
    <3>3. error' = "loop" => \E S \in SUBSET Ids : LoopSet(blocks, S)
      BY <2>2 DEF Refused
    <3> QED
      BY <1>1, <2>2, <3>1, <3>2, <3>3, QuietStep
  <2> QED
    BY <1>3, <2>1, <2>2 DEF CheckOutputs
<1>4. CASE CollectUndriven
  BY <1>2, <1>4 DEF CollectUndriven
<1>5. CASE Collected
  <2>1. k = Len(blocks) + 1
    BY <1>1, <1>5 DEF Collected
  <2>2. SingleDrivers(blocks)
    BY <1>5 DEF Collected, Sorted
  <2>3. error' = "loop" => \E S \in SUBSET Ids : LoopSet(blocks, S)
    BY <1>5 DEF Collected, Refused
  <2> QED
    BY <1>1, <1>5, <2>1, <2>2, <2>3, QuietStep DEF Collected
<1>6. CASE NothingOrdered
  BY <1>2, <1>6 DEF NothingOrdered
<1>7. CASE Ordered
  <2>1. k = Len(blocks) + 1 /\ SingleDrivers(blocks)
    BY <1>7 DEF Ordered, Shared, Sorted
  <2>2. error' = "loop" => \E S \in SUBSET Ids : LoopSet(blocks, S)
    BY <1>7 DEF Ordered, Refused
  <2> QED
    BY <1>1, <1>7, <2>1, <2>2, QuietStep DEF Ordered
<1>8. CASE UNCHANGED vars
  <2>1. /\ pc \in {"order", "done"} => k = Len(blocks) + 1
        /\ pc = "done" => blks2order = <<>>
        /\ pc \in {"check", "collect"} => counter = 0
        /\ pc \notin {"check", "failed"} => SingleDrivers(blocks)
    BY DEF Shared, Sorted, Tried
  <2>2. error = "loop" => \E S \in SUBSET Ids : LoopSet(blocks, S)
    BY DEF Refused
  <2> QED
    BY <1>1, <1>8, <2>1, <2>2, QuietStep DEF vars
<1> QED
  BY <1>3, <1>4, <1>5, <1>6, <1>7, <1>8, CollectSourceStep,
     CollectFeedThroughStep, PlaceStep, DeferStep, AlgebraicLoopStep
  DEF Next, Step, Finished

(* BlkInv holds of every diagram, whatever its size. *)
THEOREM BlkInvariance == Spec => []BlkInv
<1>1. Init => BlkInv
  BY InitInv
<1>2. BlkInv /\ [Next]_vars => BlkInv'
  BY NextInv
<1> QED
  BY <1>1, <1>2, PTL DEF Spec

-----------------------------------------------------------------------------
(* Every variable of detBlkSeq stays within its type. *)
THEOREM BlkTypeCorrect == Spec => []TypeOK
<1>1. BlkInv => TypeOK
  <2> SUFFICES ASSUME BlkInv PROVE TypeOK
    OBVIOUS
  <2>1. Types /\ Shared
    BY DEF BlkInv
  <2>2. /\ Len(blocks) \in Nat /\ Len(blks) \in Nat /\ Len(blks2order) \in Nat
        /\ k \in 1..(Len(blocks) + 1)
        /\ Len(blks) + Len(blks2order) = k - 1
    BY <2>1, LenProperties DEF Types, Shared
  <2>3. Len(blks) <= Len(blocks) /\ Len(blks2order) <= Len(blocks)
    BY <2>2
  <2> QED
    BY <2>1, <2>3 DEF Types, TypeOK
<1> QED
  BY <1>1, BlkInvariance, PTL

(* In the order found, the drivers of a feed-through block come before it. *)
THEOREM OrderFresh == Spec => []FreshInputs
<1>1. BlkInv => FreshInputs
  <2> SUFFICES ASSUME BlkInv, NEW n \in DOMAIN blks, blocks[blks[n]].uy = 1,
                      NEW p \in DOMAIN blocks[blks[n]].pin
               PROVE  \E m \in 1..(n - 1) :
                        blks[m] \in Driving(blocks[blks[n]].pin[p])
    BY DEF FreshInputs
  <2>1. n \in 1..Len(blks)
    BY LenProperties DEF BlkInv, Types
  <2> QED
    BY <2>1, DrivingIs DEF BlkInv, Fresh
<1> QED
  BY <1>1, BlkInvariance, PTL

(* The order found has every block of the diagram, and has it once. *)
THEOREM OrderComplete == Spec => []EveryBlockOnce
<1>1. BlkInv => EveryBlockOnce
  <2> SUFFICES ASSUME BlkInv, pc = "done" PROVE EveryBlockOnce
    BY DEF EveryBlockOnce
  <2>1. /\ blks2order = <<>> /\ k = Len(blocks) + 1
        /\ Len(blks) + Len(blks2order) = k - 1
        /\ \A b \in 1..(k - 1) : InBlks(b) \/ InQueue(b)
    BY DEF BlkInv, Shared
  <2>2. Len(blocks) \in Nat /\ Len(blks) \in Nat /\ DOMAIN blks = 1..Len(blks)
    BY LenProperties DEF BlkInv, Types
  <2>3. Len(blks2order) = 0
    BY <2>1, EmptySeq
  <2>4. \A b : ~InQueue(b)
    BY <2>3 DEF InQueue
  <2>5. Ids = 1..(k - 1) /\ Len(blks) = Len(blocks)
    BY <2>1, <2>2, <2>3 DEF Ids
  <2> QED
    BY <2>1, <2>2, <2>4, <2>5 DEF EveryBlockOnce, InBlks
<1> QED
  BY <1>1, BlkInvariance, PTL

(* A diagram is refused for a loop only if it has one, and is never        *)
(* ordered if it has one.                                                  *)
THEOREM LoopsRefused == Spec => []LoopRefused
<1>1. ASSUME BlkInv, NEW S \in SUBSET Ids
      PROVE  LoopSet(blocks, S) <=>
               S # {} /\ \A b \in S : Needs(b) \cap S # {}
  <2>1. ASSUME NEW b \in Ids, NEW d \in Ids
        PROVE  Feeds(blocks, d, b) <=> Wires(d, b) # {}
    <3>1. WireCount(blocks, d, b) > 0 <=> Wires(d, b) # {}
      <4>1. /\ WireCount(blocks, d, b) = Cardinality(Wires(d, b))
            /\ IsFiniteSet(Wires(d, b)) /\ WireCount(blocks, d, b) \in Nat
        BY <1>1, WiresCounted DEF BlkInv
      <4>2. Cardinality(Wires(d, b)) = 0 <=> Wires(d, b) = {}
        BY <4>1, FS_EmptySet
      <4> QED
        BY <4>1, <4>2
    <3> QED
      BY <1>1, <3>1, WiresCounted DEF BlkInv
  <2>2. ASSUME NEW b \in S
        PROVE  Needs(b) \cap S # {} <=>
                 blocks[b].uy = 1 /\ \E d \in S : blocks[d].uy = 1 /\ Feeds(blocks, d, b)
    <3>1. blocks[b].uy \in {0, 1}
      BY <1>1, PinTypes DEF BlkInv, Block
    <3> QED
      BY <2>1, <3>1 DEF Needs
  <2> QED
    BY <2>2 DEF LoopSet, Ids
<1>2. BlkInv => LoopRefused
  <2> SUFFICES ASSUME BlkInv PROVE LoopRefused
    OBVIOUS
  <2>1. error = "loop" => Loop
    BY <1>1 DEF BlkInv, Refused, Loop
  <2>2. ASSUME pc = "done", Loop PROVE FALSE
    <3>1. PICK S \in SUBSET Ids : LoopSet(blocks, S)
      BY <1>1, <2>2 DEF Loop
    <3>2. PICK b \in S : b \in Ids
      BY <3>1 DEF LoopSet
    <3>3. InBlks(b)
      <4>1. /\ blks2order = <<>> /\ k = Len(blocks) + 1
            /\ \A c \in 1..(k - 1) : InBlks(c) \/ InQueue(c)
        BY <2>2 DEF BlkInv, Shared
      <4>2. Len(blks2order) = 0 /\ Len(blocks) \in Nat
        BY <4>1, EmptySeq, LenProperties DEF BlkInv, Types
      <4>3. ~InQueue(b) /\ b \in 1..(k - 1)
        BY <3>2, <4>1, <4>2 DEF InQueue, Ids
      <4> QED
        BY <4>1, <4>3
    <3> QED
      BY <3>1, <3>2, <3>3 DEF BlkInv, Acyclic, InBlks
  <2> QED
    BY <2>1, <2>2 DEF LoopRefused
<1> QED
  BY <1>2, BlkInvariance, PTL

-----------------------------------------------------------------------------
(* How long detBlkSeq takes.  Fairness is needed for Terminates only to    *)
(* say that the program runs; that it comes to an end is counted here.     *)

(* With n blocks, of which q are queued: a block placed leaves the rest of *)
(* the queue at most a turn each, a block deferred is one of that turn.    *)
StepsIn(p, n, c, q, turned) ==
  CASE p = "check" -> 3 + n * (n + 2)
    [] p = "collect" -> 2 + (n + 1 - c) * (n + 2) + q * (n + 1)
    [] p = "order" -> 1 + q * (n + 1) - turned
    [] OTHER -> 0

StepsLeft == StepsIn(pc, Len(blocks), k, Len(blks2order), counter)

Longest == 3 + Len(blocks) * (Len(blocks) + 2)

Unstarted == pc = "check" => k = 1 /\ blks2order = <<>>

LEMMA UnstartedStep == Unstarted /\ [Next]_vars => Unstarted'
<1>1. Step => pc' # "check"
  BY DEF Step, CheckOutputs, Fail, CollectSource, CollectFeedThrough,
         CollectUndriven, Collected, Ordering, Place, Defer, AlgebraicLoop,
         NothingOrdered, Ordered
<1>2. Finished \/ UNCHANGED vars => pc' = pc /\ k' = k /\ blks2order' = blks2order
  BY DEF Finished, vars
<1> QED
  BY <1>1, <1>2 DEF Next, Unstarted

(* The sizes of which the numbers of steps are made. *)
Sizes ==
  /\ Len(blocks) \in Nat /\ Len(blks2order) \in Nat
  /\ k \in 1..(Len(blocks) + 1)
  /\ counter \in 0..Len(blks2order)
  /\ Len(blks2order) <= k - 1

LEMMA SizesHold == BlkInv => Sizes
<1> SUFFICES ASSUME BlkInv PROVE Sizes
  OBVIOUS
<1>1. Len(blocks) \in Nat /\ Len(blks2order) \in Nat /\ Len(blks) \in Nat
  BY LenProperties DEF BlkInv, Types
<1>2. Len(blks) + Len(blks2order) = k - 1
  BY DEF BlkInv, Shared
<1> QED
  BY <1>1, <1>2 DEF BlkInv, Types, Sizes

(* In the range, and with something left before the end. *)
LEMMA StepsCounted ==
  ASSUME BlkInv, Unstarted
  PROVE  /\ StepsLeft \in 0..Longest
         /\ pc \notin {"done", "failed"} => StepsLeft > 0
<1> DEFINE n == Len(blocks)
           q == Len(blks2order)
<1>1. /\ n \in Nat /\ q \in Nat /\ k \in 1..(n + 1)
      /\ counter \in 0..q /\ q <= k - 1
  BY SizesHold DEF Sizes
<1>2. pc \in {"check", "collect", "order", "done", "failed"}
  BY DEF BlkInv, Types
<1>3. PICK r \in Nat : r = n + 1 - k
  BY <1>1
<1>4. n = r + (k - 1) /\ k - 1 \in Nat
  BY <1>1, <1>3
<1>5. n * (n + 2) = r * (n + 2) + (k - 1) * (n + 2)
  BY <1>1, <1>3, <1>4
<1>6. PICK s \in Nat : s = (k - 1) - q
  <2>1. (k - 1) - q \in Nat
    BY <1>1, <1>4
  <2> QED
    BY <2>1
<1>7. (k - 1) * (n + 2) = q * (n + 2) + s * (n + 2)
  BY <1>1, <1>4, <1>6
<1>8. q * (n + 2) = q * (n + 1) + q
  BY <1>1
<1>9. r * (n + 2) \in Nat /\ s * (n + 2) \in Nat /\ q * (n + 1) \in Nat
  BY <1>1, <1>3, <1>6
<1>10. q * (n + 1) >= q
  <2>1. q * (n + 1) = q * n + q /\ q * n \in Nat
    BY <1>1
  <2> QED
    BY <1>1, <2>1
<1> HIDE DEF n, q
<1>11. StepsLeft = StepsIn(pc, n, k, q, counter) /\ Longest = 3 + n * (n + 2)
  BY DEF StepsLeft, Longest, n, q
<1>12. PICK x \in Nat, y \in Nat, z \in Nat :
         x = r * (n + 2) /\ y = s * (n + 2) /\ z = q * (n + 1)
  BY <1>9
<1>13. n * (n + 2) = x + y + z + q
  BY <1>1, <1>5, <1>7, <1>8, <1>12
<1>14. Longest = 3 + x + y + z + q
  BY <1>1, <1>11, <1>12, <1>13
<1>15. CASE pc = "check"
  BY <1>1, <1>11, <1>12, <1>14, <1>15 DEF StepsIn
<1>16. CASE pc = "collect"
  <2>1. StepsLeft = 2 + x + z
    BY <1>3, <1>11, <1>12, <1>16 DEF StepsIn
  <2> QED
    BY <1>1, <1>12, <1>14, <2>1
<1>17. CASE pc = "order"
  <2>1. StepsLeft = 1 + z - counter
    BY <1>11, <1>12, <1>17 DEF StepsIn
  <2>2. counter <= z
    BY <1>1, <1>10, <1>12
  <2> QED
    BY <1>1, <1>12, <1>14, <2>1, <2>2
<1>18. CASE pc \in {"done", "failed"}
  <2>1. StepsLeft = 0
    BY <1>11, <1>18 DEF StepsIn
  <2> QED
    BY <1>1, <1>12, <1>14, <1>18, <2>1
<1> QED
  BY <1>2, <1>15, <1>16, <1>17, <1>18

(* Each step of genCode and detBlkSeq leaves fewer to do. *)
LEMMA StepsDecrease ==
  ASSUME BlkInv, Unstarted, Step
  PROVE  StepsLeft' < StepsLeft
<1> DEFINE n == Len(blocks)
           q == Len(blks2order)
<1>1. /\ n \in Nat /\ q \in Nat /\ k \in 1..(n + 1)
      /\ counter \in 0..q /\ q <= k - 1
  BY SizesHold DEF Sizes
<1>2. blocks' = blocks
  BY DEF Step, CheckOutputs, Fail, CollectSource, CollectFeedThrough,
         CollectUndriven, Collected, Place, Defer, AlgebraicLoop, NothingOrdered,
         Ordered
<1>3. /\ StepsLeft = StepsIn(pc, n, k, q, counter)
      /\ StepsLeft' = StepsIn(pc', n, k', Len(blks2order'), counter')
  BY <1>2 DEF StepsLeft
<1>4. blks2order \in Seq(Ids)
  BY DEF BlkInv, Types
<1>5. CASE pc' = "failed" /\ pc \notin {"done", "failed"}
  <2>1. StepsLeft' = 0
    BY <1>3, <1>5 DEF StepsIn
  <2> QED
    BY <1>5, <2>1, StepsCounted
<1>6. CASE CheckOutputs /\ pc' = "collect"
  <2>1. /\ pc = "check" /\ k' = k /\ blks2order' = blks2order
        /\ k = 1 /\ q = 0
    BY <1>6, EmptySeq DEF CheckOutputs, Fail, Unstarted
  <2>2. n * (n + 2) \in Nat /\ 0 * (n + 1) = 0 /\ n + 1 - 1 = n
    BY <1>1
  <2>3. /\ StepsLeft = 3 + n * (n + 2)
        /\ StepsLeft' = 2 + n * (n + 2)
    BY <1>1, <1>3, <1>6, <2>1, <2>2 DEF StepsIn
  <2> QED
    BY <2>2, <2>3
<1>7. CASE CollectSource \/ CollectFeedThrough
  <2>1. /\ pc = "collect" /\ pc' = "collect" /\ k <= n /\ k' = k + 1
        /\ \/ blks2order' = blks2order
           \/ blks2order' = Append(blks2order, k)
    BY <1>7 DEF CollectSource, CollectFeedThrough
  <2>2. Len(blks2order') \in {q, q + 1}
    <3>1. k \in Ids
      BY <1>1, <2>1 DEF Ids
    <3> QED
      BY <1>4, <2>1, <3>1, Appended
  <2>3. PICK r \in Nat : r = n - k
    BY <1>1, <2>1
  <2>4. n + 1 - k = r + 1 /\ n + 1 - k' = r
    BY <1>1, <2>1, <2>3
  <2>5. (r + 1) * (n + 2) = r * (n + 2) + n + 2 /\ r * (n + 2) \in Nat
    BY <1>1, <2>3
  <2>6. (q + 1) * (n + 1) = q * (n + 1) + n + 1 /\ q * (n + 1) \in Nat
    BY <1>1
  <2>7. PICK x \in Nat, z \in Nat : x = r * (n + 2) /\ z = q * (n + 1)
    BY <2>5, <2>6
  <2>8. StepsLeft = 2 + (r + 1) * (n + 2) + z
    BY <1>3, <2>1, <2>4, <2>7 DEF StepsIn
  <2>9. StepsLeft = 2 + (x + n + 2) + z
    BY <1>1, <2>5, <2>7, <2>8
  <2>10. StepsLeft' = 2 + x + Len(blks2order') * (n + 1)
    BY <1>3, <2>1, <2>4, <2>7 DEF StepsIn
  <2>11. Len(blks2order') * (n + 1) = z \/ Len(blks2order') * (n + 1) = z + n + 1
    BY <1>1, <2>2, <2>6, <2>7
  <2> HIDE DEF n, q
  <2> QED
    BY <1>1, <2>7, <2>9, <2>10, <2>11
<1>8. CASE Collected
  <2>1. /\ pc = "collect" /\ pc' = "order" /\ k = n + 1
        /\ UNCHANGED <<k, blks2order, counter>>
    BY <1>1, <1>8 DEF Collected
  <2>2. n + 1 - k = 0 /\ 0 * (n + 2) = 0 /\ q * (n + 1) \in Nat
    BY <1>1, <2>1
  <2>3. /\ StepsLeft = 2 + q * (n + 1)
        /\ StepsLeft' = 1 + q * (n + 1) - counter
    BY <1>1, <1>3, <2>1, <2>2 DEF StepsIn
  <2> QED
    BY <1>1, <2>2, <2>3
<1>9. CASE Place
  <2>1. /\ pc = "order" /\ pc' = "order" /\ counter' = 0 /\ k' = k
        /\ q # counter /\ blks2order' = Tail(blks2order)
    BY <1>9 DEF Place, Ordering
  <2>2. q \in Nat \ {0} /\ Len(blks2order') = q - 1
    <3>1. blks2order # <<>>
      BY <1>1, <2>1, EmptySeq
    <3> QED
      BY <1>4, <2>1, <3>1, Shortened
  <2>3. PICK p \in Nat : q = p + 1
    BY <2>2
  <2>4. (p + 1) * (n + 1) = p * (n + 1) + n + 1 /\ p * (n + 1) \in Nat
    BY <1>1, <2>3
  <2>5. /\ StepsLeft = 1 + (p + 1) * (n + 1) - counter
        /\ StepsLeft' = 1 + p * (n + 1) - 0
    <3>1. Len(blks2order') = p
      BY <2>2, <2>3
    <3>2. StepsLeft = 1 + q * (n + 1) - counter
      BY <1>3, <2>1 DEF StepsIn
    <3>3. StepsLeft' = 1 + p * (n + 1) - 0
      BY <1>3, <2>1, <3>1 DEF StepsIn
    <3> QED
      BY <2>3, <3>2, <3>3
  <2>6. counter <= n
    BY <1>1, <2>1
  <2> HIDE DEF n, q
  <2>7. PICK x \in Nat : x = p * (n + 1)
    BY <2>4
  <2>8. StepsLeft = 1 + (x + n + 1) - counter /\ StepsLeft' = 1 + x
    BY <2>4, <2>5, <2>7
  <2> QED
    BY <1>1, <2>6, <2>7, <2>8
<1>10. CASE Defer
  <2>1. /\ pc = "order" /\ pc' = "order" /\ counter' = counter + 1 /\ k' = k
        /\ q # counter
        /\ blks2order' = Append(Tail(blks2order), Head(blks2order))
    BY <1>10 DEF Defer, Ordering
  <2>2. Len(blks2order') = q
    <3>1. blks2order # <<>>
      BY <1>1, <2>1, EmptySeq
    <3>2. /\ Head(blks2order) \in Ids /\ Tail(blks2order) \in Seq(Ids)
          /\ Len(Tail(blks2order)) = q - 1
      BY <1>4, <3>1, Shortened
    <3>3. Len(blks2order') = (q - 1) + 1
      BY <2>1, <3>2, Appended
    <3> QED
      BY <1>1, <3>3
  <2>3. q * (n + 1) \in Nat
    BY <1>1
  <2>4. /\ StepsLeft = 1 + q * (n + 1) - counter
        /\ StepsLeft' = 1 + q * (n + 1) - (counter + 1)
    BY <1>3, <2>1, <2>2 DEF StepsIn
  <2> QED
    BY <1>1, <2>3, <2>4
<1>11. CASE Ordered
  <2>1. StepsLeft' = 0 /\ pc \notin {"done", "failed"}
    BY <1>3, <1>11 DEF Ordered, StepsIn
  <2> QED
    BY <2>1, StepsCounted
<1>12. Step => \/ pc' = "failed" /\ pc \notin {"done", "failed"}
               \/ CheckOutputs /\ pc' = "collect"
               \/ CollectSource \/ CollectFeedThrough \/ Collected
               \/ Place \/ Defer \/ Ordered
  BY DEF Step, CheckOutputs, Fail, CollectUndriven, AlgebraicLoop, NothingOrdered
<1> QED
  BY <1>5, <1>6, <1>7, <1>8, <1>9, <1>10, <1>11, <1>12

(* detBlkSeq needs at most n * (n + 2) + 3 steps for n blocks, cyclic or   *)
(* not: the queue is never turned without either placing a block or        *)
(* counting towards the full turn that ends the search.                    *)
THEOREM SearchBounded ==
  Spec => [](StepsLeft \in 0..Longest) /\ [][StepsLeft' < StepsLeft]_vars
<1>1. Init => Unstarted
  BY DEF Init, Unstarted
<1>2. Unstarted /\ [Next]_vars => Unstarted'
  BY UnstartedStep
<1>3. BlkInv /\ Unstarted => StepsLeft \in 0..Longest
  BY StepsCounted
<1>4. BlkInv /\ Unstarted /\ [Next]_vars => [StepsLeft' < StepsLeft]_vars
  BY StepsDecrease DEF Next, Finished
<1> QED
  BY <1>1, <1>2, <1>3, <1>4, BlkInvariance, PTL DEF Spec
=============================================================================
