---------------------------- MODULE CanOpenProofs ----------------------------
(***************************************************************************)
(* What holds of CanOpen for every set of models, of objects and of frames *)
(* and any number of pauses.                                               *)
(***************************************************************************)
EXTENDS CanOpen, FiniteSetTheorems, TLAPS

-----------------------------------------------------------------------------
(* The inductive invariant.  dev_cnt is never less than what the blocks    *)
(* that are between their init and their end have counted.                 *)

Owed ==
  IF phase = "open" THEN at - 1
  ELSE IF phase \in {"publish", "fill", "zero"} THEN at
  ELSE IF phase = "isr" THEN Len(blocks)
  ELSE IF phase = "end" THEN Len(blocks) - at + 1
  ELSE 0

(* A block that never gives the channel back has left its count behind as  *)
(* soon as it was ended once.                                              *)
Left(k) ==
  IF starts > 1 \/ phase = "down" \/ (phase = "end" /\ k < at) THEN 1 ELSE 0

Ranges ==
  /\ blocks \in Models
  /\ phase \in {"open", "publish", "fill", "zero", "isr", "end", "down",
                "exit"}
  /\ at \in 1..Len(blocks)
  /\ starts \in Nat \ {0}
  /\ dev_cnt \in Nat

Counts ==
  /\ dev_cnt >= Owed
  /\ \A k \in DOMAIN blocks :
       ~blocks[k].closes /\ phase # "exit" => dev_cnt >= Owed + Left(k)

Channel == dev_cnt > 0 => canHandle = "open"

Receivers ==
  /\ Kept /\ phase # "exit" /\ dev_cnt = 0 => rcv = <<>>
  /\ OneReceiver

CanInv ==
  /\ Ranges
  /\ phase = "down" => at = 1
  /\ Counts
  /\ Channel
  /\ Receivers

-----------------------------------------------------------------------------
LEMMA ModelHasBlocks ==
  blocks \in Models => Len(blocks) \in Nat \ {0} /\ DOMAIN blocks = 1..Len(blocks)
BY CanAssumption

(* Before the first open nothing is counted and nobody receives.           *)
LEMMA CanInitEstablishes == CanInit => CanInv
BY ModelHasBlocks
DEF CanInit, CanInv, Ranges, Counts, Owed, Left, Channel, Receivers,
    OneReceiver

(* Each step of the RT task moves the block and the counter together.      *)
LEMMA CountsPreserved ==
  CanInv /\ [CanNext]_canVars
    => Ranges' /\ (phase = "down" => at = 1)' /\ Counts' /\ Channel'
<1> SUFFICES ASSUME CanInv, [CanNext]_canVars
             PROVE  Ranges' /\ (phase = "down" => at = 1)' /\ Counts' /\ Channel'
  OBVIOUS
<1>0. Len(blocks) \in Nat \ {0} /\ DOMAIN blocks = 1..Len(blocks)
  BY ModelHasBlocks DEF CanInv, Ranges
<1> USE <1>0 DEF CanInv, Ranges, Counts, Owed, Left, Channel
<1>1. CASE CanOpenTH
  <2>1. CASE blocks[at].object = None
    BY <1>1, <2>1 DEF CanOpenTH, AfterOpen, NextBlock
  <2>2. CASE blocks[at].object # None
    BY <1>1, <2>2 DEF CanOpenTH, AfterOpen
  <2>3. QED
    BY <2>1, <2>2
<1>2. CASE CanOpenFails
  BY <1>2 DEF CanOpenFails, channel
<1>3. CASE RegisterMsg
  BY <1>3 DEF RegisterMsg, NextBlock, channel
<1>4. CASE Pause
  BY <1>4 DEF Pause, channel
<1>5. CASE CanClose
  <2>1. CASE blocks[at].closes
    BY <1>5, <2>1 DEF CanClose, NextBlock
  <2>2. CASE ~blocks[at].closes
    BY <1>5, <2>2 DEF CanClose, NextBlock, channel
  <2>3. QED
    BY <2>1, <2>2
<1>6. CASE Resume
  BY <1>6 DEF Resume, channel
<1>7. CASE \E t \in DOMAIN rcv : Rcv(t)
  BY <1>7 DEF Rcv, RcvRead, RcvCompare, RcvStore, rtVars, channel
<1>8. CASE UNCHANGED canVars
  BY <1>8 DEF canVars, rtVars, channel
<1>9. QED
  BY <1>1, <1>2, <1>3, <1>4, <1>5, <1>6, <1>7, <1>8 DEF CanNext

LEMMA FirstThread ==
  ASSUME NEW e PROVE DOMAIN Append(<<>>, e) = {1}
<1>1. <<>> \in Seq({e}) /\ Len(<<>>) = 0
  OBVIOUS
<1>2. Append(<<>>, e) \in Seq({e}) /\ Len(Append(<<>>, e)) = 1
  BY <1>1
<1>3. QED
  BY <1>2

(* A thread is started over a count of none only, to which the count never *)
(* returns while a block keeps the channel.                                *)
LEMMA ReceiversPreserved ==
  CanInv /\ Ranges' /\ Counts' /\ [CanNext]_canVars => Receivers'
<1> SUFFICES ASSUME CanInv, Ranges', Counts', [CanNext]_canVars
             PROVE  Receivers'
  OBVIOUS
<1>0. Len(blocks) \in Nat \ {0} /\ DOMAIN blocks = 1..Len(blocks)
  BY ModelHasBlocks DEF CanInv, Ranges
<1> USE <1>0 DEF CanInv, Receivers, OneReceiver, Kept
<1>1. CASE CanOpenTH
  <2>1. CASE dev_cnt = 0
    <3>1. dev_cnt' # 0 /\ UNCHANGED blocks /\ phase # "exit"
      BY <1>1, <2>1 DEF CanOpenTH, Ranges
    <3>2. Kept => rcv = <<>>
      BY <2>1, <3>1
    <3>3. Kept => DOMAIN rcv' \subseteq {1}
      <4> SUFFICES ASSUME Kept PROVE DOMAIN rcv' \subseteq {1}
        OBVIOUS
      <4>1. rcv = <<>> /\ DOMAIN <<>> = {}
        BY <3>2
      <4>2. StartsReceiver
        BY <1>1, <2>1 DEF CanOpenTH
      <4>3. rcv' = <<>> \/ \E e : rcv' = Append(<<>>, e)
        BY <4>1, <4>2, Zenon DEF StartsReceiver
      <4>4. QED
        BY <4>1, <4>3, FirstThread, Zenon
    <3>4. Kept' => \A t, u \in DOMAIN rcv' : t = u
      BY <3>1, <3>3
    <3>5. QED
      BY <3>1, <3>4
  <2>2. CASE dev_cnt # 0
    BY <1>1, <2>2 DEF CanOpenTH, Ranges
  <2>3. QED
    BY <2>1, <2>2
<1>2. CASE CanOpenFails \/ RegisterMsg \/ Pause \/ Resume
  BY <1>2
  DEF CanOpenFails, RegisterMsg, Pause, Resume, NextBlock, channel
<1>3. CASE CanClose
  <2>1. Kept => dev_cnt' > 0
    BY <1>3
    DEF CanClose, NextBlock, Counts, Owed, Left, Ranges
  <2>2. UNCHANGED <<rcv, blocks>>
    BY <1>3 DEF CanClose
  <2>3. QED
    BY <2>1, <2>2 DEF Ranges
<1>4. CASE \E t \in DOMAIN rcv : Rcv(t)
  <2>1. PICK t \in DOMAIN rcv : Rcv(t)
    BY <1>4
  <2>2. DOMAIN rcv' = DOMAIN rcv /\ UNCHANGED <<rtVars, channel>>
    BY <2>1 DEF Rcv, RcvRead, RcvCompare, RcvStore
  <2>3. rcv # <<>>
    BY <2>1
  <2>4. QED
    BY <2>1, <2>2, <2>3 DEF rtVars, channel, Rcv
<1>5. CASE UNCHANGED canVars
  BY <1>5 DEF canVars, rtVars, channel
<1>6. QED
  BY <1>1, <1>2, <1>3, <1>4, <1>5 DEF CanNext

-----------------------------------------------------------------------------
(* Types.  dev_cnt grows by at most one a block and a start.               *)

Counted ==
  IF phase = "open" THEN at - 1
  ELSE IF phase \in {"publish", "fill", "zero"} THEN at
  ELSE Len(blocks)

FrameRead == [object : Objects \union {None}, value : 0..MaxFrames]

Receiver ==
  [pc : {"read", "walk", "store"}, m : FrameRead, el : Nat, known : Nat]

(* th is at a message of a list of n, of which it knew at most kn. *)
Walks(th, n, kn) ==
  th.el <= n /\ th.known <= kn /\ (th.pc = "store" => th.el > 0)

CountTypes ==
  /\ starts \in 1..MaxStarts
  /\ dev_cnt <= (starts - 1) * Len(blocks) + Counted
  /\ canHandle \in {"none", "open", "closed"}
  /\ frames \in 0..MaxFrames

MsgTypes ==
  /\ msgIn \in Seq(CanMsg)
  /\ phase \in {"fill", "zero"} => Len(msgIn) > 0

RcvTypes ==
  /\ rcv \in Seq(Receiver)
  /\ \A t \in DOMAIN rcv : Walks(rcv[t], Len(msgIn), Known)

TypeInv == CountTypes /\ MsgTypes /\ RcvTypes

LEMMA TypeInvEstablished == CanInit => TypeInv
BY CanAssumption
DEF CanInit, TypeInv, CountTypes, MsgTypes, RcvTypes, Counted

LEMMA SeqSet ==
  ASSUME NEW T, NEW s \in Seq(T), NEW k \in 1..Len(s), NEW e \in T
  PROVE  /\ [s EXCEPT ![k] = e] \in Seq(T)
         /\ Len([s EXCEPT ![k] = e]) = Len(s)
         /\ DOMAIN [s EXCEPT ![k] = e] = DOMAIN s
         /\ [s EXCEPT ![k] = e][k] = e
         /\ \A j \in DOMAIN s \ {k} : [s EXCEPT ![k] = e][j] = s[j]
OBVIOUS

LEMMA SeqPut ==
  ASSUME NEW T, NEW s \in Seq(T), NEW e \in T
  PROVE  /\ Append(s, e) \in Seq(T)
         /\ Len(Append(s, e)) = Len(s) + 1
         /\ DOMAIN Append(s, e) = DOMAIN s \union {Len(s) + 1}
         /\ Append(s, e)[Len(s) + 1] = e
         /\ \A j \in DOMAIN s : Append(s, e)[j] = s[j]
OBVIOUS

LEMMA BlockAt ==
  ASSUME Ranges
  PROVE  /\ Len(blocks) \in Nat \ {0} /\ DOMAIN blocks = 1..Len(blocks)
         /\ blocks[at].object \in Objects \union {None}
<1>1. blocks \in Seq(Block) /\ at \in 1..Len(blocks)
  BY CanAssumption DEF Ranges
<1>2. blocks[at] \in Block
  BY <1>1
<1>3. blocks[at].object \in Objects \union {None}
  BY <1>2 DEF Block
<1> QED
  BY <1>3, ModelHasBlocks DEF Ranges

(* A start of the model begins the count of its blocks anew. *)
LEMMA StartCounts ==
  ASSUME NEW s \in Nat \ {0}, NEW n \in Nat
  PROVE  (s + 1 - 1) * n = (s - 1) * n + n /\ (s - 1) * n \in Nat
<1>1. PICK k \in Nat : s = k + 1
  <2>1. s - 1 \in Nat /\ s = (s - 1) + 1
    OBVIOUS
  <2>2. QED
    BY <2>1
<1>2. (k + 1) * n = k * n + n
  OBVIOUS
<1>3. s + 1 - 1 = k + 1 /\ s - 1 = k
  BY <1>1
<1>4. k * n \in Nat
  OBVIOUS
<1>5. QED
  BY <1>2, <1>3, <1>4

LEMMA CountTypesPreserved ==
  ASSUME CanInv, TypeInv, [CanNext]_canVars
  PROVE  CountTypes'
<1>0. /\ Len(blocks) \in Nat \ {0}
      /\ blocks[at].object \in Objects \union {None}
      /\ at \in 1..Len(blocks) /\ starts \in Nat \ {0} /\ dev_cnt \in Nat
      /\ dev_cnt' \in Nat
  BY BlockAt, CountsPreserved DEF CanInv, Ranges
<1>1. PICK p \in Nat : /\ p = (starts - 1) * Len(blocks)
                       /\ (starts + 1 - 1) * Len(blocks) = p + Len(blocks)
  BY <1>0, StartCounts
<1>2. dev_cnt <= p + Counted
  BY <1>1 DEF TypeInv, CountTypes
<1> USE DEF CountTypes
<1>3. CASE CanOpenTH
  <2>1. /\ UNCHANGED <<blocks, starts, frames>> /\ dev_cnt' = dev_cnt + 1
        /\ phase = "open" /\ AfterOpen
        /\ canHandle' \in {"open", canHandle}
    BY <1>3 DEF CanOpenTH
  <2>2. dev_cnt <= p + (at - 1)
    BY <1>2, <2>1 DEF Counted
  <2>3. Counted' = at
    <3>1. CASE phase' = "publish" /\ at' = at
      BY <3>1 DEF Counted
    <3>2. CASE at < Len(blocks) /\ phase' = "open" /\ at' = at + 1
      BY <1>0, <3>2 DEF Counted
    <3>3. CASE ~(at < Len(blocks)) /\ phase' = "isr" /\ at' = 1
      BY <1>0, <2>1, <3>3 DEF Counted
    <3> QED
      BY <2>1, <3>1, <3>2, <3>3 DEF AfterOpen, NextBlock
  <2>4. dev_cnt' <= p + Counted'
    BY <1>0, <2>1, <2>2, <2>3
  <2> QED
    BY <1>1, <2>1, <2>4 DEF TypeInv
<1>4. CASE CanOpenFails \/ Pause
  <2>1. /\ UNCHANGED <<blocks, starts, dev_cnt, canHandle, frames, at>>
        /\ phase \in {"open", "isr"}
        /\ phase' \in {"exit", "end"}
    BY <1>4 DEF CanOpenFails, Pause, channel
  <2>2. Counted <= Len(blocks) /\ Counted' = Len(blocks) /\ Counted \in Int
    BY <1>0, <2>1 DEF Counted
  <2>3. dev_cnt' <= p + Counted'
    BY <1>0, <1>2, <2>1, <2>2
  <2> QED
    BY <1>1, <2>1, <2>3 DEF TypeInv
<1>5. CASE RegisterMsg
  <2>1. UNCHANGED <<blocks, starts, dev_cnt, canHandle, frames>>
    BY <1>5 DEF RegisterMsg, channel
  <2>2. Counted' = Counted
    BY <1>0, <1>5 DEF RegisterMsg, NextBlock, Counted
  <2> QED
    BY <2>1, <2>2 DEF TypeInv
<1>6. CASE CanClose
  <2>1. /\ UNCHANGED <<blocks, starts, frames>>
        /\ phase = "end" /\ phase' \in {"end", "down"}
        /\ dev_cnt' \in {dev_cnt, dev_cnt - 1}
        /\ canHandle' \in {"closed", canHandle}
    BY <1>6 DEF CanClose, NextBlock, channel
  <2>2. Counted = Len(blocks) /\ Counted' = Len(blocks)
    BY <2>1 DEF Counted
  <2>3. dev_cnt' <= p + Counted'
    BY <1>0, <1>2, <2>1, <2>2
  <2> QED
    BY <1>1, <2>1, <2>3 DEF TypeInv
<1>7. CASE Resume
  <2>1. /\ phase = "down" /\ phase' = "open" /\ at = 1 /\ at' = 1
        /\ starts' = starts + 1 /\ starts < MaxStarts
        /\ UNCHANGED <<blocks, dev_cnt, canHandle, frames>>
    BY <1>7 DEF Resume, CanInv, channel
  <2>2. Counted = Len(blocks) /\ Counted' = 0
    BY <1>0, <2>1 DEF Counted
  <2>3. dev_cnt' <= (starts' - 1) * Len(blocks') + Counted'
    BY <1>0, <1>1, <1>2, <2>1, <2>2
  <2>4. starts' \in 1..MaxStarts
    BY <1>0, <2>1, CanAssumption
  <2> QED
    BY <2>1, <2>3, <2>4 DEF TypeInv
<1>8. CASE \E t \in DOMAIN rcv : Rcv(t)
  <2>1. /\ UNCHANGED <<blocks, phase, at, starts, dev_cnt, canHandle>>
        /\ frames' = frames \/ (frames < MaxFrames /\ frames' = frames + 1)
    <3>1. PICK t \in DOMAIN rcv : RcvRead(t) \/ RcvCompare(t) \/ RcvStore(t)
      BY <1>8 DEF Rcv
    <3>2. UNCHANGED rtVars /\ UNCHANGED channel
      BY <3>1 DEF RcvRead, RcvCompare, RcvStore
    <3>3. frames' = frames \/ (frames < MaxFrames /\ frames' = frames + 1)
      <4>1. CASE RcvRead(t)
        BY <4>1, Zenon DEF RcvRead
      <4>2. CASE RcvCompare(t)
        <5>1. UNCHANGED <<rtVars, channel, msgIn, frames>>
          BY <4>2, Zenon DEF RcvCompare
        <5> QED
          BY <5>1
      <4>3. CASE RcvStore(t)
        <5>1. UNCHANGED <<rtVars, channel, frames>>
          BY <4>3, Zenon DEF RcvStore
        <5> QED
          BY <5>1
      <4> QED
        BY <3>1, <4>1, <4>2, <4>3
    <3> QED
      BY <3>2, <3>3 DEF rtVars, channel
  <2>2. frames' \in 0..MaxFrames
    BY <2>1, CanAssumption DEF TypeInv
  <2> QED
    BY <2>1, <2>2 DEF TypeInv, Counted
<1>9. CASE UNCHANGED canVars
  BY <1>9 DEF canVars, rtVars, channel, TypeInv, Counted
<1> QED
  BY <1>3, <1>4, <1>5, <1>6, <1>7, <1>8, <1>9 DEF CanNext

(* What registerMsg does to the list: it puts a message there, and then    *)
(* changes the last one only.                                              *)
Registers ==
  \/ \E e \in CanMsg : /\ phase = "publish" /\ phase' = "fill"
                       /\ ~e.set /\ msgIn' = Append(msgIn, e)
  \/ \E e \in CanMsg : /\ Len(msgIn) > 0
                       /\ \/ phase = "fill" /\ phase' = "zero" /\ e.set = msgIn[Len(msgIn)].set
                          \/ phase = "zero" /\ phase' \in {"open", "isr"} /\ e.set
                       /\ msgIn' = [msgIn EXCEPT ![Len(msgIn)] = e]

LEMMA Registering ==
  ASSUME Ranges, MsgTypes, RegisterMsg
  PROVE  Registers
<1>1. CASE phase = "publish"
  <2>1. PICK o \in Objects \union {None} :
          msgIn' = Append(msgIn, [object |-> o, value |-> 0, set |-> FALSE])
    BY <1>1 DEF RegisterMsg
  <2>2. [object |-> o, value |-> 0, set |-> FALSE] \in CanMsg
    BY CanAssumption DEF CanMsg
  <2>3. phase' = "fill"
    BY <1>1 DEF RegisterMsg
  <2> QED
    BY <1>1, <2>1, <2>2, <2>3 DEF Registers
<1>2. CASE phase \in {"fill", "zero"}
  <2>1. PICK last \in CanMsg : last = msgIn[Len(msgIn)] /\ Len(msgIn) > 0
    BY <1>2 DEF MsgTypes
  <2>2. CASE phase = "fill"
    <3>1. PICK e \in CanMsg : e = [last EXCEPT !.object = blocks[at].object]
      BY BlockAt DEF CanMsg
    <3>2. e.set = last.set
      BY <3>1 DEF CanMsg
    <3>3. /\ phase' = "zero"
          /\ msgIn' = [msgIn EXCEPT ![Len(msgIn)].object = blocks[at].object]
      BY <2>2 DEF RegisterMsg
    <3>4. msgIn' = [msgIn EXCEPT ![Len(msgIn)] = e]
      BY <2>1, <3>1, <3>3
    <3> QED
      BY <2>1, <2>2, <3>2, <3>3, <3>4 DEF Registers
  <2>3. CASE phase = "zero"
    <3>1. PICK e \in CanMsg : /\ e.object = last.object /\ e.value = 0 /\ e.set
                              /\ e = [last EXCEPT !.value = 0, !.set = TRUE]
      <4>1. 0 \in 0..MaxFrames
        BY CanAssumption
      <4> QED
        BY <4>1 DEF CanMsg
    <3>2. e.set
      BY <3>1
    <3>3. /\ phase' \in {"open", "isr"}
          /\ msgIn' = [msgIn EXCEPT ![Len(msgIn)].value = 0,
                                    ![Len(msgIn)].set = TRUE]
      BY <2>3 DEF RegisterMsg, NextBlock
    <3>4. msgIn' = [msgIn EXCEPT ![Len(msgIn)] = e]
      BY <2>1, <3>1, <3>3 DEF MsgTypes
    <3> QED
      BY <2>1, <2>3, <3>2, <3>3, <3>4 DEF Registers
  <2> QED
    BY <1>2, <2>2, <2>3
<1> QED
  BY <1>1, <1>2 DEF RegisterMsg

(* A receive thread takes a frame and begins to walk, passes a message or  *)
(* returns to read, or saves the frame in the message it is at.            *)
TakesFrame(t, th) ==
  /\ rcv[t].pc = "read" /\ th.pc = "walk"
  /\ th.el = Len(msgIn) /\ th.known = Known
  /\ UNCHANGED msgIn

Passes(t, th) ==
  /\ rcv[t].pc = "walk" /\ th.m = rcv[t].m /\ th.known = rcv[t].known
  /\ \/ rcv[t].el = 0 /\ th.pc = "read" /\ th.el = 0
     \/ /\ rcv[t].el > 0 /\ msgIn[rcv[t].el].object = rcv[t].m.object
        /\ th.pc = "store" /\ th.el = rcv[t].el
     \/ /\ rcv[t].el > 0 /\ msgIn[rcv[t].el].object # rcv[t].m.object
        /\ th.pc = "walk" /\ th.el = rcv[t].el - 1
  /\ UNCHANGED msgIn

Saves(t, th) ==
  /\ rcv[t].pc = "store" /\ th.m = rcv[t].m /\ th.known = rcv[t].known
  /\ th.pc = "walk" /\ th.el = rcv[t].el - 1
  /\ \E e \in CanMsg :
       /\ e.object = msgIn[rcv[t].el].object /\ e.set = msgIn[rcv[t].el].set
       /\ e.value = rcv[t].m.value
       /\ msgIn' = [msgIn EXCEPT ![rcv[t].el] = e]

(* th2 is th at another place and message. *)
Goes(th, th2, p, k) ==
  /\ th2 = [th EXCEPT !.pc = p, !.el = k]
  /\ th2.pc = p /\ th2.el = k
  /\ th2.m = th.m /\ th2.known = th.known

(* th2 is th with the frame it has, about to walk k messages. *)
Begins(th, th2, k, n) ==
  /\ th2 = [th EXCEPT !.pc = "walk", !.el = k, !.known = n]
  /\ th2.pc = "walk" /\ th2.el = k /\ th2.known = n

LEMMA ReceiverMoves ==
  ASSUME NEW th \in Receiver, NEW p \in {"read", "walk", "store"}, NEW k \in Nat
  PROVE  \E th2 \in Receiver : Goes(th, th2, p, k)
<1> DEFINE th2 == [th EXCEPT !.pc = p, !.el = k]
<1>1. /\ th2 \in Receiver /\ th2.pc = p /\ th2.el = k
      /\ th2.m = th.m /\ th2.known = th.known
  BY DEF Receiver
<1> QED
  BY <1>1, Zenon DEF Goes

LEMMA ReceiverKeeps ==
  ASSUME NEW th \in Receiver, NEW p, NEW k
  PROVE  /\ [th EXCEPT !.pc = p] = [th EXCEPT !.pc = p, !.el = th.el]
         /\ [th EXCEPT !.el = k] = [th EXCEPT !.pc = th.pc, !.el = k]
BY DEF Receiver

LEMMA ReceiverReads ==
  ASSUME NEW th \in Receiver, NEW k \in Nat, NEW n \in Nat
  PROVE  \E th2 \in Receiver : Begins(th, th2, k, n)
<1> DEFINE th2 == [th EXCEPT !.pc = "walk", !.el = k, !.known = n]
<1>1. th2 \in Receiver /\ th2.pc = "walk" /\ th2.el = k /\ th2.known = n
  BY DEF Receiver
<1> QED
  BY <1>1, Zenon DEF Begins

LEMMA MsgSaves ==
  ASSUME NEW e \in CanMsg, NEW v \in 0..MaxFrames
  PROVE  /\ [e EXCEPT !.value = v] \in CanMsg
         /\ [e EXCEPT !.value = v].object = e.object
         /\ [e EXCEPT !.value = v].set = e.set
         /\ [e EXCEPT !.value = v].value = v
BY DEF CanMsg

LEMMA Receiving ==
  ASSUME TypeInv, NEW t \in DOMAIN rcv, Rcv(t)
  PROVE  /\ UNCHANGED <<blocks, phase, at, starts, dev_cnt, canHandle>>
         /\ \E th \in Receiver :
              /\ rcv' = [rcv EXCEPT ![t] = th]
              /\ TakesFrame(t, th) \/ Passes(t, th) \/ Saves(t, th)
<1>1. UNCHANGED <<blocks, phase, at, starts, dev_cnt, canHandle>>
  BY DEF Rcv, RcvRead, RcvCompare, RcvStore, rtVars, channel
<1>2. /\ rcv[t] \in Receiver /\ t \in 1..Len(rcv) /\ rcv \in Seq(Receiver)
      /\ Walks(rcv[t], Len(msgIn), Known)
  BY DEF TypeInv, RcvTypes
<1>3. PICK th0 \in Receiver : th0 = rcv[t]
  BY <1>2
<1>4. /\ th0.pc \in {"read", "walk", "store"} /\ th0.m \in FrameRead
      /\ th0.el \in Nat /\ th0.known \in Nat /\ th0.m.value \in 0..MaxFrames
  BY DEF Receiver, FrameRead
<1>5. Len(msgIn) \in Nat /\ Known \in Nat /\ msgIn \in Seq(CanMsg)
  BY DEF TypeInv, MsgTypes, Known
<1>6. CASE RcvRead(t)
  <2>1. rcv[t].pc = "read" /\ UNCHANGED msgIn
    BY <1>6 DEF RcvRead
  <2>2. PICK th \in Receiver :
          /\ rcv' = [rcv EXCEPT ![t] = th]
          /\ th.pc = "walk" /\ th.el = Len(msgIn) /\ th.known = Known
    <3>1. CASE rcv' = [rcv EXCEPT ![t].pc = "walk", ![t].el = Len(msgIn),
                                  ![t].known = Known]
      <4>1. rcv' = [rcv EXCEPT ![t] = [rcv[t] EXCEPT !.pc = "walk",
                                       !.el = Len(msgIn), !.known = Known]]
        BY <1>2, <3>1
      <4>2. PICK th \in Receiver : Begins(th0, th, Len(msgIn), Known)
        BY <1>5, ReceiverReads, Zenon
      <4> QED
        BY <1>3, <4>1, <4>2, Zenon DEF Begins
    <3>2. CASE \E o \in Objects :
             rcv' = [rcv EXCEPT ![t] =
               [pc |-> "walk", m |-> [object |-> o, value |-> frames'],
                el |-> Len(msgIn), known |-> Known]]
               /\ frames' = frames + 1 /\ frames < MaxFrames
      <4>1. frames' \in 0..MaxFrames
        BY <3>2, CanAssumption DEF TypeInv, CountTypes
      <4>2. PICK o \in Objects :
              rcv' = [rcv EXCEPT ![t] =
               [pc |-> "walk", m |-> [object |-> o, value |-> frames'],
                el |-> Len(msgIn), known |-> Known]]
        BY <3>2
      <4>3. PICK th :
              th = [pc |-> "walk", m |-> [object |-> o, value |-> frames'],
                    el |-> Len(msgIn), known |-> Known]
        OBVIOUS
      <4>4. /\ th \in Receiver
            /\ th.pc = "walk" /\ th.el = Len(msgIn) /\ th.known = Known
        BY <1>5, <4>1, <4>3 DEF Receiver, FrameRead
      <4> QED
        BY <4>2, <4>3, <4>4
    <3> QED
      BY <1>6, <3>1, <3>2, Zenon DEF RcvRead
  <2>3. TakesFrame(t, th)
    BY <2>1, <2>2 DEF TakesFrame
  <2> QED
    BY <1>1, <2>2, <2>3
<1>7. CASE RcvCompare(t)
  <2>1. /\ rcv[t].pc = "walk" /\ UNCHANGED msgIn
        /\ rcv' = [rcv EXCEPT ![t] =
             IF th0.el = 0 THEN [th0 EXCEPT !.pc = "read"]
             ELSE IF msgIn[th0.el].object = th0.m.object
               THEN [th0 EXCEPT !.pc = "store"]
               ELSE [th0 EXCEPT !.el = th0.el - 1]]
    BY <1>2, <1>3, <1>7 DEF RcvCompare
  <2>2. CASE th0.el = 0
    <3>1. PICK th \in Receiver : Goes(th0, th, "read", th0.el)
      BY <1>4, ReceiverMoves, Zenon
    <3>2. rcv' = [rcv EXCEPT ![t] = th]
      BY <2>1, <2>2, <3>1, ReceiverKeeps, Zenon DEF Goes
    <3>3. Passes(t, th)
      BY <1>3, <2>1, <2>2, <3>1 DEF Passes, Goes
    <3> QED
      BY <1>1, <3>2, <3>3
  <2>3. CASE th0.el > 0 /\ msgIn[th0.el].object = th0.m.object
    <3>1. PICK th \in Receiver : Goes(th0, th, "store", th0.el)
      BY <1>4, ReceiverMoves, Zenon
    <3>2. th0.el # 0
      BY <1>4, <2>3
    <3>3. rcv' = [rcv EXCEPT ![t] = th]
      BY <2>1, <2>3, <3>1, <3>2, ReceiverKeeps, Zenon DEF Goes
    <3>4. Passes(t, th)
      BY <1>3, <2>1, <2>3, <3>1 DEF Passes, Goes
    <3> QED
      BY <1>1, <3>3, <3>4
  <2>4. CASE th0.el > 0 /\ msgIn[th0.el].object # th0.m.object
    <3>1. th0.el - 1 \in Nat /\ th0.el # 0
      BY <1>4, <2>4
    <3>2. PICK th \in Receiver : Goes(th0, th, th0.pc, th0.el - 1)
      BY <1>4, <3>1, ReceiverMoves, Zenon
    <3>3. rcv' = [rcv EXCEPT ![t] = th]
      BY <2>1, <2>4, <3>1, <3>2, ReceiverKeeps, Zenon DEF Goes
    <3>4. Passes(t, th)
      BY <1>3, <2>1, <2>4, <3>2 DEF Passes, Goes
    <3> QED
      BY <1>1, <3>3, <3>4
  <2> QED
    BY <1>4, <2>2, <2>3, <2>4
<1>8. CASE RcvStore(t)
  <2>1. /\ rcv[t].pc = "store" /\ th0.el \in 1..Len(msgIn)
        /\ th0.el - 1 \in Nat
    BY <1>2, <1>3, <1>4, <1>5, <1>8 DEF RcvStore, Walks
  <2>2. PICK e0 \in CanMsg : e0 = msgIn[th0.el]
    BY <1>5, <2>1
  <2>3. PICK e \in CanMsg : /\ e = [e0 EXCEPT !.value = th0.m.value]
                            /\ e.object = e0.object /\ e.set = e0.set
                            /\ e.value = th0.m.value
    BY <1>4, MsgSaves
  <2>4. msgIn' = [msgIn EXCEPT ![th0.el] = e]
    BY <1>3, <1>5, <1>8, <2>1, <2>2, <2>3 DEF RcvStore
  <2>5. PICK th \in Receiver : Goes(th0, th, "walk", th0.el - 1)
    BY <2>1, ReceiverMoves, Zenon
  <2>6. rcv' = [rcv EXCEPT ![t] = th]
    BY <1>2, <1>3, <1>8, <2>5 DEF RcvStore, Goes
  <2>7. Saves(t, th)
    BY <1>3, <2>1, <2>2, <2>3, <2>4, <2>5 DEF Saves, Goes
  <2> QED
    BY <1>1, <2>6, <2>7
<1> QED
  BY <1>6, <1>7, <1>8 DEF Rcv

-----------------------------------------------------------------------------
(* What a walk has done.  The messages a thread knew are filled in, and    *)
(* what registerMsg is at is not among them; those the only thread has     *)
(* passed hold its frame, if they are for it.                              *)

Filled == \A k \in 1..Len(msgIn) : msgIn[k].set <=> k <= Known

Walked ==
  Kept => \A t \in DOMAIN rcv : rcv[t].pc \in {"walk", "store"} =>
    \A k \in 1..rcv[t].known :
      k > rcv[t].el /\ msgIn[k].object = rcv[t].m.object
        => msgIn[k].value = rcv[t].m.value

WalkInv == TypeInv /\ Filled /\ Walked

LEMMA WalkInvEstablished == CanInit => WalkInv
BY TypeInvEstablished DEF CanInit, WalkInv, Filled, Walked

LEMMA ListNumbers ==
  ASSUME TypeInv
  PROVE  /\ Len(msgIn) \in Nat /\ Known \in 0..Len(msgIn)
         /\ Len(rcv) \in Nat /\ DOMAIN rcv = 1..Len(rcv)
         /\ \A t \in DOMAIN rcv :
              /\ rcv[t] \in Receiver /\ rcv[t].el \in 0..Len(msgIn)
              /\ rcv[t].known \in 0..Known
<1>1. Len(msgIn) \in Nat /\ Known \in 0..Len(msgIn)
  BY DEF TypeInv, MsgTypes, Known
<1>2. Len(rcv) \in Nat /\ DOMAIN rcv = 1..Len(rcv)
  BY DEF TypeInv, RcvTypes
<1>3. ASSUME NEW t \in DOMAIN rcv
      PROVE  /\ rcv[t] \in Receiver /\ rcv[t].el \in 0..Len(msgIn)
             /\ rcv[t].known \in 0..Known
  <2>1. rcv[t] \in Receiver /\ Walks(rcv[t], Len(msgIn), Known)
    BY <1>2, <1>3 DEF TypeInv, RcvTypes
  <2>2. rcv[t].el \in Nat /\ rcv[t].known \in Nat
    BY <2>1 DEF Receiver
  <2> QED
    BY <1>1, <2>1, <2>2 DEF Walks
<1> QED
  BY <1>1, <1>2, <1>3

(* The list and the threads stay as they are. *)
ListSame == UNCHANGED <<msgIn, rcv, blocks>> /\ Known' = Known

LEMMA WalkSame ==
  ASSUME WalkInv, ListSame, phase' \in {"fill", "zero"} => Len(msgIn) > 0
  PROVE  MsgTypes' /\ RcvTypes' /\ Filled' /\ Walked'
BY DEF WalkInv, TypeInv, MsgTypes, RcvTypes, Filled, Walked, Kept, ListSame

LEMMA WalkOpen ==
  ASSUME CanInv, WalkInv, CanOpenTH
  PROVE  MsgTypes' /\ RcvTypes' /\ Filled' /\ Walked'
<1>1. UNCHANGED <<msgIn, blocks>>
  BY DEF CanOpenTH
<1>2. phase' \notin {"fill", "zero"} /\ phase \notin {"fill", "zero"}
  BY DEF CanOpenTH, AfterOpen, NextBlock
<1>3. Known' = Known
  BY <1>1, <1>2 DEF Known
<1>4. CASE rcv' = rcv
  BY <1>1, <1>2, <1>3, <1>4, WalkSame DEF ListSame
<1>5. CASE rcv' # rcv
  <2>1. PICK o \in Objects \union {None} :
          rcv' = Append(rcv, [pc |-> "read", m |-> [object |-> o, value |-> 0],
                              el |-> 0, known |-> 0])
    BY <1>5 DEF CanOpenTH, StartsReceiver
  <2>2. PICK th : th = [pc |-> "read", m |-> [object |-> o, value |-> 0],
                        el |-> 0, known |-> 0]
    OBVIOUS
  <2>3. th \in Receiver /\ th.pc = "read" /\ th.el = 0 /\ th.known = 0
    <3>1. 0 \in 0..MaxFrames
      BY CanAssumption
    <3> QED
      BY <2>2, <3>1 DEF Receiver, FrameRead
  <2>4. rcv \in Seq(Receiver) /\ rcv' = Append(rcv, th)
    BY <2>1, <2>2 DEF WalkInv, TypeInv, RcvTypes
  <2>5. /\ rcv' \in Seq(Receiver)
        /\ DOMAIN rcv' = DOMAIN rcv \union {Len(rcv) + 1}
        /\ rcv'[Len(rcv) + 1] = th
        /\ \A j \in DOMAIN rcv : rcv'[j] = rcv[j]
    BY <2>3, <2>4, SeqPut
  <2>6. Walks(th, Len(msgIn), Known)
    BY <2>3, ListNumbers DEF Walks, WalkInv
  <2>7. RcvTypes'
    BY <1>1, <1>3, <2>5, <2>6 DEF WalkInv, TypeInv, RcvTypes
  <2>8. Walked'
    BY <1>1, <2>3, <2>5 DEF WalkInv, Walked, Kept
  <2> QED
    BY <1>1, <1>2, <1>3, <2>7, <2>8 DEF WalkInv, TypeInv, MsgTypes, Filled
<1> QED
  BY <1>4, <1>5

(* registerMsg changes no message a thread knew. *)
LEMMA WalkRegister ==
  ASSUME CanInv, WalkInv, RegisterMsg
  PROVE  MsgTypes' /\ RcvTypes' /\ Filled' /\ Walked'
<1>1. UNCHANGED <<rcv, blocks>>
  BY DEF RegisterMsg
<1>2. Registers
  BY Registering DEF CanInv, WalkInv, TypeInv
<1>3. msgIn \in Seq(CanMsg)
  BY DEF WalkInv, TypeInv, MsgTypes
<1>4. PICK N \in Nat : N = Len(msgIn)
  BY <1>3
<1>5. /\ msgIn' \in Seq(CanMsg) /\ Len(msgIn') >= N /\ Len(msgIn') \in Nat
      /\ phase' \in {"fill", "zero"} => Len(msgIn') > 0
      /\ \A k \in 1..Known : msgIn'[k] = msgIn[k]
      /\ Known' >= Known /\ Known' \in Nat
      /\ \A k \in 1..Len(msgIn') : msgIn'[k].set <=> k <= Known'
  <2>1. CASE \E e \in CanMsg : /\ phase = "publish" /\ phase' = "fill"
                               /\ ~e.set /\ msgIn' = Append(msgIn, e)
    <3>1. PICK e \in CanMsg : /\ phase = "publish" /\ phase' = "fill"
                              /\ ~e.set /\ msgIn' = Append(msgIn, e)
      BY <2>1
    <3>2. /\ msgIn' \in Seq(CanMsg) /\ Len(msgIn') = N + 1
          /\ msgIn'[N + 1] = e
          /\ \A j \in 1..N : msgIn'[j] = msgIn[j]
      BY <1>3, <1>4, <3>1, SeqPut
    <3>3. Known = N /\ Known' = N
      BY <1>4, <3>1, <3>2 DEF Known
    <3>4. \A k \in 1..N : msgIn[k].set
      BY <1>4, <3>3 DEF WalkInv, Filled
    <3> QED
      BY <3>1, <3>2, <3>3, <3>4
  <2>2. CASE \E e \in CanMsg :
               /\ Len(msgIn) > 0
               /\ \/ phase = "fill" /\ phase' = "zero" /\ e.set = msgIn[Len(msgIn)].set
                  \/ phase = "zero" /\ phase' \in {"open", "isr"} /\ e.set
               /\ msgIn' = [msgIn EXCEPT ![Len(msgIn)] = e]
    <3>1. PICK e \in CanMsg :
               /\ N > 0
               /\ \/ phase = "fill" /\ phase' = "zero" /\ e.set = msgIn[N].set
                  \/ phase = "zero" /\ phase' \in {"open", "isr"} /\ e.set
               /\ msgIn' = [msgIn EXCEPT ![N] = e]
      BY <1>4, <2>2
    <3>2. /\ msgIn' \in Seq(CanMsg) /\ Len(msgIn') = N
          /\ msgIn'[N] = e
          /\ \A j \in 1..(N - 1) : msgIn'[j] = msgIn[j]
      BY <1>3, <1>4, <3>1, SeqSet
    <3>3. Known = N - 1 /\ Known' = IF phase = "fill" THEN N - 1 ELSE N
      BY <1>4, <3>1, <3>2 DEF Known
    <3>4. \A k \in 1..N : msgIn[k].set <=> k <= N - 1
      BY <1>4, <3>3 DEF WalkInv, Filled
    <3>5. \A k \in 1..N : msgIn'[k].set <=> k <= Known'
      <4> TAKE k \in 1..N
      <4>1. CASE k = N
        <5>1. ~msgIn[N].set
          BY <3>1, <3>4
        <5> QED
          BY <3>1, <3>2, <3>3, <4>1, <5>1
      <4>2. CASE k # N
        <5>1. k \in 1..(N - 1)
          BY <4>2
        <5>2. msgIn'[k] = msgIn[k] /\ msgIn[k].set
          BY <3>2, <3>4, <5>1
        <5>3. k <= Known'
          BY <3>3, <5>1
        <5> QED
          BY <5>2, <5>3
      <4> QED
        BY <4>1, <4>2
    <3> QED
      BY <3>1, <3>2, <3>3, <3>5
  <2> QED
    BY <1>2, <2>1, <2>2 DEF Registers
<1>6. MsgTypes' /\ Filled'
  BY <1>5 DEF MsgTypes, Filled
<1>7. RcvTypes'
  <2>1. rcv' \in Seq(Receiver)
    BY <1>1 DEF WalkInv, TypeInv, RcvTypes
  <2>2. ASSUME NEW t \in DOMAIN rcv
        PROVE  Walks(rcv[t], Len(msgIn'), Known')
    <3>1. /\ Walks(rcv[t], N, Known) /\ rcv[t].el \in Nat /\ rcv[t].known \in Nat
          /\ Known \in Nat
      BY <1>4, <2>2, ListNumbers DEF WalkInv, TypeInv, RcvTypes
    <3> QED
      BY <1>5, <3>1 DEF Walks
  <2> QED
    BY <1>1, <2>1, <2>2 DEF RcvTypes
<1>8. Walked'
  <2> SUFFICES ASSUME Kept, NEW t \in DOMAIN rcv,
                      rcv[t].pc \in {"walk", "store"},
                      NEW k \in 1..rcv[t].known, k > rcv[t].el,
                      msgIn'[k].object = rcv[t].m.object
               PROVE  msgIn'[k].value = rcv[t].m.value
    BY <1>1 DEF Walked, Kept
  <2>1. k \in 1..Known
    BY ListNumbers DEF WalkInv
  <2>2. msgIn'[k] = msgIn[k]
    BY <1>5, <2>1
  <2> QED
    BY <2>2 DEF WalkInv, Walked
<1> QED
  BY <1>6, <1>7, <1>8

(* The thread leaves its frame in each message for it. *)
LEMMA WalkRcv ==
  ASSUME CanInv, WalkInv, NEW t \in DOMAIN rcv, Rcv(t)
  PROVE  MsgTypes' /\ RcvTypes' /\ Filled' /\ Walked'
<1>1. UNCHANGED <<blocks, phase, at, starts, dev_cnt, canHandle>>
  BY Receiving DEF WalkInv
<1>2. PICK th \in Receiver :
        /\ rcv' = [rcv EXCEPT ![t] = th]
        /\ TakesFrame(t, th) \/ Passes(t, th) \/ Saves(t, th)
  BY Receiving DEF WalkInv
<1>3. /\ rcv \in Seq(Receiver) /\ msgIn \in Seq(CanMsg)
      /\ Len(msgIn) \in Nat /\ Known \in 0..Len(msgIn)
      /\ rcv[t] \in Receiver /\ rcv[t].el \in 0..Len(msgIn)
      /\ rcv[t].known \in 0..Known /\ t \in 1..Len(rcv)
      /\ Walks(rcv[t], Len(msgIn), Known)
  BY ListNumbers DEF WalkInv, TypeInv, RcvTypes, MsgTypes
<1>4. /\ rcv' \in Seq(Receiver) /\ DOMAIN rcv' = DOMAIN rcv /\ rcv'[t] = th
      /\ \A j \in DOMAIN rcv \ {t} : rcv'[j] = rcv[j]
  BY <1>2, <1>3, SeqSet
<1>5. /\ msgIn' \in Seq(CanMsg) /\ Len(msgIn') = Len(msgIn)
      /\ \A k \in 1..Len(msgIn) : /\ msgIn'[k].object = msgIn[k].object
                                  /\ msgIn'[k].set = msgIn[k].set
  <2>1. CASE Saves(t, th)
    <3>1. PICK e \in CanMsg :
            /\ e.object = msgIn[rcv[t].el].object
            /\ e.set = msgIn[rcv[t].el].set
            /\ msgIn' = [msgIn EXCEPT ![rcv[t].el] = e]
      BY <2>1 DEF Saves
    <3>2. PICK n \in 1..Len(msgIn) : n = rcv[t].el
      BY <1>3, <2>1 DEF Saves, Walks
    <3>3. /\ msgIn' \in Seq(CanMsg) /\ Len(msgIn') = Len(msgIn)
          /\ msgIn'[n] = e /\ DOMAIN msgIn = 1..Len(msgIn)
          /\ \A j \in DOMAIN msgIn \ {n} : msgIn'[j] = msgIn[j]
      BY <1>3, <3>1, <3>2, SeqSet
    <3> QED
      BY <3>1, <3>2, <3>3
  <2>2. CASE ~Saves(t, th)
    BY <1>2, <1>3, <2>2 DEF TakesFrame, Passes
  <2> QED
    BY <2>1, <2>2
<1>6. Known' = Known
  BY <1>1, <1>5 DEF Known
<1>7. MsgTypes' /\ Filled'
  BY <1>1, <1>5, <1>6 DEF WalkInv, TypeInv, MsgTypes, Filled
<1>8. Walks(th, Len(msgIn), Known)
  BY <1>2, <1>3 DEF TakesFrame, Passes, Saves, Walks
<1>9. RcvTypes'
  BY <1>4, <1>5, <1>6, <1>8 DEF WalkInv, TypeInv, RcvTypes
<1>10. Walked'
  <2> SUFFICES ASSUME Kept, NEW u \in DOMAIN rcv,
                      rcv'[u].pc \in {"walk", "store"},
                      NEW k \in 1..rcv'[u].known, k > rcv'[u].el,
                      msgIn'[k].object = rcv'[u].m.object
               PROVE  msgIn'[k].value = rcv'[u].m.value
    BY <1>1, <1>4 DEF Walked, Kept
  <2>1. u = t /\ rcv'[u] = th
    BY <1>4 DEF CanInv, Receivers, OneReceiver
  <2>2. CASE TakesFrame(t, th)
    BY <1>3, <2>1, <2>2 DEF TakesFrame
  <2>3. CASE Passes(t, th)
    <3>1. /\ th.m = rcv[t].m /\ th.known = rcv[t].known /\ UNCHANGED msgIn
          /\ rcv[t].pc = "walk" /\ th.pc # "read"
      BY <2>1, <2>3 DEF Passes
    <3>2. k > rcv[t].el
      BY <1>3, <2>1, <2>3, <3>1 DEF Passes
    <3> QED
      BY <2>1, <3>1, <3>2 DEF WalkInv, Walked
  <2>4. CASE Saves(t, th)
    <3>1. /\ th.m = rcv[t].m /\ th.known = rcv[t].known
          /\ rcv[t].pc = "store" /\ th.el = rcv[t].el - 1
      BY <2>4 DEF Saves
    <3>2. PICK e \in CanMsg : /\ e.value = rcv[t].m.value
                              /\ msgIn' = [msgIn EXCEPT ![rcv[t].el] = e]
      BY <2>4 DEF Saves
    <3>3. PICK n \in 1..Len(msgIn) : n = rcv[t].el
      BY <1>3, <3>1 DEF Walks
    <3>4. /\ msgIn'[n] = e /\ DOMAIN msgIn = 1..Len(msgIn)
          /\ \A j \in DOMAIN msgIn \ {n} : msgIn'[j] = msgIn[j]
      BY <1>3, <3>2, <3>3, SeqSet
    <3>5. k \in 1..Len(msgIn)
      BY <1>3, <2>1, <3>1
    <3>6. CASE k = n
      BY <2>1, <3>1, <3>2, <3>4, <3>6
    <3>7. CASE k # n
      <4>1. k > rcv[t].el
        BY <1>3, <2>1, <3>1, <3>3, <3>5, <3>7
      <4>2. msgIn'[k] = msgIn[k]
        BY <3>4, <3>5, <3>7
      <4> QED
        BY <2>1, <3>1, <4>1, <4>2 DEF WalkInv, Walked
    <3> QED
      BY <3>6, <3>7
  <2> QED
    BY <1>2, <2>2, <2>3, <2>4
<1> QED
  BY <1>7, <1>9, <1>10

LEMMA WalkStep ==
  ASSUME CanInv, WalkInv, [CanNext]_canVars
  PROVE  WalkInv'
<1>1. CountTypes'
  BY CountTypesPreserved DEF WalkInv
<1>2. CASE CanOpenFails \/ Pause \/ Resume
  <2>1. /\ UNCHANGED <<msgIn, rcv, blocks>>
        /\ phase \notin {"fill", "zero"} /\ phase' \notin {"fill", "zero"}
    BY <1>2 DEF CanOpenFails, Pause, Resume
  <2> QED
    BY <1>1, <2>1, WalkSame DEF ListSame, Known, WalkInv, TypeInv
<1>3. CASE CanClose
  <2>1. /\ UNCHANGED <<msgIn, rcv, blocks>>
        /\ phase \notin {"fill", "zero"} /\ phase' \notin {"fill", "zero"}
    BY <1>3 DEF CanClose, NextBlock
  <2> QED
    BY <1>1, <2>1, WalkSame DEF ListSame, Known, WalkInv, TypeInv
<1>4. CASE UNCHANGED canVars
  <2>1. UNCHANGED <<msgIn, rcv, blocks, phase>>
    BY <1>4 DEF canVars, rtVars
  <2> QED
    BY <1>1, <2>1, WalkSame DEF ListSame, Known, WalkInv, TypeInv, MsgTypes
<1>5. CASE CanOpenTH
  BY <1>1, <1>5, WalkOpen DEF WalkInv, TypeInv
<1>6. CASE RegisterMsg
  BY <1>1, <1>6, WalkRegister DEF WalkInv, TypeInv
<1>7. CASE \E t \in DOMAIN rcv : Rcv(t)
  BY <1>1, <1>7, WalkRcv DEF WalkInv, TypeInv
<1> QED
  BY <1>2, <1>3, <1>4, <1>5, <1>6, <1>7 DEF CanNext

-----------------------------------------------------------------------------
(* The results.                                                            *)

(* CanInv is an inductive invariant of the blocks and the driver.          *)
THEOREM CanInvariance == CanSpec => []CanInv
<1>1. CanInit => CanInv
  BY CanInitEstablishes
<1>2. CanInv /\ [CanNext]_canVars => CanInv'
  BY CountsPreserved, ReceiversPreserved DEF CanInv
<1>3. QED
  BY <1>1, <1>2, PTL DEF CanSpec

(* No block sends over a closed channel. *)
THEOREM ChannelOpen == CanSpec => []OpenWhileUsed
<1>1. CanInv => OpenWhileUsed
  BY ModelHasBlocks
  DEF CanInv, Ranges, Counts, Owed, Channel, OpenWhileUsed
<1>2. QED
  BY <1>1, CanInvariance, PTL

(* A model with a block that keeps the channel has one receive thread,     *)
(* however often it is paused and resumed.                                 *)
THEOREM ReceiverOnce == CanSpec => []OneReceiver
<1>1. CanInv => OneReceiver
  BY DEF CanInv, Receivers
<1>2. QED
  BY <1>1, CanInvariance, PTL

(* What the receive thread's walk over the list has done so far, at each   *)
(* place of it and of registerMsg.                                         *)
THEOREM WalkInvariance == CanSpec => [](CanInv /\ WalkInv)
<1>1. CanInit => CanInv /\ WalkInv
  BY CanInitEstablishes, WalkInvEstablished
<1>2. CanInv /\ WalkInv /\ [CanNext]_canVars => (CanInv /\ WalkInv)'
  BY WalkStep, CountsPreserved, ReceiversPreserved DEF CanInv
<1>3. QED
  BY <1>1, <1>2, PTL DEF CanSpec

(* Message, frame and thread keep their types, and dev_cnt its bound.      *)
THEOREM CanTypeCorrect == CanSpec => []CanTypeOK
<1>1. CanInv /\ WalkInv => CanTypeOK
  <2> SUFFICES ASSUME CanInv, WalkInv PROVE CanTypeOK
    OBVIOUS
  <2>1. /\ Len(blocks) \in Nat \ {0} /\ at \in 1..Len(blocks)
        /\ starts \in Nat \ {0} /\ dev_cnt \in Nat
    BY BlockAt DEF CanInv, Ranges
  <2>2. dev_cnt \in 0..(starts * Len(blocks))
    <3>1. PICK p \in Nat : /\ p = (starts - 1) * Len(blocks)
                           /\ (starts + 1 - 1) * Len(blocks) = p + Len(blocks)
      BY <2>1, StartCounts
    <3>2. starts + 1 - 1 = starts
      BY <2>1
    <3>3. starts * Len(blocks) = p + Len(blocks)
      BY <3>1, <3>2
    <3>4. Counted <= Len(blocks) /\ Counted \in Int
      BY <2>1 DEF Counted
    <3>5. dev_cnt <= p + Counted
      BY <3>1 DEF WalkInv, TypeInv, CountTypes
    <3> QED
      BY <2>1, <3>3, <3>4, <3>5
  <2>3. \A k \in DOMAIN msgIn : msgIn[k] \in CanMsg
    BY DEF WalkInv, TypeInv, MsgTypes
  <2>4. \A t \in DOMAIN rcv : rcv[t] \in Thread
    <3> TAKE t \in DOMAIN rcv
    <3>1. PICK n \in Nat : n = Len(msgIn)
      BY ListNumbers DEF WalkInv
    <3>2. /\ rcv[t] \in Receiver /\ rcv[t].el \in 0..n /\ rcv[t].known \in 0..n
      BY <3>1, ListNumbers DEF WalkInv
    <3>3. rcv[t] \in [pc : {"read", "walk", "store"}, m : FrameRead,
                      el : 0..n, known : 0..n]
      BY <3>2 DEF Receiver
    <3> QED
      BY <3>1, <3>3 DEF Thread, FrameRead
  <2> QED
    BY <2>2, <2>3, <2>4
    DEF CanTypeOK, CanInv, Ranges, WalkInv, TypeInv, CountTypes
<1>2. QED
  BY <1>1, WalkInvariance, PTL

(* A set of numbers up to n that is not empty has a greatest one. *)
LEMMA Greatest ==
  ASSUME NEW n \in Nat, NEW K \in SUBSET (1..n), K # {}
  PROVE  \E k \in K : \A j \in K : j <= k
<1> DEFINE Above(k) == {j \in K : j > k}
<1> DEFINE T == {Above(k) : k \in K}
<1>1. IsFiniteSet(K)
  <2>1. IsFiniteSet(1..n)
    BY FS_Interval
  <2> QED
    BY <2>1, FS_Subset
<1>2. FiniteSubsetsOf(K) = SUBSET K
  BY <1>1, FS_FiniteSubsetsOfFinite
<1>3. T \subseteq FiniteSubsetsOf(K) /\ T # {}
  <2>1. \A k \in K : Above(k) \in SUBSET K
    OBVIOUS
  <2>2. T \subseteq SUBSET K
    <3> SUFFICES ASSUME NEW X \in T PROVE X \in SUBSET K
      BY Zenon
    <3>1. PICK k \in K : X = Above(k)
      OBVIOUS
    <3> QED
      BY <2>1, <3>1, Zenon
  <2>3. T # {}
    BY Zenon
  <2> QED
    BY <1>2, <2>2, <2>3, Zenon
<1>4. PICK X \in T : \A Y \in T : <<Y, X>> \notin StrictSubsetOrdering(K)
  BY <1>3, FS_StrictSubsetOrderingWellFounded, WFMin
<1>5. PICK k \in K : X = Above(k)
  BY <1>4
<1>6. ASSUME NEW j \in K, j > k PROVE FALSE
  <2>1. Above(j) \subseteq Above(k)
    <3> SUFFICES ASSUME NEW x \in K, x > j PROVE x > k
      OBVIOUS
    <3>1. x \in Int /\ j \in Int /\ k \in Int
      OBVIOUS
    <3> QED
      BY <1>6, <3>1
  <2>2. j \in Above(k) /\ j \notin Above(j)
    <3>1. j \in Int
      OBVIOUS
    <3> QED
      BY <1>6, <3>1
  <2>3. <<Above(j), Above(k)>> \in StrictSubsetOrdering(K)
    BY <2>1, <2>2 DEF StrictSubsetOrdering
  <2> QED
    BY <1>4, <1>5, <2>3
<1> QED
  BY <1>6

(* A frame that the only receive thread has saved is what a block reads    *)
(* that had registered for it, however registerMsg and the walk meet.      *)
THEOREM FrameSaved == CanSpec => FrameReachesBlock
<1>1. CanInv /\ WalkInv /\ [CanNext]_canVars =>
        [\A t \in DOMAIN rcv :
           Kept /\ rcv[t].pc = "walk" /\ rcv'[t].pc = "read"
           /\ Registered(rcv[t].m.object, rcv[t].known)
           /\ ~Reregistered(rcv[t].m.object, rcv[t].known)
             => GetValue(rcv[t].m.object) = rcv[t].m.value]_canVars
  <2> SUFFICES ASSUME CanInv, WalkInv, CanNext,
                      NEW t \in DOMAIN rcv, Kept,
                      rcv[t].pc = "walk", rcv'[t].pc = "read",
                      Registered(rcv[t].m.object, rcv[t].known),
                      ~Reregistered(rcv[t].m.object, rcv[t].known)
               PROVE  GetValue(rcv[t].m.object) = rcv[t].m.value
    OBVIOUS
  <2>1. PICK o : o = rcv[t].m.object
    OBVIOUS
  <2>2. PICK n \in Nat : n = rcv[t].known /\ n <= Known /\ Known <= Len(msgIn)
    BY ListNumbers DEF WalkInv
  <2>3. rcv[t].el = 0
    <3>1. CASE \E u \in DOMAIN rcv : Rcv(u)
      <4>1. PICK u \in DOMAIN rcv : Rcv(u)
        BY <3>1
      <4>2. u = t
        BY DEF CanInv, Receivers, OneReceiver
      <4>3. PICK th \in Receiver :
              /\ rcv' = [rcv EXCEPT ![t] = th]
              /\ TakesFrame(t, th) \/ Passes(t, th) \/ Saves(t, th)
        BY <4>1, <4>2, Receiving DEF WalkInv
      <4>4. rcv'[t] = th
        BY <4>3
      <4> QED
        BY <4>3, <4>4 DEF TakesFrame, Passes, Saves
    <3>2. CASE CanOpenTH
      <4>1. rcv \in Seq(Receiver)
        BY DEF WalkInv, TypeInv, RcvTypes
      <4>2. rcv' = rcv \/ \E e : rcv' = Append(rcv, e)
        BY <3>2, Zenon DEF CanOpenTH, StartsReceiver
      <4>3. rcv'[t] = rcv[t]
        BY <4>1, <4>2
      <4> QED
        BY <4>3
    <3>3. CASE CanOpenFails \/ RegisterMsg \/ Pause \/ CanClose \/ Resume
      BY <3>3 DEF CanOpenFails, RegisterMsg, Pause, CanClose, Resume
    <3> QED
      BY <3>1, <3>2, <3>3 DEF CanNext
  <2> DEFINE mine == {k \in DOMAIN msgIn : msgIn[k].set /\ msgIn[k].object = o}
  <2>4. DOMAIN msgIn = 1..Len(msgIn) /\ Len(msgIn) \in Nat /\ Known \in Nat
    BY ListNumbers DEF WalkInv, TypeInv, MsgTypes
  <2>5. mine \subseteq 1..n
    BY <2>1, <2>2, <2>4 DEF Reregistered
  <2>6. mine # {}
    <3>1. PICK k \in 1..n : msgIn[k].object = o
      BY <2>1, <2>2 DEF Registered
    <3>2. k \in DOMAIN msgIn /\ msgIn[k].set
      BY <2>2, <2>4, <3>1 DEF WalkInv, Filled
    <3> QED
      BY <3>1, <3>2
  <2>7. \A k \in mine : msgIn[k].value = rcv[t].m.value
    BY <2>1, <2>2, <2>3, <2>5 DEF WalkInv, Walked
  <2>8. \E k \in mine : \A j \in mine : j <= k
    BY <2>5, <2>6, Greatest
  <2>9. GetValue(o) = msgIn[CHOOSE k \in mine : \A j \in mine : j <= k].value
    BY <2>6 DEF GetValue
  <2> HIDE DEF mine
  <2> QED
    BY <2>1, <2>7, <2>8, <2>9
<1>2. QED
  BY <1>1, WalkInvariance, PTL DEF CanSpec, FrameReachesBlock
=============================================================================
