------------------------------ MODULE CanOpen -------------------------------
(***************************************************************************)
(* The CAN blocks of a model on Linux and the driver they share,           *)
(* LinuxRT/devices/canopen.c:                                              *)
(*                                                                         *)
(*   the RT task   initialises the blocks one after the other, computes    *)
(*                 samples, ends them in the same order, and begins again  *)
(*                 when the paused model is resumed;                       *)
(*   rcv           the receive threads: canOpenTH starts one, nothing ends *)
(*                 one.                                                    *)
(*                                                                         *)
(* No lock guards the list msgIn, to which registerMsg prepends a message  *)
(* while rcv walks it.                                                     *)
(*                                                                         *)
(* An object (ID, index and subindex) is one name; a value is the number   *)
(* of the frame that brought it.  Left out: what the blocks send, the      *)
(* functions no block calls (canOpen, rcvMsg, rcvMsgCob).                  *)
(*                                                                         *)
(* An operator that nothing uses, such as RcvStoreOnce, is the one after   *)
(* it with a bug in it: README.md says which property notices.             *)
(***************************************************************************)
EXTENDS Integers, Sequences

CONSTANTS
  Models,     \* the CAN blocks of the models considered, in their order
  Objects,    \* the objects sent over the bus
  MaxFrames,  \* bound: frames on the bus
  MaxStarts   \* bound: how often the model is initialised

(* object: what the block registers, if anything; closes: whether its end  *)
(* calls canClose, which those of can_gen_recv and can_sdo_recv do not.    *)
None == "none"
Block == [object : Objects \union {None}, closes : BOOLEAN]

ASSUME CanAssumption ==
  /\ Models \subseteq Seq(Block) \ {<<>>}
  /\ MaxFrames \in Nat
  /\ MaxStarts \in Nat \ {0}

VARIABLES
  blocks,     \* the model's CAN blocks, never changes
  phase, at,  \* what the RT task does, with which block
  starts,     \* how often the model was initialised
  dev_cnt, canHandle,
  msgIn,      \* the list, oldest message first
  rcv,        \* the receive threads
  frames      \* how many frames there were on the bus

rtVars == <<blocks, phase, at, starts>>
channel == <<dev_cnt, canHandle>>
canVars == <<rtVars, channel, msgIn, rcv, frames>>

(* set: registerMsg has returned. *)
CanMsg == [object : Objects \union {None}, value : 0..MaxFrames, set : BOOLEAN]

(* m: the last frame read, not initialised at first; el: the message the   *)
(* walk is at; known: how many were set when it began.                     *)
Thread ==
  [pc : {"read", "walk", "store"},
   m : [object : Objects \union {None}, value : 0..MaxFrames],
   el : 0..Len(msgIn), known : 0..Len(msgIn)]

CanTypeOK ==
  /\ blocks \in Models
  /\ phase \in {"open", "publish", "fill", "zero", "isr", "end", "down",
                "exit"}
  /\ at \in 1..Len(blocks)
  /\ starts \in 1..MaxStarts
  /\ dev_cnt \in 0..(starts * Len(blocks))
  /\ canHandle \in {"none", "open", "closed"}
  /\ \A k \in DOMAIN msgIn : msgIn[k] \in CanMsg
  /\ \A t \in DOMAIN rcv : rcv[t] \in Thread
  /\ frames \in 0..MaxFrames

CanInit ==
  /\ blocks \in Models
  /\ phase = "open" /\ at = 1 /\ starts = 1
  /\ dev_cnt = 0 /\ canHandle = "none"
  /\ msgIn = <<>> /\ rcv = <<>> /\ frames = 0

-----------------------------------------------------------------------------
(* The RT task.                                                            *)

(* The next block, or else the next phase. *)
NextBlock(this, then) ==
  IF at < Len(blocks) THEN phase' = this /\ at' = at + 1
                      ELSE phase' = then /\ at' = 1

(* Whether pthread_create works is not looked at. *)
StartsReceiver ==
  \/ \E o \in Objects \union {None} :
       rcv' = Append(rcv, [pc |-> "read", m |-> [object |-> o, value |-> 0],
                           el |-> 0, known |-> 0])
  \/ UNCHANGED rcv

AfterOpen ==
  IF blocks[at].object = None
    THEN NextBlock("open", "isr")
    ELSE phase' = "publish" /\ UNCHANGED at

CanOpenTHEach ==
  /\ phase = "open"
  /\ StartsReceiver /\ canHandle' = "open"
  /\ dev_cnt' = dev_cnt + 1
  /\ AfterOpen
  /\ UNCHANGED <<blocks, starts, msgIn, frames>>

CanOpenTHCountsOnce ==
  /\ phase = "open"
  /\ IF dev_cnt = 0
       THEN StartsReceiver /\ canHandle' = "open" /\ dev_cnt' = 1
       ELSE UNCHANGED <<rcv, channel>>
  /\ AfterOpen
  /\ UNCHANGED <<blocks, starts, msgIn, frames>>

(* The first block opens the channel, the others count themselves.         *)
CanOpenTH ==
  /\ phase = "open"
  /\ IF dev_cnt = 0
       THEN StartsReceiver /\ canHandle' = "open"
       ELSE UNCHANGED <<rcv, canHandle>>
  /\ dev_cnt' = dev_cnt + 1
  /\ AfterOpen
  /\ UNCHANGED <<blocks, starts, msgIn, frames>>

(* Without the device, the block ends the program. *)
CanOpenFails ==
  /\ phase = "open" /\ dev_cnt = 0
  /\ phase' = "exit"
  /\ UNCHANGED <<blocks, at, starts, channel, msgIn, rcv, frames>>

(* registerMsg: the message is in the list before it says what it is for.  *)
RegisterMsg ==
  \/ /\ phase = "publish" /\ phase' = "fill"
     /\ \E o \in Objects \union {None} :
          msgIn' = Append(msgIn, [object |-> o, value |-> 0, set |-> FALSE])
     /\ UNCHANGED <<blocks, at, starts, channel, rcv, frames>>
  \/ /\ phase = "fill" /\ phase' = "zero"
     /\ msgIn' = [msgIn EXCEPT ![Len(msgIn)].object = blocks[at].object]
     /\ UNCHANGED <<blocks, at, starts, channel, rcv, frames>>
  \/ /\ phase = "zero" /\ NextBlock("open", "isr")
     /\ msgIn' = [msgIn EXCEPT ![Len(msgIn)].value = 0,
                               ![Len(msgIn)].set = TRUE]
     /\ UNCHANGED <<blocks, starts, channel, rcv, frames>>

(* The model is paused.  Its samples send, and read what getValue returns. *)
Pause ==
  /\ phase = "isr" /\ phase' = "end"
  /\ UNCHANGED <<blocks, at, starts, channel, msgIn, rcv, frames>>

CanCloseEarly ==
  /\ phase = "end" /\ NextBlock("end", "down")
  /\ IF blocks[at].closes
       THEN /\ dev_cnt' = dev_cnt - 1
            /\ canHandle' = IF dev_cnt' <= 1 THEN "closed" ELSE canHandle
       ELSE UNCHANGED channel
  /\ UNCHANGED <<blocks, starts, msgIn, rcv, frames>>

(* The block's end: canClose or nothing. *)
CanClose ==
  /\ phase = "end" /\ NextBlock("end", "down")
  /\ IF blocks[at].closes
       THEN /\ dev_cnt' = dev_cnt - 1
            /\ canHandle' = IF dev_cnt' = 0 THEN "closed" ELSE canHandle
       ELSE UNCHANGED channel
  /\ UNCHANGED <<blocks, starts, msgIn, rcv, frames>>

Resume ==
  /\ phase = "down" /\ phase' = "open"
  /\ starts < MaxStarts /\ starts' = starts + 1
  /\ UNCHANGED <<blocks, at, channel, msgIn, rcv, frames>>

-----------------------------------------------------------------------------
(* A receive thread.                                                       *)

(* How many messages registerMsg has filled in. *)
Known == IF phase \in {"fill", "zero"} THEN Len(msgIn) - 1 ELSE Len(msgIn)

(* CAN_Read brings the next frame or, its result unseen, fails and leaves  *)
(* m as it was.  A read over a handle that canClose has freed fails.       *)
RcvRead(t) ==
  /\ rcv[t].pc = "read"
  /\ \/ /\ canHandle = "open" /\ frames < MaxFrames
        /\ frames' = frames + 1
        /\ \E o \in Objects :
             rcv' = [rcv EXCEPT ![t] =
               [pc |-> "walk", m |-> [object |-> o, value |-> frames'],
                el |-> Len(msgIn), known |-> Known]]
     \/ /\ rcv' = [rcv EXCEPT ![t].pc = "walk", ![t].el = Len(msgIn),
                              ![t].known = Known]
        /\ UNCHANGED frames
  /\ UNCHANGED <<rtVars, channel, msgIn>>

(* saveMsg and saveMsg2 compare, and store, message by message. *)
RcvCompare(t) ==
  LET k == rcv[t].el IN
  /\ rcv[t].pc = "walk"
  /\ rcv' = [rcv EXCEPT ![t] =
       IF k = 0 THEN [@ EXCEPT !.pc = "read"]
       ELSE IF msgIn[k].object = rcv[t].m.object
         THEN [@ EXCEPT !.pc = "store"]
         ELSE [@ EXCEPT !.el = k - 1]]
  /\ UNCHANGED <<rtVars, channel, msgIn, frames>>

RcvStoreOnce(t) ==
  /\ rcv[t].pc = "store"
  /\ msgIn' = [msgIn EXCEPT ![rcv[t].el].value = rcv[t].m.value]
  /\ rcv' = [rcv EXCEPT ![t].pc = "walk", ![t].el = 0]
  /\ UNCHANGED <<rtVars, channel, frames>>

RcvStore(t) ==
  /\ rcv[t].pc = "store"
  /\ msgIn' = [msgIn EXCEPT ![rcv[t].el].value = rcv[t].m.value]
  /\ rcv' = [rcv EXCEPT ![t].pc = "walk", ![t].el = @ - 1]
  /\ UNCHANGED <<rtVars, channel, frames>>

Rcv(t) ==
  phase # "exit" /\ (RcvRead(t) \/ RcvCompare(t) \/ RcvStore(t))

CanNext ==
  \/ CanOpenTH \/ CanOpenFails \/ RegisterMsg \/ Pause \/ CanClose \/ Resume
  \/ \E t \in DOMAIN rcv : Rcv(t)

CanSpec == CanInit /\ [][CanNext]_canVars

-----------------------------------------------------------------------------
(* Safety.                                                                 *)

(* From its init to its end, a block sends over an open channel, whichever *)
(* blocks give it back and whichever forget to, over any number of pauses. *)
OpenWhileUsed ==
  /\ phase \in {"publish", "fill", "zero", "isr", "end"} => canHandle = "open"
  /\ phase = "open" /\ at > 1 => canHandle = "open"

(* canOpenTH: "This task is performed only one time".  That is so as long  *)
(* as some block never gives the channel back; otherwise each resume       *)
(* starts a further thread, while the earlier ones go on.                  *)
Kept == \E k \in DOMAIN blocks : ~blocks[k].closes

OneReceiver == Kept => \A t, u \in DOMAIN rcv : t = u

(* What a block reads of an object: the message registered last.           *)
GetValue(o) ==
  LET mine == {k \in DOMAIN msgIn : msgIn[k].set /\ msgIn[k].object = o}
  IN  IF mine = {} THEN 0
      ELSE msgIn[CHOOSE k \in mine : \A j \in mine : j <= k].value

Registered(o, n) == \E k \in 1..n : msgIn[k].object = o

Reregistered(o, n) ==
  \E k \in (n + 1)..Len(msgIn) : msgIn[k].set /\ msgIn[k].object = o

(* When the only receive thread has saved a frame, the blocks that were    *)
(* registered when it read it read its value: neither the message that is  *)
(* being registered meanwhile nor the ones left from before a pause hide   *)
(* it.                                                                     *)
FrameReachesBlock ==
  [][\A t \in DOMAIN rcv :
       Kept /\ rcv[t].pc = "walk" /\ rcv'[t].pc = "read"
       /\ Registered(rcv[t].m.object, rcv[t].known)
       /\ ~Reregistered(rcv[t].m.object, rcv[t].known)
         => GetValue(rcv[t].m.object) = rcv[t].m.value]_canVars
=============================================================================
