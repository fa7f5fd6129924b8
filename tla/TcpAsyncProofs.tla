--------------------------- MODULE TcpAsyncProofs ---------------------------
(***************************************************************************)
(* What holds of TcpAsync for every block, every ring size and every       *)
(* width of its counters.                                                  *)
(***************************************************************************)
EXTENDS TcpAsync, TLAPS

-----------------------------------------------------------------------------
(* The three frame buffers.  Which buffer a thread holds changes only when *)
(* it exchanges it for the one held by rxbuff_to_apply.                    *)

TripleInv ==
  /\ in_read \in 0..2
  /\ in_apply \in 0..2
  /\ to_apply.buf \in 0..2
  /\ ExclusiveBuffers

LEMMA TripleInit == Init => TripleInv
  BY DEF Init, TripleInv, ExclusiveBuffers

LEMMA TripleStep == TripleInv /\ [Next]_vars => TripleInv'
<1> SUFFICES ASSUME TripleInv, [Next]_vars
             PROVE  TripleInv'
  OBVIOUS
<1>1. CASE RtInit
  BY <1>1 DEF RtInit, TripleInv, ExclusiveBuffers
<1>2. CASE RtExchange
  BY <1>2 DEF RtExchange, GivenBack, TripleInv, ExclusiveBuffers, rcvVars
<1>3. CASE RcvExchange
  BY <1>3 DEF RcvExchange, TripleInv, ExclusiveBuffers
<1>4. CASE UNCHANGED <<in_read, in_apply, to_apply>>
  BY <1>4 DEF TripleInv, ExclusiveBuffers
<1>5. RtConnectFails \/ RtSample \/ RtPut \/ RtBroadcast \/ RtApply \/ RtEnd
        => UNCHANGED <<in_read, in_apply, to_apply>>
  BY DEF RtConnectFails, RtSample, RtPut, RtBroadcast, RtApply, RtEnd, rcvVars,
         triple
<1>6. RtEnding \/ RtEndLock \/ RtEndWoken
        => UNCHANGED <<in_read, in_apply, to_apply>>
  BY DEF RtEnding, RtTerminate, RtEndBroadcast, RtEndLock, RtEndTest, RtEndWait,
         RtEndWoken, RtEndTimeout, RtCancel, RtJoin, RtCancelRx, RtJoinRx,
         rcvVars, triple
<1>7. SndStep => UNCHANGED <<in_read, in_apply, to_apply>>
  BY DEF SndStep, SndLock, SndProgress, SndTest, SndWait, SndCount, SndSkip,
         SndTerminated, SndBroadcast, SndKilled, SndWrite, SndWriteFails, rxVars,
         rcvVars, triple
<1>8. RcvLoop \/ RcvKilled \/ RcvRead \/ RcvReadFails
        => UNCHANGED <<in_read, in_apply, to_apply>>
  BY DEF RcvLoop, RcvKilled, RcvRead, RcvReadFails, triple
<1>9. SpuriousWakeup \/ Exited \/ UNCHANGED vars
        => UNCHANGED <<in_read, in_apply, to_apply>>
  BY DEF SpuriousWakeup, Exited, vars, rxVars, rcvVars, triple
<1> QED
  BY <1>1, <1>2, <1>3, <1>4, <1>5, <1>6, <1>7, <1>8, <1>9
  DEF Next, RtStep, RtInout, RcvStep, RcvProgress

(* No frame is overwritten by TCP_data_read while inout copies it to the   *)
(* outputs, however often and in whatever order the two exchange buffers.  *)
THEOREM BuffersExclusive == Spec => []ExclusiveBuffers
<1>1. TripleInv => ExclusiveBuffers
  BY DEF TripleInv
<1> QED
  BY <1>1, TripleInit, TripleStep, PTL DEF Spec

-----------------------------------------------------------------------------
(* The life of the threads. *)

LifeInv ==
  /\ cfg.nin = 0 => snd = "none"
  /\ cfg.nout = 0 => rcv = "none"
  /\ rt \in {"e_rx", "e_rxjoin"} => SenderGone
  /\ NoUseAfterFree

CfgInv == cfg \in Configs

LEMMA LifeInit == Init => CfgInv /\ LifeInv
  BY DEF Init, CfgInv, LifeInv, NoUseAfterFree

(* What the sender and the receiver do, each of them does while it lives. *)
LEMMA SndAlive == SndStep => ~SenderGone /\ snd # "none" /\ snd' # "none"
  BY DEF SndStep, SndLock, SndProgress, SndTest, SndWait, SndCount, SndSkip,
         SndTerminated, SndBroadcast, SndKilled, SndWrite, SndWriteFails, SenderGone

LEMMA RcvAlive == RcvStep => ~ReceiverGone
  BY DEF RcvStep, RcvProgress, RcvLoop, RcvExchange, RcvKilled, RcvRead,
         RcvReadFails, ReceiverGone

LEMMA CfgNumbers == CfgInv => cfg.nin \in Nat /\ cfg.nout \in Nat
  BY TcpAssumption DEF CfgInv, Config

LEMMA CfgSame == [Next]_vars => cfg' = cfg
<1>1. RtStep => cfg' = cfg
  BY DEF RtStep, RtInit, RtConnectFails, RtInout, RtSample, RtPut, RtBroadcast,
         RtExchange, RtApply, RtEnd, RtEnding, RtTerminate, RtEndBroadcast,
         RtEndLock, RtEndTest, RtEndWait, RtEndWoken, RtEndTimeout, RtCancel,
         RtJoin, RtCancelRx, RtJoinRx
<1>2. SndStep => cfg' = cfg
  BY DEF SndStep, SndLock, SndProgress, SndTest, SndWait, SndCount, SndSkip,
         SndTerminated, SndBroadcast, SndKilled, SndWrite, SndWriteFails, rtVars
<1>3. RcvStep => cfg' = cfg
  BY DEF RcvStep, RcvProgress, RcvLoop, RcvExchange, RcvKilled, RcvRead,
         RcvReadFails, rtVars
<1>4. SpuriousWakeup \/ Exited \/ UNCHANGED vars => cfg' = cfg
  BY DEF SpuriousWakeup, Exited, vars, rtVars
<1> QED
  BY <1>1, <1>2, <1>3, <1>4 DEF Next

LEMMA LifeStep == CfgInv /\ LifeInv /\ [Next]_vars => (CfgInv /\ LifeInv)'
<1> SUFFICES ASSUME CfgInv, LifeInv, [Next]_vars
             PROVE  CfgInv' /\ LifeInv'
  OBVIOUS
<1> USE DEF LifeInv, NoUseAfterFree
<1>1. CfgInv'
  BY CfgSame DEF CfgInv
<1> SUFFICES LifeInv'
  BY <1>1
<1>2. CASE RtInit \/ RtConnectFails
  BY <1>2, CfgNumbers DEF RtInit, RtConnectFails, sndVars, rcvVars
<1>3. CASE RtInout
  BY <1>3 DEF RtInout, RtSample, RtPut, RtBroadcast, RtExchange, RtApply,
              RtToReceive, sndVars, rcvVars
<1>4. CASE RtEnd
  BY <1>4, CfgNumbers
  DEF RtEnd, RtToEndRx, sndVars, rcvVars, SenderGone, ReceiverGone
<1>5. CASE RtJoin
  BY <1>5, CfgNumbers
  DEF RtJoin, RtToEndRx, sndVars, rcvVars, SenderGone, ReceiverGone
<1>6. CASE RtCancelRx \/ RtJoinRx
  BY <1>6
  DEF RtCancelRx, RtJoinRx, sndVars, rcvVars, SenderGone, ReceiverGone
<1>7. CASE RtTerminate \/ RtEndBroadcast \/ RtEndLock \/ RtEndTest \/ RtEndWait
             \/ RtEndWoken \/ RtEndTimeout \/ RtCancel
  BY <1>7 DEF RtTerminate, RtEndBroadcast, RtEndLock, RtEndTest, RtEndWait,
              RtEndWoken, RtEndTimeout, RtCancel, sndVars, rcvVars
<1>8. CASE SndStep
  <2>1. UNCHANGED <<cfg, rt, rcv>>
    BY <1>8 DEF SndStep, SndLock, SndProgress, SndTest, SndWait, SndCount, SndSkip,
                SndTerminated, SndBroadcast, SndKilled, SndWrite, SndWriteFails,
                rtVars, rxVars, rcvVars
  <2> QED
    BY <1>8, <2>1, SndAlive
<1>9. CASE RcvStep
  <2>1. UNCHANGED <<cfg, rt, snd>>
    BY <1>9 DEF RcvStep, RcvProgress, RcvLoop, RcvExchange, RcvKilled, RcvRead,
                RcvReadFails, rtVars, txVars, sndVars
  <2> QED
    BY <1>9, <2>1, RcvAlive DEF ReceiverGone, SenderGone
<1>10. CASE SpuriousWakeup \/ Exited \/ UNCHANGED vars
  BY <1>10 DEF SpuriousWakeup, Exited, vars, rtVars, sndVars, rxVars, rcvVars,
               SenderGone, ReceiverGone
<1> QED
  BY <1>1, <1>2, <1>3, <1>4, <1>5, <1>6, <1>7, <1>8, <1>9, <1>10
  DEF Next, RtStep, RtEnding

(* end frees what the threads use only after both have ended: it joins     *)
(* each thread init has created, on the path it takes for this block.      *)
THEOREM FreedUnused == Spec => []NoUseAfterFree
<1>1. LifeInv => NoUseAfterFree
  BY DEF LifeInv
<1> QED
  BY <1>1, LifeInit, LifeStep, PTL DEF Spec

-----------------------------------------------------------------------------
(* What the sender has seen when it ends.                                  *)

Leaving ==
  {"e_bcast", "e_lock", "e_test", "e_cond", "e_wait", "e_cancel", "e_join", "e_rx",
   "e_rxjoin", "closed", "exit"}

(* The sender takes over tx_terminate, which is set when inout is not      *)
(* called any more; if it finds the ring empty then, it stays empty.       *)
SeesEnd ==
  /\ tx_terminate => rt \in Leaving
  /\ terminate => tx_terminate \/ "tx" \in faults

Counters ==
  /\ locin \in 0..(LocMod - 1)
  /\ locout \in 0..(LocMod - 1)
  /\ sent \in Nat
  /\ snd \notin {"write", "killed"} => sent = 0

Drained ==
  /\ snd \in {"terminated", "bcast", "dead"} => terminate /\ empty
  /\ /\ terminate /\ empty
     /\ "tx" \notin faults
     /\ snd \in {"count", "write", "terminated", "bcast", "dead"}
     => locin = locout /\ sent = 0 /\ (snd = "write" => to_send = 0)

DrainInv == CfgInv /\ SeesEnd /\ Counters /\ Drained

LEMMA CfgSize ==
  CfgInv => /\ LocMod \in Nat \ {0}
            /\ Size \in 1..(LocMod - 1)
  BY TcpAssumption DEF CfgInv, Config, LocMod, Size

LEMMA EmptyCount ==
  ASSUME CfgInv, Counters, locin = locout
  PROVE  Count = 0 /\ CountCont = 0
<1>1. Count = 0
  BY CfgSize DEF Count, Minus, Counters
<1>2. Size - (locout % Size) > 0
  BY CfgSize DEF Counters
<1> QED
  BY <1>1, <1>2 DEF CountCont

LEMMA PlusRange ==
  ASSUME CfgInv, NEW a \in Nat, NEW b \in Nat
  PROVE  Plus(a, b) \in 0..(LocMod - 1)
  BY CfgSize DEF Plus

LEMMA DrainInit == Init => DrainInv
<1> SUFFICES ASSUME Init PROVE DrainInv
  OBVIOUS
<1>1. CfgInv
  BY DEF Init, CfgInv
<1>2. Counters
  BY <1>1, CfgSize DEF Init, Counters
<1> QED
  BY <1>1, <1>2 DEF Init, DrainInv, SeesEnd, Drained

(* Only RtInit and RtPut, of the RT task's steps, write to the ring.       *)
LEMMA DrainRt ==
  ASSUME DrainInv, cfg' = cfg, RtStep
  PROVE  DrainInv'
<1>0. CfgInv' /\ LocMod' = LocMod
  BY DEF DrainInv, CfgInv, LocMod
<1> USE <1>0 DEF DrainInv
<1>1. CASE RtInit
  <2>1. SeesEnd' /\ Drained'
    BY <1>1 DEF RtInit, SeesEnd, Drained
  <2>2. Counters'
    BY <1>1, CfgSize DEF RtInit, Counters
  <2> QED
    BY <2>1, <2>2
<1>2. CASE RtPut
  <2>1. /\ rt = "put" /\ rt' \in {"put", "bcast"}
        /\ UNCHANGED <<locout, snd, terminate, empty, to_send, sent,
                       tx_terminate, faults>>
    BY <1>2 DEF RtPut, sndVars, flags
  <2>2. ~tx_terminate
    BY <2>1 DEF SeesEnd, Leaving
  <2>3. SeesEnd' /\ Drained'
    BY <2>1, <2>2 DEF SeesEnd, Drained
  <2>4. locin' = locin \/ locin' = Plus(locin, 1)
    BY <1>2 DEF RtPut
  <2>5. locin' \in 0..(LocMod - 1)
    <3>1. locin \in Nat
      BY CfgSize DEF Counters
    <3>2. Plus(locin, 1) \in 0..(LocMod - 1)
      BY <3>1, PlusRange
    <3> QED
      BY <2>4, <3>2 DEF Counters
  <2>6. Counters'
    BY <2>1, <2>5 DEF Counters
  <2> QED
    BY <2>3, <2>6
<1>3. CASE RtTerminate
  <2>1. /\ rt' = "e_bcast" /\ tx_terminate'
        /\ UNCHANGED <<locin, locout, snd, terminate, empty, to_send, sent, faults>>
    BY <1>3 DEF RtTerminate, sndVars, ring
  <2> QED
    BY <2>1 DEF SeesEnd, Leaving, Counters, Drained
<1>4. CASE RtStep /\ ~RtInit /\ ~RtPut /\ ~RtTerminate
  <2>1. UNCHANGED <<locin, locout, snd, terminate, empty, to_send, sent,
                    tx_terminate, faults>>
    BY <1>4
    DEF RtStep, RtConnectFails, RtInout, RtSample, RtBroadcast, RtExchange, RtApply,
        RtEnd, RtEnding, RtEndBroadcast, RtEndLock, RtEndTest, RtEndWait,
        RtEndWoken, RtEndTimeout, RtCancel, RtJoin, RtCancelRx, RtJoinRx,
        ring, flags, sndVars
  <2>2. rt \in Leaving => rt' \in Leaving
    BY <1>4
    DEF RtStep, RtConnectFails, RtInout, RtSample, RtBroadcast, RtExchange, RtApply,
        RtEnd, RtEnding, RtEndBroadcast, RtEndLock, RtEndTest, RtEndWait,
        RtEndWoken, RtEndTimeout, RtCancel, RtJoin, RtCancelRx, RtJoinRx,
        RtToEndRx, Leaving
  <2> QED
    BY <2>1, <2>2 DEF SeesEnd, Counters, Drained
<1> QED
  BY <1>1, <1>2, <1>3, <1>4

LEMMA DrainSnd ==
  ASSUME DrainInv, cfg' = cfg, SndStep
  PROVE  DrainInv'
<1>0. CfgInv' /\ LocMod' = LocMod
  BY DEF DrainInv, CfgInv, LocMod
<1> USE <1>0 DEF DrainInv
<1>1. UNCHANGED <<rt, tx_terminate, locin>>
  BY DEF SndStep, SndLock, SndProgress, SndTest, SndWait, SndCount, SndSkip,
         SndTerminated, SndBroadcast, SndKilled, SndWrite, SndWriteFails,
         rtVars, flags, ring
<1>2. CASE SndLock
  BY <1>1, <1>2 DEF SndLock, SeesEnd, Counters, Drained, ring
<1>3. CASE SndTest
  <2>1. /\ snd' \in {"cond", "count"} /\ snd = "test"
        /\ empty' => locin = locout
        /\ UNCHANGED <<locout, terminate, to_send, sent, faults>>
    BY <1>3 DEF SndTest, IsEmpty, ring
  <2> QED
    BY <1>1, <2>1 DEF SeesEnd, Counters, Drained
<1>4. CASE SndCount
  <2>1. /\ snd = "count" /\ snd' = "write" /\ to_send' = CountCont
        /\ UNCHANGED <<locout, terminate, empty, sent, faults>>
    BY <1>4 DEF SndCount, ring
  <2>2. locin = locout => to_send' = 0
    BY <2>1, EmptyCount
  <2> QED
    BY <1>1, <2>1, <2>2 DEF SeesEnd, Counters, Drained
<1>5. CASE SndWrite
  BY <1>1, <1>5 DEF SndWrite, SeesEnd, Counters, Drained, ring
<1>6. CASE SndWriteFails
  BY <1>1, <1>6 DEF SndWriteFails, SeesEnd, Counters, Drained, ring
<1>7. CASE SndSkip
  <2> DEFINE skipped == IF sent > Count THEN Count ELSE sent
  <2>1. /\ snd = "write" /\ sent' = 0
        /\ locout' = Plus(locout, skipped)
        /\ snd' = IF terminate /\ empty THEN "terminated" ELSE "lock"
        /\ UNCHANGED <<terminate, empty, to_send, faults>>
    BY <1>7 DEF SndSkip, Skip, SndOver
  <2>2. skipped \in Nat
    BY CfgSize DEF Counters, Count, Minus
  <2>3. Counters'
    <3>1. locout \in Nat
      BY CfgSize DEF Counters
    <3>2. Plus(locout, skipped) \in 0..(LocMod - 1)
      BY <2>2, <3>1, PlusRange
    <3> QED
      BY <1>1, <2>1, <3>2 DEF Counters
  <2>4. locin = locout /\ sent = 0 => locout' = locin
    <3> SUFFICES ASSUME locin = locout, sent = 0
                 PROVE  Plus(locout, skipped) = locin
      BY <2>1
    <3>1. skipped = 0
      BY EmptyCount
    <3> QED
      BY <3>1, CfgSize DEF Plus, Counters
  <2> QED
    BY <1>1, <2>1, <2>3, <2>4 DEF SeesEnd, Drained
<1>8. CASE SndWait \/ SndTerminated \/ SndBroadcast \/ SndKilled
  <2>1. UNCHANGED <<locout, terminate, empty, to_send, sent, faults>>
    BY <1>8 DEF SndWait, SndTerminated, SndBroadcast, SndKilled, ring
  <2>2. \/ snd = "cond" /\ snd' = "wait"
        \/ snd = "terminated" /\ snd' = "bcast"
        \/ snd = "bcast" /\ snd' = "dead"
        \/ snd' = "killed"
    BY <1>8 DEF SndWait, SndTerminated, SndBroadcast, SndKilled
  <2> QED
    BY <1>1, <2>1, <2>2 DEF SeesEnd, Counters, Drained
<1> QED
  BY <1>2, <1>3, <1>4, <1>5, <1>6, <1>7, <1>8 DEF SndStep, SndProgress

LEMMA DrainRest ==
  ASSUME DrainInv, cfg' = cfg, RcvStep \/ SpuriousWakeup \/ Exited \/ UNCHANGED vars
  PROVE  DrainInv'
<1>1. /\ UNCHANGED <<rt, locin, locout, snd, terminate, empty, to_send, sent,
                     tx_terminate>>
      /\ "tx" \in faults' <=> "tx" \in faults
  BY DEF RcvStep, RcvProgress, RcvLoop, RcvExchange, RcvKilled, RcvRead,
         RcvReadFails, SpuriousWakeup, Exited, vars, rtVars, txVars, ring, flags,
         sndVars
<1>2. CfgInv' /\ LocMod' = LocMod
  BY DEF DrainInv, CfgInv, LocMod
<1> QED
  BY <1>1, <1>2 DEF DrainInv, SeesEnd, Counters, Drained

LEMMA DrainStep == DrainInv /\ [Next]_vars => DrainInv'
  BY CfgSame, DrainRt, DrainSnd, DrainRest DEF Next

(* A sender that ends on its own account leaves nothing behind in the      *)
(* ring: end sees to it that every accepted sample is sent, unless it runs *)
(* out of patience or the connection fails.                                *)
THEOREM EndDrains == Spec => []DrainedAtEnd
<1>1. DrainInv => DrainedAtEnd
  <2> SUFFICES ASSUME DrainInv, snd = "dead", "tx" \notin faults
               PROVE  Pending = <<>>
    BY DEF DrainedAtEnd
  <2>1. CfgInv /\ Counters /\ locin = locout /\ sent = 0
    BY DEF DrainInv, Drained
  <2>2. Count - sent = 0
    BY <2>1, EmptyCount
  <2>3. 1..(Count - sent) = {}
    BY <2>2
  <2> QED
    BY <2>3 DEF Pending
<1> QED
  BY <1>1, DrainInit, DrainStep, PTL DEF Spec
=============================================================================
