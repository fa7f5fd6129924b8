--------------------------- MODULE TcpFrameProofs ---------------------------
(***************************************************************************)
(* What TcpAsync's variables hold, and with it that frames are shown whole *)
(* and in order, for every block and any number of frames.                 *)
(***************************************************************************)
EXTENDS TcpAsyncProofs

-----------------------------------------------------------------------------
(* Types, with what the loop counters are at each place.                   *)

RtTypes ==
  /\ rt \in RtLabels
  /\ i \in Nat
  /\ rt = "put" => i < cfg.nin
  /\ rt = "apply" => i < cfg.nout
  /\ rt \notin {"put", "apply"} => i = 0
  /\ rt \in {"exch", "apply"} => cfg.nout > 0
  /\ cnt \in 0..(cfg.down - 1)

SyncTypes ==
  /\ mutex \in {"free", "rt", "snd"}
  /\ waiters \subseteq {"rt", "snd"}
  /\ tx_terminate \in BOOLEAN /\ tx_terminated \in BOOLEAN
  /\ rx_terminate \in BOOLEAN /\ rx_terminated \in BOOLEAN
  /\ cancelled \in BOOLEAN
  /\ faults \subseteq {"tx", "rx"}

TxTypes ==
  /\ locin \in 0..(LocMod - 1)
  /\ locout \in 0..(LocMod - 1)
  /\ buff \in [0..(Size - 1) -> Words \union {Uninit}]
  /\ snd \in SndLabels
  /\ terminate \in BOOLEAN /\ empty \in BOOLEAN /\ preempted \in BOOLEAN
  /\ to_send \in Nat /\ sent \in Nat
  /\ to_send + sent <= Size
  /\ snd \notin {"write", "killed"} => sent = 0
  /\ wire \in Words \union {Uninit}

RxTypes ==
  /\ rcv # "none" => cfg.nout > 0
  /\ rcv \in {"loop", "exch"} => got = 0
  /\ rcv = "read" => got < cfg.nout
  /\ RxTypeOK

TypeInv == CfgInv /\ RtTypes /\ SyncTypes /\ TxTypes /\ RxTypes

LEMMA TypeInit == Init => TypeInv
<1> SUFFICES ASSUME Init PROVE TypeInv
  OBVIOUS
<1>1. CfgInv
  BY DEF Init, CfgInv
<1>2. cfg.nin \in Nat /\ cfg.nout \in Nat /\ cfg.down \in Nat \ {0} /\ MaxRx \in Nat
  BY <1>1, TcpAssumption DEF CfgInv, Config
<1>3. RtTypes
  BY <1>2 DEF Init, RtTypes, RtLabels
<1>4. SyncTypes
  BY DEF Init, SyncTypes
<1>5. TxTypes
  <2>1. Size \in Nat /\ LocMod \in Nat \ {0}
    BY <1>1, CfgSize
  <2>2. to_send = 0 /\ sent = 0 /\ to_send + sent <= Size
    BY <2>1 DEF Init
  <2>3. buff \in [0..(Size - 1) -> Words \union {Uninit}]
    BY DEF Init
  <2>4. terminate \in BOOLEAN /\ empty \in BOOLEAN /\ preempted \in BOOLEAN
    BY DEF Init
  <2>5. locin = 0 /\ locout = 0 /\ snd = "none" /\ wire = Uninit
    BY DEF Init
  <2>6. 0 \in 0..(LocMod - 1)
    BY <2>1
  <2> QED
    BY <2>2, <2>3, <2>4, <2>5, <2>6 DEF TxTypes, SndLabels
<1>6. RxTypes
  <2>1. [p \in 1..cfg.nout |-> Junk] \in Frame /\ [p \in 1..cfg.nout |-> 0] \in Frame
    BY <1>2 DEF Frame, Junk
  <2>2. rxbuff \in [0..2 -> Frame]
    BY <2>1 DEF Init
  <2> QED
    BY <1>2, <2>1, <2>2 DEF Init, RxTypes, RxTypeOK, RcvLabels
<1> QED
  BY <1>1, <1>3, <1>4, <1>5, <1>6 DEF TypeInv

LEMMA CfgTypes ==
  CfgInv => /\ cfg.nin \in Nat /\ cfg.nout \in Nat /\ cfg.down \in Nat \ {0}
            /\ MaxRx \in Nat
  BY TcpAssumption DEF CfgInv, Config

(* The real-time task's place and counters. *)
LEMMA RtTypesStep ==
  ASSUME CfgInv, cfg' = cfg, RtTypes, [Next]_vars
  PROVE  RtTypes'
<1> USE CfgTypes
<1>1. CASE RtInit \/ RtConnectFails
  BY <1>1 DEF RtInit, RtConnectFails, RtTypes, RtLabels
<1>2. CASE RtSample
  <2>1. cnt' \in 0..(cfg.down - 1)
    BY <1>2 DEF RtSample, NextCnt, RtTypes
  <2>2. /\ rt' \in {"idle", "put", "exch"}
        /\ rt' = "put" => cfg.nin # 0
        /\ rt' = "exch" => cfg.nout > 0
        /\ i' = i /\ i = 0
    BY <1>2 DEF RtSample, RtToReceive, RtTypes
  <2> QED
    BY <2>1, <2>2 DEF RtTypes, RtLabels
<1>3. CASE RtPut
  <2>1. i \in Nat /\ i < cfg.nin /\ i + 1 \in 1..cfg.nin
    BY <1>3 DEF RtPut, RtTypes
  <2>2. i' = (i + 1) % cfg.nin
    BY <1>3 DEF RtPut
  <2>3. IF i + 1 < cfg.nin THEN i' = i + 1 ELSE i' = 0
    BY <2>1, <2>2
  <2>4. rt' = (IF i + 1 < cfg.nin THEN "put" ELSE "bcast") /\ cnt' = cnt
    BY <1>3 DEF RtPut
  <2> QED
    BY <2>1, <2>3, <2>4 DEF RtTypes, RtLabels
<1>4. CASE RtBroadcast \/ RtExchange
  BY <1>4 DEF RtBroadcast, RtExchange, RtToReceive, RtTypes, RtLabels
<1>5. CASE RtApply
  <2>1. i \in Nat /\ i < cfg.nout /\ i + 1 \in 1..cfg.nout
    BY <1>5 DEF RtApply, RtTypes
  <2>2. i' = (i + 1) % cfg.nout
    BY <1>5 DEF RtApply
  <2>3. IF i + 1 < cfg.nout THEN i' = i + 1 ELSE i' = 0
    BY <2>1, <2>2
  <2>4. rt' = (IF i + 1 < cfg.nout THEN "apply" ELSE "idle") /\ cnt' = cnt
    BY <1>5 DEF RtApply
  <2> QED
    BY <2>1, <2>3, <2>4 DEF RtTypes, RtLabels
<1>6. CASE RtEnd \/ RtEnding \/ RtEndLock \/ RtEndWoken
  <2>1. /\ i' = i /\ cnt' = cnt /\ i = 0
        /\ rt' \in RtLabels \ {"put", "apply", "exch"}
    BY <1>6
    DEF RtEnd, RtEnding, RtTerminate, RtEndBroadcast, RtEndLock, RtEndTest,
        RtEndWait, RtEndWoken, RtEndTimeout, RtCancel, RtJoin, RtCancelRx, RtJoinRx,
        RtToEndRx, RtTypes, RtLabels
  <2> QED
    BY <2>1 DEF RtTypes
<1>7. CASE SndStep \/ RcvStep \/ SpuriousWakeup \/ Exited \/ UNCHANGED vars
  <2>1. UNCHANGED <<rt, i, cnt>>
    BY <1>7
    DEF SndStep, SndLock, SndProgress, SndTest, SndWait, SndCount, SndSkip,
        SndTerminated, SndBroadcast, SndKilled, SndWrite, SndWriteFails, rtVars,
        RcvStep, RcvProgress, RcvLoop, RcvExchange, RcvKilled, RcvRead,
        RcvReadFails, SpuriousWakeup, Exited, vars
  <2> QED
    BY <2>1 DEF RtTypes
<1> QED
  BY <1>1, <1>2, <1>3, <1>4, <1>5, <1>6, <1>7 DEF Next, RtStep, RtInout

(* The mutex, the waiters, the flags. *)
LEMMA SyncTypesStep == SyncTypes /\ [Next]_vars => SyncTypes'
<1> SUFFICES ASSUME SyncTypes, [Next]_vars PROVE SyncTypes'
  OBVIOUS
<1> USE DEF SyncTypes
<1>1. CASE RtInit \/ RtConnectFails
  BY <1>1 DEF RtInit, RtConnectFails, sync, flags
<1>2. CASE RtInout
  BY <1>2 DEF RtInout, RtSample, RtPut, RtBroadcast, RtExchange, RtApply, sync, flags
<1>3. CASE RtEnd \/ RtEnding \/ RtEndLock \/ RtEndWoken
  BY <1>3
  DEF RtEnd, RtEnding, RtTerminate, RtEndBroadcast, RtEndLock, RtEndTest,
      RtEndWait, RtEndWoken, RtEndTimeout, RtCancel, RtJoin, RtCancelRx, RtJoinRx,
      sync, flags
<1>4. CASE SndStep
  BY <1>4
  DEF SndStep, SndLock, SndProgress, SndTest, SndWait, SndCount, SndSkip,
      SndTerminated, SndBroadcast, SndKilled, SndWrite, SndWriteFails, sync, flags
<1>5. CASE RcvStep
  BY <1>5
  DEF RcvStep, RcvProgress, RcvLoop, RcvExchange, RcvKilled, RcvRead,
      RcvReadFails, txVars, sync, flags
<1>6. CASE SpuriousWakeup \/ Exited \/ UNCHANGED vars
  BY <1>6 DEF SpuriousWakeup, Exited, vars, sync, flags
<1> QED
  BY <1>1, <1>2, <1>3, <1>4, <1>5, <1>6 DEF Next, RtStep
(* The ring and the sender's count of what it writes. *)
LEMMA RingTypes ==
  ASSUME CfgInv, TxTypes
  PROVE  /\ Size \in Nat \ {0} /\ LocMod \in Nat \ {0} /\ Size < LocMod
         /\ locin \in Nat /\ locout \in Nat
         /\ Plus(locin, 1) \in 0..(LocMod - 1)
         /\ locin % Size \in 0..(Size - 1)
         /\ CountCont \in 0..Size
         /\ \A n \in Nat : Skip(n) \in 0..(LocMod - 1)
         /\ WordAt(sent) \in Words \union {Uninit}
<1>1. /\ Size \in Nat \ {0} /\ LocMod \in Nat \ {0} /\ Size < LocMod
      /\ locin \in Nat /\ locout \in Nat
  BY CfgSize DEF TxTypes
<1>2. Plus(locin, 1) \in 0..(LocMod - 1)
  BY <1>1, PlusRange
<1>3. locin % Size \in 0..(Size - 1) /\ locout % Size \in 0..(Size - 1)
  BY <1>1
<1>4. Count \in Nat
  BY <1>1 DEF Count, Minus, TxTypes
<1>5. CountCont \in 0..Size
  BY <1>1, <1>3, <1>4 DEF CountCont
<1>6. ASSUME NEW n \in Nat PROVE Skip(n) \in 0..(LocMod - 1)
  <2>1. (IF n > Count THEN Count ELSE n) \in Nat
    BY <1>4
  <2> QED
    BY <1>1, <2>1, PlusRange DEF Skip
<1>7. WordAt(sent) \in Words \union {Uninit}
  <2>1. (locout % Size) + sent \in Nat
    BY <1>3 DEF TxTypes
  <2>2. (locout % Size) + sent < Size =>
          buff[(locout % Size) + sent] \in Words \union {Uninit}
    BY <1>1, <2>1 DEF TxTypes
  <2> QED
    BY <2>2 DEF WordAt
<1> QED
  BY <1>1, <1>2, <1>3, <1>5, <1>6, <1>7

LEMMA TxTypesStep ==
  ASSUME CfgInv, cfg' = cfg, SyncTypes, TxTypes, [Next]_vars
  PROVE  TxTypes'
<1>0. Size' = Size /\ LocMod' = LocMod
  BY DEF Size, LocMod
<1>1. CASE RtInit
  <2>1. /\ locin' = 0 /\ locout' = 0
        /\ buff' = [n \in 0..(Size - 1) |-> Uninit]
        /\ snd' \in {"lock", "none"}
        /\ terminate' = FALSE /\ empty' = FALSE /\ to_send' = 0 /\ sent' = 0
        /\ wire' = wire /\ preempted' = preempted
    BY <1>1 DEF RtInit
  <2>2. buff' \in [0..(Size - 1) -> Words \union {Uninit}]
    BY <2>1
  <2>3. to_send' \in Nat /\ sent' \in Nat /\ to_send' + sent' <= Size
    BY <2>1, RingTypes
  <2>4. 0 \in 0..(LocMod - 1)
    BY RingTypes
  <2> QED
    BY <1>0, <2>1, <2>2, <2>3, <2>4 DEF TxTypes, SndLabels
<1>2. CASE RtSample
  BY <1>0, <1>2 DEF RtSample, ring, TxTypes, SndLabels
<1>3. CASE RtPut
  <2>1. UNCHANGED <<locout, snd, terminate, empty, preempted, to_send, sent, wire>>
    BY <1>3 DEF RtPut, sndVars
  <2>2. \/ locin' = locin /\ buff' = buff
        \/ /\ locin' = Plus(locin, 1)
           /\ \E u \in Words : buff' = [buff EXCEPT ![locin % Size] = u]
    BY <1>3 DEF RtPut
  <2>3. buff' \in [0..(Size - 1) -> Words \union {Uninit}]
    BY <2>2, RingTypes DEF TxTypes
  <2>4. locin' \in 0..(LocMod - 1)
    BY <2>2, RingTypes DEF TxTypes
  <2> QED
    BY <1>0, <2>1, <2>3, <2>4 DEF TxTypes
<1>4. CASE SndTest
  <2>1. /\ snd' \in {"cond", "count"} /\ snd = "test"
        /\ empty' \in BOOLEAN
    BY <1>4 DEF SndTest, IsEmpty
  <2>2. UNCHANGED <<locin, locout, buff, terminate, preempted, to_send, sent, wire>>
    BY <1>4 DEF SndTest, ring
  <2> QED
    BY <1>0, <2>1, <2>2 DEF TxTypes, SndLabels
<1>5. CASE SndCount
  <2>1. /\ snd = "count" /\ snd' = "write" /\ to_send' = CountCont
        /\ preempted' = FALSE
        /\ UNCHANGED <<locin, locout, buff, terminate, empty, sent, wire>>
    BY <1>5 DEF SndCount, ring
  <2>2. sent = 0 /\ CountCont \in 0..Size /\ Size \in Nat
    BY <2>1, RingTypes DEF TxTypes
  <2>3. to_send' \in Nat /\ sent' \in Nat /\ to_send' + sent' <= Size
    BY <2>1, <2>2
  <2> QED
    BY <1>0, <2>1, <2>3 DEF TxTypes, SndLabels
<1>6. CASE SndWrite
  <2>1. /\ wire' = WordAt(sent) /\ sent' = sent + 1 /\ to_send' = to_send - 1
        /\ to_send > 0 /\ snd = "write"
        /\ UNCHANGED <<locin, locout, buff, snd, terminate, empty, preempted>>
    BY <1>6 DEF SndWrite, ring
  <2>2. to_send' \in Nat /\ sent' \in Nat /\ to_send' + sent' <= Size
    BY <2>1, RingTypes DEF TxTypes
  <2>3. wire' \in Words \union {Uninit}
    BY <2>1, RingTypes
  <2> QED
    BY <1>0, <2>1, <2>2, <2>3 DEF TxTypes
<1>7. CASE SndWriteFails
  <2>1. /\ terminate' = TRUE /\ empty' = TRUE /\ to_send' = 0 /\ snd = "write"
        /\ UNCHANGED <<locin, locout, buff, snd, sent, wire, preempted>>
    BY <1>7 DEF SndWriteFails, ring
  <2>2. to_send' \in Nat /\ sent' \in Nat /\ to_send' + sent' <= Size
    <3>1. Size \in Nat
      BY RingTypes
    <3>2. sent \in Nat /\ to_send \in Nat /\ to_send + sent <= Size
      BY DEF TxTypes
    <3>3. to_send' = 0 /\ sent' = sent
      BY <2>1
    <3> QED
      BY <3>1, <3>2, <3>3
  <2>3. terminate' \in BOOLEAN /\ empty' \in BOOLEAN /\ preempted' \in BOOLEAN
    BY <2>1 DEF TxTypes
  <2>4. UNCHANGED <<locin, locout, buff, snd, wire>> /\ snd = "write"
    BY <2>1
  <2>5. /\ locin' \in 0..(LocMod - 1) /\ locout' \in 0..(LocMod - 1)
        /\ buff' \in [0..(Size - 1) -> Words \union {Uninit}]
        /\ snd' \in SndLabels /\ wire' \in Words \union {Uninit}
    BY <2>4 DEF TxTypes
  <2> QED
    BY <1>0, <2>2, <2>3, <2>4, <2>5 DEF TxTypes
<1>8. CASE SndSkip
  <2>1. /\ locout' = Skip(sent) /\ sent' = 0 /\ to_send = 0
        /\ snd' \in {"terminated", "lock"}
        /\ UNCHANGED <<locin, buff, terminate, empty, to_send, wire, preempted>>
    BY <1>8 DEF SndSkip
  <2>2. Skip(sent) \in 0..(LocMod - 1) /\ Size \in Nat
    BY RingTypes DEF TxTypes
  <2> QED
    BY <1>0, <2>1, <2>2 DEF TxTypes, SndLabels
<1>9. CASE SndLock \/ SndWait \/ SndTerminated \/ SndBroadcast \/ SndKilled
  <2>1. UNCHANGED <<locin, locout, buff, empty, to_send, sent, wire>>
    BY <1>9 DEF SndLock, SndWait, SndTerminated, SndBroadcast, SndKilled, ring
  <2>2. \/ snd \notin {"write", "killed"} /\ snd' \in {"test", "wait", "bcast", "dead"}
        \/ snd' = "killed"
    BY <1>9 DEF SndLock, SndWait, SndTerminated, SndBroadcast, SndKilled
  <2>3. terminate' \in BOOLEAN /\ preempted' \in BOOLEAN
    BY <1>9
    DEF SndLock, SndWait, SndTerminated, SndBroadcast, SndKilled, TxTypes, SyncTypes
  <2> QED
    BY <1>0, <2>1, <2>2, <2>3 DEF TxTypes, SndLabels
<1>10. CASE \/ RtConnectFails \/ RtBroadcast \/ RtExchange \/ RtApply \/ RtEnd
            \/ RtEnding \/ RtEndLock \/ RtEndWoken \/ RcvStep \/ SpuriousWakeup
            \/ Exited \/ UNCHANGED vars
  <2>1. UNCHANGED <<ring, sndVars>>
    BY <1>10
    DEF RtConnectFails, RtBroadcast, RtExchange, RtApply, RtEnd, RtEnding,
        RtTerminate, RtEndBroadcast, RtEndLock, RtEndTest, RtEndWait, RtEndWoken,
        RtEndTimeout, RtCancel, RtJoin, RtCancelRx, RtJoinRx, RcvStep, RcvProgress,
        RcvLoop, RcvExchange, RcvKilled, RcvRead, RcvReadFails, txVars,
        SpuriousWakeup, Exited, vars
  <2> QED
    BY <1>0, <2>1 DEF TxTypes, ring, sndVars
<1> QED
  BY <1>1, <1>2, <1>3, <1>4, <1>5, <1>6, <1>7, <1>8, <1>9, <1>10
  DEF Next, RtStep, RtInout, SndStep, SndProgress

(* The frame buffers and the outputs. *)
LEMMA RxTypesStep ==
  ASSUME CfgInv, cfg' = cfg, RtTypes, RxTypes, [Next]_vars
  PROVE  RxTypes'
<1>0. Frame' = Frame
  BY DEF Frame, Junk
<1> USE CfgTypes
<1>1. CASE RtInit
  <2>1. /\ rcv' = (IF cfg.nout > 0 THEN "loop" ELSE "none")
        /\ got' = 0 /\ in_read' = 0
        /\ rxbuff' = [b \in 0..2 |-> [p \in 1..cfg.nout |-> Junk]]
        /\ in_apply' = 1 /\ to_apply' = [buf |-> 2, new |-> FALSE]
        /\ rxcnt' = rxcnt /\ y' = y
    BY <1>1 DEF RtInit
  <2>2. [p \in 1..cfg.nout |-> Junk] \in Frame
    BY DEF Frame, Junk
  <2>3. rxbuff' \in [0..2 -> Frame]
    BY <2>1, <2>2
  <2> QED
    BY <1>0, <2>1, <2>3 DEF RxTypes, RxTypeOK, RcvLabels
<1>2. CASE RtExchange
  BY <1>0, <1>2 DEF RtExchange, GivenBack, rcvVars, RxTypes, RxTypeOK
<1>3. CASE RtApply
  <2>1. /\ y' = [y EXCEPT ![i + 1] = rxbuff[in_apply][i + 1]]
        /\ i + 1 \in 1..cfg.nout
        /\ UNCHANGED <<rcv, got, rxcnt, in_read, rxbuff, to_apply, in_apply>>
    BY <1>3 DEF RtApply, rcvVars, triple, RtTypes
  <2>2. y' \in Frame
    <3>1. rxbuff[in_apply] \in Frame /\ y \in Frame
      BY DEF RxTypes, RxTypeOK
    <3> QED
      BY <2>1, <3>1 DEF Frame
  <2> QED
    BY <1>0, <2>1, <2>2 DEF RxTypes, RxTypeOK
<1>4. CASE RcvLoop \/ RcvReadFails \/ RcvKilled
  <2>1. UNCHANGED <<rxcnt, in_read, rxbuff, to_apply, in_apply, y>>
    BY <1>4 DEF RcvLoop, RcvReadFails, RcvKilled, triple
  <2>2. /\ rcv # "none" /\ rcv' \in {"dead", "read", "exch"}
        /\ got' \in 0..cfg.nout
        /\ rcv' = "exch" => got' = 0
        /\ rcv' = "read" => got' < cfg.nout
    BY <1>4 DEF RcvLoop, RcvReadFails, RcvKilled, RxTypes, RxTypeOK
  <2> QED
    BY <1>0, <2>1, <2>2 DEF RxTypes, RxTypeOK, RcvLabels
<1>5. CASE RcvRead
  <2>1. /\ rcv = "read" /\ rxcnt < MaxRx
        /\ rxbuff' = [rxbuff EXCEPT ![in_read][got + 1] = rxcnt + 1]
        /\ UNCHANGED <<in_read, to_apply, in_apply, y>>
    BY <1>5 DEF RcvRead
  <2>2. got \in 0..(cfg.nout - 1) /\ rxcnt \in 0..MaxRx /\ in_read \in 0..2
    BY <2>1 DEF RxTypes, RxTypeOK
  <2>3. /\ rcv' \in {"read", "exch"} /\ got' \in 0..cfg.nout
        /\ rcv' = "exch" => got' = 0
        /\ rcv' = "read" => got' < cfg.nout
        /\ rxcnt' \in 0..MaxRx
    BY <1>5, <2>1, <2>2 DEF RcvRead, FrameDone
  <2>4. rxbuff' \in [0..2 -> Frame]
    <3>1. rxbuff[in_read] \in Frame
      BY <2>2 DEF RxTypes, RxTypeOK
    <3>2. [rxbuff[in_read] EXCEPT ![got + 1] = rxcnt + 1] \in Frame
      BY <2>1, <2>2, <3>1 DEF Frame, Junk
    <3>3. rxbuff' = [rxbuff EXCEPT ![in_read] =
                       [rxbuff[in_read] EXCEPT ![got + 1] = rxcnt + 1]]
      BY <2>1, <2>2 DEF RxTypes, RxTypeOK
    <3> QED
      BY <3>2, <3>3 DEF RxTypes, RxTypeOK
  <2> QED
    BY <1>0, <2>1, <2>2, <2>3, <2>4 DEF RxTypes, RxTypeOK, RcvLabels
<1>6. CASE RcvExchange
  BY <1>0, <1>6 DEF RcvExchange, RxTypes, RxTypeOK, RcvLabels
<1>7. CASE \/ RtConnectFails \/ RtSample \/ RtPut \/ RtBroadcast \/ RtEnd
           \/ RtEnding \/ RtEndLock \/ RtEndWoken \/ SndStep \/ SpuriousWakeup
           \/ Exited \/ UNCHANGED vars
  <2>1. UNCHANGED <<rcvVars, triple, y>>
    BY <1>7
    DEF RtConnectFails, RtSample, RtPut, RtBroadcast, RtEnd, RtEnding, RtTerminate,
        RtEndBroadcast, RtEndLock, RtEndTest, RtEndWait, RtEndWoken, RtEndTimeout,
        RtCancel, RtJoin, RtCancelRx, RtJoinRx, SndStep, SndLock, SndProgress,
        SndTest, SndWait, SndCount, SndSkip, SndTerminated, SndBroadcast, SndKilled,
        SndWrite, SndWriteFails, rxVars, SpuriousWakeup, Exited, vars
  <2> QED
    BY <1>0, <2>1 DEF RxTypes, RxTypeOK, rcvVars, triple
<1> QED
  BY <1>1, <1>2, <1>3, <1>4, <1>5, <1>6, <1>7
  DEF Next, RtStep, RtInout, RcvStep, RcvProgress

LEMMA TypeStep == TypeInv /\ [Next]_vars => TypeInv'
<1> SUFFICES ASSUME TypeInv, [Next]_vars PROVE TypeInv'
  OBVIOUS
<1>1. cfg' = cfg /\ CfgInv'
  BY CfgSame DEF TypeInv, CfgInv
<1> QED
  BY <1>1, RtTypesStep, SyncTypesStep, TxTypesStep, RxTypesStep DEF TypeInv

(* Every variable of the block keeps to its type: the ring's counters to   *)
(* the width of an unsigned int, a round of the sender to the ring's size. *)
THEOREM TcpTypeCorrect == Spec => []TypeOK
<1>1. TypeInv => TypeOK
  <2> SUFFICES ASSUME TypeInv PROVE TypeOK
    OBVIOUS
  <2>1. TxTypeOK
    BY CfgSize DEF TypeInv, TxTypes, TxTypeOK
  <2>2. i \in Nat /\ (i > 0 => i < cfg.nin \/ i < cfg.nout)
    BY DEF TypeInv, RtTypes
  <2> QED
    BY <2>1, <2>2 DEF TypeInv, TypeOK, CfgInv, RtTypes, SyncTypes, RxTypes
<1> QED
  BY <1>1, TypeInit, TypeStep, PTL DEF Spec
-----------------------------------------------------------------------------
(* What each buffer holds while the connection is sound.                   *)

Parts == 1..cfg.nout

(* A complete frame, one the peer has sent and not older than the outputs. *)
Whole(b) ==
  \A p, q \in Parts : rxbuff[b][p] = rxbuff[b][q] /\ rxbuff[b][p] <= rxcnt

Newer(b) == \A p, q \in Parts : y[p] <= rxbuff[b][q]

OutputsInv ==
  /\ \A p \in Parts : y[p] <= rxcnt
  /\ rt # "apply" => \A p, q \in Parts : y[p] = y[q]

(* While the outputs change, those already written are of the new frame.   *)
ApplyInv ==
  rt = "apply" => /\ Whole(in_apply) /\ Newer(in_apply)
                  /\ \A p \in 1..i : y[p] = rxbuff[in_apply][p]

ExchangeInv ==
  to_apply.new =>
    /\ Whole(to_apply.buf) /\ Newer(to_apply.buf)
    /\ rt = "apply" =>
         \A p, q \in Parts : rxbuff[in_apply][p] <= rxbuff[to_apply.buf][q]

ReadInv ==
  /\ rcv = "read" => \A p \in 1..got : rxbuff[in_read][p] = rxcnt + 1
  /\ rcv = "exch" => \A p \in Parts : rxbuff[in_read][p] = rxcnt

Frames == OutputsInv /\ ApplyInv /\ ExchangeInv /\ ReadInv

FrameInv == "rx" \notin faults => Frames

LEMMA FrameInit == Init => FrameInv
<1> SUFFICES ASSUME Init PROVE Frames
  BY DEF FrameInv
<1>1. OutputsInv
  BY DEF Init, OutputsInv, Parts
<1>2. ApplyInv /\ ExchangeInv /\ ReadInv
  BY DEF Init, ApplyInv, ExchangeInv, ReadInv
<1> QED
  BY <1>1, <1>2 DEF Frames

(* The steps that touch no frame. *)
LEMMA FrameSame ==
  ASSUME Frames, UNCHANGED <<rcvVars, triple, y, i, cfg>>,
         rt = "apply" <=> rt' = "apply"
  PROVE  Frames'
<1>1. /\ UNCHANGED <<rcv, got, rxcnt, in_read, rxbuff, to_apply, in_apply, y, i>>
      /\ Parts' = Parts
  BY DEF rcvVars, triple, Parts
<1>2. OutputsInv'
  BY <1>1 DEF Frames, OutputsInv
<1>3. ApplyInv'
  BY <1>1 DEF Frames, ApplyInv, Whole, Newer
<1>4. ExchangeInv'
  BY <1>1 DEF Frames, ExchangeInv, Whole, Newer
<1>5. ReadInv'
  BY <1>1 DEF Frames, ReadInv
<1> QED
  BY <1>2, <1>3, <1>4, <1>5 DEF Frames

(* The steps of the RT task that take or show a frame. *)
LEMMA FrameRt ==
  ASSUME TypeInv, Frames, cfg' = cfg,
         RtInit \/ RtSample \/ RtPut \/ RtExchange \/ RtApply
  PROVE  Frames'
<1>0. Parts' = Parts
  BY DEF Parts
<1>1. CASE RtInit
  <2>1. /\ rt' = "idle" /\ rt # "apply"
        /\ ~to_apply'.new
        /\ rcv' \notin {"read", "exch"}
        /\ UNCHANGED <<y, rxcnt>>
    BY <1>1 DEF RtInit
  <2> QED
    BY <1>0, <2>1 DEF Frames, OutputsInv, ApplyInv, ExchangeInv, ReadInv
<1>2. CASE RtSample \/ RtPut
  <2>1. /\ rt # "apply" /\ rt' # "apply"
        /\ UNCHANGED <<rcv, got, rxcnt, in_read, rxbuff, to_apply, in_apply, y>>
    BY <1>2 DEF RtSample, RtPut, RtToReceive, rcvVars, triple
  <2> QED
    BY <1>0, <2>1
    DEF Frames, OutputsInv, ApplyInv, ExchangeInv, ReadInv, Whole, Newer
<1>3. CASE RtExchange
  <2>1. /\ rt = "exch" /\ rt' \in {"idle", "apply"}
        /\ rt' = "apply" => to_apply.new
        /\ in_apply' = to_apply.buf /\ ~to_apply'.new
        /\ i' = i /\ i = 0
        /\ UNCHANGED <<rcv, got, rxcnt, in_read, rxbuff, y>>
    BY <1>3 DEF RtExchange, NewData, rcvVars, TypeInv, RtTypes
  <2>2. OutputsInv' /\ ExchangeInv' /\ ReadInv'
    BY <1>0, <2>1 DEF Frames, OutputsInv, ExchangeInv, ReadInv
  <2>3. ApplyInv'
    BY <1>0, <2>1 DEF Frames, ApplyInv, ExchangeInv, Whole, Newer
  <2> QED
    BY <2>2, <2>3 DEF Frames
<1>4. CASE RtApply
  <2>1. /\ rt = "apply" /\ rt' = (IF i + 1 < cfg.nout THEN "apply" ELSE "idle")
        /\ y' = [y EXCEPT ![i + 1] = rxbuff[in_apply][i + 1]]
        /\ i' = (i + 1) % cfg.nout
        /\ UNCHANGED <<rcv, got, rxcnt, in_read, rxbuff, to_apply, in_apply>>
    BY <1>4 DEF RtApply, rcvVars, triple
  <2>2. i \in 0..(cfg.nout - 1) /\ i + 1 \in Parts /\ cfg.nout \in Nat
    BY <2>1, CfgTypes DEF TypeInv, RtTypes, Parts
  <2>3. i + 1 < cfg.nout => i' = i + 1
    BY <2>1, <2>2
  <2>4. /\ y \in [Parts -> 0..Junk]
        /\ \A b \in 0..2 : rxbuff[b] \in [Parts -> 0..Junk]
        /\ in_apply \in 0..2 /\ to_apply.buf \in 0..2
    BY DEF TypeInv, RxTypes, RxTypeOK, Frame, Parts
  <2>5. \A p \in Parts :
          y'[p] = IF p = i + 1 THEN rxbuff[in_apply][p] ELSE y[p]
    BY <2>1, <2>2, <2>4
  <2>6. Whole(in_apply) /\ Newer(in_apply)
    BY <2>1 DEF Frames, ApplyInv
  <2>7. \A p \in Parts : y'[p] <= rxbuff[in_apply][p] /\ y'[p] <= rxcnt
    <3> TAKE p \in Parts
    <3>1. y[p] <= rxbuff[in_apply][p] /\ rxbuff[in_apply][p] <= rxcnt
      BY <2>6 DEF Whole, Newer
    <3>2. y[p] <= rxcnt
      BY DEF Frames, OutputsInv
    <3>3. rxbuff[in_apply][p] \in Int /\ y[p] \in Int
      BY <2>4
    <3> QED
      BY <2>5, <3>1, <3>2, <3>3
  <2>8. \A p \in 1..(i + 1) : y'[p] = rxbuff[in_apply][p]
    <3> TAKE p \in 1..(i + 1)
    <3>1. p \in Parts /\ (p = i + 1 \/ p \in 1..i)
      BY <2>2 DEF Parts
    <3> QED
      BY <2>1, <2>5, <3>1 DEF Frames, ApplyInv
  <2>9. OutputsInv'
    <3>1. rt' # "apply" => \A p, q \in Parts : y'[p] = y'[q]
      <4> SUFFICES ASSUME rt' # "apply", NEW p \in Parts, NEW q \in Parts
                   PROVE  y'[p] = y'[q]
        OBVIOUS
      <4>1. i + 1 = cfg.nout
        BY <2>1, <2>2
      <4>2. y'[p] = rxbuff[in_apply][p] /\ y'[q] = rxbuff[in_apply][q]
        BY <2>8, <4>1 DEF Parts
      <4> QED
        BY <2>6, <4>2 DEF Whole
    <3> QED
      BY <1>0, <2>1, <2>7, <3>1 DEF OutputsInv
  <2>10. Newer(in_apply)'
    <3> SUFFICES ASSUME NEW p \in Parts, NEW q \in Parts
                 PROVE  y'[p] <= rxbuff[in_apply][q]
      BY <1>0, <2>1 DEF Newer
    <3>1. rxbuff[in_apply][p] = rxbuff[in_apply][q]
      BY <2>6 DEF Whole
    <3> QED
      BY <2>7, <3>1
  <2>11. ApplyInv'
    <3>1. Whole(in_apply)'
      BY <1>0, <2>1, <2>6 DEF Whole
    <3>2. rt' = "apply" => \A p \in 1..i' : y'[p] = rxbuff'[in_apply'][p]
      BY <2>1, <2>3, <2>8
    <3> QED
      BY <2>10, <3>1, <3>2 DEF ApplyInv
  <2>12. ExchangeInv'
    <3> SUFFICES ASSUME to_apply.new PROVE ExchangeInv'
      BY <2>1 DEF ExchangeInv
    <3>1. /\ Whole(to_apply.buf)
          /\ \A p, q \in Parts : rxbuff[in_apply][p] <= rxbuff[to_apply.buf][q]
      BY <2>1 DEF Frames, ExchangeInv
    <3>2. ASSUME NEW p \in Parts, NEW q \in Parts
          PROVE  y'[p] <= rxbuff[to_apply.buf][q]
      <4>1. /\ y'[p] <= rxbuff[in_apply][p]
            /\ rxbuff[in_apply][p] <= rxbuff[to_apply.buf][q]
        BY <2>7, <3>1
      <4>2. /\ y'[p] \in Int
            /\ rxbuff[in_apply][p] \in Int /\ rxbuff[to_apply.buf][q] \in Int
        BY <2>4, <2>5
      <4> QED
        BY <4>1, <4>2
    <3> QED
      BY <1>0, <2>1, <3>1, <3>2 DEF ExchangeInv, Whole, Newer
  <2>13. ReadInv'
    BY <1>0, <2>1 DEF Frames, ReadInv
  <2> QED
    BY <2>9, <2>11, <2>12, <2>13 DEF Frames
<1> QED
  BY <1>1, <1>2, <1>3, <1>4

(* The steps of the receiver, as long as no read fails. *)
LEMMA FrameRcv ==
  ASSUME TypeInv, ExclusiveBuffers, Frames, cfg' = cfg,
         RcvLoop \/ RcvRead \/ RcvExchange \/ RcvKilled
  PROVE  Frames'
<1>0. Parts' = Parts
  BY DEF Parts
<1>1. UNCHANGED <<rt, i, y, in_apply>>
  BY DEF RcvLoop, RcvRead, RcvExchange, RcvKilled, rtVars, triple
<1>2. CASE RcvLoop \/ RcvKilled
  <2>1. /\ UNCHANGED <<rxcnt, in_read, rxbuff, to_apply>>
        /\ rcv' \in {"dead", "read"}
        /\ rcv' = "read" => got' = 0
    BY <1>2 DEF RcvLoop, RcvKilled, triple, TypeInv, RxTypes
  <2>2. ReadInv'
    BY <2>1 DEF ReadInv
  <2> QED
    BY <1>0, <1>1, <2>1, <2>2
    DEF Frames, OutputsInv, ApplyInv, ExchangeInv, Whole, Newer
<1>3. CASE RcvExchange
  <2>1. /\ rcv = "exch" /\ rcv' = "loop"
        /\ to_apply'.buf = in_read
        /\ UNCHANGED <<rxcnt, rxbuff>>
    BY <1>3 DEF RcvExchange
  <2>2. \A p \in Parts : rxbuff[in_read][p] = rxcnt
    BY <2>1 DEF Frames, ReadInv
  <2>3. rxcnt \in Nat
    BY CfgTypes DEF TypeInv, RxTypes, RxTypeOK
  <2>4. Whole(to_apply.buf)'
    BY <1>0, <2>1, <2>2, <2>3 DEF Whole
  <2>5. Newer(to_apply.buf)'
    BY <1>0, <1>1, <2>1, <2>2 DEF Frames, OutputsInv, Newer
  <2>6. rt = "apply" =>
          \A p, q \in Parts : rxbuff[in_apply][p] <= rxbuff[in_read][q]
    BY <2>2 DEF Frames, ApplyInv, Whole
  <2>7. ExchangeInv'
    BY <1>0, <1>1, <2>1, <2>4, <2>5, <2>6 DEF ExchangeInv
  <2>8. OutputsInv' /\ ApplyInv' /\ ReadInv'
    BY <1>0, <1>1, <2>1
    DEF Frames, OutputsInv, ApplyInv, ReadInv, Whole, Newer
  <2> QED
    BY <2>7, <2>8 DEF Frames
<1>4. CASE RcvRead
  <2>1. /\ rcv = "read"
        /\ rxbuff' = [rxbuff EXCEPT ![in_read][got + 1] = rxcnt + 1]
        /\ UNCHANGED <<in_read, to_apply>>
        /\ \/ /\ got + 1 = cfg.nout
              /\ rcv' = "exch" /\ rxcnt' = rxcnt + 1
           \/ got' = got + 1 /\ rcv' = "read" /\ rxcnt' = rxcnt
    BY <1>4 DEF RcvRead, FrameDone
  <2>2. /\ rxbuff \in [0..2 -> [Parts -> 0..Junk]]
        /\ in_read \in 0..2 /\ in_apply \in 0..2 /\ to_apply.buf \in 0..2
        /\ rxcnt \in Nat /\ cfg.nout \in Nat
        /\ got \in 0..(cfg.nout - 1) /\ got + 1 \in Parts
        /\ y \in [Parts -> 0..Junk]
    BY <2>1, CfgTypes DEF TypeInv, RxTypes, RxTypeOK, Frame, Parts
  <2>3. \A b \in 0..2 : b # in_read => rxbuff'[b] = rxbuff[b]
    BY <2>1, <2>2
  <2>4. \A p \in Parts :
          rxbuff'[in_read][p] = IF p = got + 1 THEN rxcnt + 1 ELSE rxbuff[in_read][p]
    BY <2>1, <2>2
  <2>5. rxcnt' \in Nat /\ rxcnt <= rxcnt'
    BY <2>1, <2>2
  <2>6. in_apply # in_read /\ to_apply.buf # in_read
    BY DEF ExclusiveBuffers
  <2>7. rxbuff'[in_apply] = rxbuff[in_apply] /\ rxbuff'[to_apply.buf] = rxbuff[to_apply.buf]
    BY <2>2, <2>3, <2>6
  <2>8. ASSUME NEW n \in Int, n <= rxcnt PROVE n <= rxcnt'
    BY <2>2, <2>5, <2>8
  <2>9. OutputsInv'
    <3>1. \A p \in Parts : y[p] \in Int
      BY <2>2
    <3> QED
      BY <1>0, <1>1, <2>8, <3>1 DEF Frames, OutputsInv
  <2>10. /\ Whole(in_apply) => Whole(in_apply)'
         /\ Whole(to_apply.buf) => Whole(to_apply.buf)'
    <3>1. \A p \in Parts :
            rxbuff[in_apply][p] \in Int /\ rxbuff[to_apply.buf][p] \in Int
      BY <2>2
    <3> QED
      BY <1>0, <1>1, <2>1, <2>7, <2>8, <3>1 DEF Whole
  <2>11. /\ Newer(in_apply) => Newer(in_apply)'
         /\ Newer(to_apply.buf) => Newer(to_apply.buf)'
    BY <1>0, <1>1, <2>1, <2>7 DEF Newer
  <2>12. ApplyInv'
    BY <1>1, <2>7, <2>10, <2>11 DEF Frames, ApplyInv
  <2>13. ExchangeInv'
    BY <1>0, <1>1, <2>1, <2>7, <2>10, <2>11 DEF Frames, ExchangeInv
  <2>14. \A p \in 1..(got + 1) : rxbuff'[in_read][p] = rxcnt + 1
    <3> TAKE p \in 1..(got + 1)
    <3>1. p \in Parts /\ (p = got + 1 \/ p \in 1..got)
      BY <2>2 DEF Parts
    <3> QED
      BY <2>1, <2>4, <3>1 DEF Frames, ReadInv
  <2>15. ReadInv'
    BY <1>0, <2>1, <2>14 DEF ReadInv, Parts
  <2> QED
    BY <2>9, <2>12, <2>13, <2>15 DEF Frames
<1> QED
  BY <1>2, <1>3, <1>4

LEMMA FrameStep ==
  ASSUME TypeInv, ExclusiveBuffers, FrameInv, [Next]_vars
  PROVE  FrameInv'
<1> SUFFICES ASSUME "rx" \notin faults' PROVE Frames'
  BY DEF FrameInv
<1>1. cfg' = cfg
  BY CfgSame
<1>2. ~RcvReadFails
  BY DEF RcvReadFails
<1>3. "rx" \notin faults
  BY <1>2
  DEF Next, RtStep, RtInit, RtConnectFails, RtInout, RtSample, RtPut, RtBroadcast,
      RtExchange, RtApply, RtEnd, RtEnding, RtTerminate, RtEndBroadcast, RtEndLock,
      RtEndTest, RtEndWait, RtEndWoken, RtEndTimeout, RtCancel, RtJoin, RtCancelRx,
      RtJoinRx, SndStep, SndLock, SndProgress, SndTest, SndWait, SndCount, SndSkip,
      SndTerminated, SndBroadcast, SndKilled, SndWrite, SndWriteFails, RcvStep,
      RcvProgress, RcvLoop, RcvExchange, RcvKilled, RcvRead, SpuriousWakeup, Exited,
      vars
<1>4. Frames
  BY <1>3 DEF FrameInv
<1>5. CASE RtInit \/ RtSample \/ RtPut \/ RtExchange \/ RtApply
  BY <1>1, <1>4, <1>5, FrameRt
<1>6. CASE RcvLoop \/ RcvRead \/ RcvExchange \/ RcvKilled
  BY <1>1, <1>4, <1>6, FrameRcv
<1>7. CASE RtConnectFails \/ RtBroadcast \/ RtEnd \/ RtEnding \/ RtEndLock \/ RtEndWoken
  <2>1. /\ UNCHANGED <<rcvVars, triple, y, i>>
        /\ rt # "apply" /\ rt' # "apply"
    BY <1>7
    DEF RtConnectFails, RtBroadcast, RtEnd, RtEnding, RtTerminate, RtEndBroadcast,
        RtEndLock, RtEndTest, RtEndWait, RtEndWoken, RtEndTimeout, RtCancel, RtJoin,
        RtCancelRx, RtJoinRx, RtToReceive, RtToEndRx
  <2> QED
    BY <1>1, <1>4, <2>1, FrameSame
<1>8. CASE SndStep \/ SpuriousWakeup \/ Exited \/ UNCHANGED vars
  <2>1. UNCHANGED <<rcvVars, triple, y, i, rt>>
    BY <1>8
    DEF SndStep, SndLock, SndProgress, SndTest, SndWait, SndCount, SndSkip,
        SndTerminated, SndBroadcast, SndKilled, SndWrite, SndWriteFails, rtVars,
        rxVars, SpuriousWakeup, Exited, vars
  <2> QED
    BY <1>1, <1>4, <2>1, FrameSame
<1> QED
  BY <1>2, <1>5, <1>6, <1>7, <1>8
  DEF Next, RtStep, RtInout, RcvStep, RcvProgress

TcpInv == TypeInv /\ TripleInv /\ FrameInv

(* The invariant of the receiving side, for any number of outputs and of   *)
(* frames.                                                                 *)
THEOREM TcpInvariance == Spec => []TcpInv
<1>1. Init => TcpInv
  BY TypeInit, TripleInit, FrameInit DEF TcpInv
<1>2. TcpInv /\ [Next]_vars => TcpInv'
  BY TypeStep, TripleStep, FrameStep DEF TcpInv, TripleInv
<1> QED
  BY <1>1, <1>2, PTL DEF Spec

(* While the connection holds, inout leaves one frame the peer has sent in *)
(* the outputs, although the receiver may exchange buffers during the copy. *)
THEOREM FramesWhole == Spec => []WholeFrame
<1>1. TcpInv => WholeFrame
  BY DEF TcpInv, FrameInv, Frames, OutputsInv, WholeFrame, Parts
<1> QED
  BY <1>1, TcpInvariance, PTL

(* While the connection holds, no output goes back to an earlier frame.    *)
THEOREM FramesForward == Spec => NeverBack
<1> DEFINE Onward == \A p \in 1..cfg.nout : y'[p] >= y[p] \/ "rx" \in faults
<1>1. TcpInv /\ [Next]_vars => [Onward]_vars
  <2> SUFFICES ASSUME TcpInv, [Next]_vars, NEW p \in 1..cfg.nout, "rx" \notin faults
               PROVE  y'[p] >= y[p]
    OBVIOUS
  <2>1. Frames /\ TypeInv
    BY DEF TcpInv, FrameInv
  <2>2. y[p] \in Int /\ y \in [Parts -> 0..Junk] /\ p \in Parts
    <3>1. y \in [Parts -> 0..Junk] /\ p \in Parts
      BY <2>1 DEF TypeInv, RxTypes, RxTypeOK, Frame, Parts
    <3> QED
      BY <3>1
  <2>3. CASE RtApply
    <3>1. /\ y' = [y EXCEPT ![i + 1] = rxbuff[in_apply][i + 1]]
          /\ Newer(in_apply)
      BY <2>1, <2>3 DEF RtApply, Frames, ApplyInv
    <3>2. y'[p] = y[p] \/ y'[p] = rxbuff[in_apply][p]
      BY <2>2, <3>1
    <3>3. rxbuff[in_apply][p] \in Int
      <4>1. rxbuff[in_apply] \in [Parts -> 0..Junk]
        BY <2>1 DEF TypeInv, RxTypes, RxTypeOK, Frame, Parts
      <4> QED
        BY <2>2, <4>1
    <3> QED
      BY <2>2, <3>1, <3>2, <3>3 DEF Newer
  <2>4. CASE ~RtApply
    <3>1. y' = y
      BY <2>4
      DEF Next, RtStep, RtInit, RtConnectFails, RtInout, RtSample, RtPut,
          RtBroadcast, RtExchange, RtEnd, RtEnding, RtTerminate, RtEndBroadcast,
          RtEndLock, RtEndTest, RtEndWait, RtEndWoken, RtEndTimeout, RtCancel,
          RtJoin, RtCancelRx, RtJoinRx, SndStep, SndLock, SndProgress, SndTest,
          SndWait, SndCount, SndSkip, SndTerminated, SndBroadcast, SndKilled,
          SndWrite, SndWriteFails, RcvStep, RcvProgress, RcvLoop, RcvExchange,
          RcvKilled, RcvRead, RcvReadFails, SpuriousWakeup, Exited, rxVars, vars
    <3> QED
      BY <2>2, <3>1
  <2> QED
    BY <2>3, <2>4
<1> QED
  BY <1>1, TcpInvariance, PTL DEF Spec, NeverBack

-----------------------------------------------------------------------------
(* The three buffers and the exchange are the box of FrameBox.             *)

(* A block that is not open has no threads; once it was, LifeInv says so.  *)
Unopened == rt \in {"init", "exit"} => SenderGone /\ ReceiverGone

LEMMA UnopenedStep == LifeInv /\ Unopened /\ [Next]_vars => Unopened'
<1> SUFFICES ASSUME LifeInv, Unopened, [Next]_vars, rt' \in {"init", "exit"}
             PROVE  SenderGone' /\ ReceiverGone'
  BY DEF Unopened
<1>1. CASE RtStep
  BY <1>1
  DEF RtStep, RtInit, RtConnectFails, RtInout, RtSample, RtPut, RtBroadcast,
      RtExchange, RtApply, RtEnd, RtEnding, RtTerminate, RtEndBroadcast, RtEndLock,
      RtEndTest, RtEndWait, RtEndWoken, RtEndTimeout, RtCancel, RtJoin, RtCancelRx,
      RtJoinRx, RtToReceive, RtToEndRx, Unopened, LifeInv, NoUseAfterFree,
      SenderGone, ReceiverGone, sndVars, rcvVars
<1>2. CASE SpuriousWakeup \/ Exited \/ UNCHANGED vars
  BY <1>2
  DEF SpuriousWakeup, Exited, vars, rtVars, sndVars, rxVars, rcvVars, Unopened,
      SenderGone, ReceiverGone
<1>3. CASE SndStep
  <2>1. rt' = rt /\ ~SenderGone
    BY <1>3, SndAlive
    DEF SndStep, SndLock, SndProgress, SndTest, SndWait, SndCount, SndSkip,
        SndTerminated, SndBroadcast, SndKilled, SndWrite, SndWriteFails, rtVars
  <2> QED
    BY <2>1 DEF Unopened
<1>4. CASE RcvStep
  <2>1. rt' = rt /\ ~ReceiverGone
    BY <1>4, RcvAlive
    DEF RcvStep, RcvProgress, RcvLoop, RcvExchange, RcvKilled, RcvRead,
        RcvReadFails, rtVars
  <2> QED
    BY <2>1 DEF Unopened
<1> QED
  BY <1>1, <1>2, <1>3, <1>4 DEF Next

(* Where a thread is alive, the block is open. *)
LEMMA AliveUp ==
  LifeInv /\ Unopened /\ (~SenderGone \/ ~ReceiverGone) => Up
  BY DEF LifeInv, NoUseAfterFree, Unopened, Up

BoxInv == TcpInv /\ LifeInv /\ Unopened

LEMMA BoxInvariance == Spec => []BoxInv
<1>1. Init => BoxInv
  BY TypeInit, TripleInit, FrameInit, LifeInit
  DEF BoxInv, TcpInv, Unopened, Init, SenderGone, ReceiverGone
<1>2. BoxInv /\ [Next]_vars => BoxInv'
  BY TypeStep, TripleStep, FrameStep, LifeStep, UnopenedStep
  DEF BoxInv, TcpInv, TripleInv, TypeInv
<1> QED
  BY <1>1, <1>2, PTL DEF Spec

(* The variables of FrameBox as TcpAsync gives them. *)
BoxCount == IF rcv = "exch" THEN rxcnt - 1 ELSE rxcnt
BoxHeld == IF to_apply.new THEN {rxbuff[to_apply.buf]} ELSE {}
BoxShown == IF rt = "apply" THEN rxbuff[in_apply] ELSE y

BoxSame == BoxCount' = BoxCount /\ BoxHeld' = BoxHeld /\ BoxShown' = BoxShown

Sound == cfg' = cfg /\ "rx" \notin faults /\ "rx" \notin faults'

LEMMA BoxStutters ==
  ASSUME Sound, BoxSame, Up' = Up
  PROVE  UNCHANGED Box!vars
  BY DEF Sound, BoxSame, BoxCount, BoxHeld, BoxShown, Box!vars

(* A new connection begins with an empty box. *)
LEMMA InitOpensBox ==
  ASSUME BoxInv, Sound, RtInit
  PROVE  Box!Open
<1>1. /\ rcv # "exch" /\ rcv' # "exch"
      /\ rxcnt' = rxcnt /\ y' = y
      /\ rt # "apply" /\ rt' # "apply"
      /\ ~to_apply'.new
      /\ ~Up /\ Up'
  BY DEF RtInit, BoxInv, LifeInv, Unopened, NoUseAfterFree, ReceiverGone, Up
<1> QED
  BY <1>1 DEF Sound, Box!Open

(* CG_END leaves what is in the box there.                                 *)
LEMMA EndClosesBox ==
  ASSUME Sound, BoxSame, Up, ~Up'
  PROVE  Box!Close
  BY DEF Sound, BoxSame, BoxCount, BoxHeld, BoxShown, Box!Close

(* The exchange of inout takes what is in the box, all of it.              *)
LEMMA ExchangeTakes ==
  ASSUME Sound, RtExchange
  PROVE  Box!Take \/ UNCHANGED Box!vars
<1>1. /\ rt = "exch" /\ rt' = (IF to_apply.new THEN "apply" ELSE "idle")
      /\ in_apply' = to_apply.buf /\ ~to_apply'.new
      /\ UNCHANGED <<rcv, rxcnt, rxbuff, y>>
      /\ Up /\ Up'
  BY DEF RtExchange, NewData, rcvVars, Up
<1>2. BoxCount' = BoxCount /\ BoxHeld' = {}
  BY <1>1 DEF BoxCount, BoxHeld
<1>3. CASE to_apply.new
  <2>1. BoxShown' = rxbuff[to_apply.buf] /\ BoxHeld = {rxbuff[to_apply.buf]}
    BY <1>1, <1>3 DEF BoxShown, BoxHeld
  <2>2. \E frame \in BoxHeld : BoxShown' = frame
    BY <2>1
  <2> QED
    BY <1>1, <1>2, <2>2 DEF Sound, BoxCount, BoxHeld, BoxShown, Box!Take
<1>4. CASE ~to_apply.new
  <2>1. BoxShown' = BoxShown /\ BoxHeld = {}
    BY <1>1, <1>4 DEF BoxShown, BoxHeld
  <2> QED
    BY <1>1, <1>2, <2>1, BoxStutters DEF BoxSame
<1> QED
  BY <1>3, <1>4

(* Copying the frame to the outputs does not change which frame it is.     *)
LEMMA ApplyStutters ==
  ASSUME BoxInv, Sound, RtApply
  PROVE  UNCHANGED Box!vars
<1>0. TypeInv /\ Frames
  BY DEF BoxInv, TcpInv, FrameInv, Sound
<1>1. /\ rt = "apply" /\ rt' = (IF i + 1 < cfg.nout THEN "apply" ELSE "idle")
      /\ y' = [y EXCEPT ![i + 1] = rxbuff[in_apply][i + 1]]
      /\ UNCHANGED <<rcv, rxcnt, rxbuff, to_apply, in_apply>>
  BY DEF RtApply, rcvVars, triple
<1>2. i \in 0..(cfg.nout - 1) /\ i + 1 \in Parts /\ cfg.nout \in Nat
  BY <1>0, <1>1, CfgTypes DEF TypeInv, RtTypes, Parts
<1>3. y \in [Parts -> 0..Junk] /\ rxbuff[in_apply] \in [Parts -> 0..Junk]
  BY <1>0 DEF TypeInv, RxTypes, RxTypeOK, Frame, Parts
<1>4. \A p \in 1..i : y[p] = rxbuff[in_apply][p]
  BY <1>0, <1>1 DEF Frames, ApplyInv
<1>5. rt' = "idle" => y' = rxbuff[in_apply]
  <2> SUFFICES ASSUME rt' = "idle" PROVE y' = rxbuff[in_apply]
    OBVIOUS
  <2>1. i + 1 = cfg.nout
    BY <1>1, <1>2
  <2>2. ASSUME NEW p \in Parts PROVE y'[p] = rxbuff[in_apply][p]
    <3>1. p = i + 1 \/ p \in 1..i
      BY <1>2, <2>1 DEF Parts
    <3> QED
      BY <1>1, <1>2, <1>3, <1>4, <3>1
  <2>3. y' \in [Parts -> 0..Junk]
    BY <1>1, <1>2, <1>3
  <2> QED
    BY <1>3, <2>2, <2>3
<1>6. BoxSame /\ Up' = Up
  BY <1>1, <1>5 DEF BoxSame, BoxCount, BoxHeld, BoxShown, Up
<1> QED
  BY <1>6, BoxStutters

(* The receiver reads into a buffer that is neither in the box nor shown.  *)
LEMMA ReadStutters ==
  ASSUME BoxInv, Sound, RcvRead
  PROVE  UNCHANGED Box!vars
<1>0. TypeInv /\ ExclusiveBuffers
  BY DEF BoxInv, TcpInv, TripleInv
<1>1. /\ rcv = "read"
      /\ rxbuff' = [rxbuff EXCEPT ![in_read][got + 1] = rxcnt + 1]
      /\ UNCHANGED <<rt, y, to_apply, in_apply>>
      /\ \/ rcv' = "exch" /\ rxcnt' = rxcnt + 1
         \/ rcv' = "read" /\ rxcnt' = rxcnt
  BY DEF RcvRead, rtVars
<1>2. /\ rxbuff \in [0..2 -> Frame] /\ rxcnt \in Nat
      /\ in_apply \in 0..2 /\ to_apply.buf \in 0..2
  BY <1>0, CfgTypes DEF TypeInv, RxTypes, RxTypeOK
<1>3. \A b \in 0..2 : b # in_read => rxbuff'[b] = rxbuff[b]
  BY <1>1, <1>2
<1>4. BoxHeld' = BoxHeld /\ BoxShown' = BoxShown
  BY <1>0, <1>1, <1>2, <1>3 DEF ExclusiveBuffers, BoxHeld, BoxShown
<1>5. BoxCount' = BoxCount
  BY <1>1, <1>2 DEF BoxCount
<1> QED
  BY <1>1, <1>4, <1>5, BoxStutters DEF BoxSame, Up

(* The exchange of the receiver puts the frame it has read into the box,   *)
(* in the place of one that was not taken.                                 *)
LEMMA ExchangeDeposits ==
  ASSUME BoxInv, Sound, RcvExchange
  PROVE  Box!Deposit
<1>0. TypeInv /\ Frames
  BY DEF BoxInv, TcpInv, FrameInv, Sound
<1>1. /\ rcv = "exch" /\ rcv' = "loop"
      /\ to_apply'.buf = in_read /\ to_apply'.new
      /\ UNCHANGED <<rt, y, rxcnt, rxbuff, in_apply>>
  BY DEF RcvExchange, rtVars
<1>2. rxbuff[in_read] \in [Parts -> 0..Junk] /\ rxcnt \in Nat
  BY <1>0, CfgTypes DEF TypeInv, RxTypes, RxTypeOK, Frame, Parts
<1>3. \A p \in Parts : rxbuff[in_read][p] = rxcnt
  BY <1>0, <1>1 DEF Frames, ReadInv
<1>4. rxbuff[in_read] = [p \in Parts |-> rxcnt]
  BY <1>2, <1>3
<1>5. BoxCount = rxcnt - 1 /\ BoxCount' = rxcnt /\ BoxCount + 1 = rxcnt
  BY <1>1, <1>2 DEF BoxCount
<1>6. BoxHeld' = {Box!Whole(BoxCount + 1)}
  BY <1>1, <1>4, <1>5 DEF BoxHeld, Box!Whole, Parts
<1>7. BoxShown' = BoxShown /\ Up' = Up
  BY <1>1 DEF BoxShown, Up
<1>8. Up
  BY <1>1, AliveUp DEF BoxInv, ReceiverGone
<1> QED
  BY <1>5, <1>6, <1>7, <1>8 DEF Sound, BoxCount, BoxHeld, BoxShown, Box!Deposit

(* The other steps of a sound connection do not touch the box, but for the *)
(* last one of end, which closes it.                                       *)
LEMMA OthersStutter ==
  ASSUME Sound,
         \/ RtConnectFails \/ RtSample \/ RtPut \/ RtBroadcast
         \/ RtEnd \/ RtEnding \/ RtEndLock \/ RtEndWoken
         \/ SndStep \/ RcvLoop \/ RcvKilled \/ SpuriousWakeup
         \/ Exited \/ UNCHANGED vars
  PROVE  Box!Close \/ UNCHANGED Box!vars
<1>1. UNCHANGED <<rxcnt, rxbuff, to_apply, in_apply, y>>
  BY DEF RtConnectFails, RtSample, RtPut, RtBroadcast, RtEnd, RtEnding, RtTerminate,
         RtEndBroadcast, RtEndLock, RtEndTest, RtEndWait, RtEndWoken, RtEndTimeout,
         RtCancel, RtJoin, RtCancelRx, RtJoinRx, SndStep, SndLock, SndProgress,
         SndTest, SndWait, SndCount, SndSkip, SndTerminated, SndBroadcast, SndKilled,
         SndWrite, SndWriteFails, RcvLoop, RcvKilled, SpuriousWakeup, Exited, vars,
         rxVars, rcvVars, triple
<1>2. rt' = "apply" <=> rt = "apply"
  BY DEF RtConnectFails, RtSample, RtPut, RtBroadcast, RtEnd, RtEnding, RtTerminate,
         RtEndBroadcast, RtEndLock, RtEndTest, RtEndWait, RtEndWoken, RtEndTimeout,
         RtCancel, RtJoin, RtCancelRx, RtJoinRx, RtToReceive, RtToEndRx, SndStep,
         SndLock, SndProgress, SndTest, SndWait, SndCount, SndSkip, SndTerminated,
         SndBroadcast, SndKilled, SndWrite, SndWriteFails, RcvLoop, RcvKilled,
         SpuriousWakeup, Exited, vars, rtVars
<1>3. rcv' = "exch" <=> rcv = "exch"
  BY DEF RtConnectFails, RtSample, RtPut, RtBroadcast, RtEnd, RtEnding, RtTerminate,
         RtEndBroadcast, RtEndLock, RtEndTest, RtEndWait, RtEndWoken, RtEndTimeout,
         RtCancel, RtJoin, RtCancelRx, RtJoinRx, SndStep, SndLock, SndProgress,
         SndTest, SndWait, SndCount, SndSkip, SndTerminated, SndBroadcast, SndKilled,
         SndWrite, SndWriteFails, RcvLoop, RcvKilled, SpuriousWakeup, Exited, vars,
         rxVars, rcvVars
<1>4. BoxSame
  BY <1>1, <1>2, <1>3 DEF BoxSame, BoxCount, BoxHeld, BoxShown
<1>5. Up' => Up
  BY DEF Up, RtConnectFails, RtSample, RtPut, RtBroadcast, RtEnd, RtEnding,
         RtTerminate, RtEndBroadcast, RtEndLock, RtEndTest, RtEndWait, RtEndWoken,
         RtEndTimeout, RtCancel, RtJoin, RtCancelRx, RtJoinRx, RtToReceive,
         RtToEndRx, SndStep, SndLock, SndProgress, SndTest, SndWait, SndCount,
         SndSkip, SndTerminated, SndBroadcast, SndKilled, SndWrite, SndWriteFails,
         RcvLoop, RcvKilled, SpuriousWakeup, Exited, vars, rtVars
<1>6. Up \in BOOLEAN /\ Up' \in BOOLEAN
  BY DEF Up
<1> QED
  BY <1>4, <1>5, <1>6, BoxStutters, EndClosesBox

(* A connection that has failed once counts as failed from then on.        *)
LEMMA FaultsGrow == [Next]_vars /\ "rx" \in faults => "rx" \in faults'
  BY DEF Next, RtStep, RtInit, RtConnectFails, RtInout, RtSample, RtPut, RtBroadcast,
      RtExchange, RtApply, RtEnd, RtEnding, RtTerminate, RtEndBroadcast, RtEndLock,
      RtEndTest, RtEndWait, RtEndWoken, RtEndTimeout, RtCancel, RtJoin, RtCancelRx,
      RtJoinRx, SndStep, SndLock, SndProgress, SndTest, SndWait, SndCount, SndSkip,
      SndTerminated, SndBroadcast, SndKilled, SndWrite, SndWriteFails, RcvStep,
      RcvProgress, RcvLoop, RcvExchange, RcvKilled, RcvRead, RcvReadFails,
      SpuriousWakeup, Exited, vars

(* The receiving half of the block is a box for one frame that always      *)
(* holds the newest one: TcpAsync implements FrameBox, for every number of *)
(* outputs and of frames, whatever the order of the two exchanges.         *)
THEOREM BoxKept == Spec => NewestFrame
<1>1. Init => Box!Init
  BY DEF Init, Box!Init, Box!Whole, Up
<1>2. BoxInv /\ [Next]_vars => [Box!Next]_(Box!vars)
  <2> SUFFICES ASSUME BoxInv, [Next]_vars PROVE Box!Next \/ UNCHANGED Box!vars
    OBVIOUS
  <2>1. cfg' = cfg
    BY CfgSame
  <2>2. CASE "rx" \in faults'
    BY <2>1, <2>2 DEF Box!Next, Box!Unreliable
  <2>3. CASE "rx" \notin faults'
    <3>1. Sound
      BY <2>1, <2>3, FaultsGrow DEF Sound
    <3>2. ~RcvReadFails
      BY <2>3 DEF RcvReadFails
    <3>3. Box!Open \/ Box!Close \/ Box!Take \/ Box!Deposit => Box!Next
      BY <3>1 DEF Sound, Box!Next, Box!Reliable
    <3> QED
      BY <3>1, <3>2, <3>3, InitOpensBox, ExchangeTakes, ApplyStutters,
         ReadStutters, ExchangeDeposits, OthersStutter
      DEF Next, RtStep, RtInout, RcvStep, RcvProgress
  <2> QED
    BY <2>2, <2>3
<1> QED
  BY <1>1, <1>2, BoxInvariance, PTL DEF Spec, NewestFrame, Box!Spec
=============================================================================
