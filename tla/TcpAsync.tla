------------------------------ MODULE TcpAsync ------------------------------
(***************************************************************************)
(* The block TCPsocketAsync: the real-time task hands samples to a sender  *)
(* thread through the ring of TCPdqf.h and takes frames from a receiver    *)
(* thread through three buffers that change hands by atomic exchange.      *)
(*                                                                         *)
(*   CodeGen/Common/os_compatible_dev/posix/TCPsocketAsync.c, TCPdqf.h     *)
(*                                                                         *)
(* Three threads take steps, one per access to what they share: the RT     *)
(* task (CG_INIT, CG_OUT and CG_END of the block), TCP_data_send and       *)
(* TCP_data_read.  Data are words, not bytes: a write or read that ends    *)
(* within a double is one that ends next to it.  Left out: lostcount,      *)
(* which nobody reads, and thread priorities.                              *)
(*                                                                         *)
(* An operator that nothing uses, such as RtBroadcastNever, is the one     *)
(* after it with a bug in it: README.md says which property notices.       *)
(***************************************************************************)
EXTENDS Integers, Sequences

CONSTANTS
  Configs,           \* the blocks considered; one is fixed by Init
  Words,             \* the values an input signal takes
  BUFFSIZE_DEFAULT,  \* ring size when the diagram says 0
  MaxRx              \* bound: frames the peer sends in all

(* nin, nout: connected inputs and outputs; buffsize, down: intPar[1] and  *)
(* intPar[3]; range: 2^(width of unsigned int); prompt: the sender is      *)
(* taken to get from its test of the ring to the wait queue, a few         *)
(* instructions, while at most one sample begins.                          *)
Config ==
  [nin : Nat, nout : Nat, buffsize : Nat, down : Nat \ {0},
   range : Nat \ {0}, prompt : BOOLEAN]

Asked(c) == IF c.buffsize = 0 THEN BUFFSIZE_DEFAULT ELSE c.buffsize

(* init rounds the size up to a power of two. *)
RingSize(c) ==
  LET PowersUp == {p \in {2^k : k \in 0..12} : p >= Asked(c)}
  IN  CHOOSE p \in PowersUp : \A q \in PowersUp : p <= q

(* `loc & locmask` is a remainder because the ring size divides the range. *)
ASSUME TcpAssumption ==
  /\ Configs \subseteq Config
  /\ MaxRx \in Nat
  /\ \A c \in Configs :
       /\ RingSize(c) \in 1..(c.range - 1)
       /\ c.range % RingSize(c) = 0

VARIABLES
  cfg,            \* the block's parameters, never change
  rt,             \* where the RT task is
  i,              \* the loop counter of inout
  cnt,            \* intPar[4], samples since the last one that counted
  locin, locout,  \* dqf.locin, dqf.locout
  buff,           \* the ring
  mutex,          \* tcp_lock: "free", "rt" or "snd"
  waiters,        \* who waits on tcp_cond
  tx_terminate, tx_terminated, rx_terminate, rx_terminated,
  cancelled,      \* pthread_cancel(send_thrd) was called
  snd,            \* where TCP_data_send is; "none": there is none
  terminate, empty, \* locals of TCP_data_send
  to_send, sent,  \* words still to write, and written, in this round
  wire,           \* the word last written to the connection
  rcv,            \* where TCP_data_read is; "none": there is none
  got,            \* words of the current frame it has read
  rxcnt,          \* frames it has read; the words of frame n are all n
  rxbuff,         \* the three frame buffers
  in_read,        \* rxbuff_in_read, the buffer being read into
  to_apply,       \* rxbuff_to_apply: the buffer, and DATA_TO_APPLY as `new`
  in_apply,       \* rxbuff_in_apply
  y,              \* the output signals
  preempted,      \* a sample began while the sender was about to wait
  faults          \* the directions in which the connection ever failed

ring == <<locin, locout, buff>>
sync == <<mutex, waiters>>
flags == <<tx_terminate, tx_terminated, rx_terminate, rx_terminated, cancelled>>
sndVars == <<snd, terminate, empty, to_send, sent, wire, preempted>>
rcvVars == <<rcv, got, rxcnt, in_read>>
triple == <<rxbuff, to_apply, in_apply>>
vars == <<cfg, rt, i, cnt, ring, sync, flags, sndVars, rcvVars, triple, y, faults>>

Size == RingSize(cfg)
LocMod == cfg.range

Uninit == "uninit"   \* a ring slot as malloc left it
Junk == MaxRx + 1    \* a received word as malloc left it
Frame == [1..cfg.nout -> 0..Junk]

RtLabels ==
  {"init", "idle", "put", "bcast", "exch", "apply", "e_tx", "e_bcast", "e_lock",
   "e_test", "e_cond", "e_wait", "e_cancel", "e_join", "e_rx", "e_rxjoin",
   "closed", "exit"}

SndLabels ==
  {"none", "lock", "test", "cond", "wait", "count", "write", "terminated",
   "bcast", "dead", "killed"}

RcvLabels == {"none", "loop", "read", "exch", "dead"}

TxTypeOK ==
  /\ locin \in 0..(LocMod - 1)
  /\ locout \in 0..(LocMod - 1)
  /\ buff \in [0..(Size - 1) -> Words \union {Uninit}]
  /\ snd \in SndLabels
  /\ {terminate, empty, preempted} \subseteq BOOLEAN
  /\ to_send \in 0..Size
  /\ sent \in 0..Size
  /\ wire \in Words \union {Uninit}

RxTypeOK ==
  /\ rcv \in RcvLabels
  /\ got \in 0..cfg.nout
  /\ rxcnt \in 0..MaxRx
  /\ rxbuff \in [0..2 -> Frame]
  /\ in_read \in 0..2
  /\ to_apply \in [buf : 0..2, new : BOOLEAN]
  /\ in_apply \in 0..2
  /\ y \in Frame

TypeOK ==
  /\ cfg \in Configs
  /\ rt \in RtLabels
  /\ i \in Nat /\ (i > 0 => i < cfg.nin \/ i < cfg.nout)
  /\ cnt \in 0..(cfg.down - 1)
  /\ mutex \in {"free", "rt", "snd"}
  /\ waiters \subseteq {"rt", "snd"}
  /\ {tx_terminate, tx_terminated, rx_terminate, rx_terminated, cancelled}
       \subseteq BOOLEAN
  /\ faults \subseteq {"tx", "rx"}
  /\ TxTypeOK
  /\ RxTypeOK

-----------------------------------------------------------------------------
(* TCPdqf.h *)

Plus(a, b) == (a + b) % LocMod
Minus(a, b) == (a + LocMod - b) % LocMod

IsFull == locin # locout /\ locin % Size = locout % Size
IsEmpty == locin = locout
Count == Minus(locin, locout)
Free == Minus(Size, Count)

CountUnwrapped == Count

(* The words that lie in one piece of memory. *)
CountCont ==
  LET remain == Size - (locout % Size)
  IN  IF Count < remain THEN Count ELSE remain

(* The value of locout after tcp_dqf_skip(n). *)
Skip(n) == Plus(locout, IF n > Count THEN Count ELSE n)

(* What write() finds n words after the first one to send. *)
WordAt(n) ==
  LET at == (locout % Size) + n IN IF at < Size THEN buff[at] ELSE Uninit

-----------------------------------------------------------------------------
(* CG_INIT *)

Init ==
  /\ cfg \in Configs
  /\ rt = "init"
  /\ i = 0 /\ cnt = 0
  /\ locin = 0 /\ locout = 0
  /\ buff = [k \in 0..(Size - 1) |-> Uninit]
  /\ mutex = "free" /\ waiters = {}
  /\ tx_terminate = FALSE /\ tx_terminated = FALSE
  /\ rx_terminate = FALSE /\ rx_terminated = FALSE
  /\ cancelled = FALSE
  /\ snd = "none" /\ terminate = FALSE /\ empty = FALSE
  /\ to_send = 0 /\ sent = 0 /\ wire = Uninit /\ preempted = FALSE
  /\ rcv = "none" /\ got = 0 /\ rxcnt = 0 /\ in_read = 0
  /\ rxbuff = [b \in 0..2 |-> [p \in 1..cfg.nout |-> Junk]]
  /\ in_apply = 1 /\ to_apply = [buf |-> 2, new |-> FALSE]
  /\ y = [p \in 1..cfg.nout |-> 0]
  /\ faults = {}

(* A fresh tcp_txrx_state_t, a connection, the threads.  Also after an end *)
(* (the model is paused and resumed): then intPar[4] and the outputs keep  *)
(* their values.                                                           *)
RtInit ==
  /\ rt \in {"init", "closed"} /\ rt' = "idle"
  /\ locin' = 0 /\ locout' = 0
  /\ buff' = [k \in 0..(Size - 1) |-> Uninit]
  /\ mutex' = "free" /\ waiters' = {}
  /\ tx_terminate' = FALSE /\ tx_terminated' = FALSE
  /\ rx_terminate' = FALSE /\ rx_terminated' = FALSE
  /\ cancelled' = FALSE
  /\ snd' = IF cfg.nin > 0 THEN "lock" ELSE "none"
  /\ terminate' = FALSE /\ empty' = FALSE /\ to_send' = 0 /\ sent' = 0
  /\ rcv' = IF cfg.nout > 0 THEN "loop" ELSE "none"
  /\ got' = 0 /\ in_read' = 0
  /\ rxbuff' = [b \in 0..2 |-> [p \in 1..cfg.nout |-> Junk]]
  /\ in_apply' = 1 /\ to_apply' = [buf |-> 2, new |-> FALSE]
  /\ UNCHANGED <<cfg, i, cnt, wire, preempted, rxcnt, y, faults>>

(* The peer cannot be reached: the program exits. *)
RtConnectFails ==
  /\ rt \in {"init", "closed"} /\ rt' = "exit"
  /\ UNCHANGED <<cfg, i, cnt, ring, sync, flags, sndVars, rcvVars, triple, y, faults>>

-----------------------------------------------------------------------------
(* CG_OUT *)

RtToReceive == IF cfg.nout > 0 THEN "exch" ELSE "idle"

(* A sample begins: it may be one to leave out, or the ring may be too     *)
(* full for it, in which case inout returns and does not receive either.   *)
NextCntKept == cnt + 1
NextCnt == IF cnt + 1 < cfg.down THEN cnt + 1 ELSE 0

RtSample ==
  /\ rt = "idle"
  /\ cnt' = NextCnt
  /\ rt' = IF cnt + 1 < cfg.down THEN "idle"
           ELSE IF cfg.nin = 0 THEN RtToReceive
           ELSE IF Free < cfg.nin THEN "idle" ELSE "put"
  /\ preempted' = (snd \in {"test", "cond"})
  /\ UNCHANGED <<cfg, i, ring, sync, flags, snd, terminate, empty, to_send, sent,
                 wire, rcvVars, triple, y, faults>>

(* tcp_dqf_put does nothing when the ring is full; inout does not look. *)
RtPut ==
  /\ rt = "put"
  /\ IF IsFull THEN UNCHANGED <<locin, buff>>
     ELSE /\ \E u \in Words : buff' = [buff EXCEPT ![locin % Size] = u]
          /\ locin' = Plus(locin, 1)
  /\ i' = (i + 1) % cfg.nin
  /\ rt' = IF i + 1 < cfg.nin THEN "put" ELSE "bcast"
  /\ UNCHANGED <<cfg, cnt, locout, sync, flags, sndVars, rcvVars, triple, y, faults>>

RtBroadcastNever ==
  /\ rt = "bcast" /\ rt' = RtToReceive
  /\ UNCHANGED <<cfg, i, cnt, ring, sync, flags, sndVars, rcvVars, triple, y, faults>>

(* The waiters are woken without tcp_lock. *)
RtBroadcast ==
  /\ rt = "bcast" /\ rt' = RtToReceive
  /\ waiters' = {}
  /\ UNCHANGED <<cfg, i, cnt, ring, mutex, flags, sndVars, rcvVars, triple, y, faults>>

GivenBackNot == to_apply.buf
GivenBack == in_apply

NewDataAssumed == TRUE
NewDataLate == FALSE
NewData == to_apply.new

RtExchange ==
  /\ rt = "exch" /\ rt' = IF NewData THEN "apply" ELSE "idle"
  /\ in_apply' = to_apply.buf
  /\ to_apply' = [buf |-> GivenBack, new |-> FALSE]
  /\ UNCHANGED <<cfg, i, cnt, ring, sync, flags, sndVars, rcvVars, rxbuff, y, faults>>

RtApply ==
  /\ rt = "apply"
  /\ y' = [y EXCEPT ![i + 1] = rxbuff[in_apply][i + 1]]
  /\ i' = (i + 1) % cfg.nout
  /\ rt' = IF i + 1 < cfg.nout THEN "apply" ELSE "idle"
  /\ UNCHANGED <<cfg, cnt, ring, sync, flags, sndVars, rcvVars, triple, faults>>

-----------------------------------------------------------------------------
(* CG_END *)

RtToEndRx == IF cfg.nout > 0 THEN "e_rx" ELSE "closed"

RtEnd ==
  /\ rt = "idle"
  /\ rt' = IF cfg.nin > 0 THEN "e_tx" ELSE RtToEndRx
  /\ UNCHANGED <<cfg, i, cnt, ring, sync, flags, sndVars, rcvVars, triple, y, faults>>

RtTerminate ==
  /\ rt = "e_tx" /\ rt' = "e_bcast"
  /\ tx_terminate' = TRUE
  /\ UNCHANGED <<cfg, i, cnt, ring, sync, tx_terminated, rx_terminate,
                 rx_terminated, cancelled, sndVars, rcvVars, triple, y, faults>>

RtEndBroadcast ==
  /\ rt = "e_bcast" /\ rt' = "e_lock"
  /\ waiters' = {}
  /\ UNCHANGED <<cfg, i, cnt, ring, mutex, flags, sndVars, rcvVars, triple, y, faults>>

RtEndLock ==
  /\ rt = "e_lock" /\ rt' = "e_test"
  /\ mutex = "free" /\ mutex' = "rt"
  /\ UNCHANGED <<cfg, i, cnt, ring, waiters, flags, sndVars, rcvVars, triple, y, faults>>

RtEndTest ==
  /\ rt = "e_test"
  /\ IF tx_terminated THEN rt' = "e_join" /\ mutex' = "free"
                      ELSE rt' = "e_cond" /\ UNCHANGED mutex
  /\ UNCHANGED <<cfg, i, cnt, ring, waiters, flags, sndVars, rcvVars, triple, y, faults>>

RtEndWait ==
  /\ rt = "e_cond" /\ rt' = "e_wait"
  /\ mutex' = "free"
  /\ waiters' = waiters \union {"rt"}
  /\ UNCHANGED <<cfg, i, cnt, ring, flags, sndVars, rcvVars, triple, y, faults>>

(* pthread_cond_timedwait returns, with the mutex, which is given back:    *)
(* woken up, or after two seconds whatever the sender does.                *)
RtEndWoken ==
  /\ rt = "e_wait" /\ rt' = "e_lock"
  /\ "rt" \notin waiters
  /\ mutex = "free"
  /\ UNCHANGED <<cfg, i, cnt, ring, sync, flags, sndVars, rcvVars, triple, y, faults>>

RtEndTimeout ==
  /\ rt = "e_wait" /\ rt' = "e_cancel"
  /\ mutex = "free"
  /\ waiters' = waiters \ {"rt"}
  /\ UNCHANGED <<cfg, i, cnt, ring, mutex, flags, sndVars, rcvVars, triple, y, faults>>

RtCancelNever ==
  /\ rt = "e_cancel" /\ rt' = "e_join"
  /\ UNCHANGED <<cfg, i, cnt, ring, sync, flags, sndVars, rcvVars, triple, y, faults>>

RtCancel ==
  /\ rt = "e_cancel" /\ rt' = "e_join"
  /\ cancelled' = TRUE
  /\ UNCHANGED <<cfg, i, cnt, ring, sync, tx_terminate, tx_terminated,
                 rx_terminate, rx_terminated, sndVars, rcvVars, triple, y, faults>>

SenderGone == snd \in {"none", "dead", "killed"}
ReceiverGone == rcv \in {"none", "dead"}

RtJoinNot ==
  /\ rt = "e_join" /\ rt' = RtToEndRx
  /\ UNCHANGED <<cfg, i, cnt, ring, sync, flags, sndVars, rcvVars, triple, y, faults>>

RtJoin ==
  /\ rt = "e_join" /\ rt' = RtToEndRx
  /\ SenderGone
  /\ UNCHANGED <<cfg, i, cnt, ring, sync, flags, sndVars, rcvVars, triple, y, faults>>

(* rx_terminate = 1 and pthread_cancel(rcv_thrd). *)
RtCancelRx ==
  /\ rt = "e_rx" /\ rt' = "e_rxjoin"
  /\ rx_terminate' = TRUE
  /\ UNCHANGED <<cfg, i, cnt, ring, sync, tx_terminate, tx_terminated,
                 rx_terminated, cancelled, sndVars, rcvVars, triple, y, faults>>

RtJoinRx ==
  /\ rt = "e_rxjoin" /\ rt' = "closed"
  /\ ReceiverGone
  /\ UNCHANGED <<cfg, i, cnt, ring, sync, flags, sndVars, rcvVars, triple, y, faults>>

-----------------------------------------------------------------------------
(* TCP_data_send *)

rtVars == <<cfg, rt, i, cnt>>
rxVars == <<rcvVars, triple, y>>

SndLock ==
  /\ \/ snd = "lock"
     \/ (snd = "wait" /\ "snd" \notin waiters)
  /\ mutex = "free" /\ mutex' = "snd"
  /\ snd' = "test"
  /\ terminate' = tx_terminate
  /\ UNCHANGED <<rtVars, ring, waiters, flags, empty, to_send, sent, wire,
                 preempted, rxVars, faults>>

SndTest ==
  /\ snd = "test"
  /\ empty' = IsEmpty
  /\ snd' = IF IsEmpty /\ ~terminate THEN "cond" ELSE "count"
  /\ UNCHANGED <<rtVars, ring, sync, flags, terminate, to_send, sent, wire,
                 preempted, rxVars, faults>>

SndWait ==
  /\ snd = "cond" /\ snd' = "wait"
  /\ mutex' = "free"
  /\ waiters' = waiters \union {"snd"}
  /\ preempted' = FALSE
  /\ UNCHANGED <<rtVars, ring, flags, terminate, empty, to_send, sent, wire,
                 rxVars, faults>>

SndCount ==
  /\ snd = "count" /\ snd' = "write"
  /\ to_send' = CountCont
  /\ mutex' = "free"
  /\ preempted' = FALSE
  /\ UNCHANGED <<rtVars, ring, waiters, flags, terminate, empty, sent, wire,
                 rxVars, faults>>

SndWrite ==
  /\ snd = "write" /\ to_send > 0
  /\ wire' = WordAt(sent)
  /\ sent' = sent + 1
  /\ to_send' = to_send - 1
  /\ UNCHANGED <<rtVars, ring, sync, flags, snd, terminate, empty, preempted,
                 rxVars, faults>>

SndWriteFails ==
  /\ snd = "write" /\ to_send > 0
  /\ terminate' = TRUE /\ empty' = TRUE
  /\ to_send' = 0
  /\ faults' = faults \union {"tx"}
  /\ UNCHANGED <<rtVars, ring, sync, flags, snd, sent, wire, preempted, rxVars>>

SndOverHastily == terminate
SndOver == terminate /\ empty

(* tcp_dqf_skip and the test of the outer loop. *)
SndSkip ==
  /\ snd = "write" /\ to_send = 0
  /\ locout' = Skip(sent)
  /\ sent' = 0
  /\ snd' = IF SndOver THEN "terminated" ELSE "lock"
  /\ UNCHANGED <<rtVars, locin, buff, sync, flags, terminate, empty, to_send,
                 wire, preempted, rxVars, faults>>

SndTerminated ==
  /\ snd = "terminated" /\ snd' = "bcast"
  /\ tx_terminated' = TRUE
  /\ UNCHANGED <<rtVars, ring, sync, tx_terminate, rx_terminate, rx_terminated,
                 cancelled, terminate, empty, to_send, sent, wire, preempted,
                 rxVars, faults>>

SndBroadcast ==
  /\ snd = "bcast" /\ snd' = "dead"
  /\ waiters' = {}
  /\ UNCHANGED <<rtVars, ring, mutex, flags, terminate, empty, to_send, sent,
                 wire, preempted, rxVars, faults>>

(* Cancellation takes effect in pthread_cond_wait, which takes the mutex   *)
(* once more, for nobody to unlock, and in write.                          *)
SndKilled ==
  /\ cancelled
  /\ snd' = "killed"
  /\ \/ snd = "write" /\ to_send > 0 /\ UNCHANGED mutex
     \/ snd = "cond" /\ mutex' = "snd"
     \/ snd = "wait" /\ mutex = "free" /\ mutex' = "snd"
  /\ waiters' = waiters \ {"snd"}
  /\ UNCHANGED <<rtVars, ring, flags, terminate, empty, to_send, sent,
                 wire, preempted, rxVars, faults>>

-----------------------------------------------------------------------------
(* TCP_data_read *)

txVars == <<ring, sync, sndVars>>

RcvLoop ==
  /\ rcv = "loop"
  /\ rcv' = IF rx_terminate \/ rx_terminated THEN "dead" ELSE "read"
  /\ UNCHANGED <<rtVars, txVars, flags, got, rxcnt, in_read, triple, y, faults>>

FrameDoneAtOnce == TRUE
FrameDone == got + 1 = cfg.nout

(* A word of the next frame arrives; the last one completes the frame. *)
RcvRead ==
  /\ rcv = "read" /\ rxcnt < MaxRx
  /\ rxbuff' = [rxbuff EXCEPT ![in_read][got + 1] = rxcnt + 1]
  /\ IF FrameDone
       THEN rcv' = "exch" /\ got' = 0 /\ rxcnt' = rxcnt + 1
       ELSE got' = got + 1 /\ UNCHANGED <<rcv, rxcnt>>
  /\ UNCHANGED <<rtVars, txVars, flags, in_read, to_apply, in_apply, y, faults>>

(* The connection fails or the peer closes it.  The buffer, as far as it   *)
(* was filled, is handed over as if it were a frame.                       *)
RcvReadFails ==
  /\ rcv = "read" /\ rcv' = "exch"
  /\ rx_terminated' = TRUE
  /\ got' = 0
  /\ faults' = faults \union {"rx"}
  /\ UNCHANGED <<rtVars, txVars, tx_terminate, tx_terminated, rx_terminate,
                 cancelled, rxcnt, in_read, triple, y>>

RcvExchange ==
  /\ rcv = "exch" /\ rcv' = "loop"
  /\ in_read' = to_apply.buf
  /\ to_apply' = [buf |-> in_read, new |-> TRUE]
  /\ UNCHANGED <<rtVars, txVars, flags, got, rxcnt, rxbuff, in_apply, y, faults>>

(* Cancellation takes effect in read. *)
RcvKilled ==
  /\ rcv = "read" /\ rcv' = "dead"
  /\ rx_terminate
  /\ UNCHANGED <<rtVars, txVars, flags, got, rxcnt, in_read, triple, y, faults>>

-----------------------------------------------------------------------------
(* pthread_cond_wait may return without a broadcast. *)
SpuriousWakeup ==
  /\ \E w \in waiters : waiters' = waiters \ {w}
  /\ UNCHANGED <<rtVars, ring, mutex, flags, sndVars, rxVars, faults>>

Exited == rt = "exit" /\ UNCHANGED vars

(* A prompt sender, see Config. *)
SampleMayBegin == ~(cfg.prompt /\ preempted)

RtInout ==
  \/ SampleMayBegin /\ RtSample
  \/ RtPut \/ RtBroadcast \/ RtExchange \/ RtApply

RtEnding ==
  \/ RtTerminate \/ RtEndBroadcast \/ RtEndTest \/ RtEndWait \/ RtEndTimeout
  \/ RtCancel \/ RtJoin \/ RtCancelRx \/ RtJoinRx

RtStep ==
  \/ RtInit \/ RtConnectFails \/ RtInout
  \/ RtEnd \/ RtEnding \/ RtEndLock \/ RtEndWoken

SndProgress ==
  \/ SndTest \/ SndWait \/ SndCount \/ SndSkip \/ SndTerminated \/ SndBroadcast
  \/ SndKilled

SndStep == SndLock \/ SndProgress \/ SndWrite \/ SndWriteFails

RcvProgress == RcvLoop \/ RcvExchange \/ RcvKilled

RcvStep == RcvProgress \/ RcvRead \/ RcvReadFails

Next == RtStep \/ SndStep \/ RcvStep \/ SpuriousWakeup \/ Exited

Spec == Init /\ [][Next]_vars

(* Threads that can run do, samples keep coming, the mutex goes to a       *)
(* thread that wants it often enough.  The peer need not read or write,    *)
(* the model need not be ended or started again.                           *)
Fairness ==
  /\ WF_vars(RtInout)
  /\ WF_vars(RtEnding)
  /\ SF_vars(RtEndTimeout)
  /\ SF_vars(RtEndLock)
  /\ SF_vars(RtEndWoken)
  /\ SF_vars(SndLock)
  /\ WF_vars(SndProgress)
  /\ WF_vars(RcvProgress)

FairSpec == Spec /\ Fairness

-----------------------------------------------------------------------------
(* Safety.                                                                 *)

(* The block is open: CG_INIT has made its state, CG_END has not freed it. *)
Up == rt \notin {"init", "closed", "exit"}

(* Accepted and not yet on the wire, oldest first. *)
Pending ==
  [k \in 1..(Count - sent) |-> buff[Plus(locout, sent + k - 1) % Size]]

(* The ring, filled by one thread and emptied by another without a lock,   *)
(* with counters that wrap around at LocMod and data that wrap around at   *)
(* the ring's end, is a queue of whole samples (inout's check of the free  *)
(* space makes the one in tcp_dqf_put superfluous).                        *)
Stream ==
  INSTANCE WordStream WITH
    width <- cfg.nin, capacity <- Size, up <- Up, pending <- Pending,
    open <- IF rt = "put" THEN i ELSE 0

StreamInOrder == Stream!Spec

(* The receiver fills, the RT task applies, and the exchange holds three   *)
(* different buffers: no frame is overwritten while it is being read.      *)
ExclusiveBuffers ==
  in_read # in_apply /\ in_read # to_apply.buf /\ in_apply # to_apply.buf

(* As long as the connection holds, the outputs show one frame the peer    *)
(* has sent in full, never words of two of them or what malloc left.       *)
WholeFrame ==
  rt = "idle" /\ "rx" \notin faults =>
    \A p, q \in 1..cfg.nout : y[p] = y[q] /\ y[p] <= rxcnt

(* As long as the connection holds, frames take effect in the order they   *)
(* were received: a buffer already applied is not applied again.           *)
NeverBack ==
  [][\A p \in 1..cfg.nout : y'[p] >= y[p] \/ "rx" \in faults]_vars

(* Three buffers and one atomic exchange are a box that always holds the   *)
(* newest frame not taken yet: until the block is closed none is lost      *)
(* except for a newer one, and what the outputs take while the receiver    *)
(* goes on is that frame, whole.                                           *)
(* It is in the box once exchanged, and shown as soon as it is taken.      *)
Box ==
  INSTANCE FrameBox WITH
    width <- cfg.nout,
    up <- Up,
    count <- IF rcv = "exch" THEN rxcnt - 1 ELSE rxcnt,
    box <- IF to_apply.new THEN {rxbuff[to_apply.buf]} ELSE {},
    shown <- IF rt = "apply" THEN rxbuff[in_apply] ELSE y,
    failed <- "rx" \in faults

NewestFrame == Box!Spec

(* A sender that ended on its own account, and not because the connection  *)
(* failed, sent everything inout had accepted.                             *)
DrainedAtEnd ==
  rt = "closed" /\ snd = "dead" /\ "tx" \notin faults => Pending = <<>>

(* end frees the ring, the frame buffers and the mutex only when no thread *)
(* is left that would touch them.                                          *)
NoUseAfterFree == rt = "closed" => SenderGone /\ ReceiverGone

-----------------------------------------------------------------------------
(* Liveness.                                                               *)

InUse == rt \in {"idle", "put", "bcast", "exch", "apply"}

(* A sample accepted by a block whose sender is prompt reaches write(),    *)
(* unless the connection has failed or the block is being closed.          *)
SentEventually ==
  cfg.prompt /\ InUse /\ ~IsEmpty ~> snd = "write" \/ "tx" \in faults \/ ~InUse

(* end returns, even if the peer never reads another byte. *)
EndReturns == rt = "e_tx" ~> rt = "closed"
=============================================================================
