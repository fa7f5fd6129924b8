------------------------------ MODULE UnixSock -------------------------------
(***************************************************************************)
(* The Unix socket blocks, LinuxRT/devices/sock.c: a program with the      *)
(* client block unixsockC, and a program with the server block unixsockS   *)
(* that may be killed and started again.                                   *)
(*                                                                         *)
(* Three kinds of actors, one step per access to intPar[0] or system call: *)
(*   the RT task of the client, in init, samples and end; the model may be *)
(*   paused and resumed;                                                   *)
(*   reest_connection, of which each init starts one and nothing ends any; *)
(*   est_connection, the only thread of the server that matters here.      *)
(*                                                                         *)
(* Descriptors are numbers that the system gives out, lowest first, and    *)
(* takes back.  Left out: the values sent (one sample fills the buffer of  *)
(* a connection), and the server block's end.                              *)
(*                                                                         *)
(* An operator that nothing uses, such as TestSkipped, is the one after    *)
(* it with a bug in it: README.md says which property notices.             *)
(***************************************************************************)
EXTENDS Integers, Sequences

CONSTANTS
  MaxFd,      \* the process's limit of descriptors
  MaxStarts,  \* bound: how often the client's model is initialised
  MaxServers  \* bound: how often the server is started

ASSUME SockAssumption ==
  MaxFd \in Nat /\ MaxStarts \in Nat \ {0} /\ MaxServers \in Nat

VARIABLES
  pc, sock,   \* where each actor is, and its variable sock
  starts,     \* how often the model was initialised
  intPar0,    \* block->intPar[0]
  files,      \* what each descriptor of the client's program stands for
  path,       \* whether the name leads to the server's socket
  srv,        \* where est_connection is
  queue, sc,  \* the client's descriptors of the connections not accepted
              \* yet, and of the one accepted
  servers     \* how often the server was started

clientVars == <<pc, sock, starts, intPar0>>
serverVars == <<srv, queue, sc, servers>>
sockVars == <<clientVars, files, path, serverVars>>

Fds == 0..MaxFd
Closed == -1      \* the client's descriptor of a connection it has closed
Rt == 0           \* the RT task; the others are the threads
Threads == 1..MaxStarts
Actors == {Rt} \union Threads

File == {"free", "stdin", "unconnected", "live", "full", "dead"}
Connections == {fd \in Fds : files[fd] \in {"live", "full"}}

RtLabels ==
  {"socket", "connect", "store", "isr", "sample", "send", "close", "down"}

ThreadLabels == {"none", "test", "socket", "connect", "store"}

SockTypeOK ==
  /\ pc \in [Actors -> RtLabels \union ThreadLabels]
  /\ pc[Rt] \in RtLabels /\ \A t \in Threads : pc[t] \in ThreadLabels
  /\ sock \in [Actors -> Fds]
  /\ starts \in 1..MaxStarts
  /\ intPar0 \in Fds
  /\ files \in [Fds -> File]
  /\ path \in BOOLEAN
  /\ srv \in {"down", "accept", "recv", "deaf"}
  /\ queue \in Seq(Fds \union {Closed}) /\ sc \in Fds \union {Closed}
  /\ servers \in 0..MaxServers
  /\ path => srv \in {"accept", "recv"}
  /\ \A fd \in Connections :
       fd = sc \/ \E k \in DOMAIN queue : queue[k] = fd

SockInit ==
  /\ pc = [a \in Actors |-> IF a = Rt THEN "socket" ELSE "none"]
  /\ sock = [a \in Actors |-> 0]
  /\ starts = 1
  /\ intPar0 = 0
  /\ files = [fd \in Fds |-> IF fd = 0 THEN "stdin" ELSE "free"]
  /\ path = FALSE
  /\ srv = "down" /\ queue = <<>> /\ sc = Closed /\ servers = 0

-----------------------------------------------------------------------------
(* What init and reest_connection have in common.                          *)

GoTo(a, label) == pc' = [pc EXCEPT ![a] = label]
Holds(a, fd) == sock' = [sock EXCEPT ![a] = fd]

(* No descriptor is told by 0, as no connection is. *)
Socket(a) ==
  /\ pc[a] = "socket"
  /\ \/ /\ \A fd \in Fds : files[fd] # "free"
        /\ GoTo(a, "store") /\ Holds(a, 0)
        /\ UNCHANGED files
     \/ \E fd \in Fds :
          /\ files[fd] = "free" /\ \A d \in 0..(fd - 1) : files[d] # "free"
          /\ GoTo(a, "connect") /\ Holds(a, fd)
          /\ files' = [files EXCEPT ![fd] = "unconnected"]
  /\ UNCHANGED <<starts, intPar0, path, serverVars>>

ConnectFailsKept(a) ==
  /\ pc[a] = "connect" /\ ~path
  /\ GoTo(a, "store")
  /\ UNCHANGED <<sock, starts, intPar0, files, path, serverVars>>

(* The descriptor is forgotten, not closed. *)
ConnectFails(a) ==
  /\ pc[a] = "connect" /\ ~path
  /\ GoTo(a, "store") /\ Holds(a, 0)
  /\ UNCHANGED <<starts, intPar0, files, path, serverVars>>

(* listen(sock, 1) lets two connections wait; connect waits for a third.   *)
Connect(a) ==
  /\ pc[a] = "connect" /\ path /\ Len(queue) <= 1
  /\ GoTo(a, "store")
  /\ files' = [files EXCEPT ![sock[a]] = "live"]
  /\ queue' = Append(queue, sock[a])
  /\ UNCHANGED <<sock, starts, intPar0, path, srv, sc, servers>>

ToConnect(a) == Socket(a) \/ ConnectFails(a) \/ Connect(a)

-----------------------------------------------------------------------------
(* The RT task.                                                            *)

(* The end of init.  Whether pthread_create works is not looked at. *)
RtStore ==
  /\ pc[Rt] = "store"
  /\ intPar0' = sock[Rt]
  /\ \E label \in {"none", "test"} :
       pc' = [pc EXCEPT ![Rt] = "isr", ![starts] = label]
  /\ UNCHANGED <<sock, starts, files, path, serverVars>>

(* A sample sends only if the block is connected ... *)
RtSample ==
  /\ pc[Rt] = "isr" /\ intPar0 # 0
  /\ GoTo(Rt, "sample") /\ Holds(Rt, intPar0)
  /\ UNCHANGED <<starts, intPar0, files, path, serverVars>>

(* ... and the build may read intPar[0] again for the call. *)
RtCall ==
  /\ pc[Rt] = "sample"
  /\ GoTo(Rt, "send")
  /\ \E fd \in {sock[Rt], intPar0} : Holds(Rt, fd)
  /\ UNCHANGED <<starts, intPar0, files, path, serverVars>>

(* send waits for room in the buffer. *)
RtSend ==
  /\ pc[Rt] = "send" /\ files[sock[Rt]] = "live"
  /\ GoTo(Rt, "isr")
  /\ files' = [files EXCEPT ![sock[Rt]] = "full"]
  /\ UNCHANGED <<sock, starts, intPar0, path, serverVars>>

RtSendFailsKept ==
  /\ pc[Rt] = "send" /\ sock[Rt] \notin Connections
  /\ GoTo(Rt, "isr")
  /\ UNCHANGED <<sock, starts, intPar0, files, path, serverVars>>

RtSendFails ==
  /\ pc[Rt] = "send" /\ sock[Rt] \notin Connections
  /\ GoTo(Rt, "isr")
  /\ intPar0' = 0
  /\ UNCHANGED <<sock, starts, files, path, serverVars>>

RtEnd ==
  /\ pc[Rt] = "isr"
  /\ GoTo(Rt, IF intPar0 = 0 THEN "down" ELSE "close") /\ Holds(Rt, intPar0)
  /\ UNCHANGED <<starts, intPar0, files, path, serverVars>>

(* end closes the connection and removes the server's name.  intPar[0]     *)
(* stays, which is what keeps the threads quiet while the model is paused. *)
RtClose ==
  /\ pc[Rt] = "close"
  /\ GoTo(Rt, "down")
  /\ \E fd \in {sock[Rt], intPar0} :
       IF files[fd] = "free"
         THEN UNCHANGED <<files, path, queue, sc>>
         ELSE /\ files' = [files EXCEPT ![fd] = "free"]
              /\ path' = FALSE
              /\ queue' = [k \in DOMAIN queue |->
                             IF queue[k] = fd THEN Closed ELSE queue[k]]
              /\ sc' = IF sc = fd THEN Closed ELSE sc
  /\ UNCHANGED <<sock, starts, intPar0, srv, servers>>

RtResume ==
  /\ pc[Rt] = "down" /\ starts < MaxStarts
  /\ GoTo(Rt, "socket")
  /\ starts' = starts + 1
  /\ UNCHANGED <<sock, intPar0, files, path, serverVars>>

-----------------------------------------------------------------------------
(* reest_connection.                                                       *)

TestSkipped(t) ==
  /\ pc[t] = "test"
  /\ GoTo(t, "socket")
  /\ UNCHANGED <<sock, starts, intPar0, files, path, serverVars>>

Test(t) ==
  /\ pc[t] = "test" /\ intPar0 = 0
  /\ GoTo(t, "socket")
  /\ UNCHANGED <<sock, starts, intPar0, files, path, serverVars>>

Store(t) ==
  /\ pc[t] = "store"
  /\ GoTo(t, "test")
  /\ intPar0' = sock[t]
  /\ UNCHANGED <<sock, starts, files, path, serverVars>>

Reconnect(t) == Test(t) \/ ToConnect(t) \/ Store(t)

-----------------------------------------------------------------------------
(* est_connection.                                                         *)

(* When it cannot listen it returns, as if the server were not started. *)
SrvListen ==
  /\ srv = "down" /\ servers < MaxServers
  /\ srv' = "accept" /\ path' = TRUE
  /\ servers' = servers + 1
  /\ UNCHANGED <<clientVars, files, queue, sc>>

SrvAccept ==
  /\ srv = "accept" /\ queue # <<>>
  /\ srv' = "recv" /\ sc' = Head(queue) /\ queue' = Tail(queue)
  /\ UNCHANGED <<clientVars, files, path, servers>>

(* The server's sockets are closed, and so are the connections to it. *)
Hangup ==
  /\ files' = [fd \in Fds |-> IF fd \in Connections THEN "dead" ELSE files[fd]]
  /\ path' = FALSE
  /\ queue' = <<>> /\ sc' = Closed

SrvAcceptFailsOpen ==
  /\ srv = "accept" /\ srv' = "deaf"
  /\ UNCHANGED <<clientVars, files, path, queue, sc, servers>>

(* recv(-1) fails again and again. *)
SrvAcceptFails ==
  /\ srv = "accept" /\ srv' = "deaf"
  /\ Hangup
  /\ UNCHANGED <<clientVars, servers>>

(* The loop of recv is never left: no second connection is accepted. *)
SrvRecv ==
  /\ srv = "recv" /\ sc \in Connections /\ files[sc] = "full"
  /\ files' = [files EXCEPT ![sc] = "live"]
  /\ UNCHANGED <<clientVars, path, serverVars>>

SrvKilled ==
  /\ srv # "down" /\ srv' = "down"
  /\ Hangup
  /\ UNCHANGED <<clientVars, servers>>

-----------------------------------------------------------------------------
RtInit == ToConnect(Rt) \/ RtStore
RtInout == RtSample \/ RtCall \/ RtSend \/ RtSendFails
Serve == SrvAccept \/ SrvRecv

SockNext ==
  \/ RtInit \/ RtInout \/ RtEnd \/ RtClose \/ RtResume
  \/ \E t \in Threads : Reconnect(t)
  \/ SrvListen \/ Serve \/ SrvAcceptFails \/ SrvKilled

(* Samples keep coming, the threads run every 100 ms, the server serves.   *)
(* The model need not be ended, nor the server started, killed or failing. *)
SockFairness ==
  /\ WF_sockVars(RtInit) /\ WF_sockVars(RtInout)
  /\ \A t \in Threads : WF_sockVars(Reconnect(t))
  /\ WF_sockVars(Serve)

SockSpec == SockInit /\ [][SockNext]_sockVars /\ SockFairness

-----------------------------------------------------------------------------
(* Before the first resume: later there are two threads that reconnect,    *)
(* both may do so at once, and what follows is wrong (README.md).          *)
FirstLife == starts = 1

(* send and close get a socket the block has connected: between inout's or *)
(* end's test of intPar[0] and the call the thread changes nothing.        *)
OwnSocket ==
  FirstLife /\ pc[Rt] \in {"sample", "send", "close"} =>
    sock[Rt] = intPar0 /\ files[intPar0] \in {"live", "full", "dead"}

(* The block never holds two connections to one server, which would serve  *)
(* the first and let the block fill the buffer of the second.              *)
OneConnection == FirstLife => \A c, d \in Connections : c = d

(* A sample never keeps the RT task, although send may wait: the server    *)
(* accepts the connection and reads, or dies.                              *)
SendReturns == FirstLife /\ pc[Rt] = "send" ~> pc[Rt] # "send"

InUse ==
  pc[Rt] \in {"isr", "sample", "send"} /\ \E t \in Threads : pc[t] # "none"

OutOfDescriptors == \A fd \in Fds : files[fd] # "free"

(* Until the model is resumed, and however often the server was killed:    *)
(* the block connects to the server that is there, as long as there is one *)
(* to find, and a descriptor that its failed attempts have left.           *)
Reconnects ==
  FirstLife /\ InUse /\ path
    ~> intPar0 \in Connections \/ ~InUse \/ ~path \/ OutOfDescriptors
=============================================================================
