--------------------------- MODULE UnixSockProofs ----------------------------
(***************************************************************************)
(* What holds of the Unix socket client until its model is resumed, for    *)
(* any limit of descriptors and any number of servers: it uses sockets of  *)
(* its own and never has two connections.                                  *)
(***************************************************************************)
EXTENDS UnixSock, TLAPS

Types ==
  /\ pc \in [Actors -> RtLabels \union ThreadLabels]
  /\ pc[Rt] \in RtLabels /\ \A t \in Threads : pc[t] \in ThreadLabels
  /\ sock \in [Actors -> Fds]
  /\ starts \in Threads
  /\ intPar0 \in Fds
  /\ files \in [Fds -> File]

(* At most one actor at a time is about to give the block a connection:    *)
(* the RT task before it has started the thread, the thread after that,    *)
(* and only while intPar[0] is 0.                                          *)
Connecting == {"socket", "connect", "store"}

Alone ==
  /\ \A t \in Threads : t # 1 => pc[t] = "none"
  /\ pc[Rt] \in Connecting => pc[1] = "none"
  /\ \A a \in Actors : pc[a] \in Connecting => intPar0 = 0

(* Opened: a descriptor that connect has returned for. *)
Opened == {fd \in Fds : files[fd] \in {"live", "full", "dead"}}

Sockets ==
  /\ files[0] = "stdin"
  /\ intPar0 # 0 /\ pc[Rt] # "down" => intPar0 \in Opened
  /\ pc[Rt] \in {"sample", "send", "close"} => intPar0 # 0 /\ sock[Rt] = intPar0
  /\ \A a \in Actors :
       /\ pc[a] = "connect" => sock[a] # 0
       /\ pc[a] = "store" => sock[a] = 0 \/ sock[a] \in Opened

(* The connection is the one in intPar[0], or the one about to be stored. *)
Single ==
  \A c \in Connections :
    \/ c = intPar0
    \/ \E a \in Actors : pc[a] = "store" /\ c = sock[a]

Life == Alone /\ Sockets /\ Single
SockInv == Types /\ (FirstLife => Life)

LEMMA SockInitInv == SockInit => SockInv
<1> SUFFICES ASSUME SockInit PROVE SockInv
  OBVIOUS
<1> USE SockAssumption DEF SockInit, Actors, Threads, Fds, File, Rt
<1>1. Types
  BY DEF Types, RtLabels, ThreadLabels
<1>2. Life
  BY DEF Life, Alone, Sockets, Single, Connecting, Connections
<1> QED
  BY <1>1, <1>2 DEF SockInv

(* Types are kept by each step.                                            *)
LEMMA TypesStep == Types /\ [SockNext]_sockVars => Types'
<1> SUFFICES ASSUME Types, [SockNext]_sockVars
             PROVE  Types'
  OBVIOUS
<1> USE SockAssumption
    DEF Types, RtLabels, ThreadLabels, Actors, Threads, Fds, File, Rt, GoTo, Holds
<1>1. ASSUME NEW a \in Actors, NEW l \in {"store", "connect"},
             NEW fd \in Fds, NEW f \in File, NEW d \in Fds,
             pc' = [pc EXCEPT ![a] = l], sock' = [sock EXCEPT ![a] = fd],
             files' = [files EXCEPT ![d] = f], UNCHANGED <<starts, intPar0>>
      PROVE  Types'
  BY <1>1
<1>2. ASSUME NEW a \in Actors, Socket(a) PROVE Types'
  <2>1. CASE pc' = [pc EXCEPT ![a] = "store"]
    <3>1. sock' = [sock EXCEPT ![a] = 0] /\ files' = files
      BY <1>2, <2>1 DEF Socket
    <3> QED
      BY <1>2, <2>1, <3>1 DEF Socket
  <2>2. CASE pc' = [pc EXCEPT ![a] = "connect"]
    <3>1. \E fd \in Fds : /\ sock' = [sock EXCEPT ![a] = fd]
                          /\ files' = [files EXCEPT ![fd] = "unconnected"]
      BY <1>2, <2>2 DEF Socket
    <3> QED
      BY <1>1, <1>2, <2>2, <3>1 DEF Socket
  <2> QED
    BY <1>2, <2>1, <2>2 DEF Socket
<1>3. ASSUME NEW a \in Actors, ConnectFails(a) PROVE Types'
  BY <1>3 DEF ConnectFails
<1>4. ASSUME NEW a \in Actors, Connect(a) PROVE Types'
  BY <1>4 DEF Connect
<1>5. CASE RtStore
  <2>1. PICK l \in {"none", "test"} :
          pc' = [pc EXCEPT ![Rt] = "isr", ![starts] = l]
    BY <1>5 DEF RtStore
  <2>2. sock[Rt] \in Fds
    OBVIOUS
  <2>3. intPar0' = sock[Rt] /\ UNCHANGED <<sock, starts, files>>
    BY <1>5 DEF RtStore
  <2>4. pc' \in [Actors -> RtLabels \union ThreadLabels]
    BY <2>1
  <2>5. pc'[Rt] = "isr" /\ \A t \in Threads : pc'[t] \in {pc[t], l}
    BY <2>1
  <2> QED
    BY <2>2, <2>3, <2>4, <2>5
<1>6. CASE RtSample
  BY <1>6 DEF RtSample
<1>7. CASE RtCall
  BY <1>7 DEF RtCall
<1>8. CASE RtSend
  BY <1>8 DEF RtSend
<1>9. CASE RtSendFails
  BY <1>9 DEF RtSendFails
<1>10. CASE RtEnd
  BY <1>10 DEF RtEnd
<1>11. CASE RtClose
  <2>1. files' \in [Fds -> File]
    BY <1>11 DEF RtClose
  <2> QED
    BY <1>11, <2>1 DEF RtClose
<1>12. CASE RtResume
  BY <1>12 DEF RtResume
<1>13. ASSUME NEW t \in Threads, Test(t) \/ Store(t) PROVE Types'
  <2>1. t \in Actors /\ t # Rt
    OBVIOUS
  <2>2. CASE Test(t)
    BY <2>1, <2>2 DEF Test
  <2>3. CASE Store(t)
    BY <2>1, <2>3 DEF Store
  <2> QED
    BY <1>13, <2>2, <2>3
<1>14. CASE SrvListen \/ SrvAccept \/ UNCHANGED sockVars
  BY <1>14 DEF SrvListen, SrvAccept, sockVars, clientVars
<1>15. CASE SrvRecv
  BY <1>15 DEF SrvRecv, clientVars
<1>16. CASE SrvAcceptFails \/ SrvKilled
  <2>1. files' \in [Fds -> File]
    BY <1>16 DEF SrvAcceptFails, SrvKilled, Hangup
  <2> QED
    BY <1>16, <2>1 DEF SrvAcceptFails, SrvKilled, clientVars
<1> QED
  BY <1>2, <1>3, <1>4, <1>5, <1>6, <1>7, <1>8, <1>9, <1>10, <1>11, <1>12, <1>13,
     <1>14, <1>15, <1>16
  DEF SockNext, RtInit, RtInout, Reconnect, ToConnect, Serve

(* A step of the first life.                                               *)
LEMMA LifeStep ==
  ASSUME SockInv, FirstLife, FirstLife', Types', [SockNext]_sockVars
  PROVE  Life'
<1>1. Types /\ Life
  BY DEF SockInv
<1> USE <1>1, SockAssumption
    DEF Types, Life, Actors, Threads, Fds, File, Rt, GoTo, Holds, Connecting,
        FirstLife
<1>2. ASSUME NEW a \in Actors, Socket(a) PROVE Life'
  <2>1. /\ pc' = [pc EXCEPT ![a] = pc'[a]] /\ pc[a] = "socket"
        /\ sock' = [sock EXCEPT ![a] = sock'[a]] /\ intPar0' = intPar0
    BY <1>2 DEF Socket
  <2>2. \/ pc'[a] = "store" /\ sock'[a] = 0 /\ files' = files
        \/ /\ pc'[a] = "connect" /\ files[sock'[a]] = "free"
           /\ files' = [files EXCEPT ![sock'[a]] = "unconnected"]
    BY <1>2 DEF Socket
  <2>3. Alone'
    BY <2>1, <2>2 DEF Alone
  <2>4. Connections' = Connections /\ Opened' = Opened
    BY <2>2 DEF Connections, Opened
  <2>5. Sockets'
    BY <2>1, <2>2, <2>4 DEF Sockets, Opened, Alone
  <2>6. Single'
    BY <2>1, <2>4 DEF Single
  <2> QED
    BY <2>3, <2>5, <2>6
<1>3. ASSUME NEW a \in Actors, ConnectFails(a) PROVE Life'
  <2>1. /\ pc[a] = "connect" /\ intPar0' = intPar0 /\ files' = files
        /\ pc' = [pc EXCEPT ![a] = "store"] /\ sock' = [sock EXCEPT ![a] = 0]
    BY <1>3 DEF ConnectFails
  <2>2. Connections' = Connections /\ Opened' = Opened
    BY <2>1 DEF Connections, Opened
  <2> QED
    BY <2>1, <2>2 DEF Alone, Sockets, Single
<1>4. ASSUME NEW a \in Actors, Connect(a) PROVE Life'
  <2>1. /\ pc[a] = "connect" /\ intPar0' = intPar0 /\ sock' = sock
        /\ pc' = [pc EXCEPT ![a] = "store"]
        /\ files' = [files EXCEPT ![sock[a]] = "live"]
    BY <1>4 DEF Connect
  <2>2. /\ Connections' = Connections \union {sock[a]}
        /\ Opened' = Opened \union {sock[a]}
    BY <2>1 DEF Connections, Opened
  <2>3. Alone'
    BY <2>1 DEF Alone
  <2>4. Sockets'
    BY <2>1, <2>2 DEF Sockets, Alone
  <2>5. Single'
    BY <2>1, <2>2 DEF Single
  <2> QED
    BY <2>3, <2>4, <2>5
<1>5. CASE RtStore
  <2>1. /\ pc[Rt] = "store" /\ intPar0' = sock[Rt]
        /\ UNCHANGED <<sock, files>>
        /\ pc' \in {[pc EXCEPT ![Rt] = "isr", ![1] = l] : l \in {"none", "test"}}
    BY <1>5 DEF RtStore
  <2>2. Connections' = Connections /\ Opened' = Opened
    BY <2>1 DEF Connections, Opened
  <2>3. Alone'
    BY <2>1 DEF Alone
  <2>4. Sockets'
    BY <2>1, <2>2 DEF Sockets, Alone
  <2>5. Single'
    BY <2>1, <2>2 DEF Single, Sockets, Alone, Connections
  <2> QED
    BY <2>3, <2>4, <2>5
<1>6. CASE RtSample \/ RtCall
  <2>1. /\ pc[Rt] \in {"isr", "sample"} /\ intPar0 # 0
        /\ \E l \in {"sample", "send"} : pc' = [pc EXCEPT ![Rt] = l]
        /\ sock' = [sock EXCEPT ![Rt] = intPar0]
        /\ UNCHANGED <<intPar0, files>>
    BY <1>6 DEF RtSample, RtCall, Sockets
  <2>2. Connections' = Connections /\ Opened' = Opened
    BY <2>1 DEF Connections, Opened
  <2> QED
    BY <2>1, <2>2 DEF Alone, Sockets, Single
<1>7. CASE RtSend
  <2>1. /\ pc[Rt] = "send" /\ files[sock[Rt]] = "live"
        /\ pc' = [pc EXCEPT ![Rt] = "isr"]
        /\ files' = [files EXCEPT ![sock[Rt]] = "full"]
        /\ UNCHANGED <<intPar0, sock>>
    BY <1>7 DEF RtSend
  <2>2. Connections' = Connections /\ Opened' = Opened
    BY <2>1 DEF Connections, Opened
  <2> QED
    BY <2>1, <2>2 DEF Alone, Sockets, Single
<1>8. CASE RtSendFails
  <2>1. /\ pc[Rt] = "send" /\ sock[Rt] \notin Connections /\ intPar0' = 0
        /\ pc' = [pc EXCEPT ![Rt] = "isr"]
        /\ UNCHANGED <<files, sock>>
    BY <1>8 DEF RtSendFails
  <2>2. Connections' = Connections /\ Opened' = Opened
    BY <2>1 DEF Connections, Opened
  <2> QED
    BY <2>1, <2>2 DEF Alone, Sockets, Single
<1>9. CASE RtEnd
  <2>1. /\ pc[Rt] = "isr" /\ sock' = [sock EXCEPT ![Rt] = intPar0]
        /\ pc' = [pc EXCEPT ![Rt] = IF intPar0 = 0 THEN "down" ELSE "close"]
        /\ UNCHANGED <<files, intPar0>>
    BY <1>9 DEF RtEnd
  <2>2. Connections' = Connections /\ Opened' = Opened
    BY <2>1 DEF Connections, Opened
  <2> QED
    BY <2>1, <2>2 DEF Alone, Sockets, Single
<1>10. CASE RtClose
  <2>1. /\ pc[Rt] = "close" /\ sock[Rt] = intPar0 /\ intPar0 \in Opened
        /\ pc' = [pc EXCEPT ![Rt] = "down"] /\ intPar0 # 0
        /\ UNCHANGED <<sock, intPar0>>
    BY <1>10 DEF RtClose, Sockets
  <2>2. files' = [files EXCEPT ![intPar0] = "free"]
    BY <1>10, <2>1 DEF RtClose, Opened
  <2>3. /\ Connections' = Connections \ {intPar0}
        /\ Opened' = Opened \ {intPar0}
    BY <2>1, <2>2 DEF Connections, Opened
  <2> QED
    BY <2>1, <2>2, <2>3 DEF Alone, Sockets, Single
<1>11. CASE RtResume
  BY <1>11 DEF RtResume
<1>12. ASSUME NEW t \in Threads, Test(t) PROVE Life'
  <2>1. /\ pc[t] = "test" /\ intPar0 = 0
        /\ pc' = [pc EXCEPT ![t] = "socket"]
        /\ UNCHANGED <<sock, files, intPar0>>
    BY <1>12 DEF Test
  <2>2. Connections' = Connections /\ Opened' = Opened
    BY <2>1 DEF Connections, Opened
  <2> QED
    BY <2>1, <2>2 DEF Alone, Sockets, Single
<1>13. ASSUME NEW t \in Threads, Store(t) PROVE Life'
  <2>1. /\ pc[t] = "store" /\ intPar0' = sock[t]
        /\ pc' = [pc EXCEPT ![t] = "test"]
        /\ UNCHANGED <<sock, files>>
    BY <1>13 DEF Store
  <2>2. Connections' = Connections /\ Opened' = Opened
    BY <2>1 DEF Connections, Opened
  <2>3. t = 1 /\ pc[Rt] \notin Connecting \union {"sample", "send", "close"}
    BY <2>1 DEF Alone, Sockets
  <2>4. Alone' /\ Sockets'
    BY <2>1, <2>2, <2>3 DEF Alone, Sockets
  <2>5. Single'
    BY <2>1, <2>2, <2>3 DEF Single, Sockets, Alone, Connections
  <2> QED
    BY <2>4, <2>5
<1>14. CASE SrvListen \/ SrvAccept \/ UNCHANGED sockVars
  <2>1. UNCHANGED <<pc, sock, intPar0, files>>
    BY <1>14 DEF SrvListen, SrvAccept, sockVars, clientVars
  <2>2. Connections' = Connections /\ Opened' = Opened
    BY <2>1 DEF Connections, Opened
  <2> QED
    BY <2>1, <2>2 DEF Alone, Sockets, Single
<1>15. CASE SrvRecv
  <2>1. /\ UNCHANGED <<pc, sock, intPar0>> /\ sc \in Connections
        /\ files' = [files EXCEPT ![sc] = "live"]
    BY <1>15 DEF SrvRecv, clientVars
  <2>2. Connections' = Connections /\ Opened' = Opened
    BY <2>1 DEF Connections, Opened
  <2> QED
    BY <2>1, <2>2 DEF Alone, Sockets, Single, Connections
<1>16. CASE SrvAcceptFails \/ SrvKilled
  <2>1. /\ UNCHANGED <<pc, sock, intPar0>>
        /\ files' = [fd \in Fds |-> IF fd \in Connections THEN "dead" ELSE files[fd]]
    BY <1>16 DEF SrvAcceptFails, SrvKilled, Hangup, clientVars
  <2>2. Connections' = {} /\ Opened' = Opened
    BY <2>1 DEF Connections, Opened
  <2> QED
    BY <2>1, <2>2 DEF Alone, Sockets, Single, Connections
<1> QED
  BY <1>2, <1>3, <1>4, <1>5, <1>6, <1>7, <1>8, <1>9, <1>10, <1>11, <1>12, <1>13,
     <1>14, <1>15, <1>16
  DEF SockNext, RtInit, RtInout, Reconnect, ToConnect, Serve

LEMMA SockStep == SockInv /\ [SockNext]_sockVars => SockInv'
<1> SUFFICES ASSUME SockInv, [SockNext]_sockVars PROVE SockInv'
  OBVIOUS
<1>1. Types'
  BY TypesStep DEF SockInv
<1>2. FirstLife' => FirstLife
  <2>1. starts' = starts \/ starts' = starts + 1
    BY DEF SockNext, RtInit, RtInout, Reconnect, ToConnect, Serve, Socket,
           ConnectFails, Connect, RtStore, RtSample, RtCall, RtSend, RtSendFails,
           RtEnd, RtClose, RtResume, Test, Store, SrvListen, SrvAccept, SrvRecv,
           SrvAcceptFails, SrvKilled, sockVars, clientVars
  <2>2. starts \in Nat /\ starts > 0
    BY SockAssumption DEF SockInv, Types, Threads
  <2> QED
    BY <2>1, <2>2 DEF FirstLife
<1> QED
  BY <1>1, <1>2, LifeStep DEF SockInv

(* The inductive invariant of client, threads and server.                  *)
THEOREM SockInvariance == SockSpec => []SockInv
  BY SockInitInv, SockStep, PTL DEF SockSpec

(* Until the model is resumed, send and close get a socket that the block  *)
(* has connected: nothing happens to it between inout's or end's test of   *)
(* intPar[0] and the call, although the thread may write it at any time.   *)
THEOREM SocketOwned == SockSpec => []OwnSocket
<1>1. SockInv => OwnSocket
  BY DEF SockInv, FirstLife, Life, Sockets, Opened, OwnSocket
<1> QED
  BY <1>1, SockInvariance, PTL

(* Until the model is resumed, the block never holds a second connection,  *)
(* which the server would not serve.                                       *)
THEOREM ConnectionSingle == SockSpec => []OneConnection
<1>1. SockInv => OneConnection
  <2> SUFFICES ASSUME SockInv, FirstLife, NEW c \in Connections, NEW d \in Connections
               PROVE  c = d
    BY DEF OneConnection
  <2>1. Life /\ Types /\ 0 \notin Connections
    BY DEF SockInv, Life, Sockets, Connections
  <2>2. \A a, b \in Actors : pc[a] = "store" /\ pc[b] = "store" => a = b
    BY <2>1, SockAssumption DEF Life, Alone, Connecting, Actors, Threads, Rt
  <2>3. \A a \in Actors : pc[a] = "store" => intPar0 = 0
    BY <2>1 DEF Life, Alone, Connecting
  <2> QED
    BY <2>1, <2>2, <2>3 DEF Life, Single
<1> QED
  BY <1>1, SockInvariance, PTL
-----------------------------------------------------------------------------
(* The server's side.                                                      *)

Queues ==
  /\ path \in BOOLEAN
  /\ srv \in {"down", "accept", "recv", "deaf"}
  /\ queue \in Seq(Fds \union {Closed}) /\ sc \in Fds \union {Closed}
  /\ servers \in 0..MaxServers
  /\ path => srv \in {"accept", "recv"}
  /\ srv # "recv" => sc = Closed

Known == {sc} \union {queue[k] : k \in DOMAIN queue}

ServerInv == Queues /\ Connections \subseteq Known

LEMMA NoQueue == <<>> \in Seq(Fds \union {Closed})
  OBVIOUS

LEMMA ServerStep ==
  ASSUME Types, ServerInv, [SockNext]_sockVars
  PROVE  ServerInv'
<1> USE SockAssumption DEF ServerInv
<1>1. ASSUME UNCHANGED <<path, serverVars>>, Connections' \subseteq Connections
      PROVE  ServerInv'
  BY <1>1 DEF Queues, Known, serverVars
<1>2. ASSUME NEW a \in Actors, Socket(a) PROVE ServerInv'
  <2>1. Connections' \subseteq Connections
    BY <1>2 DEF Socket, Connections, Types
  <2> QED
    BY <1>1, <1>2, <2>1 DEF Socket
<1>3. ASSUME NEW a \in Actors, Connect(a) PROVE ServerInv'
  <2>1. sock[a] \in Fds /\ files' = [files EXCEPT ![sock[a]] = "live"]
        /\ queue' = Append(queue, sock[a])
        /\ UNCHANGED <<path, srv, sc, servers>>
    BY <1>3 DEF Connect, Types
  <2>2. Queues'
    BY <2>1 DEF Queues
  <2>3. Connections' \subseteq Connections \union {sock[a]}
    BY <2>1 DEF Connections, Types
  <2>4. Known' = Known \union {sock[a]}
    <3>1. /\ DOMAIN queue' = DOMAIN queue \union {Len(queue) + 1}
          /\ \A k \in DOMAIN queue : queue'[k] = queue[k]
          /\ queue'[Len(queue) + 1] = sock[a]
      BY <2>1 DEF Queues
    <3> QED
      BY <2>1, <3>1 DEF Known
  <2> QED
    BY <2>2, <2>3, <2>4
<1>4. ASSUME NEW a \in Actors, ConnectFails(a) PROVE ServerInv'
  BY <1>1, <1>4 DEF ConnectFails, Connections
<1>5. CASE RtStore \/ RtSample \/ RtCall \/ RtSendFails \/ RtEnd \/ RtResume
           \/ UNCHANGED sockVars
  BY <1>1, <1>5 DEF RtStore, RtSample, RtCall, RtSendFails, RtEnd, RtResume,
                    Connections, sockVars
<1>6. ASSUME NEW t \in Threads, Test(t) \/ Store(t) PROVE ServerInv'
  BY <1>1, <1>6 DEF Test, Store, Connections
<1>7. CASE RtSend
  <2>1. Connections' \subseteq Connections
    BY <1>7 DEF RtSend, Connections, Types
  <2> QED
    BY <1>1, <1>7, <2>1 DEF RtSend
<1>8. CASE RtClose
  <2>1. PICK fd \in Fds :
          IF files[fd] = "free"
            THEN UNCHANGED <<files, path, queue, sc>>
            ELSE /\ files' = [files EXCEPT ![fd] = "free"]
                 /\ path' = FALSE
                 /\ queue' = [k \in DOMAIN queue |->
                                IF queue[k] = fd THEN Closed ELSE queue[k]]
                 /\ sc' = IF sc = fd THEN Closed ELSE sc
    <3>1. sock[Rt] \in Fds /\ intPar0 \in Fds
      BY DEF Types, Actors
    <3> QED
      BY <1>8, <3>1 DEF RtClose
  <2>2. UNCHANGED <<srv, servers>>
    BY <1>8 DEF RtClose
  <2>3. CASE files[fd] = "free"
    BY <1>1, <2>1, <2>2, <2>3 DEF Connections, serverVars
  <2>4. CASE files[fd] # "free"
    <3>1. queue' \in Seq(Fds \union {Closed}) /\ DOMAIN queue' = DOMAIN queue
      <4>1. DOMAIN queue = 1..Len(queue) /\ Len(queue) \in Nat
        BY DEF Queues
      <4>2. \A k \in 1..Len(queue) : queue[k] \in Fds \union {Closed}
        BY DEF Queues
      <4> QED
        BY <2>1, <2>4, <4>1, <4>2
    <3>2. Queues'
      BY <2>1, <2>2, <2>4, <3>1 DEF Queues
    <3>3. Connections' \subseteq Connections \ {fd}
      BY <2>1, <2>4 DEF Connections, Types
    <3>4. Known \ {fd} \subseteq Known'
      BY <2>1, <2>4, <3>1 DEF Known
    <3> QED
      BY <3>2, <3>3, <3>4
  <2> QED
    BY <2>3, <2>4
<1>9. CASE SrvListen
  BY <1>9 DEF SrvListen, Queues, Known, Connections
<1>10. CASE SrvAccept
  <2>1. /\ queue # <<>> /\ sc = Closed
        /\ sc' = Head(queue) /\ queue' = Tail(queue)
        /\ srv' = "recv" /\ UNCHANGED <<path, servers, files>>
    BY <1>10 DEF SrvAccept, Queues
  <2>2. Queues'
    BY <2>1 DEF Queues
  <2>3. \A k \in DOMAIN queue : k = 1 \/ (k - 1 \in DOMAIN queue'
                                        /\ queue'[k - 1] = queue[k])
    BY <2>1 DEF Queues
  <2>4. sc' = queue[1]
    BY <2>1 DEF Queues
  <2>5. Known \ {Closed} \subseteq Known'
    BY <2>1, <2>3, <2>4 DEF Known
  <2>6. Connections' = Connections /\ Closed \notin Connections
    BY <2>1 DEF Connections, Fds, Closed
  <2> QED
    BY <2>2, <2>5, <2>6
<1>11. CASE SrvRecv
  <2>1. Connections' \subseteq Connections
    BY <1>11 DEF SrvRecv, Connections, Types
  <2> QED
    BY <1>1, <1>11, <2>1 DEF SrvRecv
<1>12. CASE SrvAcceptFails \/ SrvKilled
  <2>1. Connections' = {}
    BY <1>12 DEF SrvAcceptFails, SrvKilled, Hangup, Connections, Types
  <2>2. /\ path' = FALSE /\ queue' = <<>> /\ sc' = Closed
        /\ srv' \in {"deaf", "down"} /\ servers' = servers
    BY <1>12 DEF SrvAcceptFails, SrvKilled, Hangup
  <2>3. Queues'
    BY <2>2, NoQueue DEF Queues
  <2> QED
    BY <2>1, <2>3
<1> QED
  BY <1>2, <1>3, <1>4, <1>5, <1>6, <1>7, <1>8, <1>9, <1>10, <1>11, <1>12
  DEF SockNext, RtInit, RtInout, Reconnect, ToConnect, Serve, Actors

(* At first there is no connection. *)
LEMMA ServerInit == SockInit => Types /\ ServerInv
<1> SUFFICES ASSUME SockInit PROVE Types /\ ServerInv
  OBVIOUS
<1>1. Types
  BY SockInitInv DEF SockInv
<1>2. Queues
  <2>1. servers \in 0..MaxServers
    BY SockAssumption DEF SockInit
  <2>2. /\ path = FALSE /\ srv = "down" /\ sc = Closed
        /\ queue \in Seq(Fds \union {Closed})
    BY NoQueue DEF SockInit
  <2> QED
    BY <2>1, <2>2 DEF Queues
<1>3. Connections = {}
  BY DEF SockInit, Connections
<1> QED
  BY <1>1, <1>2, <1>3 DEF ServerInv

(* In every life: each variable stays within its type, and each connection *)
(* the client has is the one the server serves or waits in its queue.      *)
THEOREM SockTypeCorrect == SockSpec => []SockTypeOK
<1>1. Types /\ ServerInv => SockTypeOK
  <2> SUFFICES ASSUME Types, ServerInv PROVE SockTypeOK
    OBVIOUS
  <2>1. \A fd \in Connections :
          fd = sc \/ \E k \in DOMAIN queue : queue[k] = fd
    BY DEF ServerInv, Known
  <2> QED
    BY <2>1 DEF Types, ServerInv, Queues, SockTypeOK, Threads
<1> QED
  BY <1>1, ServerInit, TypesStep, ServerStep, PTL DEF SockSpec

-----------------------------------------------------------------------------
(* Liveness, until the model is resumed.  As in CtrlLoopProofs, what is    *)
(* assumed is that an actor whose guard, written out, keeps holding steps  *)
(* again and again.                                                        *)

InoutCan ==
  \/ pc[Rt] = "isr" /\ intPar0 # 0
  \/ pc[Rt] = "sample"
  \/ pc[Rt] = "send" /\ files[sock[Rt]] # "full"
ThreadCan ==
  \/ pc[1] = "test" /\ intPar0 = 0
  \/ pc[1] = "connect" /\ (path => Len(queue) <= 1)
  \/ pc[1] \in {"socket", "store"}
ServeCan ==
  \/ srv = "accept" /\ queue # <<>>
  \/ srv = "recv" /\ sc \in Connections /\ files[sc] = "full"

InoutRuns == []<>~InoutCan \/ []<><<RtInout>>_sockVars
ThreadRuns == []<>~ThreadCan \/ []<><<Reconnect(1)>>_sockVars
ServeRuns == []<>~ServeCan \/ []<><<Serve>>_sockVars

(* What waits at the server, or is served, is a connection the block has.  *)
Queued ==
  /\ \A k \in DOMAIN queue : queue[k] \in Connections
  /\ IF srv = "recv" THEN sc \in Connections ELSE sc = Closed
  /\ srv \notin {"accept", "recv"} => queue = <<>>

QueueInv == FirstLife /\ pc[Rt] # "down" => Queued

LEMMA QueuedStep ==
  ASSUME Types, Queues, FirstLife, Queued, [SockNext]_sockVars,
         pc'[Rt] # "down"
  PROVE  Queued'
<1> USE SockAssumption
<1>1. ASSUME UNCHANGED serverVars, Connections \subseteq Connections'
      PROVE  Queued'
  BY <1>1 DEF Queued, serverVars
<1>2. ASSUME NEW a \in Actors, Socket(a) PROVE Queued'
  <2>1. Connections \subseteq Connections'
    BY <1>2 DEF Socket, Connections, Types
  <2> QED
    BY <1>1, <1>2, <2>1 DEF Socket
<1>3. ASSUME NEW a \in Actors, Connect(a) PROVE Queued'
  <2>1. /\ sock[a] \in Fds /\ files' = [files EXCEPT ![sock[a]] = "live"]
        /\ queue' = Append(queue, sock[a]) /\ srv \in {"accept", "recv"}
        /\ UNCHANGED <<srv, sc>>
    BY <1>3 DEF Connect, Types, Queues
  <2>2. Connections \subseteq Connections' /\ sock[a] \in Connections'
    BY <2>1 DEF Connections, Types
  <2>3. \A k \in DOMAIN queue' : queue'[k] = sock[a] \/
                                 (k \in DOMAIN queue /\ queue'[k] = queue[k])
    BY <2>1 DEF Queues
  <2> QED
    BY <2>1, <2>2, <2>3 DEF Queued
<1>4. ASSUME NEW a \in Actors, ConnectFails(a) PROVE Queued'
  BY <1>1, <1>4 DEF ConnectFails, Connections
<1>5. CASE RtStore \/ RtSample \/ RtCall \/ RtSendFails \/ RtEnd \/ RtResume
           \/ UNCHANGED sockVars
  BY <1>1, <1>5 DEF RtStore, RtSample, RtCall, RtSendFails, RtEnd, RtResume,
                    Connections, sockVars
<1>6. ASSUME NEW t \in Threads, Test(t) \/ Store(t) PROVE Queued'
  BY <1>1, <1>6 DEF Test, Store, Connections
<1>7. CASE RtSend
  <2>1. Connections \subseteq Connections'
    BY <1>7 DEF RtSend, Connections, Types
  <2> QED
    BY <1>1, <1>7, <2>1 DEF RtSend
<1>8. CASE RtClose
  BY <1>8 DEF RtClose, GoTo, Types, Actors
<1>9. CASE SrvListen
  BY <1>9 DEF SrvListen, Queued, Connections
<1>10. CASE SrvAccept
  <2>1. /\ queue # <<>> /\ sc' = queue[1] /\ queue' = Tail(queue)
        /\ srv' = "recv" /\ Connections' = Connections
    BY <1>10 DEF SrvAccept, Queues, Connections
  <2>2. 1 \in DOMAIN queue
        /\ \A k \in DOMAIN queue' : k + 1 \in DOMAIN queue
                                    /\ queue'[k] = queue[k + 1]
    BY <2>1 DEF Queues
  <2> QED
    BY <2>1, <2>2 DEF Queued
<1>11. CASE SrvRecv
  <2>1. Connections \subseteq Connections'
    BY <1>11 DEF SrvRecv, Connections, Types
  <2> QED
    BY <1>1, <1>11, <2>1 DEF SrvRecv
<1>12. CASE SrvAcceptFails \/ SrvKilled
  BY <1>12 DEF SrvAcceptFails, SrvKilled, Hangup, Queued
<1> QED
  BY <1>2, <1>3, <1>4, <1>5, <1>6, <1>7, <1>8, <1>9, <1>10, <1>11, <1>12
  DEF SockNext, RtInit, RtInout, Reconnect, ToConnect, Serve, Actors

(* Only a resume ends the first life, and only after the model was ended.  *)
LEMMA FirstLifeStep ==
  ASSUME Types, [SockNext]_sockVars
  PROVE  /\ FirstLife' => FirstLife
         /\ FirstLife /\ pc[Rt] # "down" => FirstLife'
         /\ FirstLife' /\ pc[Rt] = "down" => pc'[Rt] = "down"
<1> USE SockAssumption DEF FirstLife
<1>0. starts \in Nat \ {0}
  BY DEF Types, Threads
<1>1. CASE RtResume
  BY <1>0, <1>1 DEF RtResume
<1>2. CASE ~RtResume
  <2>1. starts' = starts
    BY <1>2
    DEF SockNext, RtInit, RtInout, Reconnect, ToConnect, Serve, Socket,
        ConnectFails, Connect, RtStore, RtSample, RtCall, RtSend, RtSendFails,
        RtEnd, RtClose, Test, Store, SrvListen, SrvAccept, SrvRecv,
        SrvAcceptFails, SrvKilled, sockVars, clientVars
  <2>2. pc[Rt] = "down" => pc'[Rt] = "down"
    <3>1. CASE RtInit \/ RtInout \/ RtEnd \/ RtClose
      BY <3>1
      DEF RtInit, ToConnect, Socket, ConnectFails, Connect, RtStore, RtInout,
          RtSample, RtCall, RtSend, RtSendFails, RtEnd, RtClose
    <3>2. ASSUME NEW t \in Threads, Reconnect(t) PROVE pc'[Rt] = pc[Rt]
      BY <3>2
      DEF Reconnect, ToConnect, Socket, ConnectFails, Connect, Test, Store,
          GoTo, Types, Threads, Actors, Rt
    <3>3. CASE SrvListen \/ Serve \/ SrvAcceptFails \/ SrvKilled
               \/ UNCHANGED sockVars
      BY <3>3
      DEF SrvListen, Serve, SrvAccept, SrvRecv, SrvAcceptFails, SrvKilled,
          sockVars, clientVars
    <3> QED
      BY <1>2, <3>1, <3>2, <3>3 DEF SockNext
  <2> QED
    BY <2>1, <2>2
<1> QED
  BY <1>1, <1>2

SockLive == SockInv /\ ServerInv /\ QueueInv

LEMMA SockLiveInvariance == SockSpec => []SockLive
<1>1. SockInit => QueueInv
  BY DEF SockInit, QueueInv, Queued
<1>2. Types /\ ServerInv /\ QueueInv /\ [SockNext]_sockVars => QueueInv'
  BY FirstLifeStep, QueuedStep DEF QueueInv, ServerInv
<1>3. SockInv => Types
  BY DEF SockInv
<1> QED
  BY <1>1, <1>2, <1>3, ServerInit, ServerStep, SockInvariance, PTL
  DEF SockSpec, SockLive

(* A sample that waits in send: where its connection is. *)
Sending == FirstLife /\ pc[Rt] = "send"
Roomy == files[sock[Rt]] = "live"
Lost == files[sock[Rt]] = "dead"
Unread == files[sock[Rt]] = "full" /\ srv = "recv" /\ sc = sock[Rt]
Unaccepted == files[sock[Rt]] = "full" /\ srv = "accept" /\ queue # <<>>

(* It is the only connection, and the thread leaves it alone. *)
LEMMA SendingAlone ==
  ASSUME SockLive, Sending
  PROVE  /\ sock[Rt] = intPar0 /\ intPar0 \in Opened /\ intPar0 # 0
         /\ \A c \in Connections : c = intPar0
         /\ \A a \in Actors : pc[a] \notin Connecting
         /\ Types /\ Queued
<1>1. Types /\ Life /\ Queued
  BY DEF SockLive, SockInv, QueueInv, Sending
<1>2. sock[Rt] = intPar0 /\ intPar0 \in Opened /\ intPar0 # 0
  BY <1>1 DEF Life, Sockets, Sending
<1>3. \A a \in Actors : pc[a] \notin Connecting
  BY <1>1, <1>2 DEF Life, Alone
<1>4. \A c \in Connections : c = intPar0
  BY <1>1, <1>3 DEF Life, Single, Connecting
<1> QED
  BY <1>1, <1>2, <1>3, <1>4

LEMMA SendCases ==
  /\ SockLive /\ Sending => Roomy \/ Lost \/ Unread \/ Unaccepted
  /\ SockLive /\ Sending /\ (Roomy \/ Lost) => InoutCan
  /\ SockLive /\ Sending /\ (Unread \/ Unaccepted) => ServeCan
<1> SUFFICES ASSUME SockLive, Sending
             PROVE  /\ Roomy \/ Lost \/ Unread \/ Unaccepted
                    /\ Roomy \/ Lost => InoutCan
                    /\ Unread \/ Unaccepted => ServeCan
  OBVIOUS
<1>1. /\ sock[Rt] = intPar0 /\ intPar0 \in Fds
      /\ files[intPar0] \in {"live", "full", "dead"}
      /\ \A c \in Connections : c = intPar0
      /\ Queued
  BY SendingAlone DEF Opened
<1>2. ASSUME files[intPar0] = "full" PROVE Unread \/ Unaccepted
  <2>1. intPar0 \in Connections /\ intPar0 # Closed
    BY <1>1, <1>2 DEF Connections, Fds, Closed
  <2>2. intPar0 = sc \/ \E k \in DOMAIN queue : queue[k] = intPar0
    BY <2>1 DEF SockLive, ServerInv, Known
  <2>3. srv \in {"accept", "recv"}
    BY <1>1, <2>1, <2>2 DEF Queued
  <2>4. CASE srv = "recv"
    BY <1>1, <1>2, <2>4 DEF Queued, Unread
  <2>5. CASE srv = "accept"
    <3>1. \E k \in DOMAIN queue : queue[k] = intPar0
      BY <1>1, <2>1, <2>2, <2>5 DEF Queued
    <3>2. queue # <<>>
      BY <3>1
    <3> QED
      BY <1>1, <1>2, <2>5, <3>2 DEF Unaccepted
  <2> QED
    BY <2>3, <2>4, <2>5
<1>3. Roomy \/ Lost \/ Unread \/ Unaccepted
  BY <1>1, <1>2 DEF Roomy, Lost
<1>4. Roomy \/ Lost => InoutCan
  BY DEF Roomy, Lost, InoutCan, Sending
<1>5. Unread => ServeCan
  BY <1>1 DEF Unread, ServeCan, Connections
<1>6. Unaccepted => ServeCan
  BY DEF Unaccepted, ServeCan
<1> QED
  BY <1>3, <1>4, <1>5, <1>6

(* While the sample waits, only the server and what kills it act, and none *)
(* of that makes the connection worse for long.                            *)
LEMMA SendSteps ==
  /\ SockLive /\ Sending /\ [SockNext]_sockVars =>
       \/ ~(pc[Rt] = "send")'
       \/ /\ Sending'
          /\ Lost => Lost'
          /\ Roomy => Roomy' \/ Lost'
          /\ Unread => Unread' \/ Roomy' \/ Lost'
          /\ Unaccepted => Unaccepted' \/ Unread' \/ Lost'
  /\ SockLive /\ Sending /\ <<RtInout>>_sockVars => ~(pc[Rt] = "send")'
  /\ SockLive /\ Sending /\ <<Serve>>_sockVars =>
       /\ Unread => Roomy'
       /\ Unaccepted => Unread'
<1>1. ASSUME SockLive, Sending
      PROVE  /\ sock[Rt] = intPar0 /\ intPar0 \in Fds /\ intPar0 # 0
             /\ \A c \in Connections : c = intPar0
             /\ \A t \in Threads : ~Reconnect(t)
             /\ ~RtInit /\ ~RtEnd /\ ~RtClose /\ ~RtResume
             /\ Types /\ Queued /\ Queues
  BY <1>1, SendingAlone
  DEF Opened, Actors, Connecting, Reconnect, ToConnect, Socket, ConnectFails,
      Connect, Test, Store, RtInit, RtStore, RtEnd, RtClose, RtResume, Sending,
      SockLive, ServerInv
<1>2. ASSUME SockLive, Sending, RtInout PROVE ~(pc[Rt] = "send")'
  BY <1>1, <1>2
  DEF RtInout, RtSample, RtCall, RtSend, RtSendFails, Sending, GoTo, Types,
      Actors
<1>3. ASSUME SockLive, Sending, Serve
      PROVE  /\ Sending'
             /\ Lost => Lost'
             /\ Roomy => Roomy'
             /\ Unread => Roomy'
             /\ Unaccepted => Unread'
  <2>1. CASE SrvAccept
    <3>1. /\ UNCHANGED <<pc, sock, starts, intPar0, files>>
          /\ srv = "accept" /\ srv' = "recv" /\ queue # <<>>
          /\ sc' = queue[1]
      BY <2>1 DEF SrvAccept, clientVars
    <3>2. queue[1] = intPar0
      BY <1>1, <1>3, <3>1 DEF Queued, Queues
    <3> QED
      BY <1>1, <1>3, <3>1, <3>2
      DEF Sending, FirstLife, Lost, Roomy, Unread, Unaccepted
  <2>2. CASE SrvRecv
    <3>1. /\ UNCHANGED <<pc, sock, starts, intPar0, srv>>
          /\ files[sc] = "full" /\ srv = "recv" /\ sc \in Fds
          /\ files' = [files EXCEPT ![sc] = "live"]
      BY <2>2 DEF SrvRecv, clientVars, serverVars, Connections
    <3> QED
      BY <1>1, <1>3, <3>1
      DEF Sending, FirstLife, Lost, Roomy, Unread, Unaccepted, Types
  <2> QED
    BY <1>3, <2>1, <2>2 DEF Serve
<1>4. ASSUME SockLive, Sending, SrvAcceptFails \/ SrvKilled
      PROVE  Sending' /\ (Lost \/ Roomy \/ Unread \/ Unaccepted => Lost')
  <2>1. /\ UNCHANGED <<pc, sock, starts, intPar0>>
        /\ files' = [fd \in Fds |-> IF fd \in Connections THEN "dead" ELSE files[fd]]
    BY <1>4 DEF SrvAcceptFails, SrvKilled, Hangup, clientVars
  <2> QED
    BY <1>1, <1>4, <2>1
    DEF Sending, FirstLife, Lost, Roomy, Unread, Unaccepted, Connections
<1>5. ASSUME SockLive, Sending, SrvListen \/ UNCHANGED sockVars
      PROVE  /\ Sending'
             /\ Lost => Lost'
             /\ Roomy => Roomy'
             /\ Unread => Unread'
             /\ Unaccepted => Unaccepted'
  BY <1>5
  DEF SrvListen, sockVars, clientVars, serverVars, Sending, FirstLife, Lost,
      Roomy, Unread, Unaccepted
<1>6. SockLive /\ Sending /\ [SockNext]_sockVars =>
        \/ RtInout \/ Serve \/ SrvAcceptFails \/ SrvKilled \/ SrvListen
        \/ UNCHANGED sockVars
  BY <1>1 DEF SockNext
<1> QED
  BY <1>2, <1>3, <1>4, <1>5, <1>6

(* Until the model is resumed, a sample never keeps the RT task, although  *)
(* send may wait: the server accepts the connection and reads, or dies.    *)
THEOREM SendsReturn ==
  SockSpec /\ InoutRuns /\ ServeRuns => SendReturns
<1>1. SockSpec /\ InoutRuns /\ ServeRuns => (Sending ~> ~(pc[Rt] = "send"))
  BY SendCases, SendSteps, SockLiveInvariance, PTL
  DEF SockSpec, InoutRuns, ServeRuns
<1>2. ~(pc[Rt] = "send") <=> pc[Rt] # "send"
  OBVIOUS
<1> QED
  BY <1>1, <1>2, PTL DEF SendReturns, Sending

-----------------------------------------------------------------------------
(* The block looks for the server, which is there. *)
Seeks ==
  /\ FirstLife /\ InUse /\ path
  /\ ~(intPar0 \in Connections) /\ ~OutOfDescriptors

(* It has at most k steps to go to its connection: the thread stores what  *)
(* an attempt at an earlier server left, the RT task finds the connection  *)
(* lost, and the thread connects again.                                    *)
LinkWithin(k) ==
  /\ pc[1] = "store" /\ sock[1] \notin Connections => k >= 8
  /\ pc[1] = "test" /\ intPar0 # 0 /\ pc[Rt] = "isr" => k >= 7
  /\ pc[1] = "test" /\ intPar0 # 0 /\ pc[Rt] = "sample" => k >= 6
  /\ pc[1] = "test" /\ intPar0 # 0 /\ pc[Rt] = "send" => k >= 5
  /\ pc[1] = "test" /\ intPar0 = 0 => k >= 4
  /\ pc[1] = "socket" => k >= 3
  /\ pc[1] = "connect" => k >= 2
  /\ pc[1] = "store" /\ sock[1] \in Connections => k >= 1

LEMMA SeeksFacts ==
  ASSUME SockLive, Seeks
  PROVE  /\ Types /\ Queues /\ Queued
         /\ pc[Rt] \in {"isr", "sample", "send"}
         /\ pc[1] \in {"test", "socket", "connect", "store"}
         /\ \A t \in Threads : t # 1 => pc[t] = "none"
         /\ pc[1] # "test" => intPar0 = 0
         /\ pc[Rt] # "isr" => intPar0 # 0 /\ sock[Rt] = intPar0
         /\ intPar0 # 0 => files[intPar0] = "dead"
         /\ pc[1] = "connect" => queue = <<>>
         /\ 0 \notin Connections
<1>1. /\ Types /\ Queues /\ Queued /\ Alone /\ Sockets /\ Single
      /\ pc[Rt] \in {"isr", "sample", "send"}
      /\ intPar0 \in Fds /\ intPar0 \notin Connections
  BY DEF SockLive, SockInv, ServerInv, QueueInv, Life, Seeks, InUse, Types
<1>2. /\ \A t \in Threads : t # 1 => pc[t] = "none"
      /\ 1 \in Threads /\ Actors = {Rt} \union Threads /\ Rt \notin Threads
  BY <1>1, SockAssumption DEF Alone, Threads, Rt, Actors
<1>3. pc[1] \in {"test", "socket", "connect", "store"}
  BY <1>1, <1>2 DEF Seeks, InUse, Types, ThreadLabels
<1>4. pc[1] # "test" => intPar0 = 0
  BY <1>1, <1>2, <1>3 DEF Alone, Connecting
<1>5. pc[Rt] # "isr" => intPar0 # 0 /\ sock[Rt] = intPar0
  BY <1>1 DEF Sockets
<1>6. intPar0 # 0 => files[intPar0] = "dead"
  BY <1>1 DEF Sockets, Opened, Connections
<1>7. 0 \notin Connections
  BY <1>1 DEF Sockets, Connections
<1>8. ASSUME pc[1] = "connect" PROVE queue = <<>>
  <2>1. \A a \in Actors : pc[a] # "store"
    BY <1>1, <1>2, <1>8
  <2>2. Connections = {}
    BY <1>1, <2>1 DEF Single
  <2>3. queue # <<>> => 1 \in DOMAIN queue
    BY <1>1 DEF Queues
  <2> QED
    BY <1>1, <2>2, <2>3 DEF Queued
<1> QED
  BY <1>1, <1>2, <1>3, <1>4, <1>5, <1>6, <1>7, <1>8

LinkStays(j) ==
  SockLive /\ Seeks /\ LinkWithin(j) /\ [SockNext]_sockVars /\ Seeks'
    => LinkWithin(j)'
ThreadNears(k, j) ==
  /\ SockLive /\ Seeks /\ LinkWithin(k) /\ <<Reconnect(1)>>_sockVars /\ Seeks'
       => LinkWithin(j)'
  /\ SockLive /\ Seeks /\ LinkWithin(k) /\ ~ThreadCan => LinkWithin(j)
InoutNears(k, j) ==
  /\ SockLive /\ Seeks /\ LinkWithin(k) /\ <<RtInout>>_sockVars /\ Seeks'
       => LinkWithin(j)'
  /\ SockLive /\ Seeks /\ LinkWithin(k) /\ ~InoutCan => LinkWithin(j)

(* Each step of the thread, and of the RT task, leads on. *)
LEMMA ThreadLinks ==
  ASSUME SockLive, Seeks, Reconnect(1), Seeks', NEW j \in 0..7,
         LinkWithin(j + 1)
  PROVE  LinkWithin(j)'
<1>0. 1 \in Actors /\ Rt \in Actors /\ Rt # 1
  BY SockAssumption DEF Actors, Threads, Rt
<1> USE <1>0, SeeksFacts
<1>1. CASE Test(1)
  <2>1. pc[1] = "test" /\ intPar0 = 0 /\ pc'[1] = "socket"
    BY <1>1 DEF Test, GoTo, Types
  <2> QED
    BY <2>1 DEF LinkWithin
<1>2. CASE Socket(1)
  <2>1. pc[1] = "socket" /\ pc'[1] = "connect"
    BY <1>2 DEF Socket, GoTo, Types, Seeks, OutOfDescriptors
  <2> QED
    BY <2>1 DEF LinkWithin
<1>3. CASE Connect(1)
  <2>1. pc[1] = "connect" /\ pc'[1] = "store" /\ sock' = sock
        /\ files' = [files EXCEPT ![sock[1]] = "live"] /\ sock[1] \in Fds
    BY <1>3 DEF Connect, GoTo, Types
  <2>2. sock'[1] \in Connections'
    BY <2>1 DEF Connections, Types
  <2> QED
    BY <2>1, <2>2 DEF LinkWithin
<1>4. CASE Store(1)
  <2>1. /\ pc[1] = "store" /\ pc'[1] = "test" /\ intPar0' = sock[1]
        /\ pc'[Rt] = pc[Rt] /\ files' = files
    BY <1>4 DEF Store, GoTo, Types
  <2>2. pc[Rt] = "isr"
    BY <2>1
  <2>3. sock[1] \notin Connections
    BY <2>1 DEF Seeks, Connections
  <2> QED
    BY <2>1, <2>2, <2>3 DEF LinkWithin
<1>5. ~ConnectFails(1)
  BY DEF ConnectFails, Seeks
<1> QED
  BY <1>1, <1>2, <1>3, <1>4, <1>5 DEF Reconnect, ToConnect

LEMMA InoutLinks ==
  ASSUME SockLive, Seeks, RtInout, Seeks', NEW j \in 0..7, LinkWithin(j + 1)
  PROVE  LinkWithin(j)'
<1>0. 1 \in Actors /\ Rt \in Actors /\ Rt # 1
  BY SockAssumption DEF Actors, Threads, Rt
<1> USE <1>0, SeeksFacts
<1>1. pc[1] = "test" /\ intPar0 # 0 /\ ~RtSend
  BY DEF RtInout, RtSample, RtCall, RtSend, RtSendFails
<1>2. /\ pc'[1] = "test"
      /\ \/ pc[Rt] = "isr" /\ pc'[Rt] = "sample"
         \/ pc[Rt] = "sample" /\ pc'[Rt] = "send"
         \/ pc[Rt] = "send" /\ intPar0' = 0
  BY <1>1 DEF RtInout, RtSample, RtCall, RtSendFails, GoTo, Types
<1> QED
  BY <1>1, <1>2 DEF LinkWithin

(* Nobody else moves the two; nothing takes a connection away as long as   *)
(* the server is there.                                                    *)
LEMMA OthersKeepLink ==
  ASSUME SockLive, Seeks, [SockNext]_sockVars, Seeks', ~RtInout, ~Reconnect(1)
  PROVE  /\ UNCHANGED <<pc, sock, intPar0>>
         /\ Connections' = Connections
<1> USE SeeksFacts
<1>1. /\ ~RtInit /\ ~RtClose /\ ~RtResume /\ ~RtEnd
      /\ ~SrvAcceptFails /\ ~SrvKilled
  <2>1. pc'[Rt] \in {"isr", "sample", "send"} /\ path'
    BY DEF Seeks, InUse
  <2>2. Rt \in Actors
    BY DEF Actors
  <2> QED
    BY <2>1, <2>2
    DEF RtInit, ToConnect, Socket, ConnectFails, Connect, RtStore, RtClose,
        RtResume, RtEnd, GoTo, Types, SrvAcceptFails, SrvKilled, Hangup
<1>2. \A t \in Threads : ~Reconnect(t)
  BY DEF Reconnect, ToConnect, Socket, ConnectFails, Connect, Test, Store
<1>3. CASE SrvListen \/ SrvAccept \/ UNCHANGED sockVars
  BY <1>3 DEF SrvListen, SrvAccept, sockVars, clientVars, Connections
<1>4. CASE SrvRecv
  BY <1>4 DEF SrvRecv, clientVars, Connections, Types
<1> QED
  BY <1>1, <1>2, <1>3, <1>4 DEF SockNext, Serve

LEMMA LinkSteps ==
  ASSUME NEW j \in 0..7
  PROVE  /\ LinkStays(j)
         /\ j \in {4, 5, 6} => InoutNears(j + 1, j)
         /\ j \notin {4, 5, 6} => ThreadNears(j + 1, j)
<1>1. LinkWithin(j) => LinkWithin(j + 1)
  BY DEF LinkWithin
<1>2. LinkStays(j)
  <2> SUFFICES ASSUME SockLive, Seeks, LinkWithin(j), [SockNext]_sockVars,
                      Seeks'
               PROVE  LinkWithin(j)'
    BY DEF LinkStays
  <2>1. CASE RtInout
    BY <1>1, <2>1, InoutLinks
  <2>2. CASE Reconnect(1)
    BY <1>1, <2>2, ThreadLinks
  <2>3. CASE ~RtInout /\ ~Reconnect(1)
    BY <2>3, OthersKeepLink DEF LinkWithin
  <2> QED
    BY <2>1, <2>2, <2>3
<1>3. ASSUME j \in {4, 5, 6} PROVE InoutNears(j + 1, j)
  <2>1. ASSUME SockLive, Seeks, LinkWithin(j + 1), ~InoutCan
        PROVE  LinkWithin(j)
    BY <1>3, <2>1, SeeksFacts DEF InoutCan, LinkWithin
  <2> QED
    BY <2>1, InoutLinks DEF InoutNears
<1>4. ASSUME j \notin {4, 5, 6} PROVE ThreadNears(j + 1, j)
  <2>1. ASSUME SockLive, Seeks, LinkWithin(j + 1), ~ThreadCan
        PROVE  LinkWithin(j)
    BY <1>4, <2>1, SeeksFacts DEF ThreadCan, LinkWithin
  <2> QED
    BY <2>1, ThreadLinks DEF ThreadNears
<1> QED
  BY <1>2, <1>3, <1>4

(* Until the model is resumed, and however often the server was killed,    *)
(* the block connects to the server that is there, as long as there is one *)
(* to find, and a descriptor that its failed attempts have left.           *)
THEOREM BlockReconnects ==
  SockSpec /\ InoutRuns /\ ThreadRuns => Reconnects
<1> DEFINE Fair == InoutRuns /\ ThreadRuns
           Start == FirstLife /\ InUse /\ path
           Goal == intPar0 \in Connections \/ ~InUse \/ ~path
                   \/ OutOfDescriptors
<1>1. /\ LinkStays(7) /\ LinkStays(6) /\ LinkStays(5) /\ LinkStays(4)
      /\ LinkStays(3) /\ LinkStays(2) /\ LinkStays(1) /\ LinkStays(0)
      /\ ThreadNears(8, 7) /\ ThreadNears(4, 3) /\ ThreadNears(3, 2)
      /\ ThreadNears(2, 1) /\ ThreadNears(1, 0)
      /\ InoutNears(7, 6) /\ InoutNears(6, 5) /\ InoutNears(5, 4)
  <2>1. \A j \in 0..7 : /\ LinkStays(j)
                        /\ j \in {4, 5, 6} => InoutNears(j + 1, j)
                        /\ j \notin {4, 5, 6} => ThreadNears(j + 1, j)
    BY LinkSteps
  <2> QED
    BY <2>1, SMT
<1>2. LinkWithin(8)
  BY DEF LinkWithin
<1>3. SockLive /\ Seeks => ~LinkWithin(0)
  <2> SUFFICES ASSUME SockLive, Seeks PROVE ~LinkWithin(0)
    OBVIOUS
  <2> QED
    BY SeeksFacts DEF LinkWithin
<1>4. Start => Seeks \/ Goal
  BY DEF Seeks
<1>5. SockLive /\ Seeks /\ [SockNext]_sockVars => Seeks' \/ Goal'
  <2> SUFFICES ASSUME SockLive, Seeks, [SockNext]_sockVars
               PROVE  Seeks' \/ Goal'
    OBVIOUS
  <2>1. FirstLife'
    BY FirstLifeStep DEF SockLive, SockInv, Seeks, InUse
  <2> QED
    BY <2>1 DEF Seeks
<1>6. Seeks => ~Goal
  BY DEF Seeks
<1> HIDE DEF Start, Goal
<1>7. SockSpec /\ Fair /\ <>[]Seeks => <>[]LinkWithin(6)
  BY <1>1, <1>2, SockLiveInvariance, PTL
  DEF SockSpec, InoutRuns, ThreadRuns, LinkStays, ThreadNears, InoutNears
<1>8. SockSpec /\ Fair /\ <>[]Seeks => <>[]LinkWithin(4)
  BY <1>1, <1>7, SockLiveInvariance, PTL
  DEF SockSpec, InoutRuns, ThreadRuns, LinkStays, ThreadNears, InoutNears
<1>9. SockSpec /\ Fair /\ <>[]Seeks => <>[]LinkWithin(2)
  BY <1>1, <1>8, SockLiveInvariance, PTL
  DEF SockSpec, InoutRuns, ThreadRuns, LinkStays, ThreadNears, InoutNears
<1>10. SockSpec /\ Fair /\ <>[]Seeks => <>[]LinkWithin(0)
  BY <1>1, <1>9, SockLiveInvariance, PTL
  DEF SockSpec, InoutRuns, ThreadRuns, LinkStays, ThreadNears, InoutNears
<1>11. SockSpec /\ Fair => (Start ~> Goal)
  BY <1>3, <1>4, <1>5, <1>10, SockLiveInvariance, PTL DEF SockSpec
<1>12. Reconnects <=> (Start ~> Goal)
  BY PTL DEF Reconnects, Start, Goal
<1> QED
  BY <1>11, <1>12, PTL
=============================================================================
