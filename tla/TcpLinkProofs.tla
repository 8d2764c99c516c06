--------------------------- MODULE TcpLinkProofs ---------------------------
(***************************************************************************)
(* Proofs about module TcpLink, for any set of descriptors and readers.    *)
(***************************************************************************)
EXTENDS TcpLink, TLAPS

-----------------------------------------------------------------------------
(* Both builds: types.                                                      *)

LEMMA InitTypeOK == Init => TypeOK
BY DEF Init, TypeOK, SockState, ConnState, RecvState

LEMMA NextTypeOK == TypeOK /\ [Next]_vars => TypeOK'
<1> SUFFICES ASSUME TypeOK, [Next]_vars PROVE TypeOK'
  OBVIOUS
<1> USE DEF TypeOK, SockState, ConnState, RecvState, Close, CreateFailed,
            conn_vars, recv_vars, fd_vars
<1>1. CASE ClearRestart       BY <1>1 DEF ClearRestart
<1>2. CASE WaitConnected      BY <1>2 DEF WaitConnected
<1>3. ASSUME NEW fd \in Fds, SocketOk(fd) PROVE TypeOK'
  BY <1>3 DEF SocketOk
<1>4. CASE SocketFail         BY <1>4 DEF SocketFail
<1>5. CASE CreateTcpServer
  <2>1. CASE BindOk           BY <2>1 DEF BindOk
  <2>2. CASE BindFail         BY <2>2 DEF BindFail
  <2>3. CASE ListenOk         BY <2>3 DEF ListenOk
  <2>4. CASE ListenFail       BY <2>4 DEF ListenFail
  <2>5. ASSUME NEW fd \in Fds, AcceptOk(fd) PROVE TypeOK'
    BY <2>5 DEF AcceptOk
  <2>6. CASE AcceptFail       BY <2>6 DEF AcceptFail
  <2> QED BY <1>5, <2>1, <2>2, <2>3, <2>4, <2>5, <2>6 DEF CreateTcpServer
<1>6. CASE ConnectOk          BY <1>6 DEF ConnectOk
<1>7. CASE ConnectFail        BY <1>7 DEF ConnectFail
<1>8. ASSUME NEW r \in Readers, SpawnOk(r) PROVE TypeOK'
  BY <1>8 DEF SpawnOk
<1>9. CASE SpawnFail          BY <1>9 DEF SpawnFail
<1>10. CASE Unflag            BY <1>10 DEF Unflag
<1>11. CASE PollRestart       BY <1>11 DEF PollRestart
<1>12. CASE DelayOver         BY <1>12 DEF DelayOver
<1>13. ASSUME NEW r \in Readers, RecvTask(r) PROVE TypeOK'
  <2>1. CASE RecvCall(r)       BY <2>1 DEF RecvCall
  <2>2. CASE RecvData(r)       BY <2>2 DEF RecvData
  <2>3. CASE RecvEnd(r)        BY <2>3 DEF RecvEnd
  <2>4. CASE ForwardAndEcho(r) BY <2>4 DEF ForwardAndEcho
  <2>5. CASE RecvFailed(r)     BY <2>5 DEF RecvFailed
  <2>6. CASE CloseSocket(r)    BY <2>6 DEF CloseSocket
  <2>7. CASE MarkRestart(r)    BY <2>7 DEF MarkRestart
  <2> QED BY <1>13, <2>1, <2>2, <2>3, <2>4, <2>5, <2>6, <2>7 DEF RecvTask
<1>14. CASE Environment
  <2>1. ASSUME NEW fd \in Fds, PeerCloses(fd) PROVE TypeOK'
    BY <2>1 DEF PeerCloses
  <2>2. CASE WifiUp            BY <2>2 DEF WifiUp
  <2>3. CASE WifiDown          BY <2>3 DEF WifiDown
  <2> QED BY <1>14, <2>1, <2>2, <2>3 DEF Environment
<1>15. CASE UNCHANGED vars     BY <1>15 DEF vars
<1> QED
  BY <1>1, <1>2, <1>3, <1>4, <1>5, <1>6, <1>7, <1>8, <1>9, <1>10, <1>11,
     <1>12, <1>13, <1>14, <1>15 DEF Next, TcpConnect

\* Every variable keeps its type, in both builds and with any assumption on
\* how fast close_socket is: in particular both descriptors are always either
\* no socket or one of lwIP's, which the other proofs rest on.
THEOREM TypeCorrect == Spec => []TypeOK
BY InitTypeOK, NextTypeOK, PTL DEF Spec

-----------------------------------------------------------------------------
(* The client build, with CleanupSettled: the inductive invariant says, for *)
(* each place tcp_connect can be in, what the flag and the sockets are, and *)
(* for each place a recv_data can be in, where tcp_connect can be.          *)

Connected == connect_socket \in Fds /\ sock[connect_socket] \in {"up", "gone"}
AllClosed == \A fd \in Fds : sock[fd] = "closed"

ClientControl ==
    /\ conn_at \notin {"bind", "listen", "accept"}
    /\ server_socket = NoFd
    /\ conn_at \in {"clear", "wait", "blocked"} => ~restarting
    /\ conn_at \in {"loop", "redelay", "unflag"} => restarting
    /\ ~restarting => ~g_rxtx_need_restart

ClientSockets ==
    /\ conn_at \in {"clear", "wait", "blocked", "socket"} => AllClosed
    /\ conn_at = "connect" =>
          connect_socket \in Fds /\ sock[connect_socket] = "fresh"
    /\ conn_at \in {"unflag", "spawn"} => Connected /\ ~served

ClientFlag ==
    /\ restarting /\ conn_at \in {"redelay", "socket", "connect", "unflag"} =>
          g_rxtx_need_restart
    /\ conn_at = "spawn" => ~g_rxtx_need_restart

ClientReaders ==
    \A r \in Alive :
        /\ conn_at \in {"loop", "redelay"}
        /\ recv_at[r] \in {"recv", "blocked", "data", "failed"} =>
              conn_at = "loop" /\ ~g_rxtx_need_restart /\ Connected
        /\ recv_at[r] \in {"blocked", "data", "failed", "closing"} =>
              recv_fd[r] = connect_socket
        /\ recv_at[r] = "closing" => g_rxtx_need_restart /\ Connected
        /\ recv_at[r] = "marking" => g_rxtx_need_restart /\ AllClosed

ClientIdle ==
    Alive = {} =>
        /\ conn_at = "redelay" => AllClosed
        /\ conn_at = "loop" /\ g_rxtx_need_restart => AllClosed
        /\ conn_at = "loop" /\ ~g_rxtx_need_restart => ~served

ClientInv ==
    /\ TypeOK
    /\ ClientControl
    /\ ClientSockets
    /\ ClientFlag
    /\ ClientReaders
    /\ ClientIdle
    /\ OneReader
    /\ NoSocketLeak

ClientAssumption == Server = FALSE /\ SlowCleanup = FALSE

LEMMA ClientInit == ClientAssumption /\ Init => ClientInv
BY InitTypeOK, TcpLinkAssumption
   DEF ClientAssumption, ClientInv, Init, ClientControl, ClientSockets, ClientFlag,
       ClientReaders, ClientIdle, OneReader, NoSocketLeak, Alive, AllClosed, Connected

LEMMA ClientNext ==
    ClientAssumption /\ ClientInv /\ [Next]_vars => ClientInv'
<1> SUFFICES ASSUME Server = FALSE, SlowCleanup = FALSE, ClientInv, [Next]_vars
             PROVE  ClientInv'
  BY DEF ClientAssumption
<1>0. TypeOK'
  BY NextTypeOK DEF ClientInv
<1> USE <1>0, TcpLinkAssumption
<1> USE DEF ClientInv, TypeOK, SockState, ConnState, RecvState, ClientControl,
            ClientSockets, ClientFlag, ClientReaders, ClientIdle, OneReader,
            NoSocketLeak, Alive, AllClosed, Connected, Close, CreateFailed,
            conn_vars, recv_vars, fd_vars
<1>1. CASE ClearRestart       BY <1>1 DEF ClearRestart
<1>2. CASE WaitConnected      BY <1>2 DEF WaitConnected
<1>3. ASSUME NEW fd \in Fds, SocketOk(fd) PROVE ClientInv'
  BY <1>3 DEF SocketOk
<1>4. CASE SocketFail         BY <1>4 DEF SocketFail
<1>5. CASE CreateTcpServer
  BY <1>5 DEF CreateTcpServer, BindOk, BindFail, ListenOk, ListenFail, AcceptOk, AcceptFail
<1>6. CASE ConnectOk          BY <1>6 DEF ConnectOk
<1>7. CASE ConnectFail        BY <1>7 DEF ConnectFail
<1>8. ASSUME NEW r \in Readers, SpawnOk(r) PROVE ClientInv'
  BY <1>8 DEF SpawnOk
<1>9. CASE SpawnFail          BY <1>9 DEF SpawnFail
<1>10. CASE Unflag            BY <1>10 DEF Unflag
<1>11. CASE PollRestart       BY <1>11 DEF PollRestart
<1>12. CASE DelayOver         BY <1>12 DEF DelayOver, CleanupSettled
<1>13. ASSUME NEW r \in Readers, RecvTask(r) PROVE ClientInv'
  <2>1. CASE RecvCall(r)       BY <2>1 DEF RecvCall
  <2>2. CASE RecvData(r)       BY <2>2 DEF RecvData
  <2>3. CASE RecvEnd(r)        BY <2>3 DEF RecvEnd
  <2>4. CASE ForwardAndEcho(r) BY <2>4 DEF ForwardAndEcho
  <2>5. CASE RecvFailed(r)     BY <2>5 DEF RecvFailed
  <2>6. CASE CloseSocket(r)    BY <2>6 DEF CloseSocket
  <2>7. CASE MarkRestart(r)    BY <2>7 DEF MarkRestart
  <2> QED BY <1>13, <2>1, <2>2, <2>3, <2>4, <2>5, <2>6, <2>7 DEF RecvTask
<1>14. CASE Environment
  <2>1. ASSUME NEW fd \in Fds, PeerCloses(fd) PROVE ClientInv'
    BY <2>1 DEF PeerCloses
  <2>2. CASE WifiUp            BY <2>2 DEF WifiUp
  <2>3. CASE WifiDown          BY <2>3 DEF WifiDown
  <2> QED BY <1>14, <2>1, <2>2, <2>3 DEF Environment
<1>15. CASE UNCHANGED vars     BY <1>15 DEF vars
<1> QED
  BY <1>1, <1>2, <1>3, <1>4, <1>5, <1>6, <1>7, <1>8, <1>9, <1>10, <1>11,
     <1>12, <1>13, <1>14, <1>15 DEF Next, TcpConnect

LEMMA ClientInvariant == ASSUME ClientAssumption PROVE Spec => []ClientInv
<1>1. Init => ClientInv
  BY ClientInit
<1>2. ClientInv /\ [Next]_vars => ClientInv'
  BY ClientNext
<1> QED BY <1>1, <1>2, PTL DEF Spec

\* Client build: at no time do two recv_data tasks exist, whatever lwIP, the
\* peer, WiFi and xTaskCreate do.
THEOREM ClientOneReader == ASSUME ClientAssumption PROVE Spec => []OneReader
<1>1. ClientInv => OneReader  BY DEF ClientInv
<1> QED BY <1>1, ClientInvariant, PTL

\* Client build: recv_data only ever reads from, echoes to and closes the
\* connection it was created for, although it finds it through a global.
THEOREM ClientReaderOwnsSocket == ASSUME ClientAssumption PROVE Spec => []ReaderOwnsSocket
<1>1. ClientInv => ReaderOwnsSocket
  BY DEF ClientInv, ClientReaders, ReaderOwnsSocket, Alive, Connected, IsOpen, TypeOK
<1> QED BY <1>1, ClientInvariant, PTL

\* Client build: whatever fails and however often, at most one descriptor is
\* open, the one in connect_socket.
THEOREM ClientNoSocketLeak == ASSUME ClientAssumption PROVE Spec => []NoSocketLeak
<1>1. ClientInv => NoSocketLeak  BY DEF ClientInv
<1> QED BY <1>1, ClientInvariant, PTL

\* Client build: a served connection that has ended is always followed by a
\* raised flag when tcp_connect comes to poll it.
THEOREM ClientNoLostRestart == ASSUME ClientAssumption PROVE Spec => []NoLostRestart
<1>1. ClientInv => NoLostRestart
  BY DEF ClientInv, ClientIdle, NoLostRestart
<1> QED BY <1>1, ClientInvariant, PTL

-----------------------------------------------------------------------------
(* The client build implements the session cycle.  Liveness is left to TLC. *)

LEMMA ClientSessionInit == Init => Session!Init
BY TcpLinkAssumption DEF Init, SessionPhase, Session!Init

LEMMA ClientSessionStep ==
    ClientAssumption /\ ClientInv /\ ClientInv' /\ [Next]_vars =>
        [Session!Next]_SessionPhase
<1> SUFFICES ASSUME Server = FALSE, SlowCleanup = FALSE, ClientInv, ClientInv',
                    [Next]_vars
             PROVE  [Session!Next]_SessionPhase
  BY DEF ClientAssumption
<1> USE TcpLinkAssumption
<1> USE DEF ClientInv, TypeOK, SockState, ConnState, RecvState, ClientControl,
            ClientSockets, ClientFlag, ClientReaders, ClientIdle, OneReader,
            NoSocketLeak, Alive, AllClosed, Connected, Close, CreateFailed,
            conn_vars, recv_vars, fd_vars, SessionPhase, Session!Next,
            Session!Open, Session!Serve, Session!End, Session!Shut
<1>1. CASE ClearRestart       BY <1>1 DEF ClearRestart
<1>2. CASE WaitConnected      BY <1>2 DEF WaitConnected
<1>3. ASSUME NEW fd \in Fds, SocketOk(fd) PROVE UNCHANGED SessionPhase
  BY <1>3 DEF SocketOk
<1>4. CASE SocketFail         BY <1>4 DEF SocketFail
<1>5. CASE CreateTcpServer
  BY <1>5 DEF CreateTcpServer, BindOk, BindFail, ListenOk, ListenFail, AcceptOk, AcceptFail
<1>6. CASE ConnectOk          BY <1>6 DEF ConnectOk
<1>7. CASE ConnectFail        BY <1>7 DEF ConnectFail
<1>8. ASSUME NEW r \in Readers, SpawnOk(r) PROVE Session!Serve
  BY <1>8 DEF SpawnOk
<1>9. CASE SpawnFail          BY <1>9 DEF SpawnFail
<1>10. CASE Unflag            BY <1>10 DEF Unflag
<1>11. CASE PollRestart       BY <1>11 DEF PollRestart
<1>12. CASE DelayOver         BY <1>12 DEF DelayOver
<1>13. ASSUME NEW r \in Readers, RecvTask(r) PROVE [Session!Next]_SessionPhase
  <2>1. CASE RecvCall(r)       BY <2>1 DEF RecvCall
  <2>2. CASE RecvData(r)       BY <2>2 DEF RecvData
  <2>3. CASE RecvEnd(r)        BY <2>3 DEF RecvEnd
  <2>4. CASE ForwardAndEcho(r) BY <2>4 DEF ForwardAndEcho
  <2>5. CASE RecvFailed(r)     BY <2>5 DEF RecvFailed
  <2>6. CASE CloseSocket(r)    BY <2>6 DEF CloseSocket
  <2>7. CASE MarkRestart(r)    BY <2>7 DEF MarkRestart
  <2> QED BY <1>13, <2>1, <2>2, <2>3, <2>4, <2>5, <2>6, <2>7 DEF RecvTask
<1>14. CASE Environment
  <2>1. ASSUME NEW fd \in Fds, PeerCloses(fd) PROVE UNCHANGED SessionPhase
    BY <2>1 DEF PeerCloses
  <2>2. CASE WifiUp            BY <2>2 DEF WifiUp
  <2>3. CASE WifiDown          BY <2>3 DEF WifiDown
  <2> QED BY <1>14, <2>1, <2>2, <2>3 DEF Environment
<1>15. CASE UNCHANGED vars     BY <1>15 DEF vars
<1> QED
  BY <1>1, <1>2, <1>3, <1>4, <1>5, <1>6, <1>7, <1>8, <1>9, <1>10, <1>11,
     <1>12, <1>13, <1>14, <1>15 DEF Next, TcpConnect

\* Client build: the shared globals and the two tasks implement TcpSession:
\* no connection is opened before the previous one has been closed.
THEOREM ClientImplementsSession == ASSUME ClientAssumption PROVE Spec => Session!SafeSpec
<1>1. Init => Session!Init
  BY ClientSessionInit
<1>2. ClientInv /\ ClientInv' /\ [Next]_vars => [Session!Next]_SessionPhase
  BY ClientSessionStep
<1>3. Spec => []ClientInv
  BY ClientInvariant
<1> QED BY <1>1, <1>2, <1>3, PTL DEF Spec, Session!SafeSpec

-----------------------------------------------------------------------------
(* The server build.                                                        *)

ServerControl ==
    /\ conn_at \notin {"connect", "redelay"}
    /\ conn_at \in {"clear", "wait", "blocked", "socket", "bind"} => ~restarting
    /\ conn_at \in {"loop", "unflag"} => restarting
    /\ ~restarting => ~g_rxtx_need_restart
    /\ conn_at = "spawn" => Connected
    /\ conn_at = "bind" => server_socket \in Fds

ServerReaders ==
    \A r \in Alive :
        /\ conn_at = "unflag" \/ (conn_at = "loop" /\ ~g_rxtx_need_restart)
        /\ recv_at[r] \in {"recv", "blocked", "data", "failed"}
        /\ recv_at[r] # "recv" => recv_fd[r] = connect_socket
        /\ Connected

ServerInv == TypeOK /\ ServerControl /\ ServerReaders /\ OneReader

LEMMA ServerNext == Server /\ ServerInv /\ [Next]_vars => ServerInv'
<1> SUFFICES ASSUME Server, Server = TRUE, ServerInv, [Next]_vars PROVE ServerInv'
  BY TcpLinkAssumption
<1>0. TypeOK'
  BY NextTypeOK DEF ServerInv
<1> USE <1>0, TcpLinkAssumption
<1> USE DEF ServerInv, TypeOK, SockState, ConnState, RecvState, ServerControl,
            ServerReaders, OneReader, Alive, Connected, Close, CreateFailed,
            conn_vars, recv_vars, fd_vars
<1>1. CASE ClearRestart       BY <1>1 DEF ClearRestart
<1>2. CASE WaitConnected      BY <1>2 DEF WaitConnected
<1>3. ASSUME NEW fd \in Fds, SocketOk(fd) PROVE ServerInv'
  BY <1>3 DEF SocketOk
<1>4. CASE SocketFail         BY <1>4 DEF SocketFail
<1>5. CASE CreateTcpServer
  <2>1. CASE BindOk           BY <2>1 DEF BindOk
  <2>2. CASE BindFail         BY <2>2 DEF BindFail
  <2>3. CASE ListenOk         BY <2>3 DEF ListenOk
  <2>4. CASE ListenFail       BY <2>4 DEF ListenFail
  <2>5. ASSUME NEW fd \in Fds, AcceptOk(fd) PROVE ServerInv'
    BY <2>5 DEF AcceptOk
  <2>6. CASE AcceptFail       BY <2>6 DEF AcceptFail
  <2> QED BY <1>5, <2>1, <2>2, <2>3, <2>4, <2>5, <2>6 DEF CreateTcpServer
<1>6. CASE ConnectOk \/ ConnectFail
  BY <1>6 DEF ConnectOk, ConnectFail
<1>8. ASSUME NEW r \in Readers, SpawnOk(r) PROVE ServerInv'
  BY <1>8 DEF SpawnOk
<1>9. CASE SpawnFail          BY <1>9 DEF SpawnFail
<1>10. CASE Unflag            BY <1>10 DEF Unflag
<1>11. CASE PollRestart       BY <1>11 DEF PollRestart
<1>12. CASE DelayOver         BY <1>12 DEF DelayOver
<1>13. ASSUME NEW r \in Readers, RecvTask(r) PROVE ServerInv'
  <2>1. CASE RecvCall(r)       BY <2>1 DEF RecvCall
  <2>2. CASE RecvData(r)       BY <2>2 DEF RecvData
  <2>3. CASE RecvEnd(r)        BY <2>3 DEF RecvEnd
  <2>4. CASE ForwardAndEcho(r) BY <2>4 DEF ForwardAndEcho
  <2>5. CASE RecvFailed(r)     BY <2>5 DEF RecvFailed
  <2>6. CASE CloseSocket(r) \/ MarkRestart(r)
    BY <2>6 DEF CloseSocket, MarkRestart
  <2> QED BY <1>13, <2>1, <2>2, <2>3, <2>4, <2>5, <2>6 DEF RecvTask
<1>14. CASE Environment
  <2>1. ASSUME NEW fd \in Fds, PeerCloses(fd) PROVE ServerInv'
    BY <2>1 DEF PeerCloses
  <2>2. CASE WifiUp            BY <2>2 DEF WifiUp
  <2>3. CASE WifiDown          BY <2>3 DEF WifiDown
  <2> QED BY <1>14, <2>1, <2>2, <2>3 DEF Environment
<1>15. CASE UNCHANGED vars     BY <1>15 DEF vars
<1> QED
  BY <1>1, <1>2, <1>3, <1>4, <1>5, <1>6, <1>8, <1>9, <1>10, <1>11,
     <1>12, <1>13, <1>14, <1>15 DEF Next, TcpConnect

LEMMA ServerInvariant == ASSUME Server PROVE Spec => []ServerInv
<1>1. Init => ServerInv
  BY InitTypeOK DEF Init, ServerInv, ServerControl, ServerReaders, OneReader, Alive
<1>2. ServerInv /\ [Next]_vars => ServerInv'
  BY ServerNext
<1> QED BY <1>1, <1>2, PTL DEF Spec

\* Server build: although a lost restart can leave no reader at all, there are
\* never two, even when xTaskCreate or accept() fail on the way.
THEOREM ServerOneReader == ASSUME Server PROVE Spec => []OneReader
<1>1. ServerInv => OneReader  BY DEF ServerInv
<1> QED BY <1>1, ServerInvariant, PTL

\* Server build: accept() overwrites connect_socket, but never under a
\* recv_data that is using it.
THEOREM ServerReaderOwnsSocket == ASSUME Server PROVE Spec => []ReaderOwnsSocket
<1>1. ServerInv => ReaderOwnsSocket
  BY DEF ServerInv, ServerReaders, ReaderOwnsSocket, Alive, Connected, IsOpen, TypeOK
<1> QED BY <1>1, ServerInvariant, PTL
=============================================================================
