------------------------------ MODULE TcpLink ------------------------------
(***************************************************************************)
(* The TCP link of components/hans_tcp/bsp_tcp.c: the task tcp_connect     *)
(* opens a connection and starts a task recv_data that serves it; when     *)
(* recv_data sees the connection end it raises g_rxtx_need_restart, and    *)
(* tcp_connect polls that flag and opens the next connection.              *)
(*                                                                         *)
(* The tasks share three unprotected globals: server_socket,               *)
(* connect_socket and g_rxtx_need_restart.  Every read or write of one of  *)
(* them that another task can observe is a step of its own, as are the     *)
(* calls that can block.  TCP_SERVER_CLIENT_OPTION chooses the build, so   *)
(* one module describes both.                                              *)
(*                                                                         *)
(* Abstracted: addresses, the bytes of a message (module Pipeline follows  *)
(* messages), log output, and the length of a vTaskDelay, which is only    *)
(* the freedom of the other tasks to run.                                  *)
(***************************************************************************)
EXTENDS FiniteSets

CONSTANTS
    Server,      \* TCP_SERVER_CLIENT_OPTION: TRUE for the server build
    Fds,         \* the socket descriptors of lwIP (CONFIG_LWIP_MAX_SOCKETS)
    NoFd,        \* the initial 0 and the -1 of a call that failed: no socket
    Readers,     \* identities for the instances of the task recv_data
    SlowCleanup  \* may recv_data still be inside close_socket when the delay
                 \* of tcp_connect that follows its restart request ends?

ASSUME TcpLinkAssumption ==
    /\ Server \in BOOLEAN
    /\ SlowCleanup \in BOOLEAN
    /\ NoFd \notin Fds

VARIABLES
    sock,                 \* the state of each lwIP socket
    server_socket,        \* the listening descriptor (server build)
    connect_socket,       \* the descriptor of the current connection
    g_rxtx_need_restart,  \* "the connection ended, open another"
    wifi_connected,       \* WIFI_CONNECTED_BIT of bsp_wifi_event_group
    conn_at,              \* where the task tcp_connect is
    restarting,           \* tcp_connect has reached its inner loop
    recv_at,              \* where each recv_data is; "none": no such task
    recv_fd,              \* the descriptor its recv call was made on
    served                \* history: connect_socket's connection got a recv_data

conn_vars == <<conn_at, restarting, served>>
recv_vars == <<recv_at, recv_fd>>
fd_vars   == <<sock, server_socket, connect_socket>>
vars == <<fd_vars, g_rxtx_need_restart, wifi_connected, conn_vars, recv_vars>>

SockState == {"closed", "fresh", "bound", "listening", "up", "gone"}
ConnState == {"clear", "wait", "blocked", "socket", "bind", "listen", "accept",
              "connect", "unflag", "spawn", "loop", "redelay"}
RecvState == {"none", "recv", "blocked", "data", "failed", "closing", "marking"}

TypeOK ==
    /\ sock \in [Fds -> SockState]
    /\ server_socket \in Fds \cup {NoFd}
    /\ connect_socket \in Fds \cup {NoFd}
    /\ g_rxtx_need_restart \in BOOLEAN
    /\ wifi_connected \in BOOLEAN
    /\ conn_at \in ConnState
    /\ restarting \in BOOLEAN
    /\ recv_at \in [Readers -> RecvState]
    /\ recv_fd \in [Readers -> Fds \cup {NoFd}]
    /\ served \in BOOLEAN

Init ==
    /\ sock = [fd \in Fds |-> "closed"]
    /\ server_socket = NoFd
    /\ connect_socket = NoFd
    /\ g_rxtx_need_restart = FALSE
    /\ wifi_connected = FALSE
    /\ conn_at = "clear"
    /\ restarting = FALSE
    /\ recv_at = [r \in Readers |-> "none"]
    /\ recv_fd = [r \in Readers |-> NoFd]
    /\ served = FALSE

-----------------------------------------------------------------------------
(* Sockets.  close() of a descriptor that is not open only returns an error. *)

IsOpen(fd) == fd \in Fds /\ sock[fd] # "closed"

Close(closed) == sock' = [fd \in Fds |-> IF fd \in closed THEN "closed" ELSE sock[fd]]

-----------------------------------------------------------------------------
(* Deliberate faults: each is an operator below with one plausible bug, and *)
(* some property of the runs is there to notice it.  No specification uses  *)
(* them.                                                                    *)

\* A failed retry goes back to the outer loop and waits for WiFi again.
CreateFailedForgetsRestart == conn_at' = "clear"

\* The second delay of a restart is dropped.
CleanupNotAwaited == TRUE

\* The error code of socket() is stored as if it were a descriptor.
SocketFailKeepsErrorCode ==
    /\ conn_at = "socket"
    /\ connect_socket' = "ESP_FAIL"
    /\ conn_at' = IF restarting THEN "loop" ELSE "clear"
    /\ UNCHANGED <<sock, server_socket, g_rxtx_need_restart, wifi_connected,
                   restarting, served, recv_vars>>

\* The flag is cleared when the new socket exists, not when it is connected.
SocketOkClearsFlag(fd) ==
    /\ conn_at = "socket"
    /\ sock[fd] = "closed"
    /\ sock' = [sock EXCEPT ![fd] = "fresh"]
    /\ connect_socket' = fd
    /\ conn_at' = "connect"
    /\ g_rxtx_need_restart' = FALSE
    /\ UNCHANGED <<server_socket, wifi_connected, restarting, served, recv_vars>>

\* bind() failed and the socket stays open.
BindFailLeavesOpen ==
    /\ conn_at = "bind"
    /\ conn_at' = IF restarting THEN "loop" ELSE "clear"
    /\ UNCHANGED <<fd_vars, g_rxtx_need_restart, wifi_connected, restarting,
                   served, recv_vars>>

\* connect() failed and the socket stays open (before Ver0.0.12 of the file).
ConnectFailLeavesOpen ==
    /\ conn_at = "connect"
    /\ conn_at' = IF restarting THEN "loop" ELSE "clear"
    /\ UNCHANGED <<fd_vars, g_rxtx_need_restart, wifi_connected, restarting,
                   served, recv_vars>>

\* The inner loop reconnects on every poll, whatever the flag says.
PollIgnoresFlag ==
    /\ conn_at = "loop"
    /\ conn_at' = IF Server THEN "listen" ELSE "redelay"
    /\ UNCHANGED <<fd_vars, g_rxtx_need_restart, wifi_connected, restarting,
                   served, recv_vars>>

\* recv_data reports the error and goes on receiving.
RecvFailedGoesOn(r) ==
    /\ recv_at[r] = "failed"
    /\ g_rxtx_need_restart' = TRUE
    /\ recv_at' = [recv_at EXCEPT ![r] = "recv"]
    /\ UNCHANGED <<fd_vars, wifi_connected, conn_vars, recv_fd>>

\* close_socket closes the listening socket only.
CloseServerOnly(r) ==
    /\ recv_at[r] = "closing"
    /\ Close({server_socket})
    /\ recv_at' = [recv_at EXCEPT ![r] = "marking"]
    /\ UNCHANGED <<server_socket, connect_socket, g_rxtx_need_restart,
                   wifi_connected, conn_vars, recv_fd>>

-----------------------------------------------------------------------------
\* A failed create returns to the head of the loop it was called from.
CreateFailed == conn_at' = IF restarting THEN "loop" ELSE "clear"

\* The delay that a restart request still has to sit out covers recv_data's
\* close_socket call, unless close() is slower than three seconds.
CleanupSettled ==
    SlowCleanup \/ \A r \in Readers : recv_at[r] \notin {"closing", "marking"}

-----------------------------------------------------------------------------
(* The task tcp_connect.                                                    *)

ClearRestart ==
    /\ conn_at = "clear"
    /\ g_rxtx_need_restart' = FALSE
    /\ conn_at' = "wait"
    /\ UNCHANGED <<fd_vars, wifi_connected, restarting, served, recv_vars>>

\* xEventGroupWaitBits on WIFI_CONNECTED_BIT, bit not cleared, no timeout.
WaitConnected ==
    /\ conn_at = "wait"
    /\ conn_at' = IF wifi_connected THEN "socket" ELSE "blocked"
    /\ UNCHANGED <<fd_vars, g_rxtx_need_restart, wifi_connected, restarting, served, recv_vars>>

SocketOk(fd) ==
    /\ conn_at = "socket"
    /\ sock[fd] = "closed"
    /\ sock' = [sock EXCEPT ![fd] = "fresh"]
    /\ IF Server
       THEN server_socket' = fd /\ conn_at' = "bind" /\ UNCHANGED connect_socket
       ELSE connect_socket' = fd /\ conn_at' = "connect" /\ UNCHANGED server_socket
    /\ UNCHANGED <<g_rxtx_need_restart, wifi_connected, restarting, served, recv_vars>>

\* socket() fails when no descriptor is free or memory is short.
SocketFail ==
    /\ conn_at = "socket"
    /\ IF Server
       THEN server_socket' = NoFd /\ UNCHANGED connect_socket
       ELSE connect_socket' = NoFd /\ UNCHANGED server_socket
    /\ CreateFailed
    /\ UNCHANGED <<sock, g_rxtx_need_restart, wifi_connected, restarting, served, recv_vars>>

BindOk ==
    /\ conn_at = "bind"
    /\ sock' = [sock EXCEPT ![server_socket] = "bound"]
    /\ conn_at' = "listen"
    /\ UNCHANGED <<server_socket, connect_socket, g_rxtx_need_restart,
                   wifi_connected, restarting, served, recv_vars>>

BindFail ==
    /\ conn_at = "bind"
    /\ Close({server_socket})
    /\ CreateFailed
    /\ UNCHANGED <<server_socket, connect_socket, g_rxtx_need_restart,
                   wifi_connected, restarting, served, recv_vars>>

\* On a restart create_tcp_server(FALSE) comes straight here.
ListenOk ==
    /\ conn_at = "listen"
    /\ IsOpen(server_socket)
    /\ sock' = [sock EXCEPT ![server_socket] = "listening"]
    /\ conn_at' = "accept"
    /\ UNCHANGED <<server_socket, connect_socket, g_rxtx_need_restart,
                   wifi_connected, restarting, served, recv_vars>>

ListenFail ==
    /\ conn_at = "listen"
    /\ Close({server_socket})
    /\ CreateFailed
    /\ UNCHANGED <<server_socket, connect_socket, g_rxtx_need_restart,
                   wifi_connected, restarting, served, recv_vars>>

\* accept() overwrites connect_socket whatever it held.
AcceptOk(fd) ==
    /\ conn_at = "accept"
    /\ sock[fd] = "closed"
    /\ sock' = [sock EXCEPT ![fd] = "up"]
    /\ connect_socket' = fd
    /\ served' = FALSE
    /\ conn_at' = "spawn"
    /\ UNCHANGED <<server_socket, g_rxtx_need_restart, wifi_connected,
                   restarting, recv_vars>>

\* accept() fails when no descriptor is free for the new connection.
AcceptFail ==
    /\ conn_at = "accept"
    /\ connect_socket' = NoFd
    /\ Close({server_socket})
    /\ CreateFailed
    /\ UNCHANGED <<server_socket, g_rxtx_need_restart, wifi_connected,
                   restarting, served, recv_vars>>

\* On a restart the flag is cleared before recv_data is created.
ConnectOk ==
    /\ conn_at = "connect"
    /\ IsOpen(connect_socket)
    /\ sock' = [sock EXCEPT ![connect_socket] = "up"]
    /\ served' = FALSE
    /\ conn_at' = IF restarting THEN "unflag" ELSE "spawn"
    /\ UNCHANGED <<server_socket, connect_socket, g_rxtx_need_restart,
                   wifi_connected, restarting, recv_vars>>

ConnectFail ==
    /\ conn_at = "connect"
    /\ Close({connect_socket})
    /\ CreateFailed
    /\ UNCHANGED <<server_socket, connect_socket, g_rxtx_need_restart,
                   wifi_connected, restarting, served, recv_vars>>

SpawnOk(r) ==
    /\ conn_at = "spawn"
    /\ recv_at[r] = "none"
    /\ recv_at' = [recv_at EXCEPT ![r] = "recv"]
    /\ conn_at' = IF Server /\ restarting THEN "unflag" ELSE "loop"
    /\ restarting' = TRUE
    /\ served' = TRUE
    /\ UNCHANGED <<fd_vars, g_rxtx_need_restart, wifi_connected, recv_fd>>

\* xTaskCreate failed: the code logs it and goes on polling the flag.
SpawnFail ==
    /\ conn_at = "spawn"
    /\ conn_at' = "loop"
    /\ restarting' = TRUE
    /\ UNCHANGED <<fd_vars, g_rxtx_need_restart, wifi_connected, served, recv_vars>>

\* The server build gets here after creating recv_data, the client before.
Unflag ==
    /\ conn_at = "unflag"
    /\ g_rxtx_need_restart' = FALSE
    /\ conn_at' = IF Server THEN "loop" ELSE "spawn"
    /\ UNCHANGED <<fd_vars, wifi_connected, restarting, served, recv_vars>>

PollRestart ==
    /\ conn_at = "loop"
    /\ g_rxtx_need_restart
    /\ conn_at' = IF Server THEN "listen" ELSE "redelay"
    /\ UNCHANGED <<fd_vars, g_rxtx_need_restart, wifi_connected, restarting, served, recv_vars>>

DelayOver ==
    /\ conn_at = "redelay"
    /\ CleanupSettled
    /\ conn_at' = "socket"
    /\ UNCHANGED <<fd_vars, g_rxtx_need_restart, wifi_connected, restarting, served, recv_vars>>

CreateTcpServer ==
    \/ BindOk \/ BindFail \/ ListenOk \/ ListenFail
    \/ \E fd \in Fds : AcceptOk(fd)
    \/ AcceptFail

TcpConnect ==
    \/ ClearRestart \/ WaitConnected
    \/ \E fd \in Fds : SocketOk(fd)
    \/ SocketFail
    \/ CreateTcpServer
    \/ ConnectOk \/ ConnectFail
    \/ \E r \in Readers : SpawnOk(r)
    \/ SpawnFail \/ Unflag \/ PollRestart \/ DelayOver

-----------------------------------------------------------------------------
(* The task recv_data.                                                      *)

\* recv() is called on whatever connect_socket holds at that moment.
RecvCall(r) ==
    /\ recv_at[r] = "recv"
    /\ recv_fd' = [recv_fd EXCEPT ![r] = connect_socket]
    /\ recv_at' = [recv_at EXCEPT ![r] = "blocked"]
    /\ UNCHANGED <<fd_vars, g_rxtx_need_restart, wifi_connected, conn_vars>>

\* Every return of recv() clears the restart flag before it is looked at.
RecvData(r) ==
    /\ recv_at[r] = "blocked"
    /\ recv_fd[r] \in Fds
    /\ sock[recv_fd[r]] = "up"
    /\ g_rxtx_need_restart' = FALSE
    /\ recv_at' = [recv_at EXCEPT ![r] = "data"]
    /\ UNCHANGED <<fd_vars, wifi_connected, conn_vars, recv_fd>>

RecvEnd(r) ==
    /\ recv_at[r] = "blocked"
    /\ recv_fd[r] \in Fds => sock[recv_fd[r]] # "up"
    /\ g_rxtx_need_restart' = FALSE
    /\ recv_at' = [recv_at EXCEPT ![r] = "failed"]
    /\ UNCHANGED <<fd_vars, wifi_connected, conn_vars, recv_fd>>

\* The message goes to bsp_tcp_recive_xQueue, without waiting, and is echoed
\* on connect_socket, which is read again; neither result is acted upon.
ForwardAndEcho(r) ==
    /\ recv_at[r] = "data"
    /\ recv_at' = [recv_at EXCEPT ![r] = "recv"]
    /\ UNCHANGED <<fd_vars, g_rxtx_need_restart, wifi_connected, conn_vars, recv_fd>>

\* The server build ends the task here and leaves connect_socket open.
RecvFailed(r) ==
    /\ recv_at[r] = "failed"
    /\ g_rxtx_need_restart' = TRUE
    /\ recv_at' = [recv_at EXCEPT ![r] = IF Server THEN "none" ELSE "closing"]
    /\ UNCHANGED <<fd_vars, wifi_connected, conn_vars, recv_fd>>

CloseSocket(r) ==
    /\ recv_at[r] = "closing"
    /\ Close({connect_socket, server_socket})
    /\ recv_at' = [recv_at EXCEPT ![r] = "marking"]
    /\ UNCHANGED <<server_socket, connect_socket, g_rxtx_need_restart,
                   wifi_connected, conn_vars, recv_fd>>

MarkRestart(r) ==
    /\ recv_at[r] = "marking"
    /\ g_rxtx_need_restart' = TRUE
    /\ recv_at' = [recv_at EXCEPT ![r] = "none"]
    /\ UNCHANGED <<fd_vars, wifi_connected, conn_vars, recv_fd>>

RecvTask(r) ==
    \/ RecvCall(r) \/ RecvData(r) \/ RecvEnd(r) \/ ForwardAndEcho(r)
    \/ RecvFailed(r) \/ CloseSocket(r) \/ MarkRestart(r)

-----------------------------------------------------------------------------
(* The world outside: the peer ends or resets a connection; the event      *)
(* handler of bsp_wifi.c sets and clears the bit, and setting it wakes the *)
(* task blocked on it.                                                     *)

PeerCloses(fd) ==
    /\ sock[fd] = "up"
    /\ sock' = [sock EXCEPT ![fd] = "gone"]
    /\ UNCHANGED <<server_socket, connect_socket, g_rxtx_need_restart,
                   wifi_connected, conn_vars, recv_vars>>

WifiUp ==
    /\ ~wifi_connected
    /\ wifi_connected' = TRUE
    /\ conn_at' = IF conn_at = "blocked" THEN "socket" ELSE conn_at
    /\ UNCHANGED <<fd_vars, g_rxtx_need_restart, restarting, served, recv_vars>>

WifiDown ==
    /\ wifi_connected
    /\ wifi_connected' = FALSE
    /\ UNCHANGED <<fd_vars, g_rxtx_need_restart, conn_vars, recv_vars>>

Environment == (\E fd \in Fds : PeerCloses(fd)) \/ WifiUp \/ WifiDown

Next == TcpConnect \/ (\E r \in Readers : RecvTask(r)) \/ Environment

Spec == Init /\ [][Next]_vars

(***************************************************************************)
(* Fairness.  FreeRTOS schedules every ready task (two cores, and the      *)
(* tasks here block or delay in every loop), so each step of a task that   *)
(* does not depend on the outside is weakly fair, including the return of  *)
(* recv() on a connection that has ended.  That a call to lwIP which can   *)
(* fail does not fail for ever is the assumption under which the retry     *)
(* loops are worth anything: strong fairness of its success.               *)
(***************************************************************************)
TaskFairness ==
    /\ WF_vars(ClearRestart) /\ WF_vars(WaitConnected) /\ WF_vars(Unflag)
    /\ WF_vars(PollRestart) /\ WF_vars(DelayOver)
    /\ WF_vars(SpawnFail \/ \E r \in Readers : SpawnOk(r))
    /\ WF_vars(SocketFail \/ \E fd \in Fds : SocketOk(fd))
    /\ WF_vars(BindOk \/ BindFail) /\ WF_vars(ListenOk \/ ListenFail)
    /\ WF_vars(ConnectOk \/ ConnectFail)
    /\ \A r \in Readers :
          /\ WF_vars(RecvCall(r)) /\ WF_vars(RecvEnd(r)) /\ WF_vars(ForwardAndEcho(r))
          /\ WF_vars(RecvFailed(r)) /\ WF_vars(CloseSocket(r)) /\ WF_vars(MarkRestart(r))

NetworkFairness ==
    /\ SF_vars(\E fd \in Fds : SocketOk(fd))
    /\ SF_vars(BindOk) /\ SF_vars(ListenOk) /\ SF_vars(ConnectOk)

FairSpec == Spec /\ TaskFairness /\ NetworkFairness

-----------------------------------------------------------------------------
(* Properties.                                                              *)

Alive == {r \in Readers : recv_at[r] # "none"}

\* There is never a second recv_data.  connect_socket is one global: two
\* tasks would read each other's connection, and each would raise a restart.
OneReader == \A r, s \in Alive : r = s

\* From the call of recv() until it has closed the connection, recv_data's
\* descriptor is still the one in connect_socket, and still open: it never
\* echoes to, reports on or closes a connection it did not read from.
ReaderOwnsSocket ==
    \A r \in Readers :
        recv_at[r] \in {"blocked", "data", "failed", "closing"} =>
            /\ recv_fd[r] = connect_socket
            /\ IsOpen(connect_socket)
            /\ sock[connect_socket] \in {"up", "gone"}

\* Client build: every open socket is the one connect_socket names, so no
\* number of failed connects or ended connections uses up the descriptors.
NoSocketLeak == \A fd \in Fds : sock[fd] # "closed" => fd = connect_socket

\* A restart request is not lost: when tcp_connect polls and no recv_data is
\* left to raise the flag, the flag is up, unless xTaskCreate failed and the
\* connection never had a recv_data that could have asked for anything.
NoLostRestart ==
    conn_at = "loop" /\ Alive = {} /\ ~g_rxtx_need_restart => ~served

\* Client build: once recv_data has seen its connection end, tcp_connect gets
\* a new one, however many sockets and connects fail in between.
RestartServed == (\E r \in Readers : recv_at[r] = "failed") ~> conn_at = "spawn"

\* Client build: the tasks, descriptors and the flag together go round the
\* cycle of TcpSession, one session at a time.
SessionPhase ==
    IF \E r \in Readers : recv_at[r] \in {"recv", "blocked", "data", "failed"}
    THEN "served"
    ELSE IF \E r \in Readers : recv_at[r] = "closing"
    THEN "ending"
    ELSE IF connect_socket \in Fds /\ sock[connect_socket] \in {"up", "gone"}
    THEN "open"
    ELSE "idle"

Session == INSTANCE TcpSession WITH phase <- SessionPhase

SessionSpec == Session!Spec

\* Server build: if WiFi keeps coming up, the server reaches accept(), however
\* many of the calls before it fail: no failed attempt costs a descriptor.
ListenerStarts == ([]<>wifi_connected) => <>(conn_at = "accept")

\* Comment on the failure paths of create_tcp_server: the socket is closed
\* "and waits to be created again".  When listen() is called there is one.
ListenerRecreated == conn_at = "listen" => IsOpen(server_socket)
=============================================================================
