------------------------------ MODULE TcpLesson -----------------------------
(***************************************************************************)
(* hx-tcp, built as a server: the lesson that hans_tcp was made from.  Its *)
(* tasks are those of module TcpLink, line for line but for the queue that *)
(* hans_tcp added.  The event handler is its own: a station that leaves    *)
(* the soft AP not only clears the bit, but asks for a restart as well,    *)
(* whether or not the connection was that station's.                       *)
(***************************************************************************)
EXTENDS Naturals

CONSTANTS Server, Fds, NoFd, Readers, SlowCleanup, \* as in TcpLink
          MaxStations                              \* SOFT_AP_MAX_CONNECT

ASSUME TcpLessonAssumption ==
    /\ Server = TRUE
    /\ NoFd \notin Fds
    /\ MaxStations \in Nat \ {0}

VARIABLES
    tl_sock, tl_server_socket, tl_connect_socket, tl_restart, tl_bit,
    tl_conn_at, tl_restarting, tl_recv_at, tl_recv_fd, tl_served,
    tl_stations, \* stations in the soft AP
    tl_asked,    \* history: one of them left since the flag was last down
    tl_under     \* history: a restart began under a live recv_data

Link == INSTANCE TcpLink WITH
    sock <- tl_sock, server_socket <- tl_server_socket,
    connect_socket <- tl_connect_socket, g_rxtx_need_restart <- tl_restart,
    wifi_connected <- tl_bit, conn_at <- tl_conn_at, restarting <- tl_restarting,
    recv_at <- tl_recv_at, recv_fd <- tl_recv_fd, served <- tl_served

tl_link_vars == <<tl_sock, tl_server_socket, tl_connect_socket, tl_restart, tl_bit,
                  tl_conn_at, tl_restarting, tl_recv_at, tl_recv_fd, tl_served>>
tcp_lesson_vars == <<tl_link_vars, tl_stations, tl_asked, tl_under>>

TcpLessonTypeOK ==
    /\ Link!TypeOK
    /\ tl_stations \in 0..MaxStations
    /\ {tl_asked, tl_under} \subseteq BOOLEAN

TcpLessonInit == Link!Init /\ tl_stations = 0 /\ tl_asked = FALSE /\ tl_under = FALSE

\* create_tcp_server.
LessonCreateTcpServer == Link!CreateTcpServer

\* tcp_connect.
LessonTcpConnect ==
    /\ \/ LessonCreateTcpServer
       \/ Link!ClearRestart \/ Link!WaitConnected
       \/ Link!SocketFail \/ \E fd \in Fds : Link!SocketOk(fd)
       \/ Link!SpawnFail \/ \E r \in Readers : Link!SpawnOk(r)
       \/ Link!Unflag \/ Link!PollRestart
    /\ tl_asked' = (tl_asked /\ tl_restart')
    /\ tl_under' = (tl_under \/ (tl_conn_at = "loop" /\ Link!Alive # {}))
    /\ UNCHANGED tl_stations

\* recv_data, and the peer that ends its connection.
LessonTcpRecvData ==
    /\ \/ \E r \in Readers : Link!RecvTask(r)
       \/ \E fd \in Fds : Link!PeerCloses(fd)
    /\ tl_asked' = (tl_asked /\ tl_restart')
    /\ UNCHANGED <<tl_stations, tl_under>>

\* Deliberate fault: a station that joins asks for a restart as well.
JoinAsksRestart ==
    /\ tl_stations < MaxStations
    /\ tl_stations' = tl_stations + 1
    /\ tl_bit' = TRUE /\ tl_restart' = TRUE
    /\ tl_conn_at' = IF tl_conn_at = "blocked" THEN "socket" ELSE tl_conn_at
    /\ UNCHANGED <<tl_sock, tl_server_socket, tl_connect_socket, tl_restarting, tl_recv_at,
                   tl_recv_fd, tl_served, tl_asked, tl_under>>

\* event_handler: AP_STACONNECTED.
StationJoins ==
    /\ tl_stations < MaxStations
    /\ tl_stations' = tl_stations + 1
    /\ tl_bit' = TRUE
    /\ tl_conn_at' = IF tl_conn_at = "blocked" THEN "socket" ELSE tl_conn_at
    /\ UNCHANGED <<tl_sock, tl_server_socket, tl_connect_socket, tl_restart, tl_restarting,
                   tl_recv_at, tl_recv_fd, tl_served, tl_asked, tl_under>>

\* event_handler: AP_STADISCONNECTED.
StationLeaves ==
    /\ tl_stations > 0
    /\ tl_stations' = tl_stations - 1
    /\ tl_bit' = FALSE /\ tl_restart' = TRUE
    /\ tl_asked' = TRUE
    /\ UNCHANGED <<tl_sock, tl_server_socket, tl_connect_socket, tl_conn_at, tl_restarting,
                   tl_recv_at, tl_recv_fd, tl_served, tl_under>>

\* Nothing is said of what follows a restart under a live connection.
TcpLessonNext ==
    /\ ~tl_under
    /\ LessonTcpConnect \/ LessonTcpRecvData \/ StationJoins \/ StationLeaves

\* Only a station that leaves makes tcp_connect restart under a recv_data that
\* is still there, whose connection the restart does not end.  Before that, two
\* readers never share connect_socket, and each reads and echoes on the one
\* connection it has.
LessonReaders ==
    /\ tl_conn_at = "loop" /\ tl_restart /\ Link!Alive # {} => tl_asked
    /\ ~tl_under => Link!OneReader /\ Link!ReaderOwnsSocket
=============================================================================
