------------------------------- MODULE UdpLink ------------------------------
(***************************************************************************)
(* The UDP client of components/hans_udp/bsp_udp.c.  The task udp_connect  *)
(* waits once for the connection bit, opens a socket, greets the server    *)
(* and leaves a task recv_data behind that echoes every datagram to its    *)
(* sender.  Unlike hans_tcp nothing is ever opened again.                  *)
(*                                                                         *)
(* An address is "server", the one in the build's settings, or "other".    *)
(***************************************************************************)
EXTENDS Naturals

VARIABLES
    udp_bit,      \* WIFI_CONNECTED_BIT
    udp_at,       \* udp_connect: wait, blocked, socket, greet, spawn, over
    udp_sock,     \* what connect_socket names: none, open or closed
    client_addr,  \* one global for the greeting, the sender and the echo
    udp_recv_at,  \* recv_data: none, recv, echo, close, over
    udp_sender,   \* who sent the datagram that recv_data holds
    udp_unread,   \* history: recv_data could not be created
    udp_closes,   \* history: how often the open socket was closed
    udp_misled    \* history: a datagram was echoed to somebody else

udp_link_vars == <<udp_bit, udp_at, udp_sock, client_addr, udp_recv_at, udp_sender,
                   udp_unread, udp_closes, udp_misled>>

UdpTypeOK ==
    /\ udp_bit \in BOOLEAN
    /\ udp_at \in {"wait", "blocked", "socket", "greet", "spawn", "over"}
    /\ udp_sock \in {"none", "open", "closed"}
    /\ client_addr \in {"none", "server", "other"}
    /\ udp_recv_at \in {"none", "recv", "echo", "close", "over"}
    /\ udp_sender \in {"none", "server", "other"}
    /\ udp_closes \in 0..2
    /\ {udp_unread, udp_misled} \subseteq BOOLEAN

UdpInit ==
    /\ udp_bit = FALSE /\ udp_at = "wait" /\ udp_sock = "none"
    /\ client_addr = "none" /\ udp_recv_at = "none" /\ udp_sender = "none"
    /\ udp_unread = FALSE /\ udp_closes = 0 /\ udp_misled = FALSE

CloseUdp ==
    /\ udp_sock' = IF udp_sock = "open" THEN "closed" ELSE udp_sock
    /\ udp_closes' = IF udp_sock = "none" THEN 0 ELSE udp_closes + 1

-----------------------------------------------------------------------------
(* udp_connect and create_udp_client.                                       *)

\* The wait for the bit, and three seconds.
UdpWait ==
    /\ udp_at = "wait"
    /\ udp_at' = IF udp_bit THEN "socket" ELSE "blocked"
    /\ UNCHANGED <<udp_bit, udp_sock, client_addr, udp_recv_at, udp_sender, udp_unread,
                   udp_closes, udp_misled>>

\* socket(); without one the task ends.
UdpSocket ==
    /\ udp_at = "socket"
    /\ \/ udp_at' = "greet" /\ udp_sock' = "open" /\ client_addr' = "server"
       \/ udp_at' = "over" /\ UNCHANGED <<udp_sock, client_addr>>
    /\ UNCHANGED <<udp_bit, udp_recv_at, udp_sender, udp_unread, udp_closes, udp_misled>>

\* sendto(); if it fails, the socket is closed and the task ends.
UdpGreet ==
    /\ udp_at = "greet"
    /\ \/ udp_at' = "spawn" /\ UNCHANGED <<udp_sock, udp_closes>>
       \/ udp_at' = "over" /\ CloseUdp
    /\ UNCHANGED <<udp_bit, client_addr, udp_recv_at, udp_sender, udp_unread, udp_misled>>

\* recv_data is created, or not; the task ends either way.
UdpSpawn ==
    /\ udp_at = "spawn"
    /\ udp_at' = "over"
    /\ \/ udp_recv_at' = "recv" /\ UNCHANGED udp_unread
       \/ udp_unread' = TRUE /\ UNCHANGED udp_recv_at
    /\ UNCHANGED <<udp_bit, udp_sock, client_addr, udp_sender, udp_closes, udp_misled>>

UdpConnect == UdpWait \/ UdpSocket \/ UdpGreet \/ UdpSpawn

-----------------------------------------------------------------------------
(* recv_data.                                                               *)

\* recvfrom() returns a datagram and its sender, or an error or nothing.
UdpReceive ==
    /\ udp_recv_at = "recv"
    /\ \/ /\ udp_recv_at' = "echo"
          /\ udp_sender' \in {"server", "other"}
          /\ client_addr' = udp_sender'
       \/ udp_recv_at' = "close" /\ UNCHANGED <<udp_sender, client_addr>>
    /\ UNCHANGED <<udp_bit, udp_at, udp_sock, udp_unread, udp_closes, udp_misled>>

UdpEcho ==
    /\ udp_recv_at = "echo"
    /\ udp_recv_at' = "recv"
    /\ udp_misled' = (udp_misled \/ client_addr # udp_sender)
    /\ UNCHANGED <<udp_bit, udp_at, udp_sock, client_addr, udp_sender, udp_unread, udp_closes>>

\* close_socket and the end of the task.
UdpRecvOver ==
    /\ udp_recv_at = "close"
    /\ udp_recv_at' = "over"
    /\ CloseUdp
    /\ UNCHANGED <<udp_bit, udp_at, client_addr, udp_sender, udp_unread, udp_misled>>

UdpRecvData == UdpReceive \/ UdpEcho \/ UdpRecvOver

-----------------------------------------------------------------------------
\* The event handler sets or clears the bit; setting it wakes udp_connect.
UdpBit(set) ==
    /\ udp_bit' = set
    /\ udp_at' = IF set /\ udp_at = "blocked" THEN "socket" ELSE udp_at
    /\ UNCHANGED <<udp_sock, client_addr, udp_recv_at, udp_sender, udp_unread, udp_closes,
                   udp_misled>>

-----------------------------------------------------------------------------
\* The socket is open only while one of the two tasks is there to close it -
\* unless recv_data could not be created - and is closed once, however the
\* link ends; and a datagram is echoed to the one who sent it, although the
\* address is the global that the greeting was sent to.
UdpSocketOwned ==
    /\ udp_sock = "open" /\ ~udp_unread =>
            udp_at \in {"greet", "spawn"} \/ udp_recv_at \in {"recv", "echo", "close"}
    /\ udp_recv_at \in {"recv", "echo", "close"} => udp_sock = "open"
    /\ udp_closes <= 1
    /\ ~udp_misled
=============================================================================
