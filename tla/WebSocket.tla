------------------------------ MODULE WebSocket -----------------------------
(***************************************************************************)
(* hx-ws: a WebSocket server (WebSocket_Task.c) and the task that carries  *)
(* out its frames (main.c).  The server task serves one connection after   *)
(* the other and hands the payload of every text frame to the consumer by  *)
(* a queue; the consumer frees it, after it may have echoed it to whatever *)
(* connection WS_conn is then.                                             *)
(*                                                                         *)
(* Connections are numbered.  A payload is heap of its own when the frame  *)
(* was masked, and a piece of the receive buffer when it was not; of its   *)
(* text only counts whether it is a command (ON, OFF).                     *)
(***************************************************************************)
EXTENDS Naturals, Sequences

CONSTANTS
    WsQueueLen,  \* length of WebSocket_rx_queue (10 in the code)
    MaxWsConns,  \* bound: connections accepted
    MaxWsFrames  \* bound: text or other data frames of one connection

ASSUME WebSocketAssumption ==
    WsQueueLen \in Nat \ {0} /\ MaxWsConns \in Nat /\ MaxWsFrames \in Nat

WsFrame == [conn : 1..MaxWsConns, command : BOOLEAN, masked : BOOLEAN]

VARIABLES
    ws_at,       \* ws_server: accept, hello, frames, close, delete
    ws_no,       \* the connection served last
    ws_frames,   \* data frames received on it
    WS_conn,     \* the connection for echoes, 0 for NULL
    ws_queue,    \* WebSocket_rx_queue
    rx_at,       \* the consumer: start, recv, check, load, write, free
    rx_frame,    \* the frame it holds: a sequence of none or one
    rx_conn,     \* the connection that netconn_write was called with
    rx_header,   \* the connection that got the header of this echo, or 0
    payloads,    \* heap: payloads allocated and not freed
    digests,     \* heap: the buffers for the handshake, per connection
    netbufs,     \* receive buffers that were not deleted
    ws_dropped,  \* history: payloads of frames that were not queued
    ws_refused,  \* history: connections that ended before their handshake
    ws_greeted,  \* history: connections whose handshake was received
    ws_unmasked, \* history: a text frame was not masked, or no memory left
    ws_raced,    \* history: a connection ended during an echo
    bad_free,    \* history: memory freed that is not allocated
    bad_echo     \* history: an echo on a deleted connection, or on two

ws_serve_vars == <<ws_at, ws_no, ws_frames, WS_conn>>
ws_rx_vars == <<rx_at, rx_frame, rx_conn, rx_header>>
ws_heap_vars == <<payloads, digests, netbufs>>
ws_note_vars == <<ws_dropped, ws_refused, ws_greeted, ws_unmasked>>
ws_bad_vars == <<ws_raced, bad_free, bad_echo>>
ws_vars == <<ws_serve_vars, ws_queue, ws_rx_vars, ws_heap_vars, ws_note_vars, ws_bad_vars>>

WebSocketTypeOK ==
    /\ ws_at \in {"accept", "hello", "frames", "close", "delete"}
    /\ ws_no \in 0..MaxWsConns /\ WS_conn \in 0..MaxWsConns
    /\ ws_frames \in 0..MaxWsFrames
    /\ ws_queue \in Seq(WsFrame) /\ Len(ws_queue) <= WsQueueLen
    /\ rx_at \in {"start", "recv", "check", "load", "write", "free"}
    /\ rx_frame \in Seq(WsFrame) /\ Len(rx_frame) <= 1
    /\ {rx_conn, rx_header} \subseteq 0..MaxWsConns
    /\ {payloads, digests, netbufs, ws_dropped, ws_refused, ws_greeted} \subseteq Nat
    /\ {ws_unmasked, ws_raced, bad_free, bad_echo} \subseteq BOOLEAN

WebSocketInit ==
    /\ ws_at = "accept" /\ ws_no = 0 /\ ws_frames = 0 /\ WS_conn = 0
    /\ ws_queue = <<>>
    /\ rx_at = "start" /\ rx_frame = <<>> /\ rx_conn = 0 /\ rx_header = 0
    /\ payloads = 0 /\ digests = 0 /\ netbufs = 0
    /\ ws_dropped = 0 /\ ws_refused = 0 /\ ws_greeted = 0 /\ ws_unmasked = FALSE
    /\ ws_raced = FALSE /\ bad_free = FALSE /\ bad_echo = FALSE

WsLive(c) == c = ws_no /\ ws_at # "accept"

-----------------------------------------------------------------------------
(* ws_server and ws_server_netconn_serve.                                   *)

\* A connection is accepted and the buffers for the handshake are allocated.
\* Without them the function deletes a receive buffer that was never set.
WsAccept ==
    /\ ws_at = "accept" /\ ws_no < MaxWsConns
    /\ ws_no' = ws_no + 1
    /\ ws_frames' = 0
    /\ \/ /\ ws_at' = "hello" /\ digests' = digests + 1
          /\ UNCHANGED <<ws_refused, ws_unmasked, bad_free>>
       \/ /\ ws_at' = "close" /\ ws_refused' = ws_refused + 1
          /\ ws_unmasked' = TRUE /\ bad_free' = TRUE
          /\ UNCHANGED digests
    /\ UNCHANGED <<WS_conn, ws_queue, ws_rx_vars, payloads, netbufs, ws_dropped, ws_greeted,
                   ws_raced, bad_echo>>

\* The handshake: nothing received; no key in it; or a key, and the reply is
\* sent.  Only a key frees the buffers, and the receive buffer of the
\* handshake is forgotten when the next one is received.
WsHello ==
    /\ ws_at = "hello"
    /\ \/ /\ ws_at' = "close"
          /\ ws_refused' = ws_refused + 1
          /\ UNCHANGED <<WS_conn, digests, netbufs, ws_greeted>>
       \/ /\ ws_at' = "frames"
          /\ WS_conn' = ws_no
          /\ digests' = digests - 1
          /\ netbufs' = netbufs + 1
          /\ ws_greeted' = ws_greeted + 1
          /\ UNCHANGED ws_refused
    /\ UNCHANGED <<ws_no, ws_frames, ws_queue, ws_rx_vars, payloads, ws_dropped, ws_unmasked,
                   ws_bad_vars>>

\* Deliberate fault: the server frees the payload as well when it is queued.
WsFrameFreed(masked, text, command) ==
    /\ ws_frames' = ws_frames + 1
    /\ ws_unmasked' = (ws_unmasked \/ (text /\ ~masked))
    /\ LET queued == text /\ Len(ws_queue) < WsQueueLen /\ rx_at # "start"
       IN  /\ ws_queue' = IF queued
                          THEN Append(ws_queue, [conn |-> ws_no, command |-> command,
                                                 masked |-> masked])
                          ELSE ws_queue
           /\ UNCHANGED <<payloads, ws_dropped>>

\* A data frame that is not too long.  Its payload is copied if it is masked;
\* a text frame is queued if there is room; nobody frees the payload of any
\* other.
WsData(masked, text, command) ==
    /\ ws_frames' = ws_frames + 1
    /\ ws_unmasked' = (ws_unmasked \/ (text /\ ~masked))
    /\ LET queued == text /\ Len(ws_queue) < WsQueueLen /\ rx_at # "start"
       IN  /\ ws_queue' = IF queued
                          THEN Append(ws_queue, [conn |-> ws_no, command |-> command,
                                                 masked |-> masked])
                          ELSE ws_queue
           /\ payloads' = IF masked THEN payloads + 1 ELSE payloads
           /\ ws_dropped' = IF masked /\ ~queued THEN ws_dropped + 1 ELSE ws_dropped

\* A frame that is too long, or for which there is no memory, is passed over.
WsReceive ==
    /\ ws_at = "frames" /\ ws_frames < MaxWsFrames
    /\ \/ \E masked, text, command \in BOOLEAN : WsData(masked, text, command)
       \/ /\ ws_frames' = ws_frames + 1
          /\ UNCHANGED <<ws_queue, payloads, ws_dropped, ws_unmasked>>
    /\ UNCHANGED <<ws_at, ws_no, WS_conn, ws_rx_vars, digests, netbufs, ws_refused, ws_greeted,
                   ws_bad_vars>>

\* A close frame, or the end of the connection.
WsEnd ==
    /\ ws_at = "frames"
    /\ ws_at' = "close"
    /\ ws_raced' = (ws_raced \/ rx_at \in {"load", "write"})
    /\ UNCHANGED <<ws_no, ws_frames, WS_conn, ws_queue, ws_rx_vars, ws_heap_vars, ws_note_vars,
                   bad_free, bad_echo>>

WsClose ==
    /\ ws_at = "close"
    /\ ws_at' = "delete"
    /\ WS_conn' = 0
    /\ ws_raced' = (ws_raced \/ rx_at \in {"load", "write"})
    /\ UNCHANGED <<ws_no, ws_frames, ws_queue, ws_rx_vars, ws_heap_vars, ws_note_vars,
                   bad_free, bad_echo>>

WsDelete ==
    /\ ws_at = "delete"
    /\ ws_at' = "accept"
    /\ ws_raced' = (ws_raced \/ rx_at \in {"load", "write"})
    /\ UNCHANGED <<ws_no, ws_frames, WS_conn, ws_queue, ws_rx_vars, ws_heap_vars, ws_note_vars,
                   bad_free, bad_echo>>

-----------------------------------------------------------------------------
(* task_process_WebSocket and WS_write_data.                                *)

RxTo(place) ==
    /\ rx_at' = place
    /\ UNCHANGED <<ws_serve_vars, ws_heap_vars, ws_note_vars>>

\* The consumer makes the queue.
RxStart ==
    /\ rx_at = "start"
    /\ RxTo("recv")
    /\ UNCHANGED <<ws_queue, rx_frame, rx_conn, rx_header, ws_bad_vars>>

\* A command switches the lamp; anything else is echoed.
RxReceive ==
    /\ rx_at = "recv" /\ ws_queue # <<>>
    /\ rx_frame' = <<Head(ws_queue)>>
    /\ ws_queue' = Tail(ws_queue)
    /\ RxTo(IF Head(ws_queue).command THEN "free" ELSE "check")
    /\ UNCHANGED <<rx_conn, rx_header, ws_bad_vars>>

\* Deliberate fault: the pointer is not checked again for this echo.
RxNoCheck ==
    /\ rx_at = "check"
    /\ RxTo("load")
    /\ UNCHANGED <<ws_queue, rx_frame, rx_conn, rx_header, ws_bad_vars>>

\* WS_write_data looks whether there is a connection ...
RxCheck ==
    /\ rx_at = "check"
    /\ RxTo(IF WS_conn = 0 THEN "free" ELSE "load")
    /\ UNCHANGED <<ws_queue, rx_frame, rx_conn, rx_header, ws_bad_vars>>

\* ... and reads it again for each of its two writes,
RxLoad ==
    /\ rx_at = "load"
    /\ rx_conn' = WS_conn
    /\ RxTo("write")
    /\ UNCHANGED <<ws_queue, rx_frame, rx_header, ws_bad_vars>>

\* the header and the payload.  A write that fails ends the echo.
RxWrite ==
    /\ rx_at = "write"
    /\ bad_echo' = (bad_echo \/ ~WsLive(rx_conn) \/ rx_header \notin {0, rx_conn})
    /\ \/ rx_header = 0 /\ rx_header' = rx_conn /\ RxTo("load")
       \/ rx_header' = 0 /\ RxTo("free")
    /\ rx_conn' = 0
    /\ UNCHANGED <<ws_queue, rx_frame, ws_raced, bad_free>>

\* The payload is freed, whatever it is.
RxFree ==
    /\ rx_at = "free"
    /\ rx_at' = "recv"
    /\ rx_frame' = <<>>
    /\ payloads' = IF rx_frame[1].masked THEN payloads - 1 ELSE payloads
    /\ bad_free' = (bad_free \/ ~rx_frame[1].masked \/ payloads = 0)
    /\ UNCHANGED <<ws_serve_vars, ws_queue, rx_conn, rx_header, digests, netbufs, ws_note_vars,
                   ws_raced, bad_echo>>

WebSocketNext ==
    /\ ~bad_free /\ ~bad_echo    \* nothing is said of what follows
    /\ \/ WsAccept \/ WsHello \/ WsReceive \/ WsEnd \/ WsClose \/ WsDelete
       \/ RxStart \/ RxReceive \/ RxCheck \/ RxLoad \/ RxWrite \/ RxFree

-----------------------------------------------------------------------------
(* Properties.                                                              *)

\* Every payload has one owner: the server, the queue or the consumer; it is
\* freed once, and lost only with a frame that is not text or did not fit the
\* queue - as long as the client masks its frames and there is memory.  The
\* buffers of a handshake are lost with every connection that sends none.
PayloadsOwned ==
    ~ws_unmasked =>
        /\ ~bad_free
        /\ payloads = Len(ws_queue) + Len(rx_frame) + ws_dropped
        /\ digests = ws_refused + (IF ws_at = "hello" THEN 1 ELSE 0)
        /\ netbufs = ws_greeted

\* An echo is written whole, on one connection that is there, unless a
\* connection ends while it is being written.
EchoWhole == bad_echo => ws_raced
=============================================================================
