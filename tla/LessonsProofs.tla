---------------------------- MODULE LessonsProofs ---------------------------
(***************************************************************************)
(* Proofs about module Lessons: the network programs, for any number of    *)
(* connections, frames, messages, chunks of an image and reads.            *)
(***************************************************************************)
EXTENDS Lessons, Integers, SequenceTheorems, WellFoundedInduction, TLAPS

\* A step of the composition is a step of each program or leaves it alone.
LEMMA Parts ==
    ASSUME [Next]_vars
    PROVE  /\ [WebSocketNext]_ws_vars
           /\ [ScHttpNext]_sc_vars
           /\ [MqttNext]_mq_vars
           /\ [TmallNext]_tmall_vars
           /\ [OtaNext]_ota_vars
           /\ [UdpLessonNext]_udp_lesson_vars
           /\ [TcpLessonNext]_tcp_lesson_vars
BY DEF Next, vars, TmallRuns, WsRuns, UdpRuns, TcpRuns, OtaRuns, ScRuns, MqttRuns

-----------------------------------------------------------------------------
(* hx-ws.                                                                   *)

\* The queue and the consumer hold payloads of their own unless the client
\* sent an unmasked frame, and each is counted where it is.
PayloadInv ==
    /\ ws_queue \in Seq(WsFrame) /\ rx_frame \in Seq(WsFrame)
    /\ Len(rx_frame) = IF rx_at \in {"start", "recv"} THEN 0 ELSE 1
    /\ payloads \in Int /\ digests \in Int /\ netbufs \in Nat
    /\ ws_dropped \in Nat /\ ws_refused \in Nat /\ ws_greeted \in Nat
    /\ ws_no \in 0..MaxWsConns
    /\ ~ws_unmasked => \A i \in 1..Len(ws_queue) : ws_queue[i].masked
    /\ ~ws_unmasked /\ Len(rx_frame) = 1 => rx_frame[1].masked
    /\ PayloadsOwned

LEMMA PayloadInit == WebSocketInit => PayloadInv
BY WebSocketAssumption DEF WebSocketInit, PayloadInv, PayloadsOwned

LEMMA DataStep ==
    ASSUME PayloadInv, ws_at = "frames",
           NEW masked \in BOOLEAN, NEW text \in BOOLEAN, NEW command \in BOOLEAN,
           WsData(masked, text, command),
           UNCHANGED <<ws_at, ws_no, WS_conn, ws_rx_vars, digests, netbufs, ws_refused, ws_greeted,
                       ws_bad_vars>>,
           ws_no # 0
    PROVE  PayloadInv'
<1> DEFINE frame == [conn |-> ws_no, command |-> command, masked |-> masked]
           queued == text /\ Len(ws_queue) < WsQueueLen /\ rx_at # "start"
<1>1. frame \in WsFrame /\ frame.masked = masked
  BY DEF PayloadInv, WsFrame
<1>2. /\ ws_unmasked' = (ws_unmasked \/ (text /\ ~masked))
      /\ ws_queue' = IF queued THEN Append(ws_queue, frame) ELSE ws_queue
      /\ payloads' = IF masked THEN payloads + 1 ELSE payloads
      /\ ws_dropped' = IF masked /\ ~queued THEN ws_dropped + 1 ELSE ws_dropped
  BY DEF WsData
<1>3. /\ Append(ws_queue, frame) \in Seq(WsFrame)
      /\ Len(Append(ws_queue, frame)) = Len(ws_queue) + 1
      /\ Len(ws_queue) \in Nat
      /\ \A i \in 1..Len(ws_queue) : Append(ws_queue, frame)[i] = ws_queue[i]
      /\ Append(ws_queue, frame)[Len(ws_queue) + 1] = frame
  BY <1>1 DEF PayloadInv
<1> HIDE DEF frame
<1>4. ws_queue' \in Seq(WsFrame) /\ payloads' \in Int /\ ws_dropped' \in Nat
  BY <1>2, <1>3 DEF PayloadInv
<1>5. ~ws_unmasked' => \A i \in 1..Len(ws_queue') : ws_queue'[i].masked
  <2> SUFFICES ASSUME ~ws_unmasked', NEW i \in 1..Len(ws_queue') PROVE ws_queue'[i].masked
    OBVIOUS
  <2>1. ~ws_unmasked /\ (text => masked)
    BY <1>2
  <2>2. CASE queued
    <3>1. i \in 1..Len(ws_queue) \/ i = Len(ws_queue) + 1
      BY <1>2, <1>3, <2>2
    <3> QED
      BY <1>1, <1>2, <1>3, <2>1, <2>2, <3>1 DEF PayloadInv
  <2>3. CASE ~queued
    BY <1>2, <2>1, <2>3 DEF PayloadInv
  <2> QED
    BY <2>2, <2>3
<1>6. PayloadsOwned'
  <2> SUFFICES ASSUME ~ws_unmasked' PROVE PayloadsOwned'
    BY DEF PayloadsOwned
  <2>1. ~ws_unmasked /\ (text => masked)
    BY <1>2
  <2>2. payloads' = Len(ws_queue') + Len(rx_frame) + ws_dropped'
    <3>1. payloads = Len(ws_queue) + Len(rx_frame) + ws_dropped
      BY <2>1 DEF PayloadInv, PayloadsOwned
    <3>2. Len(rx_frame) \in Nat
      BY DEF PayloadInv
    <3>3. CASE queued
      <4>1. payloads' = payloads + 1 /\ ws_dropped' = ws_dropped /\ Len(ws_queue') = Len(ws_queue) + 1
        BY <1>2, <1>3, <2>1, <3>3
      <4> QED
        BY <1>3, <3>1, <3>2, <4>1 DEF PayloadInv
    <3>4. CASE ~queued
      <4>1. Len(ws_queue') = Len(ws_queue) /\ payloads' - ws_dropped' = payloads - ws_dropped
        BY <1>2, <3>4 DEF PayloadInv
      <4> QED
        BY <1>3, <1>4, <3>1, <3>2, <4>1 DEF PayloadInv
    <3> QED
      BY <3>3, <3>4
  <2> QED
    BY <2>1, <2>2 DEF PayloadInv, PayloadsOwned, ws_rx_vars, ws_bad_vars
<1> QED
  BY <1>2, <1>4, <1>5, <1>6 DEF PayloadInv, ws_rx_vars

LEMMA PayloadStep == PayloadInv /\ (ws_at # "accept" => ws_no # 0) /\ [WebSocketNext]_ws_vars => PayloadInv'
<1> SUFFICES ASSUME PayloadInv, ws_at # "accept" => ws_no # 0, [WebSocketNext]_ws_vars PROVE PayloadInv'
  OBVIOUS
<1> USE WebSocketAssumption DEF ws_serve_vars, ws_rx_vars, ws_heap_vars, ws_note_vars, ws_bad_vars
<1>1. CASE UNCHANGED ws_vars
  BY <1>1 DEF ws_vars, PayloadInv, PayloadsOwned
<1>2. CASE WsAccept
  <2>1. CASE ws_unmasked' = TRUE
    <3>1. PayloadsOwned'
      BY <2>1 DEF PayloadsOwned
    <3>2. /\ ws_no' \in 0..MaxWsConns /\ digests' \in Int /\ ws_refused' \in Nat
          /\ UNCHANGED <<ws_queue, rx_at, rx_frame, payloads, netbufs, ws_dropped, ws_greeted>>
      BY <1>2 DEF WsAccept, PayloadInv
    <3> QED
      BY <2>1, <3>1, <3>2 DEF PayloadInv
  <2>2. CASE /\ ws_at' = "hello" /\ digests' = digests + 1
             /\ UNCHANGED <<ws_refused, ws_unmasked, bad_free>>
    <3>1. ws_at = "accept" /\ ws_no' \in 0..MaxWsConns
      BY <1>2 DEF WsAccept, PayloadInv
    <3>2. UNCHANGED <<ws_queue, rx_at, rx_frame, payloads, netbufs, ws_dropped, ws_greeted>>
      BY <1>2 DEF WsAccept
    <3>3. ~ws_unmasked => digests = ws_refused
      BY <3>1 DEF PayloadInv, PayloadsOwned
    <3>4. PayloadsOwned'
      BY <2>2, <3>2, <3>3 DEF PayloadInv, PayloadsOwned
    <3> QED
      BY <2>2, <3>1, <3>2, <3>4 DEF PayloadInv
  <2> QED
    BY <1>2, <2>1, <2>2 DEF WsAccept
<1>3. CASE WsHello
  <2>1. /\ ws_at = "hello" /\ ws_at' # "hello"
        /\ UNCHANGED <<ws_no, ws_queue, rx_at, rx_frame, payloads, ws_dropped, ws_unmasked, bad_free>>
    BY <1>3 DEF WsHello
  <2>2. \/ ws_refused' = ws_refused + 1 /\ UNCHANGED <<digests, netbufs, ws_greeted>>
        \/ digests' = digests - 1 /\ netbufs' = netbufs + 1 /\ ws_greeted' = ws_greeted + 1
           /\ UNCHANGED ws_refused
    BY <1>3 DEF WsHello
  <2>3. ~ws_unmasked => digests = ws_refused + 1 /\ netbufs = ws_greeted
    BY <2>1 DEF PayloadInv, PayloadsOwned
  <2>4. PayloadsOwned'
    <3> SUFFICES ASSUME ~ws_unmasked PROVE PayloadsOwned'
      BY <2>1 DEF PayloadsOwned
    <3>1. digests' = ws_refused' /\ netbufs' = ws_greeted'
      BY <2>2, <2>3 DEF PayloadInv
    <3>2. ~bad_free /\ payloads = Len(ws_queue) + Len(rx_frame) + ws_dropped
      BY DEF PayloadInv, PayloadsOwned
    <3>3. digests' = ws_refused' + 0
      BY <2>2, <3>1 DEF PayloadInv
    <3> QED
      BY <2>1, <3>1, <3>2, <3>3 DEF PayloadsOwned
  <2> QED
    BY <2>1, <2>2, <2>3, <2>4 DEF PayloadInv
<1>4. CASE WsReceive
  <2>1. CASE \E masked, text, command \in BOOLEAN : WsData(masked, text, command)
    BY <1>4, <2>1, DataStep DEF WsReceive
  <2>2. CASE UNCHANGED <<ws_queue, payloads, ws_dropped, ws_unmasked>>
    BY <1>4, <2>2 DEF WsReceive, PayloadInv, PayloadsOwned
  <2> QED
    BY <1>4, <2>1, <2>2 DEF WsReceive
<1>5. CASE WsEnd \/ WsClose \/ WsDelete
  <2>1. /\ ws_at # "hello" /\ ws_at' # "hello"
        /\ UNCHANGED <<ws_no, ws_queue, rx_at, rx_frame, payloads, digests, netbufs, ws_dropped,
                       ws_refused, ws_greeted, ws_unmasked, bad_free>>
    BY <1>5 DEF WsEnd, WsClose, WsDelete
  <2> QED
    BY <2>1 DEF PayloadInv, PayloadsOwned
<1>6. CASE RxStart
  BY <1>6 DEF RxStart, RxTo, PayloadInv, PayloadsOwned
<1>7. CASE RxReceive
  <2>1. /\ ws_queue \in Seq(WsFrame) /\ ws_queue # <<>> /\ rx_frame = <<>>
        /\ rx_frame' = <<Head(ws_queue)>> /\ ws_queue' = Tail(ws_queue)
        /\ rx_at' \in {"free", "check"}
    BY <1>7 DEF RxReceive, RxTo, PayloadInv
  <2>2. /\ Tail(ws_queue) \in Seq(WsFrame) /\ Len(Tail(ws_queue)) = Len(ws_queue) - 1
        /\ Head(ws_queue) = ws_queue[1] /\ Head(ws_queue) \in WsFrame
        /\ Len(ws_queue) \in Nat \ {0}
        /\ \A i \in 1..(Len(ws_queue) - 1) : Tail(ws_queue)[i] = ws_queue[i + 1]
    BY <2>1
  <2>3. rx_frame' \in Seq(WsFrame) /\ Len(rx_frame') = 1 /\ rx_frame'[1] = ws_queue[1] /\ Len(rx_frame) = 0
    BY <2>1, <2>2
  <2>4. UNCHANGED <<ws_serve_vars, ws_heap_vars, ws_note_vars, ws_bad_vars>>
    BY <1>7 DEF RxReceive, RxTo
  <2>5. ~ws_unmasked => \A i \in 1..Len(ws_queue') : ws_queue'[i].masked
    BY <2>1, <2>2 DEF PayloadInv
  <2>6. ~ws_unmasked => rx_frame'[1].masked
    BY <2>2, <2>3 DEF PayloadInv
  <2>7. PayloadsOwned'
    BY <2>1, <2>2, <2>3, <2>4 DEF PayloadInv, PayloadsOwned
  <2> QED
    BY <2>1, <2>2, <2>3, <2>4, <2>5, <2>6, <2>7 DEF PayloadInv
<1>8. CASE RxCheck
  BY <1>8 DEF RxCheck, RxTo, PayloadInv, PayloadsOwned
<1>9. CASE RxLoad
  BY <1>9 DEF RxLoad, RxTo, PayloadInv, PayloadsOwned
<1>10. CASE RxWrite
  BY <1>10 DEF RxWrite, RxTo, PayloadInv, PayloadsOwned
<1>11. CASE RxFree
  <2>1. ~ws_unmasked => payloads # 0 /\ rx_frame[1].masked
    BY <1>11 DEF RxFree, PayloadInv, PayloadsOwned
  <2>2. rx_frame' = <<>> /\ Len(rx_frame) = 1 /\ Len(<<>>) = 0 /\ <<>> \in Seq(WsFrame)
    BY <1>11 DEF RxFree, PayloadInv
  <2>3. /\ rx_at' = "recv"
        /\ ~ws_unmasked => payloads' = payloads - 1
        /\ payloads' \in {payloads, payloads - 1}
        /\ UNCHANGED <<ws_at, ws_no, ws_queue, digests, netbufs, ws_dropped, ws_refused, ws_greeted,
                       ws_unmasked>>
    BY <1>11, <2>1 DEF RxFree
  <2>4. ~ws_unmasked => ~bad_free'
    BY <1>11, <2>1 DEF RxFree, PayloadInv, PayloadsOwned
  <2>5. PayloadsOwned'
    <3> SUFFICES ASSUME ~ws_unmasked PROVE PayloadsOwned'
      BY <2>3 DEF PayloadsOwned
    <3>1. /\ payloads = Len(ws_queue) + Len(rx_frame) + ws_dropped
          /\ digests = ws_refused + (IF ws_at = "hello" THEN 1 ELSE 0) /\ netbufs = ws_greeted
      BY DEF PayloadInv, PayloadsOwned
    <3>2. Len(ws_queue) \in Nat
      BY DEF PayloadInv
    <3>3. payloads' = Len(ws_queue') + Len(rx_frame') + ws_dropped'
      BY <2>2, <2>3, <3>1, <3>2 DEF PayloadInv
    <3> QED
      BY <2>3, <2>4, <3>1, <3>3 DEF PayloadsOwned
  <2> QED
    BY <2>2, <2>3, <2>5 DEF PayloadInv
<1> QED
  BY <1>1, <1>2, <1>3, <1>4, <1>5, <1>6, <1>7, <1>8, <1>9, <1>10, <1>11 DEF WebSocketNext

\* While an echo is written the connection it was begun on is still WS_conn,
\* unless a connection ended meanwhile.
EchoInv ==
    /\ ws_no \in Nat
    /\ ws_at # "accept" => ws_no # 0
    /\ WS_conn # 0 => WS_conn = ws_no /\ ws_at \in {"frames", "close"}
    /\ rx_at \notin {"load", "write"} => rx_header = 0
    /\ ~ws_raced /\ rx_at \in {"load", "write"} =>
            WS_conn # 0 /\ rx_header \in {0, ws_no} /\ (rx_at = "write" => rx_conn = ws_no)
    /\ EchoWhole

LEMMA EchoStep == EchoInv /\ [WebSocketNext]_ws_vars => EchoInv'
<1> SUFFICES ASSUME EchoInv, [WebSocketNext]_ws_vars PROVE EchoInv'
  OBVIOUS
<1> USE WebSocketAssumption DEF ws_serve_vars, ws_rx_vars, ws_heap_vars, ws_note_vars, ws_bad_vars,
                                EchoInv, EchoWhole
<1>1. CASE UNCHANGED ws_vars
  BY <1>1 DEF ws_vars
<1>2. CASE WsAccept
  BY <1>2 DEF WsAccept
<1>3. CASE WsHello
  BY <1>3 DEF WsHello
<1>4. CASE WsReceive
  BY <1>4 DEF WsReceive
<1>5. CASE WsEnd \/ WsClose \/ WsDelete
  <2>1. /\ ws_at' # "accept" => ws_at # "accept"
        /\ WS_conn' \in {0, WS_conn} /\ (WS_conn' # 0 => ws_at' = "close")
        /\ UNCHANGED <<ws_no, rx_at, rx_conn, rx_header, bad_echo>>
    BY <1>5 DEF WsEnd, WsClose, WsDelete
  <2>2. rx_at \in {"load", "write"} => ws_raced'
    BY <1>5 DEF WsEnd, WsClose, WsDelete
  <2>3. ws_raced => ws_raced'
    BY <1>5 DEF WsEnd, WsClose, WsDelete
  <2> QED
    BY <2>1, <2>2, <2>3
<1>6. CASE RxStart \/ RxReceive \/ RxFree
  BY <1>6 DEF RxStart, RxReceive, RxFree, RxTo
<1>7. CASE RxCheck
  BY <1>7 DEF RxCheck, RxTo
<1>8. CASE RxLoad
  BY <1>8 DEF RxLoad, RxTo
<1>9. CASE RxWrite
  BY <1>9 DEF RxWrite, RxTo, WsLive
<1> QED
  BY <1>1, <1>2, <1>3, <1>4, <1>5, <1>6, <1>7, <1>8, <1>9 DEF WebSocketNext

LEMMA WsInvariant == Spec => [](PayloadInv /\ EchoInv)
<1>1. Init => PayloadInv /\ EchoInv
  BY PayloadInit DEF Init, WebSocketInit, EchoInv, EchoWhole
<1>2. PayloadInv /\ EchoInv /\ [Next]_vars => (PayloadInv /\ EchoInv)'
  BY Parts, PayloadStep, EchoStep DEF EchoInv
<1> QED
  BY <1>1, <1>2, PTL DEF Spec

\* A payload is with the server, the queue or the consumer, is freed once and
\* lost only with a frame that could not be queued, for any number of
\* connections and frames and any queue, as long as the frames are masked
\* (WebSocket_Task.c, main.c of hx-ws).
THEOREM PayloadsCorrect == Spec => []PayloadsOwned
<1>1. PayloadInv => PayloadsOwned
  BY DEF PayloadInv
<1> QED
  BY <1>1, WsInvariant, PTL

\* An echo goes whole to one connection that is there, unless a connection ends
\* while it is written, for any number of connections.
THEOREM EchoCorrect == Spec => []EchoWhole
<1>1. EchoInv => EchoWhole
  BY DEF EchoInv
<1> QED
  BY <1>1, WsInvariant, PTL

-----------------------------------------------------------------------------
(* hx-sc-http.                                                              *)

\* From the write of the request on, the text is this round's answer or empty.
WeatherInv ==
    /\ hg_reads \in Nat
    /\ hg_at \in {"read", "parse"} =>
            hg_text = IF hg_reads = 0 THEN <<>> ELSE <<hg_round>>
    /\ hg_at = "read" /\ hg_reads > 1 => hg_long
    /\ hg_at = "parse" /\ hg_reads = 0 => hg_answer = "none"
    /\ FreshWeather

LEMMA WeatherStep == WeatherInv /\ [ScHttpNext]_sc_vars => WeatherInv'
<1> SUFFICES ASSUME WeatherInv, [ScHttpNext]_sc_vars PROVE WeatherInv'
  OBVIOUS
<1> USE DEF sc_task_vars, hg_text_vars
<1>1. CASE UNCHANGED sc_vars
  BY <1>1 DEF sc_vars, WeatherInv, FreshWeather
<1>2. CASE ScEventHandler \/ ScCallback
  BY <1>2 DEF ScEventHandler, ScCallback, WeatherInv, FreshWeather
<1>3. CASE ScTaskPlain \/ ScTaskHttp
  BY <1>3 DEF ScTaskPlain, ScTaskHttp, ScTask, WeatherInv, FreshWeather
<1>4. CASE HgLookup \/ HgSocket \/ HgConnect
  BY <1>4 DEF HgLookup, HgSocket, HgConnect, WeatherInv, FreshWeather
<1>5. CASE HgWrite
  BY <1>5 DEF HgWrite, WeatherInv, FreshWeather
<1>6. CASE HgRead
  <2>1. /\ hg_at = "read" /\ hg_reads' = hg_reads + 1 /\ hg_reads' \in Nat \ {0}
        /\ hg_text = IF hg_reads = 0 THEN <<>> ELSE <<hg_round>>
        /\ hg_text' = IF hg_reads > 0 THEN hg_text ELSE Append(hg_text, hg_round)
        /\ UNCHANGED <<hg_at, hg_round, hg_answer, hg_weather>>
    BY <1>6 DEF HgRead, WeatherInv
  <2>2. hg_text' = <<hg_round'>>
    <3>1. CASE hg_reads = 0
      BY <2>1, <3>1
    <3>2. CASE hg_reads # 0
      BY <2>1, <3>2 DEF WeatherInv
    <3> QED
      BY <3>1, <3>2
  <2>3. hg_long \/ hg_reads > 0 => hg_long'
    BY <1>6 DEF HgRead
  <2>4. hg_reads' > 1 => hg_reads > 0
    BY <2>1 DEF WeatherInv
  <2>5. hg_fault' => hg_fault \/ hg_reads > 0
    <3>1. hg_fault' => hg_fault \/ hg_text # <<>>
      BY <1>6 DEF HgRead
    <3>2. hg_text # <<>> => hg_reads > 0
      BY <2>1 DEF WeatherInv
    <3> QED
      BY <3>1, <3>2
  <2>6. FreshWeather'
    BY <2>1, <2>3, <2>5 DEF WeatherInv, FreshWeather
  <2> QED
    BY <2>1, <2>2, <2>3, <2>4, <2>6 DEF WeatherInv
<1>7. CASE HgReadEnd /\ ~hg_fault
  BY <1>7 DEF HgReadEnd, WeatherInv, FreshWeather
<1>8. CASE HgParse
  <2>1. /\ hg_at = "parse" /\ hg_at' = "close"
        /\ hg_weather' = IF hg_answer = "weather" THEN Head(hg_text) ELSE hg_weather
        /\ UNCHANGED <<hg_round, hg_text, hg_reads, hg_answer, hg_long>>
    BY <1>8 DEF HgParse
  <2>2. hg_answer = "weather" => hg_weather' = hg_round
    <3> SUFFICES ASSUME hg_answer = "weather" PROVE Head(hg_text) = hg_round
      BY <2>1
    <3>1. hg_text = <<hg_round>>
      BY <2>1 DEF WeatherInv
    <3> QED
      BY <3>1
  <2>3. hg_fault' => hg_fault \/ hg_answer \in {"none", "other"}
    BY <1>8 DEF HgParse
  <2> QED
    BY <2>1, <2>2, <2>3 DEF WeatherInv, FreshWeather
<1>9. CASE HgClose
  BY <1>9 DEF HgClose, WeatherInv, FreshWeather
<1> QED
  BY <1>1, <1>2, <1>3, <1>4, <1>5, <1>6, <1>7, <1>8, <1>9 DEF ScHttpNext, HttpGetTask

\* What is taken over is this round's weather, and the task survives an answer
\* that came in one read and is the JSON that is expected, for any number of
\* reads (hx_sc_http.c).
THEOREM FreshCorrect == Spec => []FreshWeather
<1>1. Init => WeatherInv
  BY DEF Init, ScHttpInit, WeatherInv, FreshWeather
<1>2. WeatherInv /\ [Next]_vars => WeatherInv'
  BY Parts, WeatherStep
<1>3. WeatherInv => FreshWeather
  BY DEF WeatherInv
<1> QED
  BY <1>1, <1>2, <1>3, PTL DEF Spec

-----------------------------------------------------------------------------
(* The lamps of hx-mqtt-wan and hx-tmall.                                   *)

\* The status is still 0 when app_main switches the lamp off, and a change
\* of the status is followed by one of the pin.
StatusInv ==
    /\ led_status \in 0..1 /\ key_level \in 0..1
    /\ ~led_early /\ mq_at # "loop" => led_status = 0 /\ mq_task_at = "idle"
    /\ key_status = 1 /\ key_level = 0 => mq_press
    /\ mq_task_at \in {"idle", "pin"}
    /\ LampAsStatus

LEMMA StatusStep == StatusInv /\ [MqttNext]_mq_vars => StatusInv'
<1> SUFFICES ASSUME StatusInv, [MqttNext]_mq_vars PROVE StatusInv'
  OBVIOUS
<1> USE DEF mq_led_vars, mq_key_vars, mq_net_vars, StatusInv, LampAsStatus
<1>1. CASE UNCHANGED mq_vars
  BY <1>1 DEF mq_vars
<1>2. CASE AppWaits
  BY <1>2 DEF AppWaits
<1>3. CASE AppConfigures
  <2>1. /\ UNCHANGED <<mq_task_at, led_status, led_early, key_level, key_status, mq_press, mq_unasked>>
        /\ mq_at \in {"config", "off"}
        /\ mq_at' = "loop" => led_on' = FALSE
    BY <1>3 DEF AppConfigures
  <2>2. mq_at' = "loop" /\ ~led_early => (led_on' = (led_status = 1))
    <3> SUFFICES ASSUME mq_at' = "loop", ~led_early PROVE led_on' = (led_status = 1)
      OBVIOUS
    <3>1. led_status = 0
      BY <2>1
    <3>2. (led_status = 1) = FALSE
      BY <3>1
    <3> QED
      BY <2>1, <3>2
  <2> QED
    BY <2>1, <2>2
<1>4. CASE KeyRead1
  <2>1. ~mq_unasked'
    BY <1>4 DEF KeyRead1
  <2> QED
    BY <1>4, <2>1 DEF KeyRead1
<1>5. CASE KeyMoves
  <2>1. key_level = 1 => mq_press'
    BY <1>5 DEF KeyMoves
  <2>2. mq_press => mq_press'
    BY <1>5 DEF KeyMoves
  <2> QED
    BY <1>5, <2>1, <2>2 DEF KeyMoves
<1>6. CASE MqttConnected \/ MqttDisconnected \/ OthersPublish \/ MqttWifi
  BY <1>6 DEF MqttConnected, MqttDisconnected, OthersPublish, MqttWifi, MqttEvent
<1>7. CASE MqttData
  <2>1. CASE Head(mq_msgs) = "LED"
    <3>1. led_early' => led_early \/ mq_at # "loop"
      BY <1>7, <2>1 DEF MqttData
    <3>2. led_early \/ mq_at # "loop" => led_early'
      BY <1>7, <2>1 DEF MqttData
    <3> QED
      BY <1>7, <2>1, <3>1, <3>2 DEF MqttData, MqttEvent
  <2>2. CASE Head(mq_msgs) # "LED"
    BY <1>7, <2>2 DEF MqttData, MqttEvent
  <2> QED
    BY <2>1, <2>2
<1>8. CASE MqttDataPin
  BY <1>8 DEF MqttDataPin
<1> QED
  BY <1>1, <1>2, <1>3, <1>4, <1>5, <1>6, <1>7, <1>8 DEF MqttNext

\* A record of the lamp, whatever the number of its tasks.
LampKind ==
    [ready : BOOLEAN, tasks : [Colours -> Int], handle : [Colours -> {"null", "task", "gone"}],
     glow : [Colours -> {"off", "down", "up"}], refused : BOOLEAN,
     fault : {"none", "caller", "stale"}]

\* The red lamp's task and its handle, as the last command left them.
CommandInv ==
    /\ lamp \in LampKind
    /\ last_cmd \in Commands
    /\ ~repeated /\ ~lamp.refused /\ last_cmd = "play" => lamp.handle["r"] = "task"
    /\ CommandObeyed

LEMMA LampChanged ==
    ASSUME NEW l \in LampKind, NEW t \in [Colours -> Int],
           NEW h \in [Colours -> {"null", "task", "gone"}], NEW g \in [Colours -> {"off", "down", "up"}],
           NEW f \in {"none", "caller", "stale"}
    PROVE  /\ [l EXCEPT !.tasks = t, !.handle = h] \in LampKind
           /\ [l EXCEPT !.tasks = t, !.handle = h, !.glow = g] \in LampKind
           /\ [l EXCEPT !.fault = f, !.glow = g] \in LampKind
  BY DEF LampKind

LEMMA LampRead ==
    ASSUME NEW l \in LampKind, NEW t, NEW h, NEW g
    PROVE  /\ [l EXCEPT !.tasks = t, !.handle = h].tasks = t
           /\ [l EXCEPT !.tasks = t, !.handle = h].handle = h
           /\ [l EXCEPT !.tasks = t, !.handle = h].fault = l.fault
           /\ [l EXCEPT !.tasks = t, !.handle = h, !.glow = g].tasks = t
           /\ [l EXCEPT !.tasks = t, !.handle = h, !.glow = g].fault = l.fault
  BY DEF LampKind

LEMMA LampRefused ==
    ASSUME NEW l \in LampKind, NEW t, NEW h
    PROVE  [l EXCEPT !.tasks = t, !.handle = h].refused = l.refused
  BY DEF LampKind

LEMMA LampRefusedStop ==
    ASSUME NEW l \in LampKind, NEW t, NEW h, NEW g
    PROVE  [l EXCEPT !.tasks = t, !.handle = h, !.glow = g].refused = l.refused
  BY DEF LampKind

LEMMA PlayFields ==
    ASSUME NEW l \in LampKind, NEW c \in Colours, NEW created \in BOOLEAN
    PROVE  LET n == FadeStart(l, c, created) IN
           /\ n \in LampKind
           /\ n.fault = l.fault
           /\ created => n.tasks[c] = l.tasks[c] + 1 /\ n.handle[c] = "task" /\ n.refused = l.refused
           /\ ~created => n.refused
<1> DEFINE n == FadeStart(l, c, created)
<1>1. CASE created
  <2> DEFINE t == [l.tasks EXCEPT ![c] = l.tasks[c] + 1]
             h == [l.handle EXCEPT ![c] = "task"]
  <2>1. n = [l EXCEPT !.tasks = t, !.handle = h]
    BY <1>1 DEF FadeStart, LampKind
  <2>2. /\ t \in [Colours -> Int] /\ h \in [Colours -> {"null", "task", "gone"}]
        /\ t[c] = l.tasks[c] + 1 /\ h[c] = "task"
        /\ l.glow \in [Colours -> {"off", "down", "up"}] /\ l.fault \in {"none", "caller", "stale"}
    BY DEF LampKind
  <2> HIDE DEF t, h, n
  <2>3. n \in LampKind
    BY <2>1, <2>2, LampChanged
  <2>4. n.tasks[c] = l.tasks[c] + 1 /\ n.handle[c] = "task" /\ n.fault = l.fault
    BY <2>1, <2>2, LampRead
  <2>5. n.refused = l.refused
    BY <2>1, LampRefused
  <2> QED BY <1>1, <2>3, <2>4, <2>5 DEF n
<1>2. CASE ~created
  BY <1>2 DEF FadeStart, LampKind
<1> QED BY <1>1, <1>2

LEMMA StopFields ==
    ASSUME NEW l \in LampKind, NEW c \in Colours
    PROVE  LET n == FadeStop(l, c) IN
           /\ n \in LampKind
           /\ n.refused = l.refused
           /\ l.handle[c] = "task" => n.tasks[c] = l.tasks[c] - 1 /\ n.fault = l.fault
<1> DEFINE n == FadeStop(l, c)
<1>1. [l.glow EXCEPT ![c] = "off"] \in [Colours -> {"off", "down", "up"}]
  BY DEF LampKind
<1>2. CASE l.handle[c] = "task"
  <2> DEFINE t == [l.tasks EXCEPT ![c] = l.tasks[c] - 1]
             h == [l.handle EXCEPT ![c] = "gone"]
             g == [l.glow EXCEPT ![c] = "off"]
  <2>1. n = [l EXCEPT !.tasks = t, !.handle = h, !.glow = g]
    BY <1>2 DEF FadeStop, LampKind
  <2>2. /\ t \in [Colours -> Int] /\ h \in [Colours -> {"null", "task", "gone"}]
        /\ t[c] = l.tasks[c] - 1
        /\ g \in [Colours -> {"off", "down", "up"}] /\ l.fault \in {"none", "caller", "stale"}
    BY DEF LampKind
  <2> HIDE DEF t, h, g, n
  <2>3. n \in LampKind
    BY <2>1, <2>2, LampChanged
  <2>4. n.tasks[c] = l.tasks[c] - 1 /\ n.fault = l.fault
    BY <2>1, <2>2, LampRead
  <2>5. n.refused = l.refused
    BY <2>1, LampRefusedStop
  <2> QED BY <1>2, <2>3, <2>4, <2>5 DEF n
<1>3. CASE l.handle[c] = "null"
  BY <1>3 DEF FadeStop, LampKind
<1>4. CASE l.handle[c] = "gone"
  <2>1. n = [l EXCEPT !.fault = "stale", !.glow = [l.glow EXCEPT ![c] = "off"]]
    BY <1>4 DEF FadeStop, LampKind
  <2> QED BY <1>1, <1>4, <2>1 DEF LampKind
<1> QED BY <1>2, <1>3, <1>4 DEF LampKind

LEMMA CommandInit == TmallInit => CommandInv
<1> SUFFICES ASSUME TmallInit PROVE CommandInv
  OBVIOUS
<1>1. /\ lamp = [ready |-> TRUE, tasks |-> [c \in Colours |-> 0],
                 handle |-> [c \in Colours |-> "null"], glow |-> [c \in Colours |-> "off"],
                 refused |-> FALSE, fault |-> "none"]
      /\ last_cmd = "stop"
  BY DEF TmallInit, LampOff
<1>2. "r" \in Colours
  BY DEF Colours
<1> QED
  BY <1>1, <1>2 DEF CommandInv, CommandObeyed, Commands, LampKind

LEMMA CommandStep == CommandInv /\ [TmallNext]_tmall_vars => CommandInv'
<1> SUFFICES ASSUME CommandInv, [TmallNext]_tmall_vars PROVE CommandInv'
  OBVIOUS
<1>a. "r" \in Colours /\ MaxFades \in Nat \ {0}
  BY LampAssumption DEF Colours
<1>1. CASE UNCHANGED <<lamp, last_cmd, repeated>>
  BY <1>1 DEF CommandInv, CommandObeyed
<1>2. ASSUME NEW m \in Commands, lamp' = Command(m), last_cmd' = m,
             repeated' = (repeated \/ last_cmd = m), lamp.fault = "none"
      PROVE  CommandInv'
  <2>1. repeated \/ last_cmd = m => repeated'
    BY <1>2
  <2>2. lamp \in LampKind
    BY DEF CommandInv
  <2>3. CASE m = "play"
    <3> DEFINE room == lamp.tasks["r"] < MaxFades
    <3>1. lamp' = FadeStart(lamp, "r", room) /\ room \in BOOLEAN
      BY <1>2, <2>3 DEF Command
    <3> HIDE DEF room
    <3>a. LET n == FadeStart(lamp, "r", room) IN
          /\ n \in LampKind /\ n.fault = lamp.fault
          /\ room => n.tasks["r"] = lamp.tasks["r"] + 1 /\ n.handle["r"] = "task" /\ n.refused = lamp.refused
          /\ ~room => n.refused
      BY <1>a, <2>2, <3>1, PlayFields
    <3>2. /\ lamp' \in LampKind /\ lamp'.fault = "none"
          /\ room => lamp'.tasks["r"] = lamp.tasks["r"] + 1 /\ lamp'.handle["r"] = "task"
                     /\ lamp'.refused = lamp.refused
          /\ ~room => lamp'.refused
      BY <1>2, <3>1, <3>a
    <3>3. ASSUME ~repeated', ~lamp'.refused
          PROVE  lamp'.tasks["r"] = 1 /\ lamp'.handle["r"] = "task"
      <4>1. room /\ ~repeated /\ last_cmd = "stop" /\ ~lamp.refused
        BY <2>1, <2>3, <3>2, <3>3 DEF CommandInv, Commands
      <4>2. lamp.tasks["r"] = 0
        BY <4>1 DEF CommandInv, CommandObeyed
      <4> QED
        BY <3>2, <4>1, <4>2
    <3> QED
      BY <1>2, <2>3, <3>2, <3>3 DEF CommandInv, CommandObeyed
  <2>4. CASE m = "stop"
    <3>1. lamp' = FadeStop(lamp, "r")
      BY <1>2, <2>4 DEF Command
    <3>2. /\ lamp' \in LampKind /\ lamp'.refused = lamp.refused
          /\ lamp.handle["r"] = "task" => lamp'.tasks["r"] = lamp.tasks["r"] - 1 /\ lamp'.fault = "none"
      BY <1>a, <1>2, <2>2, <3>1, StopFields
    <3>3. ASSUME ~repeated', ~lamp'.refused
          PROVE  lamp'.tasks["r"] = 0 /\ lamp'.fault = "none"
      <4>1. ~repeated /\ last_cmd = "play" /\ ~lamp.refused
        BY <2>1, <2>4, <3>2, <3>3 DEF CommandInv, Commands
      <4>2. lamp.tasks["r"] = 1 /\ lamp.handle["r"] = "task"
        BY <4>1 DEF CommandInv, CommandObeyed
      <4> QED
        BY <3>2, <4>2
    <3> QED
      BY <1>2, <2>4, <3>2, <3>3 DEF CommandInv, CommandObeyed
  <2> QED
    BY <2>3, <2>4 DEF Commands
<1>3. CASE TmallNext
  <2>1. ASSUME NEW c \in Conns, ReceiveData(c), lamp.fault = "none" PROVE CommandInv'
    <3>1. CASE JsonParse(c, Head(sent[c])) /\ Head(sent[c]) \in Commands
      BY <1>2, <2>1, <3>1 DEF JsonParse
    <3>3. CASE JsonParse(c, Head(sent[c])) /\ Head(sent[c]) \notin Commands
      BY <1>1, <3>3 DEF JsonParse
    <3>2. CASE UNCHANGED <<tm_task_vars, md5, lamp, last_cmd, repeated>>
      BY <1>1, <3>2
    <3> QED
      BY <2>1, <3>1, <3>2, <3>3 DEF ReceiveData
  <2>2. ASSUME NEW c \in Conns,
               \/ GotIp \/ AllocateContexts(c) \/ Connect(c) \/ CloudSays(c)
               \/ ReceiveClose(c) \/ ReceiveWrites(c) \/ HeartBeat(c)
        PROVE  CommandInv'
    BY <1>1, <2>2 DEF GotIp, AllocateContexts, Connect, CloudSays, ReceiveClose, ReceiveWrites,
                      HeartBeat, tm_note_vars
  <2>3. 1 \in Conns
    BY TmallAssumption DEF Conns
  <2> QED
    BY <1>3, <2>1, <2>2, <2>3 DEF TmallNext
<1> QED
  BY <1>1, <1>3 DEF tmall_vars, tm_note_vars

\* A lamp does the last thing it was told: by the cloud as long as every
\* command changes something (user_tmall_genie.c), by the topic as long as
\* nothing comes before the pin is configured, and a press is one message
\* (app_main.c of hx-mqtt-wan); for any number of commands and messages.
THEOREM ObeyCorrect == Spec => []LampsObey
<1>1. Init => CommandInv /\ StatusInv
  BY CommandInit DEF Init, MqttInit, StatusInv, LampAsStatus
<1>2. CommandInv /\ StatusInv /\ [Next]_vars => (CommandInv /\ StatusInv)'
  BY Parts, CommandStep, StatusStep
<1>3. CommandInv /\ StatusInv => LampsObey
  BY DEF CommandInv, StatusInv, LampsObey
<1> QED
  BY <1>1, <1>2, <1>3, PTL DEF Spec
-----------------------------------------------------------------------------
(* hx-tmall: the one TLS context.                                           *)

Says == {"welcome", "token", "checkinok"} \cup Commands

Only(s, S) == \A i \in 1..Len(s) : s[i] \in S

\* Where the first connection is, with its contexts and its tasks.
TlsStart ==
    /\ conn_at[1] \in {"none", "made"} => current = 0 /\ ctx[1] = "none"
    /\ conn_at[1] \in {"none", "made", "setup", "over"} =>
          recv_at[1] = "none" /\ beat_at[1] = "none" /\ dialogue[1] = "none" /\ sent[1] = <<>>
    /\ conn_at[1] = "setup" => current = 1 /\ ctx[1] = "live"
    /\ conn_at[1] = "over" => current = 1 /\ ctx[1] = "freed"
    /\ conn_at[1] = "up" => current = 1 /\ ctx[1] = IF hung_up THEN "freed" ELSE "live"
    /\ hung_up => recv_at[1] = "gone"
    /\ recv_at[1] = "gone" => hung_up
    /\ tls_fault => hung_up
    /\ got_ip = 0 => conn_at[1] = "none"

\* Where the dialogue is, with what is on its way and the tasks that write.
TlsTalk ==
    /\ recv_at[1] \in {"key", "sign"} => sent[1] = <<>>
    /\ recv_at[1] = "key" => dialogue[1] = "none"
    /\ recv_at[1] = "sign" => dialogue[1] = "token" /\ md5 = "live"
    /\ dialogue[1] \in {"welcome", "key", "sign"} => sent[1] = <<>>
    /\ dialogue[1] = "none" => Only(sent[1], {"welcome"})
    /\ dialogue[1] = "token" => Only(sent[1], {"token"})
    /\ dialogue[1] = "in" => Only(sent[1], {"checkinok"} \cup Commands)
    /\ dialogue[1] \in {"none", "token"} => Len(sent[1]) <= 1
    /\ beat_at[1] # "none" => dialogue[1] = "in"

TlsTypes ==
    /\ got_ip \in Nat /\ current \in Nat
    /\ conn_at \in [Conns -> {"none", "made", "setup", "up", "over"}]
    /\ ctx \in [Conns -> {"none", "live", "freed"}]
    /\ recv_at \in [Conns -> {"none", "read", "key", "sign", "gone"}]
    /\ beat_at \in [Conns -> {"none", "wait", "write"}]
    /\ dialogue \in [Conns -> {"none", "welcome", "key", "token", "sign", "in"}]
    /\ sent \in [Conns -> Seq(Says)]

TlsOthers == \A c \in Conns \ {1} :
    conn_at[c] = "none" /\ recv_at[c] = "none" /\ beat_at[c] = "none" /\ ctx[c] = "none"

TlsInv == TlsTypes /\ (got_ip <= 1 => TlsOthers /\ TlsStart /\ TlsTalk)

LEMMA OnlyEmpty == \A S : Only(<<>>, S)
BY DEF Only

LEMMA SayMore ==
    ASSUME NEW s \in Seq(Says), NEW m \in Says
    PROVE  /\ Append(s, m) \in Seq(Says)
           /\ Len(Append(s, m)) = Len(s) + 1
           /\ \A S : Only(s, S) /\ m \in S => Only(Append(s, m), S)
<1>1. /\ Append(s, m) \in Seq(Says) /\ Len(Append(s, m)) = Len(s) + 1 /\ Len(s) \in Nat
      /\ \A i \in 1..Len(s) : Append(s, m)[i] = s[i]
      /\ Append(s, m)[Len(s) + 1] = m
  OBVIOUS
<1>2. ASSUME NEW S, Only(s, S), m \in S, NEW i \in 1..Len(Append(s, m))
      PROVE  Append(s, m)[i] \in S
  <2>1. i \in 1..Len(s) \/ i = Len(s) + 1
    BY <1>1, <1>2
  <2> QED
    BY <1>1, <1>2, <2>1 DEF Only
<1> QED
  BY <1>1, <1>2 DEF Only

LEMMA ReadMore ==
    ASSUME NEW s \in Seq(Says), NEW n \in 1..Len(s)
    PROVE  /\ SubSeq(s, n + 1, Len(s)) \in Seq(Says)
           /\ Len(s) <= 1 => SubSeq(s, n + 1, Len(s)) = <<>>
           /\ Len(SubSeq(s, n + 1, Len(s))) <= Len(s)
           /\ \A S : Only(s, S) => Only(SubSeq(s, n + 1, Len(s)), S)
<1> DEFINE t == SubSeq(s, n + 1, Len(s))
<1>1. /\ t \in Seq(Says) /\ Len(t) = Len(s) - n /\ Len(s) \in Nat
      /\ \A i \in 1..Len(t) : t[i] = s[n + i] /\ n + i \in 1..Len(s)
  OBVIOUS
<1> HIDE DEF t
<1>2. Len(s) <= 1 => t = <<>>
  BY <1>1
<1>3. \A S : Only(s, S) => Only(t, S)
  BY <1>1 DEF Only
<1> QED
  BY <1>1, <1>2, <1>3 DEF t

LEMMA TlsInit == TmallInit => TlsInv
<1> SUFFICES ASSUME TmallInit PROVE TlsInv
  OBVIOUS
<1>1. 1 \in Conns
  BY TmallAssumption DEF Conns
<1>2. TlsTypes
  BY DEF TmallInit, TlsTypes
<1>3. TlsOthers /\ TlsStart
  BY <1>1 DEF TmallInit, TlsOthers, TlsStart
<1>4. sent[1] = <<>> /\ dialogue[1] = "none" /\ recv_at[1] = "none" /\ beat_at[1] = "none"
  BY <1>1 DEF TmallInit
<1>5. TlsTalk
  BY <1>4, OnlyEmpty DEF TlsTalk
<1> QED
  BY <1>2, <1>3, <1>5 DEF TlsInv

LEMMA TlsTypesStep == TlsTypes /\ [TmallNext]_tmall_vars => TlsTypes'
<1> SUFFICES ASSUME TlsTypes, [TmallNext]_tmall_vars PROVE TlsTypes'
  OBVIOUS
<1>1. CASE UNCHANGED tmall_vars
  BY <1>1 DEF TlsTypes, tmall_vars, tm_conn_vars, tm_task_vars
<1>2. CASE GotIp
  BY <1>2 DEF GotIp, TlsTypes, tm_task_vars
<1>3. ASSUME NEW c \in Conns, AllocateContexts(c) PROVE TlsTypes'
  BY <1>3 DEF AllocateContexts, TlsTypes, tm_task_vars, Conns
<1>4. ASSUME NEW c \in Conns, Connect(c) PROVE TlsTypes'
  BY <1>4 DEF Connect, Clean, TlsTypes
<1>5. ASSUME NEW c \in Conns, CloudSays(c) PROVE TlsTypes'
  <2>1. PICK m \in Says : sent' = [sent EXCEPT ![c] = Append(sent[c], m)]
    BY <1>5 DEF CloudSays, Say, Says
  <2>2. Append(sent[c], m) \in Seq(Says)
    BY SayMore DEF TlsTypes
  <2>3. sent' \in [Conns -> Seq(Says)]
    BY <2>1, <2>2 DEF TlsTypes
  <2>4. dialogue' \in [Conns -> {"none", "welcome", "key", "token", "sign", "in"}]
    BY <1>5 DEF CloudSays, TlsTypes
  <2> QED
    BY <1>5, <2>3, <2>4 DEF CloudSays, TlsTypes, tm_conn_vars, tm_task_vars
<1>6. ASSUME NEW c \in Conns, ReceiveData(c) PROVE TlsTypes'
  <2>1. PICK n \in 1..Len(sent[c]) : sent' = [sent EXCEPT ![c] = SubSeq(sent[c], n + 1, Len(sent[c]))]
    BY <1>6 DEF ReceiveData
  <2>2. SubSeq(sent[c], n + 1, Len(sent[c])) \in Seq(Says)
    BY ReadMore DEF TlsTypes
  <2>3. sent' \in [Conns -> Seq(Says)]
    BY <2>1, <2>2 DEF TlsTypes
  <2>4. /\ recv_at' \in [Conns -> {"none", "read", "key", "sign", "gone"}]
        /\ beat_at' \in [Conns -> {"none", "wait", "write"}]
    BY <1>6 DEF ReceiveData, JsonParse, TlsTypes, tm_task_vars
  <2> QED
    BY <1>6, <2>3, <2>4 DEF ReceiveData, TlsTypes, tm_conn_vars
<1>7. ASSUME NEW c \in Conns, ReceiveClose(c) PROVE TlsTypes'
  BY <1>7 DEF ReceiveClose, Clean, TlsTypes
<1>8. ASSUME NEW c \in Conns, ReceiveWrites(c) PROVE TlsTypes'
  BY <1>8 DEF ReceiveWrites, TlsTypes, tm_conn_vars
<1>9. ASSUME NEW c \in Conns, HeartBeat(c) PROVE TlsTypes'
  BY <1>9 DEF HeartBeat, TlsTypes, tm_conn_vars
<1> QED
  BY <1>1, <1>2, <1>3, <1>4, <1>5, <1>6, <1>7, <1>8, <1>9 DEF TmallNext

LEMMA TlsStep == TlsInv /\ [TmallNext]_tmall_vars => TlsInv'
<1> SUFFICES ASSUME TlsInv, [TmallNext]_tmall_vars, got_ip' <= 1
             PROVE  TlsOthers' /\ TlsStart' /\ TlsTalk'
  BY TlsTypesStep DEF TlsInv
<1>a. 1 \in Conns /\ TlsTypes /\ TlsTypes'
  BY TmallAssumption, TlsTypesStep DEF TlsInv, Conns
<1>b. got_ip <= 1
  <2>1. got_ip' = got_ip \/ got_ip' = got_ip + 1
    BY DEF TmallNext, tmall_vars, tm_conn_vars, GotIp, AllocateContexts, Connect, CloudSays,
           ReceiveData, ReceiveClose, ReceiveWrites, HeartBeat
  <2> QED
    BY <1>a, <2>1 DEF TlsTypes
<1>c. TlsOthers /\ TlsStart /\ TlsTalk
  BY <1>b DEF TlsInv
<1>d. /\ sent[1] \in Seq(Says) /\ Len(sent[1]) \in Nat
      /\ sent[1] # <<>> => Len(sent[1]) > 0 /\ Head(sent[1]) = sent[1][1]
  BY <1>a DEF TlsTypes
<1>1. CASE UNCHANGED tmall_vars
  <2>1. TlsOthers' /\ TlsStart'
    BY <1>1, <1>c DEF TlsOthers, TlsStart, tmall_vars, tm_conn_vars, tm_task_vars, tm_note_vars
  <2>2. TlsTalk'
    BY <1>1, <1>c DEF TlsTalk, tmall_vars, tm_conn_vars, tm_task_vars
  <2> QED
    BY <2>1, <2>2
<1>2. CASE GotIp
  <2>1. got_ip = 0
    BY <1>2, <1>a DEF GotIp, TlsTypes
  <2>2. /\ UNCHANGED <<ctx, current, recv_at, beat_at, dialogue, sent, md5, hung_up, tls_fault>>
        /\ conn_at' \in {conn_at, [conn_at EXCEPT ![1] = "made"]}
        /\ got_ip' = 1
    BY <1>2, <2>1 DEF GotIp, tm_task_vars, tm_note_vars
  <2>3. TlsOthers'
    BY <1>a, <1>c, <2>2 DEF TlsOthers, TlsTypes
  <2>4. TlsStart'
    BY <1>a, <1>c, <2>1, <2>2 DEF TlsStart, TlsTypes
  <2>5. TlsTalk'
    BY <1>c, <2>2 DEF TlsTalk
  <2> QED
    BY <2>3, <2>4, <2>5
<1>3. ASSUME NEW c \in Conns, AllocateContexts(c)
      PROVE  TlsOthers' /\ TlsStart' /\ TlsTalk'
  <2>1. c = 1
    BY <1>3, <1>c DEF AllocateContexts, TlsOthers
  <2>2. TlsOthers' /\ TlsStart'
    BY <1>3, <1>a, <1>c, <2>1 DEF AllocateContexts, TlsOthers, TlsStart, TlsTypes, tm_task_vars, tm_note_vars
  <2>3. TlsTalk'
    BY <1>3, <1>c DEF AllocateContexts, TlsTalk, tm_task_vars
  <2> QED
    BY <2>2, <2>3
<1>4. ASSUME NEW c \in Conns, Connect(c)
      PROVE  TlsOthers' /\ TlsStart' /\ TlsTalk'
  <2>1. c = 1
    BY <1>4, <1>c DEF Connect, TlsOthers
  <2>2. current = 1 /\ ctx[1] = "live" /\ ~hung_up
    BY <1>4, <1>c, <2>1 DEF Connect, TlsStart
  <2>3. TlsOthers'
    BY <1>4, <1>a, <1>c, <2>1, <2>2 DEF Connect, Clean, TlsOthers, TlsTypes
  <2>4. TlsStart'
    <3>1. CASE conn_at' = [conn_at EXCEPT ![1] = "over"] /\ Clean /\ UNCHANGED <<recv_at, dialogue>>
      <4>1. ~tls_fault'
        BY <1>c, <2>2, <3>1 DEF Clean, TlsStart
      <4>2. ctx'[1] = "freed" /\ conn_at'[1] = "over" /\ recv_at'[1] = "none" /\ beat_at'[1] = "none"
        BY <1>4, <1>a, <1>c, <2>1, <2>2, <3>1 DEF Connect, Clean, TlsStart, TlsTypes
      <4>3. dialogue'[1] = "none" /\ sent'[1] = <<>> /\ current' = 1 /\ UNCHANGED <<hung_up, got_ip>>
        BY <1>4, <1>a, <1>c, <2>1, <2>2, <3>1 DEF Connect, TlsStart, tm_note_vars
      <4>4. got_ip # 0
        BY <1>4, <1>c, <2>1 DEF Connect, TlsStart
      <4> QED
        BY <2>2, <4>1, <4>2, <4>3, <4>4 DEF TlsStart
    <3>2. CASE /\ conn_at' = [conn_at EXCEPT ![1] = "up"]
               /\ recv_at' \in {recv_at, [recv_at EXCEPT ![1] = "read"]}
               /\ tls_fault' = (tls_fault \/ ctx[current] # "live")
               /\ UNCHANGED ctx
      <4>1. ~tls_fault'
        BY <1>c, <2>2, <3>2 DEF TlsStart
      <4> QED
        BY <1>4, <1>a, <1>c, <2>1, <2>2, <3>2, <4>1 DEF Connect, TlsStart, TlsTypes, tm_note_vars
    <3> QED
      BY <1>4, <2>1, <3>1, <3>2 DEF Connect
  <2>5. TlsTalk'
    <3>1. recv_at[1] = "none" /\ sent[1] = <<>> /\ beat_at[1] = "none"
      BY <1>4, <1>c, <2>1 DEF Connect, TlsStart
    <3>2. recv_at'[1] \in {"none", "read"} /\ sent'[1] = <<>> /\ beat_at'[1] = "none"
      BY <1>4, <1>a, <2>1, <3>1 DEF Connect, TlsTypes
    <3> QED
      BY <3>2, OnlyEmpty DEF TlsTalk
  <2> QED
    BY <2>3, <2>4, <2>5
<1>5. ASSUME NEW c \in Conns, CloudSays(c)
      PROVE  TlsOthers' /\ TlsStart' /\ TlsTalk'
  <2>1. c = 1
    BY <1>5, <1>c DEF CloudSays, TlsOthers
  <2>2. TlsOthers' /\ TlsStart'
    BY <1>5, <1>a, <1>c, <2>1 DEF CloudSays, TlsOthers, TlsStart, TlsTypes, tm_conn_vars, tm_task_vars, tm_note_vars
  <2>3. ASSUME NEW m \in Says, NEW d \in {"none", "token", "in"},
               sent' = [sent EXCEPT ![1] = Append(sent[1], m)], dialogue'[1] = d,
               \/ d = "none" /\ m = "welcome" /\ dialogue[1] = "welcome"
               \/ d = "token" /\ m = "token" /\ dialogue[1] = "key"
               \/ d = "in" /\ m = "checkinok" /\ dialogue[1] = "sign"
               \/ d = "in" /\ m \in Commands /\ dialogue[1] = "in"
        PROVE  TlsTalk'
    <3>1. sent'[1] = Append(sent[1], m)
      BY <1>a, <2>3 DEF TlsTypes
    <3>2. d \in {"none", "token"} => sent[1] = <<>>
      BY <1>c, <2>3 DEF TlsTalk
    <3>3. /\ d = "none" => Only(sent'[1], {"welcome"})
          /\ d = "token" => Only(sent'[1], {"token"})
      BY <1>d, <2>3, <3>1, <3>2, SayMore, OnlyEmpty
    <3>4. ASSUME d = "in" PROVE Only(sent'[1], {"checkinok"} \cup Commands)
      <4>1. Only(sent[1], {"checkinok"} \cup Commands)
        BY <1>c, <2>3, <3>4, OnlyEmpty DEF TlsTalk
      <4> QED
        BY <1>d, <2>3, <3>1, <3>4, <4>1, SayMore
    <3>5. d \in {"none", "token"} => Len(sent'[1]) <= 1
      BY <1>d, <3>1, <3>2, SayMore
    <3>6. recv_at[1] \notin {"key", "sign"}
      <4>1. recv_at[1] = "key" => dialogue[1] = "none"
        BY <1>c DEF TlsTalk
      <4>2. recv_at[1] = "sign" => dialogue[1] = "token"
        BY <1>c DEF TlsTalk
      <4> QED
        BY <2>3, <4>1, <4>2
    <3>7. beat_at[1] # "none" => d = "in"
      BY <1>c, <2>3 DEF TlsTalk
    <3> QED
      BY <1>5, <2>3, <3>3, <3>4, <3>5, <3>6, <3>7 DEF TlsTalk, CloudSays, tm_task_vars
  <2>4. TlsTalk'
    <3>1. CASE dialogue[1] = "welcome" /\ Say(1, "welcome") /\ dialogue' = [dialogue EXCEPT ![1] = "none"]
      BY <1>a, <2>3, <3>1 DEF Say, Says, TlsTypes
    <3>2. CASE dialogue[1] = "key" /\ Say(1, "token") /\ dialogue' = [dialogue EXCEPT ![1] = "token"]
      BY <1>a, <2>3, <3>2 DEF Say, Says, TlsTypes
    <3>3. CASE dialogue[1] = "sign" /\ Say(1, "checkinok") /\ dialogue' = [dialogue EXCEPT ![1] = "in"]
      BY <1>a, <2>3, <3>3 DEF Say, Says, TlsTypes
    <3>4. ASSUME NEW m \in Commands, dialogue[1] = "in", Say(1, m), UNCHANGED dialogue
          PROVE  TlsTalk'
      BY <2>3, <3>4 DEF Say, Says
    <3> QED
      BY <1>5, <2>1, <3>1, <3>2, <3>3, <3>4 DEF CloudSays
  <2> QED
    BY <2>2, <2>4
<1>6. ASSUME NEW c \in Conns, ReceiveData(c)
      PROVE  TlsOthers' /\ TlsStart' /\ TlsTalk'
  <2>1. c = 1
    BY <1>6, <1>c DEF ReceiveData, TlsOthers
  <2>2. conn_at[1] = "up" /\ current = 1 /\ ctx[1] = "live" /\ ~hung_up
    BY <1>6, <1>a, <1>c, <2>1 DEF ReceiveData, TlsStart, TlsTypes
  <2>3. ~tls_fault'
    BY <1>6, <1>c, <2>2 DEF ReceiveData, TlsStart
  <2>4. PICK n \in 1..Len(sent[1]) : sent' = [sent EXCEPT ![1] = SubSeq(sent[1], n + 1, Len(sent[1]))]
    BY <1>6, <2>1 DEF ReceiveData
  <2>5. /\ sent'[1] = SubSeq(sent[1], n + 1, Len(sent[1]))
        /\ Len(sent[1]) <= 1 => sent'[1] = <<>>
        /\ Len(sent'[1]) <= Len(sent[1]) /\ Len(sent'[1]) \in Nat
        /\ \A S : Only(sent[1], S) => Only(sent'[1], S)
    BY <1>a, <1>d, <2>4, ReadMore DEF TlsTypes
  <2>6. UNCHANGED <<got_ip, conn_at, ctx, current, dialogue, hung_up>>
    BY <1>6 DEF ReceiveData, tm_conn_vars
  <2>7. /\ \A d \in Conns \ {1} : recv_at'[d] = recv_at[d] /\ beat_at'[d] = beat_at[d]
        /\ recv_at'[1] \in {"read", "key", "sign"}
    BY <1>6, <1>a, <2>1 DEF ReceiveData, JsonParse, TlsTypes, tm_task_vars
  <2>8. TlsOthers' /\ TlsStart'
    BY <1>c, <2>2, <2>3, <2>6, <2>7 DEF TlsOthers, TlsStart
  <2>9. TlsTalk'
    <3> DEFINE m == Head(sent[1])
    <3>1. m = sent[1][1] /\ 1 \in 1..Len(sent[1]) /\ m \in Says
      BY <1>6, <1>d, <2>1 DEF ReceiveData
    <3>2. /\ m = "welcome" => dialogue[1] = "none"
          /\ m = "token" => dialogue[1] = "token"
          /\ m = "checkinok" => dialogue[1] = "in"
      <4>1. sent[1] # <<>>
        BY <1>6, <2>1 DEF ReceiveData
      <4>2. dialogue[1] \in {"none", "token", "in"}
        BY <1>a, <1>c, <4>1 DEF TlsTalk, TlsTypes
      <4>3. dialogue[1] = "none" => m = "welcome"
        BY <1>c, <3>1 DEF TlsTalk, Only
      <4>4. dialogue[1] = "token" => m = "token"
        BY <1>c, <3>1 DEF TlsTalk, Only
      <4>5. dialogue[1] = "in" => m \in {"checkinok", "play", "stop"}
        BY <1>c, <3>1 DEF TlsTalk, Only, Commands
      <4> HIDE DEF m
      <4> QED
        BY <4>2, <4>3, <4>4, <4>5
    <3>3. /\ recv_at'[1] = "key" => m = "welcome"
          /\ recv_at'[1] = "sign" => m = "token" /\ md5' = "live"
          /\ beat_at'[1] # "none" => beat_at[1] # "none" \/ m = "checkinok"
      <4>1. CASE JsonParse(1, m)
        BY <1>a, <4>1 DEF JsonParse, TlsTypes
      <4>2. CASE UNCHANGED <<recv_at, beat_at>>
        BY <1>6, <2>1, <4>2 DEF ReceiveData
      <4> QED
        BY <1>6, <2>1, <4>1, <4>2 DEF ReceiveData, tm_task_vars
    <3> HIDE DEF m
    <3>4. dialogue[1] \in {"none", "token"} => sent'[1] = <<>>
      BY <1>c, <2>5 DEF TlsTalk
    <3>5. dialogue[1] \in {"welcome", "key", "sign"} => FALSE
      BY <1>6, <1>c, <2>1 DEF TlsTalk, ReceiveData
    <3>6. dialogue[1] = "in" => Only(sent'[1], {"checkinok"} \cup Commands)
      BY <1>c, <2>5 DEF TlsTalk
    <3>7. Len(<<>>) <= 1
      OBVIOUS
    <3>8. beat_at'[1] # "none" => dialogue[1] = "in"
      BY <1>c, <3>2, <3>3 DEF TlsTalk
    <3>9. /\ recv_at'[1] = "key" => dialogue'[1] = "none"
          /\ recv_at'[1] = "sign" => dialogue'[1] = "token" /\ md5' = "live"
          /\ recv_at'[1] \in {"key", "sign"} => sent'[1] = <<>>
      BY <2>6, <3>2, <3>3, <3>4
    <3> QED
      BY <2>6, <3>4, <3>5, <3>6, <3>7, <3>8, <3>9, OnlyEmpty DEF TlsTalk
  <2> QED
    BY <2>8, <2>9
<1>7. ASSUME NEW c \in Conns, ReceiveClose(c)
      PROVE  TlsOthers' /\ TlsStart' /\ TlsTalk'
  <2>1. c = 1
    BY <1>7, <1>c DEF ReceiveClose, TlsOthers
  <2>2. conn_at[1] = "up" /\ current = 1
    BY <1>7, <1>a, <1>c, <2>1 DEF ReceiveClose, TlsStart, TlsTypes
  <2>3. /\ hung_up' /\ ctx'[1] = "freed" /\ recv_at'[1] = "gone"
        /\ \A d \in Conns \ {1} : ctx'[d] = ctx[d] /\ recv_at'[d] = recv_at[d]
    BY <1>7, <1>a, <2>1, <2>2 DEF ReceiveClose, Clean, TlsTypes
  <2>4. UNCHANGED <<got_ip, conn_at, current, beat_at, dialogue, sent, md5>>
    BY <1>7 DEF ReceiveClose
  <2>5. TlsOthers' /\ TlsStart'
    BY <1>c, <2>2, <2>3, <2>4 DEF TlsOthers, TlsStart
  <2>6. TlsTalk'
    BY <1>c, <2>3, <2>4 DEF TlsTalk
  <2> QED
    BY <2>5, <2>6
<1>8. ASSUME NEW c \in Conns, ReceiveWrites(c)
      PROVE  TlsOthers' /\ TlsStart' /\ TlsTalk'
  <2>1. c = 1
    BY <1>8, <1>c DEF ReceiveWrites, TlsOthers
  <2>2. conn_at[1] = "up" /\ current = 1 /\ ctx[1] = "live" /\ ~hung_up
    BY <1>8, <1>a, <1>c, <2>1 DEF ReceiveWrites, TlsStart, TlsTypes
  <2>3. ~tls_fault'
    BY <1>8, <1>c, <2>1, <2>2 DEF ReceiveWrites, TlsStart, TlsTalk
  <2>4. /\ UNCHANGED <<got_ip, conn_at, ctx, current, beat_at, sent, hung_up>>
        /\ recv_at' = [recv_at EXCEPT ![1] = "read"]
        /\ dialogue' \in {dialogue, [dialogue EXCEPT ![1] = recv_at[1]]}
    BY <1>8, <2>1 DEF ReceiveWrites, tm_conn_vars, tm_note_vars
  <2>5. TlsOthers'
    BY <1>a, <1>c, <2>4 DEF TlsOthers, TlsTypes
  <2>6. TlsStart'
    BY <1>a, <1>c, <2>2, <2>3, <2>4 DEF TlsStart, TlsTypes
  <2>7. /\ sent'[1] = <<>> /\ beat_at'[1] = "none" /\ recv_at'[1] = "read"
    BY <1>8, <1>a, <1>c, <2>1, <2>4 DEF TlsTalk, TlsTypes, ReceiveWrites
  <2>8. Len(<<>>) <= 1
    OBVIOUS
  <2>9. TlsTalk'
    BY <2>7, <2>8, OnlyEmpty DEF TlsTalk
  <2> QED
    BY <2>5, <2>6, <2>9
<1>9. ASSUME NEW c \in Conns, HeartBeat(c)
      PROVE  TlsOthers' /\ TlsStart' /\ TlsTalk'
  <2>1. c = 1
    BY <1>9, <1>c DEF HeartBeat, TlsOthers
  <2>2. conn_at[1] = "up" /\ current = 1
    BY <1>9, <1>a, <1>c, <2>1 DEF HeartBeat, TlsStart, TlsTypes
  <2>3. tls_fault' => hung_up
    BY <1>9, <1>c, <2>2 DEF HeartBeat, TlsStart
  <2>4. /\ UNCHANGED <<got_ip, conn_at, ctx, current, recv_at, dialogue, sent, md5, hung_up>>
        /\ \A d \in Conns \ {1} : beat_at'[d] = beat_at[d]
    BY <1>9, <1>a, <2>1 DEF HeartBeat, TlsTypes, tm_conn_vars, tm_note_vars
  <2>5. TlsOthers'
    BY <1>c, <2>4 DEF TlsOthers
  <2>6. TlsStart'
    BY <1>c, <2>2, <2>3, <2>4 DEF TlsStart
  <2>7. TlsTalk'
    BY <1>9, <1>c, <2>1, <2>4 DEF TlsTalk, HeartBeat
  <2> QED
    BY <2>5, <2>6, <2>7
<1> QED
  BY <1>1, <1>2, <1>3, <1>4, <1>5, <1>6, <1>7, <1>8, <1>9 DEF TmallNext

LEMMA TlsImplies == TlsInv => OneTlsUser
<1> SUFFICES ASSUME TlsInv, got_ip <= 1
             PROVE  /\ \A w1, w2 \in Writers : w1 = w2
                    /\ tls_fault => hung_up
                    /\ \A c \in Conns : conn_at[c] = "over" \/ recv_at[c] = "gone" => ctx[c] = "freed"
  BY DEF OneTlsUser
<1>a. TlsOthers /\ TlsStart /\ TlsTalk /\ TlsTypes /\ 1 \in Conns
  BY TmallAssumption DEF TlsInv, Conns
<1>1. \A w \in Writers : \/ w = <<1, "recv">> /\ recv_at[1] \in {"key", "sign"}
                         \/ w = <<1, "beat">> /\ beat_at[1] = "write"
  BY <1>a DEF Writers, TlsOthers
<1>2. ~(recv_at[1] \in {"key", "sign"} /\ beat_at[1] = "write")
  BY <1>a DEF TlsTalk
<1>3. \A w1, w2 \in Writers : w1 = w2
  BY <1>1, <1>2
<1>4. tls_fault => hung_up
  BY <1>a DEF TlsStart
<1>5. \A c \in Conns : conn_at[c] = "over" \/ recv_at[c] = "gone" => ctx[c] = "freed"
  BY <1>a DEF TlsOthers, TlsStart, TlsTypes
<1> QED
  BY <1>3, <1>4, <1>5

\* With one address from the station, the tasks of hx-tmall never write to the
\* TLS context together, use it only while it is there or after the peer hung
\* up, and leave none behind (user_tmall_genie.c); for any number of addresses
\* and messages.
THEOREM OneTlsUserCorrect == Spec => []OneTlsUser
<1>1. Init => TlsInv
  BY TlsInit DEF Init
<1>2. TlsInv /\ [Next]_vars => TlsInv'
  BY Parts, TlsStep
<1>3. TlsInv => OneTlsUser
  BY TlsImplies
<1> QED
  BY <1>1, <1>2, <1>3, PTL DEF Spec
-----------------------------------------------------------------------------
(* hx-ota: the image.                                                       *)

\* What is in the partition once the header came in one packet.
Received ==
    IF ota_got = 0 THEN ~ota_body /\ ota_flash = <<>>
    ELSE ota_got >= 5 /\ ota_body /\ ota_flash = [k \in 1..ota_got - 5 |-> k]

ImageInv ==
    /\ ota_got \in Nat /\ ota_got <= ImageChunks + 5
    /\ ota_crash => ota_split
    /\ ota_at \in {"wait", "blocked", "connect", "send", "begin"} =>
          ota_got = 0 /\ ~ota_body /\ ota_flash = <<>>
    /\ ota_at \in {"recv", "end"} /\ ~ota_split /\ ~ota_lost => Received
    /\ ota_at = "end" /\ ~ota_cut => ota_got = ImageChunks + 5

LEMMA ResponseIs ==
    /\ ImageChunks \in Nat \ {0}
    /\ Response \in Seq(Nat) /\ Len(Response) = ImageChunks + 5
    /\ Response[1] = TEXT /\ Response[2] = CR /\ Response[3] = LF
    /\ Response[4] = CR /\ Response[5] = LF
    /\ \A i \in 6..ImageChunks + 5 : Response[i] = i - 5
<1>1. ImageChunks \in Nat \ {0}
  BY OtaAssumption
<1>2. /\ Header \in Seq(Nat) /\ Len(Header) = 5
      /\ Header[1] = TEXT /\ Header[2] = CR /\ Header[3] = LF /\ Header[4] = CR /\ Header[5] = LF
  BY <1>1 DEF Header, TEXT, CR, LF
<1>3. Image \in Seq(Nat) /\ Len(Image) = ImageChunks /\ \A k \in 1..ImageChunks : Image[k] = k
  BY <1>1 DEF Image
<1> HIDE DEF Header, Image
<1>4. /\ Header \o Image \in Seq(Nat) /\ Len(Header \o Image) = 5 + ImageChunks
      /\ \A i \in 1..5 : (Header \o Image)[i] = Header[i]
      /\ \A i \in 6..ImageChunks + 5 : (Header \o Image)[i] = Image[i - 5]
  <2>1. /\ Header \o Image \in Seq(Nat) /\ Len(Header \o Image) = 5 + ImageChunks
        /\ \A i \in 1..5 + ImageChunks : (Header \o Image)[i] = IF i <= 5 THEN Header[i] ELSE Image[i - 5]
    <3>1. /\ Header \o Image \in Seq(Nat) /\ Len(Header \o Image) = Len(Header) + Len(Image)
          /\ \A i \in 1..Len(Header) + Len(Image) :
                (Header \o Image)[i] = IF i <= Len(Header) THEN Header[i] ELSE Image[i - Len(Header)]
      BY <1>2, <1>3, ConcatProperties
    <3> QED
      BY <1>1, <1>2, <1>3, <3>1
  <2>2. /\ \A i \in 1..5 : i \in 1..5 + ImageChunks /\ i <= 5
        /\ \A i \in 6..ImageChunks + 5 : i \in 1..5 + ImageChunks /\ ~(i <= 5)
    BY <1>1
  <2> QED
    BY <2>1, <2>2
<1> QED
  BY <1>1, <1>2, <1>3, <1>4 DEF Response

LEMMA PacketIs ==
    ASSUME NEW g \in Nat, NEW n \in 1..Len(Response) - g
    PROVE  LET packet == SubSeq(Response, g + 1, g + n) IN
           /\ Len(packet) = n
           /\ \A i \in 1..n : packet[i] = Response[g + i]
<1>1. Response \in Seq(Nat) /\ Len(Response) \in Nat /\ n \in Nat /\ g + n <= Len(Response)
  BY ResponseIs
<1> QED
  BY <1>1

LEMMA Grown ==
    ASSUME NEW g \in Nat, NEW n \in Nat
    PROVE  [k \in 1..g |-> k] \o [k \in 1..n |-> g + k] = [k \in 1..g + n |-> k]
<1> DEFINE f == [k \in 1..g |-> k]
           h == [k \in 1..n |-> g + k]
<1>1. f \in Seq(Nat) /\ Len(f) = g /\ \A k \in 1..g : f[k] = k
  OBVIOUS
<1>2. h \in Seq(Nat) /\ Len(h) = n /\ \A k \in 1..n : h[k] = g + k
  OBVIOUS
<1> HIDE DEF f, h
<1>3. /\ f \o h \in Seq(Nat) /\ Len(f \o h) = g + n
      /\ \A k \in 1..g + n : (f \o h)[k] = k
  <2>1. /\ f \o h \in Seq(Nat) /\ Len(f \o h) = g + n
        /\ \A k \in 1..g + n : (f \o h)[k] = IF k <= g THEN f[k] ELSE h[k - g]
    BY <1>1, <1>2, ConcatProperties
  <2>2. \A k \in 1..g + n : IF k <= g THEN k \in 1..g ELSE k - g \in 1..n /\ g + (k - g) = k
    OBVIOUS
  <2> QED
    BY <1>1, <1>2, <2>1, <2>2
<1>4. f \o h = [k \in 1..g + n |-> k]
  <2> DEFINE all == [k \in 1..g + n |-> k]
  <2>1. all \in Seq(Nat) /\ Len(all) = g + n /\ \A k \in 1..g + n : all[k] = k
    OBVIOUS
  <2> HIDE DEF all
  <2>2. f \o h = all
    BY <1>3, <2>1, SeqEqual
  <2> QED
    BY <2>2 DEF all
<1> QED
  BY <1>4 DEF f, h

\* A packet of the body adds the chunks that come next.
LEMMA BodyChunks ==
    ASSUME NEW g \in Nat, g >= 5, NEW n \in 1..Len(Response) - g
    PROVE  LET packet == SubSeq(Response, g + 1, g + n)
           IN  [k \in 1..g - 5 |-> k] \o Chunks(packet, 1) = [k \in 1..g + n - 5 |-> k]
<1> DEFINE packet == SubSeq(Response, g + 1, g + n)
<1>1. n \in Nat /\ Len(packet) = n /\ n >= 1 /\ g + n <= ImageChunks + 5 /\ ImageChunks \in Nat
  BY PacketIs, ResponseIs
<1>2. \A k \in 1..n : packet[k] = g - 5 + k
  <2>1. \A k \in 1..n : packet[k] = Response[g + k] /\ g + k \in 6..ImageChunks + 5
    BY <1>1, PacketIs
  <2>2. \A k \in 1..n : Response[g + k] = g + k - 5
    BY <2>1, ResponseIs
  <2> QED
    BY <2>1, <2>2
<1> HIDE DEF packet
<1>3. Chunks(packet, 1) = [k \in 1..n |-> g - 5 + k]
  <2>1. \A k \in 1..n : packet[k + 1 - 1] = g - 5 + k /\ g - 5 + k \in 1..ImageChunks
    BY <1>1, <1>2
  <2>2. n - 1 + 1 = n
    BY <1>1
  <2> QED
    BY <1>1, <2>1, <2>2 DEF Chunks
<1>4. g - 5 \in Nat /\ g - 5 + n = g + n - 5
  BY <1>1
<1>5. [k \in 1..g - 5 |-> k] \o [k \in 1..n |-> g - 5 + k] = [k \in 1..g - 5 + n |-> k]
  BY <1>1, <1>4, Grown
<1> QED
  BY <1>3, <1>4, <1>5 DEF packet

\* In a first packet with the whole header there is one empty line, and what
\* follows it are the first chunks.
LEMMA FirstChunks ==
    ASSUME NEW n \in 1..Len(Response), n >= 5
    PROVE  LET packet == SubSeq(Response, 1, n)
           IN  /\ {i \in EmptyLine(packet) : packet[i] = CR} = {4}
               /\ <<>> \o AfterLine(packet, 4) = [k \in 1..n - 5 |-> k]
<1> DEFINE packet == SubSeq(Response, 1, n)
<1>1. n \in Nat /\ n <= ImageChunks + 5 /\ ImageChunks \in Nat \ {0}
  BY ResponseIs
<1>2. Len(packet) = n /\ \A i \in 1..n : packet[i] = Response[i]
  <2>1. n \in 1..Len(Response) - 0 /\ \A i \in 1..n : 0 + i = i
    BY <1>1, ResponseIs
  <2>2. 0 + 1 = 1 /\ 0 + n = n
    BY <1>1
  <2> QED
    BY <2>1, <2>2, PacketIs
<1> HIDE DEF packet
<1>3. /\ packet[1] = TEXT /\ packet[2] = CR /\ packet[3] = LF /\ packet[4] = CR /\ packet[5] = LF
      /\ \A i \in 6..n : packet[i] = i - 5
  BY <1>1, <1>2, ResponseIs
<1>4. {i \in EmptyLine(packet) : packet[i] = CR} = {4}
  <2>1. \A i \in 1..n : packet[i] = CR => i \in {2, 4}
    <3>1. \A i \in 1..n : i \in {1, 2, 3, 4, 5} \/ i \in 6..n
      BY <1>1
    <3>2. \A i \in 6..n : packet[i] # CR
      BY <1>1, <1>3 DEF CR
    <3>3. packet[1] # CR /\ packet[3] # CR /\ packet[5] # CR
      BY <1>1, <1>3 DEF TEXT, CR, LF
    <3> QED
      BY <3>1, <3>2, <3>3
  <2>2. 2 \notin EmptyLine(packet)
    BY <1>2, <1>3 DEF EmptyLine
  <2>3. 4 \in EmptyLine(packet)
    <3>1. packet[4 - 1] \notin {TEXT, CR}
      BY <1>1, <1>3 DEF TEXT, CR, LF
    <3>2. 4 \in 1..Len(packet) /\ 4 < Len(packet) /\ packet[4 + 1] = LF
      BY <1>1, <1>2, <1>3
    <3> QED
      BY <1>3, <3>1, <3>2 DEF EmptyLine
  <2>4. EmptyLine(packet) \subseteq 1..n
    BY <1>2 DEF EmptyLine
  <2> QED
    BY <1>3, <2>1, <2>2, <2>3, <2>4
<1>5. AfterLine(packet, 4) = Chunks(packet, 6)
  BY <1>3 DEF AfterLine
<1>6. Chunks(packet, 6) = [k \in 1..n - 5 |-> k]
  <2>1. \A k \in 1..n - 5 : packet[6 + k - 1] = k /\ k \in 1..ImageChunks
    <3>1. \A k \in 1..n - 5 : 6 + k - 1 \in 6..n /\ 6 + k - 1 - 5 = k /\ k \in 1..ImageChunks
      BY <1>1
    <3> QED
      BY <1>3, <3>1
  <2>2. n - 6 + 1 = n - 5 /\ 6 - 1 = 5
    BY <1>1
  <2> QED
    BY <1>2, <1>3, <2>1, <2>2 DEF Chunks
<1>7. <<>> \o [k \in 1..n - 5 |-> k] = [k \in 1..n - 5 |-> k]
  <2>1. n - 5 \in Nat
    BY <1>1
  <2>2. [k \in 1..n - 5 |-> k] \in Seq(Nat)
    BY <2>1
  <2> HIDE DEF packet
  <2> QED
    BY <2>2
<1> QED
  BY <1>4, <1>5, <1>6, <1>7 DEF packet

LEMMA ImageInit == OtaInit => ImageInv
BY OtaAssumption DEF OtaInit, ImageInv

LEMMA PacketStep ==
    ASSUME ImageInv, OtaPacket
    PROVE  ImageInv'
<1>1. PICK n \in 1..Len(Response) - ota_got :
          LET packet == SubSeq(Response, ota_got + 1, ota_got + n)
          IN  /\ ota_got' = ota_got + n
              /\ HeaderPacket(packet) \/ BodyPacket(packet)
  BY DEF OtaPacket
<1> DEFINE packet == SubSeq(Response, ota_got + 1, ota_got + n)
<1>2. /\ ota_got \in Nat /\ n \in Nat /\ n >= 1 /\ ota_got + n <= ImageChunks + 5
      /\ ImageChunks \in Nat \ {0}
  BY ResponseIs DEF ImageInv
<1>3. Len(packet) = n
  BY <1>2, PacketIs
<1>4. ota_at = "recv" /\ UNCHANGED ota_cut
  BY DEF OtaPacket
<1>5. ota_got' = ota_got + n /\ (HeaderPacket(packet) \/ BodyPacket(packet))
  BY <1>1
<1>h. Len(Header) = 5
  BY DEF Header
<1>6. CASE HeaderPacket(packet)
  <2> HIDE DEF packet
  <2>1. ota_at' = "recv" /\ ~ota_body
    BY <1>6 DEF HeaderPacket
  <2>a. ota_split => ota_split'
    BY <1>6 DEF HeaderPacket
  <2>b. n < 5 => ota_split'
    BY <1>3, <1>6, <1>h DEF HeaderPacket
  <2>c. ota_crash' => ota_crash \/ n = 1
    BY <1>3, <1>6 DEF HeaderPacket
  <2>d. n = 1 => n < 5
    BY <1>2
  <2>e. ota_crash => ota_split
    BY DEF ImageInv
  <2>2. ota_crash' => ota_split'
    BY <2>a, <2>b, <2>c, <2>d, <2>e
  <2>3. ASSUME ~ota_split', ~ota_lost' PROVE Received'
    <3>a. ~ota_split /\ ~(n < 5)
      BY <2>3, <2>a, <2>b
    <3>1. ~ota_split /\ n >= 5
      BY <1>2, <3>a
    <3>2. ~ota_lost
      BY <1>6, <2>3 DEF HeaderPacket
    <3>3. ota_got = 0 /\ ota_flash = <<>>
      BY <1>4, <2>1, <3>1, <3>2 DEF ImageInv, Received
    <3>4. /\ {i \in EmptyLine(packet) : packet[i] = CR} = {4}
          /\ <<>> \o AfterLine(packet, 4) = [k \in 1..n - 5 |-> k]
      <4>1. n \in 1..Len(Response) /\ 0 + 1 = 1 /\ 0 + n = n
        BY <1>2, ResponseIs
      <4> QED
        BY <3>1, <3>3, <4>1, FirstChunks DEF packet
    <3>5. (CHOOSE i \in {4} : \A j \in {4} : i <= j) = 4
      OBVIOUS
    <3>6. PICK written \in BOOLEAN :
              /\ ota_body' = written
              /\ ota_lost' = (ota_lost \/ ~written)
              /\ ota_flash' = IF written THEN ota_flash \o AfterLine(packet, 4) ELSE ota_flash
      <4> DEFINE sure == {i \in EmptyLine(packet) : packet[i] = CR}
                 first == CHOOSE i \in sure : \A j \in sure : i <= j
      <4>1. sure = {4} /\ sure # {}
        BY <3>4
      <4>2. first = 4
        BY <3>5, <4>1
      <4>3. \/ \E i \in IF sure # {} THEN {first} ELSE EmptyLine(packet), written \in BOOLEAN :
                 /\ ota_body' = written
                 /\ ota_lost' = (ota_lost \/ ~written)
                 /\ ota_flash' = IF written THEN ota_flash \o AfterLine(packet, i) ELSE ota_flash
            \/ sure = {} /\ UNCHANGED <<ota_body, ota_lost, ota_flash>>
        BY <1>6 DEF HeaderPacket
      <4> HIDE DEF sure, first
      <4> QED
        BY <4>1, <4>2, <4>3
    <3>7. written
      BY <2>3, <3>6
    <3>8. ota_flash' = [k \in 1..n - 5 |-> k] /\ ota_body' /\ ota_got' = n
      BY <1>2, <1>5, <3>3, <3>4, <3>6, <3>7
    <3> QED
      BY <3>1, <3>8 DEF Received
  <2>4. ota_got' \in Nat /\ ota_got' <= ImageChunks + 5
    BY <1>2, <1>5
  <2> QED
    BY <2>1, <2>2, <2>3, <2>4 DEF ImageInv
<1>7. CASE BodyPacket(packet)
  <2>1. /\ ota_body /\ UNCHANGED <<ota_body, ota_split, ota_lost, ota_crash>>
        /\ \/ ota_at' = "recv" /\ ota_flash' = ota_flash \o Chunks(packet, 1)
           \/ ota_at' = "fatal"
    <3> HIDE DEF packet
    <3> QED BY <1>7 DEF BodyPacket
  <2>a. (~ota_split' => ~ota_split) /\ (~ota_lost' => ~ota_lost) /\ ota_body'
    BY <2>1
  <2>2. ASSUME ota_at' = "recv", ~ota_split', ~ota_lost' PROVE Received'
    <3>1. ota_got >= 5 /\ ota_flash = [k \in 1..ota_got - 5 |-> k]
      BY <1>4, <2>1, <2>2, <2>a DEF ImageInv, Received
    <3>2. ota_flash' = [k \in 1..ota_got + n - 5 |-> k]
      BY <1>2, <2>1, <2>2, <3>1, BodyChunks
    <3>3. ota_got' >= 5 /\ ota_got' # 0
      BY <1>2, <1>5, <3>1
    <3>4. ota_got' = ota_got + n
      BY <1>5
    <3>5. ota_flash' = [k \in 1..ota_got' - 5 |-> k]
      <4>1. ota_got + n - 5 = ota_got' - 5
        BY <1>2, <3>4
      <4> QED
        BY <3>2, <4>1, Zenon
    <3> QED
      BY <2>a, <3>3, <3>5 DEF Received
  <2>3. ota_got' \in Nat /\ ota_got' <= ImageChunks + 5
    BY <1>2, <1>5
  <2>4. ota_crash' => ota_split'
    BY <2>1 DEF ImageInv
  <2> QED
    BY <2>1, <2>2, <2>3, <2>4 DEF ImageInv
<1> QED
  BY <1>5, <1>6, <1>7

LEMMA ImageStep == ImageInv /\ [OtaNext]_ota_vars => ImageInv'
<1> SUFFICES ASSUME ImageInv, [OtaNext]_ota_vars PROVE ImageInv'
  OBVIOUS
<1>1. CASE UNCHANGED ota_vars
  BY <1>1 DEF ImageInv, Received, ota_vars, ota_note_vars
<1>2. CASE OtaEventHandler \/ OtaWait \/ OtaConnect \/ OtaRequest
  <2>1. UNCHANGED <<ota_got, ota_body, ota_flash, ota_note_vars>>
    BY <1>2 DEF OtaEventHandler, OtaWait, OtaConnect, OtaRequest
  <2>2. \/ ota_at' = ota_at
        \/ /\ ota_at \in {"wait", "blocked", "connect", "send", "begin"}
           /\ ota_at' \in {"blocked", "connect", "send", "begin", "recv", "fatal"}
    BY <1>2 DEF OtaEventHandler, OtaWait, OtaConnect, OtaRequest
  <2> QED
    BY <2>1, <2>2 DEF ImageInv, Received, ota_note_vars
<1>3. CASE OtaPacket
  BY <1>3, PacketStep
<1>4. CASE OtaReceiveEnd
  <2>1. UNCHANGED <<ota_got, ota_body, ota_flash, ota_split, ota_lost, ota_crash>> /\ ota_at = "recv"
    BY <1>4 DEF OtaReceiveEnd
  <2>2. ota_at' \in {"fatal", "end"} /\ (ota_at' = "end" => ota_cut' = (ota_got < Len(Response)))
    BY <1>4 DEF OtaReceiveEnd
  <2>a. ota_at' = "end" /\ ~ota_cut' => ~(ota_got < Len(Response))
    BY <2>2
  <2>b. ota_got \in Nat /\ ota_got <= Len(Response) /\ Len(Response) = ImageChunks + 5 /\ ImageChunks \in Nat
    BY ResponseIs DEF ImageInv
  <2>3. ota_at' = "end" /\ ~ota_cut' => ota_got' = ImageChunks + 5
    BY <2>1, <2>a, <2>b
  <2> QED
    BY <2>1, <2>2, <2>3 DEF ImageInv, Received
<1>5. CASE OtaFinish \/ TaskFatalError
  BY <1>5 DEF ImageInv, OtaFinish, TaskFatalError, ota_note_vars
<1> QED
  BY <1>1, <1>2, <1>3, <1>4, <1>5 DEF OtaNext

\* However the response is cut into packets, once the header came in one of
\* them the whole image is in the partition, in order (ota_example_main.c); for
\* an image of any length.
THEOREM ImageCorrect == Spec => []ImageWhole
<1>1. Init => ImageInv
  BY ImageInit DEF Init
<1>2. ImageInv /\ [Next]_vars => ImageInv'
  BY Parts, ImageStep
<1>3. ImageInv => ImageWhole
  <2> SUFFICES ASSUME ImageInv, ~ota_split
               PROVE  ~ota_crash /\ (ota_at = "end" /\ ~ota_cut /\ ~ota_lost => ota_flash = Image)
    BY DEF ImageWhole
  <2>1. ~ota_crash
    BY DEF ImageInv
  <2>2. ASSUME ota_at = "end", ~ota_cut, ~ota_lost PROVE ota_flash = Image
    <3>1. ota_got = ImageChunks + 5 /\ Received /\ ImageChunks \in Nat
      BY <2>2, OtaAssumption DEF ImageInv
    <3>2. ota_got # 0 /\ ota_got - 5 = ImageChunks
      BY <3>1
    <3> QED
      BY <3>1, <3>2 DEF Received, Image
  <2> QED
    BY <2>1, <2>2
<1> QED
  BY <1>1, <1>2, <1>3, PTL DEF Spec
-----------------------------------------------------------------------------
(* hx-tcp, hx-udp and the sockets of the others.                            *)

\* While no restart has begun under a live recv_data, the server build goes as
\* that of hans_tcp does, but for a flag that may be up because a station left.
ReaderInv ==
    /\ Link!TypeOK /\ tl_asked \in BOOLEAN /\ tl_under \in BOOLEAN
    /\ tl_under => tl_conn_at = "listen"
    /\ ~tl_under =>
         /\ tl_conn_at \notin {"connect", "redelay"}
         /\ tl_conn_at \in {"clear", "wait", "blocked", "socket", "bind"} => ~tl_restarting
         /\ tl_conn_at \in {"loop", "unflag"} => tl_restarting
         /\ ~tl_restarting /\ tl_restart => tl_asked
         /\ tl_conn_at = "spawn" =>
               tl_connect_socket \in Fds /\ tl_sock[tl_connect_socket] \in {"up", "gone"}
         /\ tl_conn_at = "bind" => tl_server_socket \in Fds
         /\ tl_conn_at = "loop" /\ tl_restart /\ Link!Alive # {} => tl_asked
         /\ Link!OneReader
         /\ \A r \in Link!Alive :
               /\ tl_conn_at \in {"loop", "unflag"}
               /\ tl_recv_at[r] \in {"recv", "blocked", "data", "failed"}
               /\ tl_recv_at[r] # "recv" => tl_recv_fd[r] = tl_connect_socket
               /\ tl_connect_socket \in Fds /\ tl_sock[tl_connect_socket] \in {"up", "gone"}

LEMMA ReaderInit == TcpLessonInit => ReaderInv
BY TcpLessonAssumption
   DEF TcpLessonInit, ReaderInv, Link!Init, Link!TypeOK, Link!SockState, Link!ConnState, Link!RecvState,
       Link!Alive, Link!OneReader

LEMMA ReaderStep == ReaderInv /\ [TcpLessonNext]_tcp_lesson_vars => ReaderInv'
<1> SUFFICES ASSUME ReaderInv, [TcpLessonNext]_tcp_lesson_vars PROVE ReaderInv'
  OBVIOUS
<1> USE TcpLessonAssumption
<1> USE DEF ReaderInv, Link!TypeOK, Link!SockState, Link!ConnState, Link!RecvState,
            Link!Alive, Link!OneReader, Link!Close, Link!CreateFailed,
            Link!conn_vars, Link!recv_vars, Link!fd_vars
<1>1. CASE UNCHANGED tcp_lesson_vars
  BY <1>1 DEF tcp_lesson_vars, tl_link_vars
<1>2. ASSUME ~tl_under, LessonTcpConnect PROVE ReaderInv'
  <2>a. /\ tl_asked' = (tl_asked /\ tl_restart')
        /\ tl_under' = (tl_under \/ (tl_conn_at = "loop" /\ Link!Alive # {}))
    BY <1>2 DEF LessonTcpConnect
  <2>1. CASE Link!BindOk           BY <1>2, <2>a, <2>1 DEF Link!BindOk
  <2>2. CASE Link!BindFail         BY <1>2, <2>a, <2>2 DEF Link!BindFail
  <2>3. CASE Link!ListenOk         BY <1>2, <2>a, <2>3 DEF Link!ListenOk
  <2>4. CASE Link!ListenFail       BY <1>2, <2>a, <2>4 DEF Link!ListenFail
  <2>5. ASSUME NEW fd \in Fds, Link!AcceptOk(fd) PROVE ReaderInv'
    BY <1>2, <2>a, <2>5 DEF Link!AcceptOk
  <2>6. CASE Link!AcceptFail       BY <1>2, <2>a, <2>6 DEF Link!AcceptFail
  <2>7. CASE Link!ClearRestart     BY <1>2, <2>a, <2>7 DEF Link!ClearRestart
  <2>8. CASE Link!WaitConnected    BY <1>2, <2>a, <2>8 DEF Link!WaitConnected
  <2>9. CASE Link!SocketFail       BY <1>2, <2>a, <2>9 DEF Link!SocketFail
  <2>10. ASSUME NEW fd \in Fds, Link!SocketOk(fd) PROVE ReaderInv'
    BY <1>2, <2>a, <2>10 DEF Link!SocketOk
  <2>11. CASE Link!SpawnFail       BY <1>2, <2>a, <2>11 DEF Link!SpawnFail
  <2>12. ASSUME NEW r \in Readers, Link!SpawnOk(r) PROVE ReaderInv'
    BY <1>2, <2>a, <2>12 DEF Link!SpawnOk
  <2>13. CASE Link!Unflag          BY <1>2, <2>a, <2>13 DEF Link!Unflag
  <2>14. CASE Link!PollRestart     BY <1>2, <2>a, <2>14 DEF Link!PollRestart
  <2> QED
    BY <1>2, <2>1, <2>2, <2>3, <2>4, <2>5, <2>6, <2>7, <2>8, <2>9, <2>10, <2>11, <2>12, <2>13, <2>14
       DEF LessonTcpConnect, LessonCreateTcpServer, Link!CreateTcpServer
<1>3. ASSUME ~tl_under, LessonTcpRecvData PROVE ReaderInv'
  <2>a. tl_asked' = (tl_asked /\ tl_restart') /\ UNCHANGED <<tl_stations, tl_under>>
    BY <1>3 DEF LessonTcpRecvData
  <2>1. ASSUME NEW r \in Readers, Link!RecvCall(r) PROVE ReaderInv'
    BY <1>3, <2>a, <2>1 DEF Link!RecvCall
  <2>2. ASSUME NEW r \in Readers, Link!RecvData(r) PROVE ReaderInv'
    BY <1>3, <2>a, <2>2 DEF Link!RecvData
  <2>3. ASSUME NEW r \in Readers, Link!RecvEnd(r) PROVE ReaderInv'
    <3>1. /\ tl_recv_at' = [tl_recv_at EXCEPT ![r] = "failed"] /\ tl_recv_at[r] = "blocked"
          /\ tl_restart' = FALSE
          /\ UNCHANGED <<tl_sock, tl_server_socket, tl_connect_socket, tl_bit, tl_conn_at,
                         tl_restarting, tl_served, tl_recv_fd>>
      BY <2>3 DEF Link!RecvEnd
    <3> QED
      BY <1>3, <2>a, <3>1
  <2>4. ASSUME NEW r \in Readers, Link!ForwardAndEcho(r) PROVE ReaderInv'
    BY <1>3, <2>a, <2>4 DEF Link!ForwardAndEcho
  <2>5. ASSUME NEW r \in Readers, Link!RecvFailed(r) PROVE ReaderInv'
    BY <1>3, <2>a, <2>5 DEF Link!RecvFailed
  <2>6. ASSUME NEW r \in Readers, Link!CloseSocket(r) \/ Link!MarkRestart(r) PROVE ReaderInv'
    BY <1>3, <2>a, <2>6 DEF Link!CloseSocket, Link!MarkRestart
  <2>7. ASSUME NEW fd \in Fds, Link!PeerCloses(fd) PROVE ReaderInv'
    BY <1>3, <2>a, <2>7 DEF Link!PeerCloses
  <2> QED
    BY <1>3, <2>1, <2>2, <2>3, <2>4, <2>5, <2>6, <2>7 DEF LessonTcpRecvData, Link!RecvTask
<1>4. ASSUME ~tl_under, StationJoins PROVE ReaderInv'
  BY <1>4 DEF StationJoins
<1>5. ASSUME ~tl_under, StationLeaves PROVE ReaderInv'
  BY <1>5 DEF StationLeaves
<1> QED
  BY <1>1, <1>2, <1>3, <1>4, <1>5 DEF TcpLessonNext

UdpInv ==
    /\ UdpSocketOwned /\ UdpBitMeansJoined
    /\ udp_unread \in BOOLEAN /\ udp_misled \in BOOLEAN
    /\ udp_sock \in {"none", "open", "closed"} /\ udp_closes \in Nat
    /\ udp_sock # "closed" => udp_closes = 0
    /\ udp_at \in {"wait", "blocked", "socket"} => udp_sock = "none"
    /\ udp_at \in {"greet", "spawn"} => udp_sock = "open"
    /\ udp_at # "over" => udp_recv_at = "none" /\ ~udp_unread
    /\ udp_unread => udp_recv_at = "none"
    /\ udp_recv_at = "echo" => client_addr = udp_sender

LEMMA UdpStart == UdpLessonInit => UdpInv
<1> SUFFICES ASSUME UdpLessonInit PROVE UdpInv
  OBVIOUS
<1>1. ~udp_bit /\ ul_link = "off"
  BY DEF UdpLessonInit, UdpInit
<1>2. UdpBitMeansJoined
  BY <1>1 DEF UdpBitMeansJoined
<1>3. udp_unread \in BOOLEAN /\ ~udp_unread
  BY DEF UdpLessonInit, UdpInit
<1>4. udp_misled \in BOOLEAN /\ ~udp_misled
  BY DEF UdpLessonInit, UdpInit
<1>5. udp_at = "wait" /\ udp_sock = "none" /\ udp_recv_at = "none" /\ udp_closes = 0
  BY DEF UdpLessonInit, UdpInit
<1>6. UdpSocketOwned
  BY <1>4, <1>5 DEF UdpSocketOwned
<1> QED
  BY <1>2, <1>3, <1>4, <1>5, <1>6 DEF UdpInv

LEMMA UdpStep == UdpInv /\ [UdpLessonNext]_udp_lesson_vars => UdpInv'
<1> SUFFICES ASSUME UdpInv, [UdpLessonNext]_udp_lesson_vars PROVE UdpInv'
  OBVIOUS
<1> USE DEF UdpInv, UdpSocketOwned, UdpBitMeansJoined, udp_link_vars, udp_lesson_vars
<1>1. CASE UNCHANGED udp_lesson_vars
  BY <1>1
<1>2. CASE UNCHANGED ul_link /\ UdpWait      BY <1>2 DEF UdpWait
<1>3. CASE UNCHANGED ul_link /\ UdpSocket    BY <1>3 DEF UdpSocket
<1>4. CASE UNCHANGED ul_link /\ UdpGreet     BY <1>4 DEF UdpGreet, CloseUdp
<1>5. CASE UNCHANGED ul_link /\ UdpSpawn
  <2>1. /\ udp_at = "spawn" /\ udp_at' = "over" /\ udp_sock = "open" /\ udp_recv_at = "none"
        /\ UNCHANGED <<udp_bit, udp_sock, client_addr, udp_sender, udp_closes, udp_misled, ul_link>>
    BY <1>5 DEF UdpSpawn
  <2>2. CASE udp_recv_at' = "recv" /\ UNCHANGED udp_unread
    BY <2>1, <2>2
  <2>3. CASE udp_unread' = TRUE /\ UNCHANGED udp_recv_at
    <3>1. udp_unread' /\ udp_unread' \in BOOLEAN
      BY <2>3
    <3> QED
      BY <2>1, <2>3, <3>1
  <2> QED
    BY <1>5, <2>2, <2>3 DEF UdpSpawn
<1>6. CASE UNCHANGED ul_link /\ UdpReceive   BY <1>6 DEF UdpReceive
<1>7. CASE UNCHANGED ul_link /\ UdpEcho      BY <1>7 DEF UdpEcho
<1>8. CASE UNCHANGED ul_link /\ UdpRecvOver  BY <1>8 DEF UdpRecvOver, CloseUdp
<1>9. CASE UdpEventHandler
  BY <1>9 DEF UdpEventHandler, UdpLinkLost, UdpBit
<1> QED
  BY <1>1, <1>2, <1>3, <1>4, <1>5, <1>6, <1>7, <1>8, <1>9
     DEF UdpLessonNext, LessonUdpConnect, LessonUdpRecvData, UdpConnect, UdpRecvData

HgInv ==
    /\ HgResources
    /\ sc_at \in {"wait", "blocked", "none"} => hg_at = "none"
    /\ hg_sock \in {"closed", "open"} /\ hg_res \in {"none", "live"}
    /\ hg_at = "none" => hg_sock = "closed" /\ hg_res = "none"

LEMMA HgStep == HgInv /\ (sc_phase = "off" => sc_at = "none") /\ [ScHttpNext]_sc_vars
                => HgInv' /\ (sc_phase = "off" => sc_at = "none")'
<1> SUFFICES ASSUME HgInv, sc_phase = "off" => sc_at = "none", [ScHttpNext]_sc_vars
             PROVE  HgInv' /\ (sc_phase = "off" => sc_at = "none")'
  OBVIOUS
<1> USE DEF HgInv, HgResources, sc_vars, sc_task_vars
<1>1. CASE UNCHANGED sc_vars
  BY <1>1
<1>2. CASE ScEventHandler              BY <1>2 DEF ScEventHandler, ScSet
<1>3. CASE ScCallback                  BY <1>3 DEF ScCallback, ScSet
<1>4. CASE ScTaskPlain \/ ScTaskHttp   BY <1>4 DEF ScTaskPlain, ScTaskHttp, ScTask
<1>5. CASE HttpGetTask
  BY <1>5 DEF HttpGetTask, HgLookup, HgSocket, HgConnect, HgWrite, HgRead, HgReadEnd, HgParse, HgClose
<1> QED
  BY <1>1, <1>2, <1>3, <1>4, <1>5 DEF ScHttpNext

OtaSockInv ==
    /\ ota_sock \in {"none", "open", "closed", "twice"}
    /\ OtaSocketClosed
    /\ ota_at \in {"end", "boot"} => ota_sock # "open"

LEMMA OtaSockStep == OtaSockInv /\ [OtaNext]_ota_vars => OtaSockInv'
<1> SUFFICES ASSUME OtaSockInv, [OtaNext]_ota_vars PROVE OtaSockInv'
  OBVIOUS
<1> USE DEF OtaSockInv, OtaSocketClosed
<1>1. CASE UNCHANGED ota_vars       BY <1>1 DEF ota_vars
<1>2. CASE OtaEventHandler          BY <1>2 DEF OtaEventHandler
<1>3. CASE OtaWait \/ OtaConnect \/ OtaRequest
  BY <1>3 DEF OtaWait, OtaConnect, OtaRequest
<1>4. CASE OtaPacket
  <2>1. ota_at' \in {"recv", "fatal"} /\ UNCHANGED ota_sock
    BY <1>4 DEF OtaPacket, HeaderPacket, BodyPacket
  <2> QED BY <2>1
<1>5. CASE OtaReceiveEnd            BY <1>5 DEF OtaReceiveEnd, CloseSocketId
<1>6. CASE OtaFinish                BY <1>6 DEF OtaFinish
<1>7. CASE TaskFatalError           BY <1>7 DEF TaskFatalError, CloseSocketId
<1> QED
  BY <1>1, <1>2, <1>3, <1>4, <1>5, <1>6, <1>7 DEF OtaNext

\* A task that opens a socket closes it once and before it ends, no socket has
\* two readers, and the bit that makes the tasks start says what the station is
\* (hx-udp, hx-tcp, hx-ota, hx-sc-http); for any number of descriptors, tasks,
\* stations and chunks.
THEOREM SocketsCorrect == Spec => []SocketsOwned
<1> DEFINE Inv == UdpInv /\ ReaderInv /\ OtaSockInv /\ HgInv /\ (sc_phase = "off" => sc_at = "none")
<1>1. Init => Inv
  <2> SUFFICES ASSUME Init PROVE Inv
    OBVIOUS
  <2>1. UdpInv
    BY UdpStart DEF Init
  <2>2. ReaderInv
    BY ReaderInit DEF Init
  <2>3. OtaSockInv
    BY DEF Init, OtaInit, OtaSockInv, OtaSocketClosed
  <2>4. HgInv /\ (sc_phase = "off" => sc_at = "none")
    BY DEF Init, ScHttpInit, HgInv, HgResources
  <2> QED
    BY <2>1, <2>2, <2>3, <2>4
<1>2. Inv /\ [Next]_vars => Inv'
  BY Parts, UdpStep, ReaderStep, OtaSockStep, HgStep
<1>3. Inv => SocketsOwned
  <2> SUFFICES ASSUME Inv PROVE SocketsOwned
    OBVIOUS
  <2>1. LessonReaders
    <3>1. tl_conn_at = "loop" /\ tl_restart /\ Link!Alive # {} => tl_asked
      BY DEF ReaderInv
    <3>2. ASSUME ~tl_under PROVE Link!OneReader /\ Link!ReaderOwnsSocket
      BY <3>2, TcpLessonAssumption
         DEF ReaderInv, Link!ReaderOwnsSocket, Link!IsOpen, Link!Alive, Link!TypeOK, Link!RecvState
    <3> QED
      BY <3>1, <3>2 DEF LessonReaders
  <2> QED
    BY <2>1 DEF UdpInv, OtaSockInv, HgInv, SocketsOwned
<1> HIDE DEF Inv
<1> QED
  BY <1>1, <1>2, <1>3, PTL DEF Spec
-----------------------------------------------------------------------------
(* The types of all.                                                        *)

\* hx-udp: a task that could not be created closes nothing, and the other
\* closes once.
LEMMA UdpTypesStep ==
    UdpLessonTypeOK /\ UdpInv /\ [UdpLessonNext]_udp_lesson_vars => UdpLessonTypeOK'
<1> SUFFICES ASSUME UdpLessonTypeOK, UdpInv, [UdpLessonNext]_udp_lesson_vars PROVE UdpLessonTypeOK'
  OBVIOUS
<1> USE DEF UdpLessonTypeOK, UdpTypeOK, udp_link_vars, udp_lesson_vars
<1>0. udp_closes \in 0..1
  BY DEF UdpInv, UdpSocketOwned
<1>1. CASE UNCHANGED udp_lesson_vars
  BY <1>1
<1>2. CASE UNCHANGED ul_link /\ UdpWait      BY <1>2 DEF UdpWait
<1>3. CASE UNCHANGED ul_link /\ UdpSocket    BY <1>3 DEF UdpSocket
<1>4. CASE UNCHANGED ul_link /\ UdpGreet     BY <1>0, <1>4 DEF UdpGreet, CloseUdp
<1>5. CASE UNCHANGED ul_link /\ UdpSpawn
  <2>1. udp_unread' = TRUE \/ udp_unread' = udp_unread
    BY <1>5 DEF UdpSpawn
  <2>2. {udp_unread', udp_misled'} \subseteq BOOLEAN
    BY <1>5, <2>1 DEF UdpSpawn
  <2>3. udp_at' = "over" /\ udp_recv_at' \in {"recv", udp_recv_at}
    BY <1>5 DEF UdpSpawn
  <2> QED
    BY <1>5, <2>2, <2>3 DEF UdpSpawn
<1>6. CASE UNCHANGED ul_link /\ UdpReceive   BY <1>6 DEF UdpReceive
<1>7. CASE UNCHANGED ul_link /\ UdpEcho
  <2>1. udp_misled' = TRUE \/ udp_misled' = FALSE
    BY <1>7 DEF UdpEcho
  <2>2. {udp_unread', udp_misled'} \subseteq BOOLEAN
    BY <1>7, <2>1 DEF UdpEcho
  <2> QED
    BY <1>7, <2>2 DEF UdpEcho
<1>8. CASE UNCHANGED ul_link /\ UdpRecvOver  BY <1>0, <1>8 DEF UdpRecvOver, CloseUdp
<1>9. CASE UdpEventHandler
  BY <1>9 DEF UdpEventHandler, UdpLinkLost, UdpBit
<1> QED
  BY <1>1, <1>2, <1>3, <1>4, <1>5, <1>6, <1>7, <1>8, <1>9
     DEF UdpLessonNext, LessonUdpConnect, LessonUdpRecvData, UdpConnect, UdpRecvData

\* hx-tcp: only a place that is free is joined, and only a station leaves.
LEMMA TcpTypesStep ==
    tl_stations \in 0..MaxStations /\ [TcpLessonNext]_tcp_lesson_vars => tl_stations' \in 0..MaxStations
<1> SUFFICES ASSUME tl_stations \in 0..MaxStations, [TcpLessonNext]_tcp_lesson_vars
             PROVE  tl_stations' \in 0..MaxStations
  OBVIOUS
<1> USE TcpLessonAssumption
<1>1. CASE StationJoins
  BY <1>1 DEF StationJoins
<1>2. CASE StationLeaves
  BY <1>2 DEF StationLeaves
<1>3. CASE UNCHANGED tl_stations
  BY <1>3
<1> QED
  BY <1>1, <1>2, <1>3 DEF TcpLessonNext, LessonTcpConnect, LessonTcpRecvData, tcp_lesson_vars

\* hx-sc and hx-sc-http.
LEMMA ScTypesStep ==
    ScHttpTypeOK /\ WeatherInv /\ [ScHttpNext]_sc_vars => ScHttpTypeOK'
<1> SUFFICES ASSUME ScHttpTypeOK, WeatherInv, [ScHttpNext]_sc_vars PROVE ScHttpTypeOK'
  OBVIOUS
<1> USE ScHttpAssumption DEF ScHttpTypeOK, sc_task_vars, hg_text_vars
<1>1. CASE UNCHANGED sc_vars
  BY <1>1 DEF sc_vars
<1>2. CASE ScEventHandler \/ ScCallback
  BY <1>2 DEF ScEventHandler, ScCallback, ScSet
<1>3. CASE ScTaskPlain \/ ScTaskHttp
  BY <1>3 DEF ScTaskPlain, ScTaskHttp, ScTask
<1>4. CASE HgLookup \/ HgSocket \/ HgConnect
  BY <1>4 DEF HgLookup, HgSocket, HgConnect
<1>5. CASE HgWrite
  <2>1. hg_text' \in Seq(0..1)
    <3>1. <<>> \in Seq(0..1)
      OBVIOUS
    <3>2. hg_text' = <<>> \/ hg_text' = hg_text
      BY <1>5 DEF HgWrite
    <3> QED
      BY <3>1, <3>2
  <2>2. hg_reads' \in 0..MaxReads
    BY <1>5 DEF HgWrite
  <2> QED
    BY <1>5, <2>1, <2>2 DEF HgWrite
<1>6. CASE HgRead
  <2>1. Append(hg_text, hg_round) \in Seq(0..1)
    OBVIOUS
  <2>2. hg_text' \in Seq(0..1) /\ hg_reads' \in 0..MaxReads
    BY <1>6, <2>1 DEF HgRead
  <2>3. (hg_long' = TRUE \/ hg_long' = FALSE) /\ (hg_fault' = TRUE \/ hg_fault' = FALSE)
    BY <1>6 DEF HgRead
  <2>4. {hg_long', hg_fault'} \subseteq BOOLEAN
    BY <2>3
  <2> QED
    BY <1>6, <2>2, <2>4 DEF HgRead
<1>7. CASE HgReadEnd
  BY <1>7 DEF HgReadEnd, Answers
<1>8. CASE HgParse
  <2>1. hg_weather' \in 0..2
    <3>1. CASE hg_answer = "weather"
      <4>1. hg_text = <<hg_round>>
        BY <1>8, <3>1 DEF HgParse, WeatherInv
      <4>2. Head(hg_text) = hg_round
        BY <4>1
      <4> QED
        BY <1>8, <3>1, <4>2 DEF HgParse
    <3>2. CASE hg_answer # "weather"
      BY <1>8, <3>2 DEF HgParse
    <3> QED
      BY <3>1, <3>2
  <2>2. {hg_long', hg_fault'} \subseteq BOOLEAN
    BY <1>8 DEF HgParse
  <2> QED
    BY <1>8, <2>1, <2>2 DEF HgParse
<1>9. CASE HgClose
  BY <1>9 DEF HgClose
<1> QED
  BY <1>1, <1>2, <1>3, <1>4, <1>5, <1>6, <1>7, <1>8, <1>9 DEF ScHttpNext, HttpGetTask

\* hx-mqtt-wan: no more messages than there is room for.
LEMMA MqttTypesStep == MqttTypeOK /\ [MqttNext]_mq_vars => MqttTypeOK'
<1> SUFFICES ASSUME MqttTypeOK, [MqttNext]_mq_vars PROVE MqttTypeOK'
  OBVIOUS
<1> USE MqttAssumption DEF MqttTypeOK, mq_led_vars, mq_key_vars, mq_net_vars
<1> DEFINE Kind == {"LED", "text"}
           Room(s) == s \in Seq(Kind) /\ Len(s) <= MaxMsgs
<1>a. ASSUME NEW m \in Kind, Len(mq_msgs) < MaxMsgs PROVE Room(Append(mq_msgs, m))
  BY <1>a
<1>b. mq_msgs # <<>> => Room(Tail(mq_msgs))
  OBVIOUS
<1>c. Room(<<>>) /\ Room(mq_msgs)
  OBVIOUS
<1>d. "LED" \in Kind /\ "text" \in Kind
  OBVIOUS
<1>1. CASE UNCHANGED mq_vars
  BY <1>1 DEF mq_vars
<1>2. CASE AppWaits
  BY <1>2 DEF AppWaits
<1>3. CASE AppConfigures
  BY <1>3 DEF AppConfigures
<1>4. CASE KeyRead1
  <2>1. Room(mq_msgs')
    BY <1>4, <1>a, <1>c, <1>d DEF KeyRead1, Publish
  <2>2. mq_unasked' = TRUE \/ mq_unasked' = FALSE
    BY <1>4 DEF KeyRead1
  <2>3. {led_on', mq_press', led_early', mq_unasked'} \subseteq BOOLEAN
    BY <1>4, <2>2 DEF KeyRead1
  <2> QED
    BY <1>4, <2>1, <2>3 DEF KeyRead1
<1>5. CASE KeyMoves
  <2>1. mq_press' = TRUE \/ mq_press' = FALSE
    BY <1>5 DEF KeyMoves
  <2>2. {led_on', mq_press', led_early', mq_unasked'} \subseteq BOOLEAN
    BY <1>5, <2>1 DEF KeyMoves
  <2> QED
    BY <1>5, <2>2 DEF KeyMoves
<1>6. CASE MqttConnected
  <2>1. Room(mq_msgs')
    BY <1>6, <1>a, <1>c, <1>d DEF MqttConnected
  <2> QED
    BY <1>6, <2>1 DEF MqttConnected, MqttEvent
<1>7. CASE MqttDisconnected
  BY <1>7 DEF MqttDisconnected, MqttEvent
<1>8. CASE MqttData
  <2>1. Room(mq_msgs')
    BY <1>8, <1>b DEF MqttData
  <2>2. led_early' = TRUE \/ led_early' = FALSE
    BY <1>8 DEF MqttData
  <2>3. {led_on', mq_press', led_early', mq_unasked'} \subseteq BOOLEAN
    BY <1>8, <2>2 DEF MqttData, MqttEvent
  <2>4. led_status' \in 0..1 /\ mq_task_at' \in {"idle", "status", "pin"}
    BY <1>8 DEF MqttData
  <2> QED
    BY <1>8, <2>1, <2>3, <2>4 DEF MqttData, MqttEvent
<1>9. CASE MqttDataPin
  <2>1. led_on' = TRUE \/ led_on' = FALSE
    BY <1>9 DEF MqttDataPin
  <2>2. {led_on', mq_press', led_early', mq_unasked'} \subseteq BOOLEAN
    BY <1>9, <2>1 DEF MqttDataPin
  <2> QED
    BY <1>9, <2>2 DEF MqttDataPin
<1>10. CASE OthersPublish
  <2>1. Room(mq_msgs')
    BY <1>10, <1>a, <1>d DEF OthersPublish
  <2> QED
    BY <1>10, <2>1 DEF OthersPublish, MqttEvent
<1>11. CASE MqttWifi
  BY <1>11 DEF MqttWifi
<1> QED
  BY <1>1, <1>2, <1>3, <1>4, <1>5, <1>6, <1>7, <1>8, <1>9, <1>10, <1>11 DEF MqttNext

\* hx-ws: as long as no memory was freed that is not allocated, the masked
\* frames that come before the first unmasked one each have their payload.
PayloadsThere ==
    ~bad_free => \A k \in 0..Len(ws_queue) :
        (\A i \in 1..k : ws_queue[i].masked) /\ (Len(rx_frame) = 1 => rx_frame[1].masked)
            => k + Len(rx_frame) <= payloads

WsTypes ==
    /\ WebSocketTypeOK /\ PayloadsThere
    /\ ws_at = "hello" => digests # 0

LEMMA WsDataTypes ==
    ASSUME WsTypes, PayloadInv, ws_at = "frames", ws_no # 0, ws_frames < MaxWsFrames, ~bad_free,
           NEW masked \in BOOLEAN, NEW text \in BOOLEAN, NEW command \in BOOLEAN,
           WsData(masked, text, command),
           UNCHANGED <<ws_at, ws_no, WS_conn, ws_rx_vars, digests, netbufs, ws_refused, ws_greeted,
                       ws_bad_vars>>
    PROVE  WsTypes'
<1> DEFINE frame == [conn |-> ws_no, command |-> command, masked |-> masked]
           queued == text /\ Len(ws_queue) < WsQueueLen /\ rx_at # "start"
<1>1. frame \in WsFrame /\ frame.masked = masked
  BY DEF WsTypes, WebSocketTypeOK, WsFrame
<1>2. /\ ws_unmasked' = (ws_unmasked \/ (text /\ ~masked))
      /\ ws_queue' = IF queued THEN Append(ws_queue, frame) ELSE ws_queue
      /\ payloads' = IF masked THEN payloads + 1 ELSE payloads
      /\ ws_dropped' = IF masked /\ ~queued THEN ws_dropped + 1 ELSE ws_dropped
      /\ ws_frames' = ws_frames + 1
  BY DEF WsData
<1>3. /\ Append(ws_queue, frame) \in Seq(WsFrame)
      /\ Len(Append(ws_queue, frame)) = Len(ws_queue) + 1
      /\ Len(ws_queue) \in Nat
      /\ \A i \in 1..Len(ws_queue) : Append(ws_queue, frame)[i] = ws_queue[i]
      /\ Append(ws_queue, frame)[Len(ws_queue) + 1] = frame
  BY <1>1 DEF PayloadInv
<1> HIDE DEF frame
<1>4. /\ payloads' \in Nat /\ payloads' >= payloads /\ (masked => payloads' = payloads + 1)
      /\ payloads \in Nat
  BY <1>2 DEF WsTypes, WebSocketTypeOK
<1>5. ws_queue' \in Seq(WsFrame) /\ Len(ws_queue') <= WsQueueLen
  <2>1. CASE queued
    BY <1>2, <1>3, <2>1, WebSocketAssumption
  <2>2. CASE ~queued
    BY <1>2, <2>2 DEF WsTypes, WebSocketTypeOK
  <2> QED
    BY <2>1, <2>2
<1>6. PayloadsThere'
  <2> SUFFICES ASSUME NEW k \in 0..Len(ws_queue'), \A i \in 1..k : ws_queue'[i].masked,
                      Len(rx_frame') = 1 => rx_frame'[1].masked
               PROVE  k + Len(rx_frame') <= payloads'
    BY DEF PayloadsThere
  <2>0. rx_frame' = rx_frame /\ Len(rx_frame) \in Nat
    BY DEF ws_rx_vars, PayloadInv
  <2>1. CASE k \in 0..Len(ws_queue)
    <3>1. \A i \in 1..k : ws_queue[i].masked
      BY <1>2, <1>3, <2>1
    <3>2. k + Len(rx_frame) <= payloads
      BY <2>0, <2>1, <3>1 DEF WsTypes, PayloadsThere
    <3> QED
      BY <1>4, <2>0, <2>1, <3>2
  <2>2. CASE k \notin 0..Len(ws_queue)
    <3>1. queued /\ k = Len(ws_queue) + 1
      BY <1>2, <1>3, <2>2
    <3>2. masked /\ \A i \in 1..Len(ws_queue) : ws_queue[i].masked
      BY <1>1, <1>2, <1>3, <3>1
    <3>3. Len(ws_queue) + Len(rx_frame) <= payloads
      BY <1>3, <2>0, <3>2 DEF WsTypes, PayloadsThere
    <3> QED
      BY <1>3, <1>4, <2>0, <3>1, <3>2, <3>3
  <2> QED
    BY <2>1, <2>2
<1>7. ws_frames' \in 0..MaxWsFrames /\ ws_dropped' \in Nat
  BY <1>2, WebSocketAssumption DEF WsTypes, WebSocketTypeOK
<1>8. {ws_unmasked', ws_raced', bad_free', bad_echo'} \subseteq BOOLEAN
  <2>1. ws_unmasked' = TRUE \/ ws_unmasked' = FALSE
    BY <1>2
  <2> QED
    BY <2>1 DEF WsTypes, WebSocketTypeOK, ws_bad_vars
<1>9. {payloads', digests', netbufs', ws_dropped', ws_refused', ws_greeted'} \subseteq Nat
  BY <1>4, <1>7 DEF WsTypes, WebSocketTypeOK
<1>10. WebSocketTypeOK'
  BY <1>5, <1>7, <1>8, <1>9 DEF WsTypes, WebSocketTypeOK, ws_rx_vars
<1> QED
  BY <1>6, <1>10 DEF WsTypes

LEMMA WsTypesStep ==
    WsTypes /\ PayloadInv /\ EchoInv /\ [WebSocketNext]_ws_vars => WsTypes'
<1> SUFFICES ASSUME WsTypes, PayloadInv, EchoInv, [WebSocketNext]_ws_vars PROVE WsTypes'
  OBVIOUS
<1> USE WebSocketAssumption DEF ws_serve_vars, ws_rx_vars, ws_heap_vars, ws_note_vars, ws_bad_vars
<1>0. PayloadsThere /\ WebSocketTypeOK /\ (ws_at = "hello" => digests # 0)
  BY DEF WsTypes
<1>1. CASE UNCHANGED ws_vars
  BY <1>0, <1>1 DEF ws_vars, WsTypes, WebSocketTypeOK, PayloadsThere
<1>2. CASE WsAccept
  <2>1. UNCHANGED <<ws_queue, rx_frame, payloads>> /\ (bad_free' = FALSE => bad_free = FALSE)
    BY <1>2 DEF WsAccept
  <2>2. PayloadsThere'
    BY <1>0, <1>2, <2>1 DEF WsAccept, PayloadsThere
  <2>a. (ws_unmasked' = TRUE \/ ws_unmasked' = ws_unmasked) /\ (bad_free' = TRUE \/ bad_free' = bad_free)
    BY <1>2 DEF WsAccept
  <2>b. {ws_unmasked', ws_raced', bad_free', bad_echo'} \subseteq BOOLEAN
    BY <1>0, <1>2, <2>a DEF WsAccept, WebSocketTypeOK
  <2>c. digests' \in Nat /\ ws_refused' \in Nat
    BY <1>0, <1>2 DEF WsAccept, WebSocketTypeOK
  <2>d. {payloads', digests', netbufs', ws_dropped', ws_refused', ws_greeted'} \subseteq Nat
    BY <1>0, <1>2, <2>c DEF WsAccept, WebSocketTypeOK
  <2>e. ws_at' \in {"hello", "close"} /\ ws_no' \in 0..MaxWsConns /\ ws_frames' \in 0..MaxWsFrames
    BY <1>0, <1>2 DEF WsAccept, WebSocketTypeOK
  <2>3. WebSocketTypeOK'
    BY <1>0, <1>2, <2>b, <2>d, <2>e DEF WsAccept, WebSocketTypeOK
  <2>4. ws_at' = "hello" => digests' # 0
    BY <1>0, <1>2 DEF WsAccept, WebSocketTypeOK
  <2> QED
    BY <2>2, <2>3, <2>4 DEF WsTypes
<1>3. CASE WsHello
  <2>1. PayloadsThere'
    BY <1>0, <1>3 DEF WsHello, PayloadsThere
  <2>a. digests \in Nat /\ digests # 0
    BY <1>0, <1>3 DEF WsHello, WebSocketTypeOK
  <2>b. digests' = digests - 1 \/ digests' = digests
    BY <1>3 DEF WsHello
  <2>c. digests' \in Nat
    BY <2>a, <2>b
  <2>2. ws_at' \in {"close", "frames"} /\ WS_conn' \in 0..MaxWsConns
    BY <1>0, <1>3 DEF WsHello, WebSocketTypeOK
  <2>d. ws_refused' \in Nat /\ netbufs' \in Nat /\ ws_greeted' \in Nat
    <3>1. (ws_refused' = ws_refused \/ ws_refused' = ws_refused + 1) /\ ws_refused \in Nat
      BY <1>0, <1>3 DEF WsHello, WebSocketTypeOK
    <3>2. (netbufs' = netbufs \/ netbufs' = netbufs + 1) /\ netbufs \in Nat
      BY <1>0, <1>3 DEF WsHello, WebSocketTypeOK
    <3>3. (ws_greeted' = ws_greeted \/ ws_greeted' = ws_greeted + 1) /\ ws_greeted \in Nat
      BY <1>0, <1>3 DEF WsHello, WebSocketTypeOK
    <3> QED
      BY <3>1, <3>2, <3>3
  <2>e. {payloads', digests', netbufs', ws_dropped', ws_refused', ws_greeted'} \subseteq Nat
    BY <1>0, <1>3, <2>c, <2>d DEF WsHello, WebSocketTypeOK
  <2>3. WebSocketTypeOK'
    BY <1>0, <1>3, <2>2, <2>e DEF WsHello, WebSocketTypeOK
  <2> QED
    BY <2>1, <2>2, <2>3 DEF WsTypes
<1>4. CASE WsReceive /\ ~bad_free
  <2>1. ws_no # 0
    BY <1>4 DEF WsReceive, EchoInv
  <2>2. CASE \E masked, text, command \in BOOLEAN : WsData(masked, text, command)
    BY <1>4, <2>1, <2>2, WsDataTypes DEF WsReceive
  <2>3. CASE /\ ws_frames' = ws_frames + 1
             /\ UNCHANGED <<ws_queue, payloads, ws_dropped, ws_unmasked>>
    BY <1>0, <1>4, <2>3 DEF WsReceive, WsTypes, WebSocketTypeOK, PayloadsThere
  <2> QED
    BY <1>4, <2>2, <2>3 DEF WsReceive
<1>5. CASE WsEnd \/ WsClose \/ WsDelete
  <2>1. ws_raced' = TRUE \/ ws_raced' = FALSE
    BY <1>5 DEF WsEnd, WsClose, WsDelete
  <2>2. /\ UNCHANGED <<ws_no, ws_frames, ws_queue, ws_rx_vars, ws_heap_vars, ws_note_vars, bad_free,
                       bad_echo>>
        /\ ws_at' \in {"close", "delete", "accept"} /\ WS_conn' \in {0, WS_conn}
    BY <1>5 DEF WsEnd, WsClose, WsDelete
  <2>3. PayloadsThere'
    BY <1>0, <2>2 DEF PayloadsThere
  <2>4. {ws_unmasked', ws_raced', bad_free', bad_echo'} \subseteq BOOLEAN
    BY <1>0, <2>1, <2>2 DEF WebSocketTypeOK
  <2>5. WebSocketTypeOK'
    BY <1>0, <2>2, <2>4 DEF WebSocketTypeOK
  <2> QED
    BY <2>2, <2>3, <2>5 DEF WsTypes
<1>6. CASE RxStart
  BY <1>0, <1>6 DEF RxStart, RxTo, WsTypes, WebSocketTypeOK, PayloadsThere
<1>7. CASE RxReceive
  <2>1. /\ ws_queue \in Seq(WsFrame) /\ ws_queue # <<>> /\ rx_frame = <<>>
        /\ rx_frame' = <<Head(ws_queue)>> /\ ws_queue' = Tail(ws_queue)
        /\ rx_at' \in {"free", "check"}
    BY <1>7 DEF RxReceive, RxTo, PayloadInv
  <2>2. /\ Tail(ws_queue) \in Seq(WsFrame) /\ Len(Tail(ws_queue)) = Len(ws_queue) - 1
        /\ Head(ws_queue) = ws_queue[1] /\ Head(ws_queue) \in WsFrame
        /\ Len(ws_queue) \in Nat \ {0}
        /\ \A i \in 1..(Len(ws_queue) - 1) : Tail(ws_queue)[i] = ws_queue[i + 1]
    BY <2>1
  <2>3. rx_frame' \in Seq(WsFrame) /\ Len(rx_frame') = 1 /\ rx_frame'[1] = ws_queue[1] /\ Len(rx_frame) = 0
    BY <2>1, <2>2
  <2>4. UNCHANGED <<ws_serve_vars, ws_heap_vars, ws_note_vars, ws_bad_vars, rx_conn, rx_header>>
    BY <1>7 DEF RxReceive, RxTo
  <2>5. PayloadsThere'
    <3> SUFFICES ASSUME ~bad_free, NEW k \in 0..Len(ws_queue'), \A i \in 1..k : ws_queue'[i].masked,
                        rx_frame'[1].masked
                 PROVE  k + Len(rx_frame') <= payloads'
      BY <2>3, <2>4 DEF PayloadsThere
    <3>1. k + 1 \in 0..Len(ws_queue)
      BY <2>1, <2>2
    <3>2. ASSUME NEW i \in 1..k + 1 PROVE ws_queue[i].masked
      <4>1. CASE i = 1
        BY <2>3, <4>1
      <4>2. CASE i # 1
        <5>1. i - 1 \in 1..k /\ i - 1 \in 1..(Len(ws_queue) - 1) /\ (i - 1) + 1 = i
          BY <3>1, <4>2
        <5>2. ws_queue'[i - 1] = ws_queue[i]
          BY <2>1, <2>2, <5>1
        <5> QED
          BY <5>1, <5>2
      <4> QED
        BY <4>1, <4>2
    <3>3. (k + 1) + Len(rx_frame) <= payloads
      BY <1>0, <2>3, <3>1, <3>2 DEF PayloadsThere
    <3> QED
      BY <2>3, <2>4, <3>1, <3>3
  <2>6. Len(ws_queue') <= WsQueueLen /\ ws_queue' \in Seq(WsFrame)
    BY <1>0, <2>1, <2>2 DEF WebSocketTypeOK
  <2>7. WebSocketTypeOK'
    BY <1>0, <2>1, <2>3, <2>4, <2>6 DEF WebSocketTypeOK
  <2> QED
    BY <1>0, <2>4, <2>5, <2>7 DEF WsTypes
<1>8. CASE RxCheck
  BY <1>0, <1>8 DEF RxCheck, RxTo, WsTypes, WebSocketTypeOK, PayloadsThere
<1>9. CASE RxLoad
  BY <1>0, <1>9 DEF RxLoad, RxTo, WsTypes, WebSocketTypeOK, PayloadsThere
<1>10. CASE RxWrite
  <2>1. bad_echo' = TRUE \/ bad_echo' = FALSE
    BY <1>10 DEF RxWrite
  <2>2. /\ UNCHANGED <<ws_serve_vars, ws_heap_vars, ws_note_vars, ws_queue, rx_frame, ws_raced, bad_free>>
        /\ rx_at' \in {"load", "free"} /\ rx_header' \in {rx_conn, 0} /\ rx_conn' = 0
    BY <1>10 DEF RxWrite, RxTo
  <2>3. PayloadsThere'
    BY <1>0, <2>2 DEF PayloadsThere
  <2>4. {ws_unmasked', ws_raced', bad_free', bad_echo'} \subseteq BOOLEAN
    BY <1>0, <2>1, <2>2 DEF WebSocketTypeOK
  <2>5. {rx_conn', rx_header'} \subseteq 0..MaxWsConns
    BY <1>0, <2>2 DEF WebSocketTypeOK
  <2>6. WebSocketTypeOK'
    BY <1>0, <2>2, <2>4, <2>5 DEF WebSocketTypeOK
  <2> QED
    BY <1>0, <2>2, <2>3, <2>6 DEF WsTypes
<1>11. CASE RxFree /\ ~bad_free
  <2>a. Len(rx_frame) = 1 /\ rx_frame \in Seq(WsFrame)
    BY <1>11 DEF RxFree, PayloadInv
  <2>b. rx_frame[1] \in WsFrame
    BY <2>a
  <2>c. Len(<<>>) = 0 /\ <<>> \in Seq(WsFrame)
    OBVIOUS
  <2>1. rx_frame' = <<>> /\ rx_at' = "recv"
    BY <1>11 DEF RxFree
  <2>2. UNCHANGED <<ws_serve_vars, ws_queue, rx_conn, rx_header, digests, netbufs, ws_note_vars,
                    ws_raced, bad_echo>>
    BY <1>11 DEF RxFree
  <2>3. payloads \in Nat /\ Len(ws_queue) \in Nat
    BY <1>0 DEF WebSocketTypeOK
  <2>4. ASSUME rx_frame[1].masked PROVE payloads' \in Nat /\ PayloadsThere'
    <3>1. payloads' = payloads - 1
      BY <1>11, <2>4 DEF RxFree
    <3>2. ASSUME NEW k \in 0..Len(ws_queue), \A i \in 1..k : ws_queue[i].masked
          PROVE  k + 1 <= payloads
      BY <1>0, <1>11, <2>a, <2>4, <3>2 DEF PayloadsThere
    <3>3. 1 <= payloads
      <4>1. 0 \in 0..Len(ws_queue) /\ \A i \in 1..0 : ws_queue[i].masked
        BY <2>3
      <4>2. 0 + 1 <= payloads
        BY <3>2, <4>1
      <4> QED
        BY <4>2
    <3>4. payloads' \in Nat
      BY <2>3, <3>1, <3>3
    <3>5. PayloadsThere'
      <4> SUFFICES ASSUME NEW k \in 0..Len(ws_queue), \A i \in 1..k : ws_queue[i].masked
                   PROVE  k + 0 <= payloads'
        BY <2>1, <2>2, <2>c DEF PayloadsThere
      <4>1. k + 1 <= payloads
        BY <3>2
      <4> QED
        BY <2>3, <3>1, <4>1
    <3> QED
      BY <3>4, <3>5
  <2>5. ASSUME ~rx_frame[1].masked PROVE payloads' \in Nat /\ PayloadsThere'
    <3>1. payloads' = payloads /\ bad_free'
      BY <1>11, <2>5 DEF RxFree
    <3> QED
      BY <2>3, <3>1 DEF PayloadsThere
  <2>6. payloads' \in Nat /\ PayloadsThere'
    BY <2>4, <2>5
  <2>7. bad_free' = TRUE \/ bad_free' = FALSE
    BY <1>11 DEF RxFree
  <2>8. {ws_unmasked', ws_raced', bad_free', bad_echo'} \subseteq BOOLEAN
    BY <1>0, <2>2, <2>7 DEF WebSocketTypeOK
  <2>9. {payloads', digests', netbufs', ws_dropped', ws_refused', ws_greeted'} \subseteq Nat
    BY <1>0, <2>2, <2>6 DEF WebSocketTypeOK
  <2>10. WebSocketTypeOK'
    BY <1>0, <2>1, <2>2, <2>8, <2>9, <2>c DEF WebSocketTypeOK
  <2> QED
    BY <1>0, <2>2, <2>6, <2>10 DEF WsTypes
<1> QED
  BY <1>1, <1>2, <1>3, <1>4, <1>5, <1>6, <1>7, <1>8, <1>9, <1>10, <1>11 DEF WebSocketNext

\* The least of numbers, as read_past_http_header finds the first empty line.
LEMMA FirstOfNats ==
    ASSUME NEW S, S \subseteq Nat, S # {}
    PROVE  (CHOOSE i \in S : \A j \in S : i <= j) \in S
<1>1. PICK x \in S : \A y \in S : ~(<<y, x>> \in OpToRel(<, Nat))
  BY NatLessThanWellFounded, WFMin
<1>2. \A y \in S : x <= y
  <2> SUFFICES ASSUME NEW y \in S PROVE x <= y
    OBVIOUS
  <2>1. x \in Nat /\ y \in Nat
    OBVIOUS
  <2>2. ~(y < x)
    BY <1>1, <2>1 DEF OpToRel
  <2> QED BY <2>1, <2>2
<1> QED BY <1>2, Zenon

\* hx-ota: what is written of a packet are chunks of the image, or bytes that
\* are not.
LEMMA ChunksType ==
    ASSUME NEW packet \in Seq(Nat), NEW i \in Nat \ {0}
    PROVE  Chunks(packet, i) \in Seq(0..ImageChunks)
<1> DEFINE n == Len(packet) - i + 1
           f == [k \in 1..n |->
                    IF packet[i + k - 1] \in 1..ImageChunks /\ (k > 1 \/ i = 1 \/ packet[i - 1] = LF)
                    THEN packet[i + k - 1] ELSE 0]
<1>1. ImageChunks \in Nat /\ n \in Int
  BY OtaAssumption
<1>2. \A k \in 1..n : f[k] \in 0..ImageChunks
  BY <1>1
<1>3. CASE n \in Nat
  BY <1>2, <1>3 DEF Chunks
<1>4. CASE n \notin Nat
  <2>1. 1..n = 1..0
    BY <1>1, <1>4
  <2>2. f \in [1..0 -> 0..ImageChunks]
    BY <1>2, <2>1
  <2>3. Chunks(packet, i) = f
    BY DEF Chunks
  <2> HIDE DEF f
  <2>4. f \in Seq(0..ImageChunks)
    <3>1. 0 \in Nat
      OBVIOUS
    <3> QED
      BY <2>2, <3>1, SeqDef
  <2> QED
    BY <2>3, <2>4
<1> QED
  BY <1>3, <1>4

LEMMA AfterLineType ==
    ASSUME NEW packet \in Seq(Nat), NEW i \in 1..Len(packet)
    PROVE  AfterLine(packet, i) \in Seq(0..ImageChunks)
<1>1. ImageChunks \in Nat /\ i + 2 \in Nat \ {0} /\ Len(packet) - i + 1 \in Nat
  BY OtaAssumption
<1>2. Chunks(packet, i + 2) \in Seq(0..ImageChunks)
  BY <1>1, ChunksType
<1>3. [k \in 1..Len(packet) - i + 1 |-> 0] \in Seq(0..ImageChunks)
  BY <1>1
<1> QED
  BY <1>2, <1>3 DEF AfterLine

LEMMA OtaTypesStep == OtaTypeOK /\ ImageInv /\ [OtaNext]_ota_vars => OtaTypeOK'
<1> SUFFICES ASSUME OtaTypeOK, ImageInv, [OtaNext]_ota_vars PROVE OtaTypeOK'
  OBVIOUS
<1> USE DEF OtaTypeOK, ota_note_vars
<1>0. Len(Header) = 5 /\ ImageChunks \in Nat
  BY OtaAssumption DEF Header
<1>1. CASE UNCHANGED ota_vars
  BY <1>1 DEF ota_vars
<1>2. CASE OtaEventHandler \/ OtaWait \/ OtaConnect \/ OtaRequest
  BY <1>2 DEF OtaEventHandler, OtaWait, OtaConnect, OtaRequest
<1>3. CASE OtaPacket
  <2>1. PICK n \in 1..Len(Response) - ota_got :
            LET packet == SubSeq(Response, ota_got + 1, ota_got + n)
            IN  /\ ota_got' = ota_got + n
                /\ HeaderPacket(packet) \/ BodyPacket(packet)
    BY <1>3 DEF OtaPacket
  <2> DEFINE packet == SubSeq(Response, ota_got + 1, ota_got + n)
  <2>2. ota_got \in Nat /\ n \in Nat /\ n >= 1 /\ ota_got + n <= ImageChunks + 5
    BY <1>0, ResponseIs DEF ImageInv
  <2>3. packet \in Seq(Nat)
    <3>1. \A a, b \in Nat : a + b <= ImageChunks + 5 => SubSeq(Response, a + 1, a + b) \in Seq(Nat)
      BY ResponseIs
    <3> QED
      BY <2>2, <3>1
  <2>4. ota_got' = ota_got + n /\ (HeaderPacket(packet) \/ BodyPacket(packet))
    BY <2>1
  <2> HIDE DEF packet
  <2>5. ota_got' \in 0..Len(Header) + ImageChunks
    BY <1>0, <2>2, <2>4
  <2>6. ota_at' \in {"recv", "fatal"} /\ UNCHANGED <<ota_bit, ota_sock, ota_cut>>
    BY <1>3, <2>4 DEF OtaPacket, HeaderPacket, BodyPacket
  <2>7. ota_flash' \in Seq(0..ImageChunks)
    <3>1. ASSUME NEW i \in EmptyLine(packet)
          PROVE  ota_flash \o AfterLine(packet, i) \in Seq(0..ImageChunks)
      <4>1. i \in 1..Len(packet)
        BY <3>1 DEF EmptyLine
      <4>2. AfterLine(packet, i) \in Seq(0..ImageChunks)
        BY <2>3, <4>1, AfterLineType
      <4> QED
        BY <4>2
    <3>2. ota_flash \o Chunks(packet, 1) \in Seq(0..ImageChunks)
      <4>1. 1 \in Nat \ {0}
        OBVIOUS
      <4>2. Chunks(packet, 1) \in Seq(0..ImageChunks)
        BY <2>3, <4>1, ChunksType
      <4> QED
        BY <4>2
    <3>3. CASE BodyPacket(packet)
      BY <3>2, <3>3 DEF BodyPacket
    <3>4. CASE HeaderPacket(packet)
      <4> DEFINE sure == {i \in EmptyLine(packet) : packet[i] = CR}
                 first == CHOOSE i \in sure : \A j \in sure : i <= j
                 found == IF sure # {} THEN {first} ELSE EmptyLine(packet)
      <4>1. \/ \E i \in found, written \in BOOLEAN :
                   ota_flash' = IF written THEN ota_flash \o AfterLine(packet, i) ELSE ota_flash
            \/ ota_flash' = ota_flash
        BY <3>4 DEF HeaderPacket
      <4>2. found \subseteq EmptyLine(packet)
        <5>1. sure \subseteq EmptyLine(packet) /\ sure \subseteq Nat
          BY <2>3 DEF EmptyLine
        <5> HIDE DEF sure
        <5>2. sure # {} => first \in sure
          BY <5>1, FirstOfNats
        <5> QED
          BY <5>1, <5>2
      <4> HIDE DEF found
      <4> QED
        BY <3>1, <4>1, <4>2
    <3> QED
      BY <2>4, <3>3, <3>4
  <2>8. {ota_bit', ota_body', ota_split', ota_cut', ota_lost', ota_crash'} \subseteq BOOLEAN
    <3>1. ota_split' = TRUE \/ ota_split' = FALSE
      BY <2>4 DEF HeaderPacket, BodyPacket
    <3>2. ota_crash' = TRUE \/ ota_crash' = FALSE
      BY <2>4 DEF HeaderPacket, BodyPacket
    <3>3. ota_body' = TRUE \/ ota_body' = FALSE
      BY <2>4 DEF HeaderPacket, BodyPacket
    <3>4. ota_lost' = TRUE \/ ota_lost' = FALSE
      BY <2>4 DEF HeaderPacket, BodyPacket
    <3> QED
      BY <2>6, <3>1, <3>2, <3>3, <3>4
  <2> QED
    BY <2>5, <2>6, <2>7, <2>8
<1>4. CASE OtaReceiveEnd
  <2>1. ota_cut' = TRUE \/ ota_cut' = FALSE
    BY <1>4 DEF OtaReceiveEnd
  <2>2. {ota_bit', ota_body', ota_split', ota_cut', ota_lost', ota_crash'} \subseteq BOOLEAN
    BY <1>4, <2>1 DEF OtaReceiveEnd
  <2>3. ota_at' \in {"fatal", "end"} /\ ota_sock' \in {"none", "open", "closed", "twice"}
    BY <1>4 DEF OtaReceiveEnd, CloseSocketId
  <2> QED
    BY <1>4, <2>2, <2>3 DEF OtaReceiveEnd
<1>5. CASE OtaFinish \/ TaskFatalError
  BY <1>5 DEF OtaFinish, TaskFatalError, CloseSocketId
<1> QED
  BY <1>1, <1>2, <1>3, <1>4, <1>5 DEF OtaNext

\* The lamp of hx-tmall: a handle that names a task is that of one of the live
\* ones, of which there are no more than fit.
LampCounts ==
    /\ lamp.tasks \in [Colours -> 0..MaxFades]
    /\ \A c \in Colours : lamp.handle[c] = "task" => lamp.tasks[c] # 0

LEMMA LampKindType == lamp \in LampKind /\ LampCounts => LampTypeOK
BY DEF LampKind, LampCounts, LampTypeOK, Lamps

LEMMA PlayTasks ==
    ASSUME NEW l \in LampKind, NEW c \in Colours, NEW created \in BOOLEAN
    PROVE  LET n == FadeStart(l, c, created) IN
           /\ created => n.tasks = [l.tasks EXCEPT ![c] = l.tasks[c] + 1]
                         /\ n.handle = [l.handle EXCEPT ![c] = "task"]
           /\ ~created => n.tasks = l.tasks /\ n.handle = l.handle
<1> DEFINE n == FadeStart(l, c, created)
<1>1. CASE created
  <2> DEFINE t == [l.tasks EXCEPT ![c] = l.tasks[c] + 1]
             h == [l.handle EXCEPT ![c] = "task"]
  <2>1. n = [l EXCEPT !.tasks = t, !.handle = h]
    BY <1>1 DEF FadeStart, LampKind
  <2> HIDE DEF t, h, n
  <2>2. n.tasks = t /\ n.handle = h
    BY <2>1, LampRead
  <2> QED BY <1>1, <2>2 DEF n, t, h
<1>2. CASE ~created
  BY <1>2 DEF FadeStart, LampKind
<1> QED BY <1>1, <1>2

LEMMA StopTasks ==
    ASSUME NEW l \in LampKind, NEW c \in Colours
    PROVE  LET n == FadeStop(l, c) IN
           /\ l.handle[c] = "task" => n.tasks = [l.tasks EXCEPT ![c] = l.tasks[c] - 1]
                                      /\ n.handle = [l.handle EXCEPT ![c] = "gone"]
           /\ l.handle[c] # "task" => n.tasks = l.tasks /\ n.handle = l.handle
<1> DEFINE n == FadeStop(l, c)
<1>1. CASE l.handle[c] = "task"
  <2> DEFINE t == [l.tasks EXCEPT ![c] = l.tasks[c] - 1]
             h == [l.handle EXCEPT ![c] = "gone"]
             g == [l.glow EXCEPT ![c] = "off"]
  <2>1. n = [l EXCEPT !.tasks = t, !.handle = h, !.glow = g]
    BY <1>1 DEF FadeStop, LampKind
  <2> HIDE DEF t, h, g, n
  <2>2. n.tasks = t /\ n.handle = h
    BY <2>1 DEF LampKind
  <2> QED BY <1>1, <2>2 DEF n, t, h
<1>2. CASE l.handle[c] = "null"
  BY <1>2 DEF FadeStop, LampKind
<1>3. CASE l.handle[c] = "gone"
  <2>1. n = [l EXCEPT !.fault = "stale", !.glow = [l.glow EXCEPT ![c] = "off"]]
    BY <1>3 DEF FadeStop, LampKind
  <2> QED BY <1>3, <2>1 DEF LampKind
<1> QED BY <1>1, <1>2, <1>3 DEF LampKind

LEMMA LampCountsStep ==
    CommandInv /\ LampCounts /\ [TmallNext]_tmall_vars => LampCounts'
<1> SUFFICES ASSUME CommandInv, LampCounts, [TmallNext]_tmall_vars PROVE LampCounts'
  OBVIOUS
<1>0. "r" \in Colours /\ MaxFades \in Nat \ {0} /\ lamp \in LampKind
  BY LampAssumption DEF Colours, CommandInv
<1>h. lamp.handle \in [Colours -> {"null", "task", "gone"}] /\ lamp.tasks \in [Colours -> 0..MaxFades]
  BY <1>0 DEF LampKind, LampCounts
<1>1. CASE UNCHANGED lamp
  BY <1>1 DEF LampCounts
<1>2. ASSUME NEW m \in Commands, lamp' = Command(m) PROVE LampCounts'
  <2>1. CASE m = "play"
    <3> DEFINE room == lamp.tasks["r"] < MaxFades
    <3>1. lamp' = FadeStart(lamp, "r", room) /\ room \in BOOLEAN
      BY <1>2, <2>1 DEF Command
    <3>2. room => lamp.tasks["r"] + 1 \in 0..MaxFades /\ lamp.tasks["r"] + 1 # 0
      BY <1>0, <1>h
    <3> HIDE DEF room
    <3>3. LET n == FadeStart(lamp, "r", room) IN
          /\ room => n.tasks = [lamp.tasks EXCEPT !["r"] = lamp.tasks["r"] + 1]
                     /\ n.handle = [lamp.handle EXCEPT !["r"] = "task"]
          /\ ~room => n.tasks = lamp.tasks /\ n.handle = lamp.handle
      BY <1>0, <3>1, PlayTasks
    <3>4. /\ room => lamp'.tasks = [lamp.tasks EXCEPT !["r"] = lamp.tasks["r"] + 1]
                     /\ lamp'.handle = [lamp.handle EXCEPT !["r"] = "task"]
          /\ ~room => lamp'.tasks = lamp.tasks /\ lamp'.handle = lamp.handle
      BY <3>1, <3>3
    <3> QED
      BY <1>0, <1>h, <3>2, <3>4 DEF LampCounts
  <2>2. CASE m = "stop"
    <3>1. lamp' = FadeStop(lamp, "r")
      BY <1>2, <2>2 DEF Command
    <3>2. LET n == FadeStop(lamp, "r") IN
          /\ lamp.handle["r"] = "task" => n.tasks = [lamp.tasks EXCEPT !["r"] = lamp.tasks["r"] - 1]
                                          /\ n.handle = [lamp.handle EXCEPT !["r"] = "gone"]
          /\ lamp.handle["r"] # "task" => n.tasks = lamp.tasks /\ n.handle = lamp.handle
      BY <1>0, StopTasks
    <3>3. CASE lamp.handle["r"] = "task"
      <4>1. /\ lamp'.tasks = [lamp.tasks EXCEPT !["r"] = lamp.tasks["r"] - 1]
            /\ lamp'.handle = [lamp.handle EXCEPT !["r"] = "gone"]
        BY <3>1, <3>2, <3>3
      <4>2. lamp.tasks["r"] - 1 \in 0..MaxFades
        BY <1>0, <1>h, <3>3 DEF LampCounts
      <4> QED
        BY <1>0, <1>h, <4>1, <4>2 DEF LampCounts
    <3>4. CASE lamp.handle["r"] # "task"
      BY <3>1, <3>2, <3>4 DEF LampCounts
    <3> QED
      BY <3>3, <3>4
  <2> QED
    BY <2>1, <2>2 DEF Commands
<1>3. CASE TmallNext
  <2>1. ASSUME NEW c \in Conns, ReceiveData(c) PROVE LampCounts'
    BY <1>1, <1>2, <2>1 DEF ReceiveData, JsonParse
  <2>2. ASSUME NEW c \in Conns,
               \/ GotIp \/ AllocateContexts(c) \/ Connect(c) \/ CloudSays(c)
               \/ ReceiveClose(c) \/ ReceiveWrites(c) \/ HeartBeat(c)
        PROVE  LampCounts'
    BY <1>1, <2>2 DEF GotIp, AllocateContexts, Connect, CloudSays, ReceiveClose, ReceiveWrites, HeartBeat
  <2>3. 1 \in Conns
    BY TmallAssumption DEF Conns
  <2> QED
    BY <1>3, <2>1, <2>2, <2>3 DEF TmallNext
<1> QED
  BY <1>1, <1>3 DEF tmall_vars

\* The rest of hx-tmall's types.
TmallTypes ==
    /\ got_ip \in 0..MaxConns /\ current \in 0..MaxConns
    /\ \A c \in Conns : Len(sent[c]) <= MaxSent
    /\ md5 \in {"null", "live", "freed"}
    /\ {repeated, hung_up, tls_fault} \subseteq BOOLEAN

LEMMA TmallTypesStep ==
    TmallTypes /\ TlsTypes /\ [TmallNext]_tmall_vars => TmallTypes'
<1> SUFFICES ASSUME TmallTypes, TlsTypes, [TmallNext]_tmall_vars PROVE TmallTypes'
  OBVIOUS
<1> USE TmallAssumption DEF tm_conn_vars, tm_task_vars, tm_note_vars
<1>0. /\ MaxConns \in Nat \ {0} /\ MaxSent \in Nat \ {0} /\ Conns = 1..MaxConns
      /\ sent \in [Conns -> Seq(Says)]
  BY DEF Conns, TlsTypes
<1>1. CASE UNCHANGED tmall_vars
  BY <1>1 DEF tmall_vars, TmallTypes
<1>2. CASE GotIp
  BY <1>0, <1>2 DEF GotIp, TmallTypes
<1>3. ASSUME NEW c \in Conns, AllocateContexts(c) PROVE TmallTypes'
  BY <1>0, <1>3 DEF AllocateContexts, TmallTypes
<1>4. ASSUME NEW c \in Conns, Connect(c) PROVE TmallTypes'
  <2>1. tls_fault' = TRUE \/ tls_fault' = FALSE
    BY <1>4 DEF Connect, Clean
  <2>2. {repeated', hung_up', tls_fault'} \subseteq BOOLEAN
    BY <1>4, <2>1 DEF Connect, TmallTypes
  <2> QED
    BY <1>4, <2>2 DEF Connect, TmallTypes
<1>5. ASSUME NEW c \in Conns, CloudSays(c) PROVE TmallTypes'
  <2>1. PICK m \in Says : sent' = [sent EXCEPT ![c] = Append(sent[c], m)]
    BY <1>5 DEF CloudSays, Say, Says, Commands
  <2>2. Len(Append(sent[c], m)) = Len(sent[c]) + 1 /\ Len(sent[c]) \in Nat /\ Len(sent[c]) < MaxSent
    BY <1>0, <1>5 DEF CloudSays
  <2>3. \A d \in Conns : Len(sent'[d]) <= MaxSent
    <3> SUFFICES ASSUME NEW d \in Conns PROVE Len(sent'[d]) <= MaxSent
      OBVIOUS
    <3>1. CASE d = c
      BY <1>0, <2>1, <2>2, <3>1
    <3>2. CASE d # c
      BY <1>0, <2>1, <3>2 DEF TmallTypes
    <3> QED
      BY <3>1, <3>2
  <2>4. UNCHANGED <<got_ip, current, md5, repeated, hung_up, tls_fault>>
    BY <1>5 DEF CloudSays
  <2> QED
    BY <2>3, <2>4 DEF TmallTypes
<1>6. ASSUME NEW c \in Conns, ReceiveData(c) PROVE TmallTypes'
  <2>1. PICK n \in 1..Len(sent[c]) : sent' = [sent EXCEPT ![c] = SubSeq(sent[c], n + 1, Len(sent[c]))]
    BY <1>6 DEF ReceiveData
  <2>2. Len(SubSeq(sent[c], n + 1, Len(sent[c]))) <= Len(sent[c]) /\ Len(sent[c]) <= MaxSent
        /\ Len(sent[c]) \in Nat /\ SubSeq(sent[c], n + 1, Len(sent[c])) \in Seq(Says)
    BY <1>0, ReadMore DEF TmallTypes
  <2>3. \A d \in Conns : Len(sent'[d]) <= MaxSent
    <3> SUFFICES ASSUME NEW d \in Conns PROVE Len(sent'[d]) <= MaxSent
      OBVIOUS
    <3> DEFINE t == SubSeq(sent[c], n + 1, Len(sent[c]))
    <3>t. t \in Seq(Says) /\ Len(t) <= Len(sent[c]) /\ sent' = [sent EXCEPT ![c] = t]
      BY <2>1, <2>2
    <3> HIDE DEF t
    <3>1. CASE d = c
      <4>1. sent'[d] = t
        BY <1>0, <3>t, <3>1
      <4>2. Len(t) \in Nat
        BY <3>t
      <4> QED
        BY <1>0, <2>2, <3>t, <4>1, <4>2
    <3>2. CASE d # c
      BY <1>0, <3>t, <3>2 DEF TmallTypes
    <3> QED
      BY <3>1, <3>2
  <2>4. tls_fault' = TRUE \/ tls_fault' = FALSE
    BY <1>6 DEF ReceiveData
  <2>5. repeated' = TRUE \/ repeated' = FALSE \/ repeated' = repeated
    BY <1>6 DEF ReceiveData, JsonParse
  <2>6. hung_up' = hung_up /\ got_ip' = got_ip /\ current' = current
    BY <1>6 DEF ReceiveData
  <2>7. {repeated', hung_up', tls_fault'} \subseteq BOOLEAN
    BY <2>4, <2>5, <2>6 DEF TmallTypes
  <2>8. md5' \in {"live", md5}
    BY <1>6 DEF ReceiveData, JsonParse
  <2> QED
    BY <2>3, <2>6, <2>7, <2>8 DEF TmallTypes
<1>7. ASSUME NEW c \in Conns, ReceiveClose(c) PROVE TmallTypes'
  <2>1. tls_fault' = TRUE \/ tls_fault' = FALSE
    BY <1>7 DEF ReceiveClose, Clean
  <2>2. {repeated', hung_up', tls_fault'} \subseteq BOOLEAN
    BY <1>7, <2>1 DEF ReceiveClose, TmallTypes
  <2> QED
    BY <1>7, <2>2 DEF ReceiveClose, TmallTypes
<1>8. ASSUME NEW c \in Conns, ReceiveWrites(c) PROVE TmallTypes'
  <2>1. tls_fault' = TRUE \/ tls_fault' = FALSE
    BY <1>8 DEF ReceiveWrites
  <2>2. {repeated', hung_up', tls_fault'} \subseteq BOOLEAN
    BY <1>8, <2>1 DEF ReceiveWrites, TmallTypes
  <2> QED
    BY <1>8, <2>2 DEF ReceiveWrites, TmallTypes
<1>9. ASSUME NEW c \in Conns, HeartBeat(c) PROVE TmallTypes'
  <2>1. tls_fault' = TRUE \/ tls_fault' = FALSE
    BY <1>9 DEF HeartBeat
  <2>2. {repeated', hung_up', tls_fault'} \subseteq BOOLEAN
    BY <1>9, <2>1 DEF HeartBeat, TmallTypes
  <2> QED
    BY <1>9, <2>2 DEF HeartBeat, TmallTypes
<1> QED
  BY <1>1, <1>2, <1>3, <1>4, <1>5, <1>6, <1>7, <1>8, <1>9 DEF TmallNext

\* Every variable of the seven programs has its type, within the bounds that
\* the code sets or the model names: the counts of payloads, buffers, tasks and
\* closes never go below zero or beyond what there is, and only chunks of the
\* image or bytes that are not of it are written to the partition.
THEOREM TypeCorrect == Spec => []TypeOK
<1> DEFINE Kind == lesson \in {"hx-tmall", "hx-ws", "hx-udp", "hx-tcp", "hx-ota", "hx-sc", "hx-mqtt-wan"}
           Tmall == CommandInv /\ LampCounts /\ TlsInv /\ TmallTypes
           Ws == PayloadInv /\ EchoInv /\ WsTypes
           Sockets == UdpInv /\ UdpLessonTypeOK /\ ReaderInv /\ tl_stations \in 0..MaxStations
           Rest == ImageInv /\ OtaTypeOK /\ WeatherInv /\ ScHttpTypeOK /\ MqttTypeOK
           Inv == Kind /\ Tmall /\ Ws /\ Sockets /\ Rest
<1>1. Init => Inv
  <2> SUFFICES ASSUME Init PROVE Inv
    OBVIOUS
  <2>1. Kind
    BY DEF Init
  <2>2. Tmall
    <3>1. CommandInv /\ TlsInv /\ TmallInit
      BY CommandInit, TlsInit DEF Init
    <3>2. LampCounts
      BY <3>1, LampAssumption DEF TmallInit, LampOff, LampCounts
    <3>a. {repeated, hung_up, tls_fault} \subseteq BOOLEAN
      BY <3>1 DEF TmallInit
    <3>b. got_ip \in 0..MaxConns /\ current \in 0..MaxConns /\ md5 = "null"
      BY <3>1, TmallAssumption DEF TmallInit
    <3>c. \A c \in Conns : Len(sent[c]) <= MaxSent
      <4>1. \A c \in Conns : sent[c] = <<>>
        BY <3>1 DEF TmallInit
      <4>2. Len(<<>>) = 0
        OBVIOUS
      <4> QED
        BY <4>1, <4>2, TmallAssumption
    <3>3. TmallTypes
      BY <3>a, <3>b, <3>c DEF TmallTypes
    <3> QED
      BY <3>1, <3>2, <3>3
  <2>3. Ws
    <3>1. WebSocketInit /\ PayloadInv
      BY PayloadInit DEF Init
    <3>2. EchoInv
      BY <3>1 DEF WebSocketInit, EchoInv, EchoWhole
    <3>a. {ws_unmasked, ws_raced, bad_free, bad_echo} \subseteq BOOLEAN
      BY <3>1 DEF WebSocketInit
    <3>b. {payloads, digests, netbufs, ws_dropped, ws_refused, ws_greeted} \subseteq Nat
      BY <3>1 DEF WebSocketInit
    <3>c. ws_no \in 0..MaxWsConns /\ WS_conn \in 0..MaxWsConns /\ ws_frames \in 0..MaxWsFrames
      BY <3>1, WebSocketAssumption DEF WebSocketInit
    <3>d. {rx_conn, rx_header} \subseteq 0..MaxWsConns
      BY <3>1, WebSocketAssumption DEF WebSocketInit
    <3>e. Len(ws_queue) = 0 /\ Len(rx_frame) = 0
      BY <3>1 DEF WebSocketInit
    <3>f. ws_queue \in Seq(WsFrame) /\ rx_frame \in Seq(WsFrame)
      BY <3>1 DEF PayloadInv
    <3>3. WebSocketTypeOK
      BY <3>1, <3>a, <3>b, <3>c, <3>d, <3>e, <3>f, WebSocketAssumption
         DEF WebSocketInit, WebSocketTypeOK
    <3>4. PayloadsThere
      BY <3>1 DEF WebSocketInit, PayloadsThere
    <3> QED
      BY <3>1, <3>2, <3>3, <3>4 DEF WsTypes, WebSocketInit
  <2>4. Sockets
    <3>1. ReaderInv
      BY ReaderInit DEF Init
    <3>2. UdpInv
      BY UdpStart DEF Init
    <3>a. {udp_unread, udp_misled} \subseteq BOOLEAN /\ udp_bit \in BOOLEAN
      BY DEF Init, UdpLessonInit, UdpInit
    <3>3. UdpLessonTypeOK
      BY <3>a DEF Init, UdpLessonInit, UdpInit, UdpLessonTypeOK, UdpTypeOK
    <3>4. tl_stations \in 0..MaxStations
      BY TcpLessonAssumption DEF Init, TcpLessonInit
    <3> QED
      BY <3>1, <3>2, <3>3, <3>4
  <2>5. Rest
    <3>1. ImageInv
      BY ImageInit DEF Init
    <3>a. {ota_bit, ota_body, ota_split, ota_cut, ota_lost, ota_crash} \subseteq BOOLEAN
      BY DEF Init, OtaInit
    <3>b. ota_flash \in Seq(0..ImageChunks) /\ ota_got \in 0..Len(Header) + ImageChunks
      <4>1. Len(Header) = 5 /\ ota_got = 0 /\ ImageChunks \in Nat
        BY OtaAssumption DEF Init, OtaInit, Header
      <4>2. <<>> \in Seq(0..ImageChunks)
        OBVIOUS
      <4> QED
        BY <4>1, <4>2 DEF Init, OtaInit
    <3>2. OtaTypeOK
      BY <3>a, <3>b DEF Init, OtaInit, OtaTypeOK
    <3>3. WeatherInv
      BY DEF Init, ScHttpInit, WeatherInv, FreshWeather
    <3>c. {hg_long, hg_fault} \subseteq BOOLEAN
      BY DEF Init, ScHttpInit
    <3>d. hg_text \in Seq(0..1) /\ hg_reads \in 0..MaxReads /\ hg_round \in 0..1 /\ hg_weather \in 0..2
      <4>1. <<>> \in Seq(0..1)
        OBVIOUS
      <4> QED
        BY <4>1, ScHttpAssumption DEF Init, ScHttpInit
    <3>4. ScHttpTypeOK
      BY <3>c, <3>d DEF Init, ScHttpInit, ScHttpTypeOK, Answers
    <3>e. {led_on, mq_press, led_early, mq_unasked} \subseteq BOOLEAN
      BY DEF Init, MqttInit
    <3>f. mq_msgs \in Seq({"LED", "text"}) /\ Len(mq_msgs) <= MaxMsgs
      <4>1. <<>> \in Seq({"LED", "text"}) /\ Len(<<>>) = 0
        OBVIOUS
      <4> QED
        BY <4>1, MqttAssumption DEF Init, MqttInit
    <3>5. MqttTypeOK
      BY <3>e, <3>f DEF Init, MqttInit, MqttTypeOK
    <3> QED
      BY <3>1, <3>2, <3>3, <3>4, <3>5
  <2> QED
    BY <2>1, <2>2, <2>3, <2>4, <2>5
<1>2. Inv /\ [Next]_vars => Inv'
  <2> SUFFICES ASSUME Inv, [Next]_vars PROVE Inv'
    OBVIOUS
  <2>1. Kind'
    BY DEF Next, vars
  <2>2. Tmall'
    BY Parts, CommandStep, LampCountsStep, TlsStep, TmallTypesStep DEF TlsInv
  <2>3. Ws'
    BY Parts, PayloadStep, EchoStep, WsTypesStep DEF EchoInv
  <2>4. Sockets'
    BY Parts, UdpStep, UdpTypesStep, ReaderStep, TcpTypesStep
  <2>5. Rest'
    BY Parts, ImageStep, OtaTypesStep, WeatherStep, ScTypesStep, MqttTypesStep
  <2> QED
    BY <2>1, <2>2, <2>3, <2>4, <2>5
<1>3. Inv => TypeOK
  <2> SUFFICES ASSUME Inv PROVE TypeOK
    OBVIOUS
  <2>1. TmallTypeOK
    BY LampKindType DEF CommandInv, TlsInv, TlsTypes, TmallTypes, TmallTypeOK
  <2>2. TcpLessonTypeOK
    BY DEF ReaderInv, TcpLessonTypeOK
  <2> QED
    BY <2>1, <2>2 DEF WsTypes, TypeOK
<1> HIDE DEF Inv
<1> QED
  BY <1>1, <1>2, <1>3, PTL DEF Spec
=============================================================================
