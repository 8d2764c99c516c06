------------------------------- MODULE Lessons ------------------------------
(***************************************************************************)
(* The network programs under src/my/wifi_source_code other than the       *)
(* weather lamp.  Each is a firmware of its own, and a device runs one of  *)
(* them: `lesson' says which, and the state of the others stays as it is.  *)
(***************************************************************************)
EXTENDS Tmall, WebSocket, UdpLesson, TcpLesson, Ota, ScHttp, Mqtt

VARIABLE lesson \* the firmware

vars == <<lesson, tmall_vars, ws_vars, udp_lesson_vars, tcp_lesson_vars, ota_vars, sc_vars,
          mq_vars>>

TypeOK ==
    /\ lesson \in {"hx-tmall", "hx-ws", "hx-udp", "hx-tcp", "hx-ota", "hx-sc", "hx-mqtt-wan"}
    /\ TmallTypeOK /\ WebSocketTypeOK /\ UdpLessonTypeOK /\ TcpLessonTypeOK
    /\ OtaTypeOK /\ ScHttpTypeOK /\ MqttTypeOK

\* What may vary from the start is pinned where it plays no part.
Init ==
    /\ lesson \in {"hx-tmall", "hx-ws", "hx-udp", "hx-tcp", "hx-ota", "hx-sc", "hx-mqtt-wan"}
    /\ TmallInit /\ WebSocketInit /\ UdpLessonInit /\ TcpLessonInit
    /\ OtaInit /\ ScHttpInit /\ MqttInit
    /\ lesson # "hx-sc" => sc_program = "hx-sc"
    /\ lesson # "hx-mqtt-wan" => key_level = 1

TmallRuns == lesson = "hx-tmall" /\ TmallNext
             /\ UNCHANGED <<ws_vars, udp_lesson_vars, tcp_lesson_vars, ota_vars, sc_vars, mq_vars>>
WsRuns == lesson = "hx-ws" /\ WebSocketNext
          /\ UNCHANGED <<tmall_vars, udp_lesson_vars, tcp_lesson_vars, ota_vars, sc_vars, mq_vars>>
UdpRuns == lesson = "hx-udp" /\ UdpLessonNext
           /\ UNCHANGED <<tmall_vars, ws_vars, tcp_lesson_vars, ota_vars, sc_vars, mq_vars>>
TcpRuns == lesson = "hx-tcp" /\ TcpLessonNext
           /\ UNCHANGED <<tmall_vars, ws_vars, udp_lesson_vars, ota_vars, sc_vars, mq_vars>>
OtaRuns == lesson = "hx-ota" /\ OtaNext
           /\ UNCHANGED <<tmall_vars, ws_vars, udp_lesson_vars, tcp_lesson_vars, sc_vars, mq_vars>>
ScRuns == lesson = "hx-sc" /\ ScHttpNext
          /\ UNCHANGED <<tmall_vars, ws_vars, udp_lesson_vars, tcp_lesson_vars, ota_vars, mq_vars>>
MqttRuns == lesson = "hx-mqtt-wan" /\ MqttNext
            /\ UNCHANGED <<tmall_vars, ws_vars, udp_lesson_vars, tcp_lesson_vars, ota_vars, sc_vars>>

Next ==
    /\ UNCHANGED lesson
    /\ TmallRuns \/ WsRuns \/ UdpRuns \/ TcpRuns \/ OtaRuns \/ ScRuns \/ MqttRuns

Spec == Init /\ [][Next]_vars

-----------------------------------------------------------------------------
\* A lamp that is told what to do from the net does the last thing it was told:
\* by the cloud (user_tmall_genie.c) or by a topic (app_main.c of hx-mqtt-wan).
LampsObey == CommandObeyed /\ LampAsStatus

\* Whatever fails or comes late, a task that opens a socket closes it once and
\* before it ends, no socket has two readers, and the bit that makes the tasks
\* start says what the station is (hx-udp, hx-tcp, hx-ota, hx-sc-http).
SocketsOwned ==
    /\ UdpSocketOwned /\ UdpBitMeansJoined
    /\ LessonReaders
    /\ OtaSocketClosed
    /\ HgResources
=============================================================================
