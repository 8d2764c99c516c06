------------------------------ MODULE UdpLesson -----------------------------
(***************************************************************************)
(* hx-udp: the lesson that hans_udp was made from.  Its two tasks are      *)
(* those of module UdpLink, line for line; the event handler is its own:   *)
(* it sets the bit when the station is associated, before it has an        *)
(* address, and again when it has one.                                     *)
(***************************************************************************)
EXTENDS UdpLink

VARIABLE ul_link \* the station: off, trying, joined (no address yet) or ip

udp_lesson_vars == <<udp_link_vars, ul_link>>

UdpLessonTypeOK ==
    /\ UdpTypeOK
    /\ ul_link \in {"off", "trying", "joined", "ip"}

UdpLessonInit == UdpInit /\ ul_link = "off"

\* The lesson's udp_connect.
LessonUdpConnect == UdpConnect /\ UNCHANGED ul_link

\* The lesson's recv_data.
LessonUdpRecvData == UdpRecvData /\ UNCHANGED ul_link

\* event_handler: STA_DISCONNECTED connects again and clears the bit.
UdpLinkLost ==
    /\ ul_link' = "trying"
    /\ UdpBit(FALSE)

\* event_handler: STA_START, STA_CONNECTED and STA_GOT_IP.
UdpEventHandler ==
    \/ ul_link = "off" /\ ul_link' = "trying" /\ UNCHANGED udp_link_vars
    \/ ul_link = "trying" /\ ul_link' = "joined" /\ UdpBit(TRUE)
    \/ ul_link = "joined" /\ ul_link' = "ip" /\ UdpBit(TRUE)
    \/ ul_link # "off" /\ UdpLinkLost

UdpLessonNext == LessonUdpConnect \/ LessonUdpRecvData \/ UdpEventHandler

\* The bit is up exactly while the station is associated.
UdpBitMeansJoined == udp_bit <=> ul_link \in {"joined", "ip"}
=============================================================================
