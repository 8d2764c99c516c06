-------------------------------- MODULE Wifi --------------------------------
(***************************************************************************)
(* components/hans_wifi/bsp_wifi.c: the WiFi event handler, the smartconfig*)
(* task and the event group through which the application tasks            *)
(* (tcp_connect, udp_connect, start_webserver) wait for a connection.      *)
(*                                                                         *)
(* The driver posts events to a queue; the event task takes them one by    *)
(* one and runs wifi_event_handler to its end, so an event is handled some *)
(* time after the link changed, and the handler is one step.  The event    *)
(* group is the other meeting point: a task waits for a bit, and the       *)
(* smartconfig task, alone, takes the bit away as it wakes.                *)
(***************************************************************************)
EXTENDS Integers, Sequences

CONSTANTS
    Clients,    \* application tasks that wait for WIFI_CONNECTED_BIT
    Peers,      \* stations that can join the soft AP
    MaxRetry,   \* BSP_ESP_STA_MAXIMUM_RETRY
    MaxEvents   \* bound: the driver stays quiet when this many are pending

\* A limit of no retry would leave the bit set when the link is lost.
ASSUME WifiAssumption == MaxRetry \in Nat \ {0} /\ MaxEvents \in Nat \ {0}

VARIABLES
    smartconfig,     \* the build option SMARTCONFIG, never changed
    mode,            \* "off", "sta", or "ap"
    link,            \* the station's link in the driver
    phone,           \* progress of the phone that runs smartconfig
    stations,        \* peers joined to the soft AP
    events,          \* events posted and not yet handled
    wifi_retry_num,
    bits,            \* bsp_wifi_event_group
    sc_at,           \* where smartconfig_task is
    client_at        \* where each application task is

driver_vars == <<smartconfig, mode, link, phone, stations>>
group_vars  == <<bits, sc_at, client_at>>
vars == <<driver_vars, events, wifi_retry_num, group_vars>>

CONNECTED == "WIFI_CONNECTED_BIT"
DONE      == "ESPTOUCH_DONE_BIT"

StaEvent == {"STA_START", "STA_DISCONNECTED", "GOT_IP", "GOT_SSID_PSWD", "SEND_ACK_DONE"}
ApEvent  == {"AP_STACONNECTED", "AP_STADISCONNECTED"}

TypeOK ==
    /\ smartconfig \in BOOLEAN
    /\ mode \in {"off", "sta", "ap"}
    /\ link \in {"idle", "connecting", "associated", "ip"}
    /\ phone \in {"silent", "sent", "acked"}
    /\ stations \in SUBSET Peers
    /\ events \in Seq(StaEvent \cup ApEvent)
    /\ wifi_retry_num \in 0..MaxRetry
    /\ bits \in SUBSET {CONNECTED, DONE}
    /\ sc_at \in {"none", "wait", "blocked", "stop"}
    /\ client_at \in [Clients -> {"idle", "blocked", "running"}]

Init ==
    /\ smartconfig \in BOOLEAN
    /\ mode = "off"
    /\ link = "idle"
    /\ phone = "silent"
    /\ stations = {}
    /\ events = <<>>
    /\ wifi_retry_num = 0
    /\ bits = {}
    /\ sc_at = "none"
    /\ client_at = [c \in Clients |-> "idle"]

-----------------------------------------------------------------------------
(* Deliberate faults, used by no specification.                             *)

\* The handler reconnects but leaves the connection bit set.
DisconnectedKeepsBit ==
    IF wifi_retry_num < MaxRetry
    THEN /\ link' = IF link = "idle" THEN "connecting" ELSE link
         /\ wifi_retry_num' = wifi_retry_num + 1
         /\ UNCHANGED group_vars
    ELSE UNCHANGED <<link, wifi_retry_num, group_vars>>

\* The limit is compared one retry too early.
DisconnectedStopsEarly ==
    IF wifi_retry_num + 1 < MaxRetry
    THEN /\ link' = IF link = "idle" THEN "connecting" ELSE link
         /\ bits' = bits \ {CONNECTED}
         /\ wifi_retry_num' = wifi_retry_num + 1
         /\ UNCHANGED <<sc_at, client_at>>
    ELSE UNCHANGED <<link, wifi_retry_num, group_vars>>

\* The retry counter runs on past the limit.
DisconnectedUnbounded ==
    /\ wifi_retry_num' = wifi_retry_num + 1
    /\ link' = IF link = "idle" THEN "connecting" ELSE link
    /\ bits' = bits \ {CONNECTED}
    /\ UNCHANGED <<sc_at, client_at>>

\* The handler takes the address and does not tell the waiting tasks.
GotIpQuietly == wifi_retry_num' = 0 /\ UNCHANGED <<link, group_vars>>

\* smartconfig_task looks for the connection bit only.
SmartWaitIgnoresDone ==
    /\ sc_at = "wait"
    /\ IF CONNECTED \in bits
       THEN bits' = bits \ {CONNECTED, DONE} /\ UNCHANGED sc_at
       ELSE sc_at' = "blocked" /\ UNCHANGED bits
    /\ UNCHANGED <<driver_vars, events, wifi_retry_num, client_at>>

-----------------------------------------------------------------------------
(* xEventGroupSetBits: wakes the waiting tasks whose condition is now met,  *)
(* then clears the bits that smartconfig_task asked to have cleared.        *)

SetBits(b) ==
    LET now   == bits \cup b
        takes == sc_at = "blocked" /\ now # {}
    IN  /\ client_at' = [c \in Clients |->
                            IF client_at[c] = "blocked" /\ CONNECTED \in now
                            THEN "running" ELSE client_at[c]]
        /\ sc_at' = IF ~takes THEN sc_at ELSE IF DONE \in now THEN "stop" ELSE "wait"
        /\ bits' = IF takes THEN {} ELSE now

-----------------------------------------------------------------------------
(* Initialisation: bsp_wifi_init_char_station_softap('s' or 'a').           *)

InitStation ==
    /\ mode = "off"
    /\ mode' = "sta"
    /\ events' = <<"STA_START">>
    /\ UNCHANGED <<smartconfig, link, phone, stations, wifi_retry_num, group_vars>>

InitSoftap ==
    /\ mode = "off"
    /\ mode' = "ap"
    /\ UNCHANGED <<smartconfig, link, phone, stations, events, wifi_retry_num, group_vars>>

-----------------------------------------------------------------------------
(* wifi_event_handler, one operator per event.  esp_wifi_connect() starts a *)
(* connection only from an idle link; esp_wifi_disconnect() drops whatever  *)
(* there is and the driver posts the event for it.                          *)

OnStart ==
    IF smartconfig
    THEN sc_at' = "wait" /\ UNCHANGED <<link, wifi_retry_num, bits, client_at>>
    ELSE link' = "connecting" /\ UNCHANGED <<wifi_retry_num, group_vars>>

OnDisconnected ==
    IF wifi_retry_num < MaxRetry
    THEN /\ link' = IF link = "idle" THEN "connecting" ELSE link
         /\ bits' = bits \ {CONNECTED}
         /\ wifi_retry_num' = wifi_retry_num + 1
         /\ UNCHANGED <<sc_at, client_at>>
    ELSE UNCHANGED <<link, wifi_retry_num, group_vars>>

OnGotIp ==
    /\ wifi_retry_num' = 0
    /\ SetBits({CONNECTED})
    /\ UNCHANGED link

OnAckDone ==
    /\ SetBits({DONE})
    /\ UNCHANGED <<link, wifi_retry_num>>

OnStaConnected ==
    /\ SetBits({CONNECTED})
    /\ UNCHANGED <<link, wifi_retry_num>>

\* One station leaving clears the bit, whoever else is still there.
OnStaDisconnected ==
    /\ bits' = bits \ {CONNECTED}
    /\ UNCHANGED <<link, wifi_retry_num, sc_at, client_at>>

OnCredentials ==
    /\ link' = "connecting"
    /\ UNCHANGED <<wifi_retry_num, group_vars>>

Dispatch(e) ==
    \/ e = "STA_START"          /\ OnStart
    \/ e = "STA_DISCONNECTED"   /\ OnDisconnected
    \/ e = "GOT_IP"             /\ OnGotIp
    \/ e = "GOT_SSID_PSWD"      /\ OnCredentials
    \/ e = "SEND_ACK_DONE"      /\ OnAckDone
    \/ e = "AP_STACONNECTED"    /\ OnStaConnected
    \/ e = "AP_STADISCONNECTED" /\ OnStaDisconnected

\* Disconnecting a link that was not idle makes the driver report it.
HandleEvent ==
    /\ events # <<>>
    /\ Dispatch(Head(events))
    /\ events' = IF Head(events) = "GOT_SSID_PSWD" /\ link # "idle"
                 THEN Append(Tail(events), "STA_DISCONNECTED")
                 ELSE Tail(events)
    /\ UNCHANGED <<smartconfig, mode, phone, stations>>

-----------------------------------------------------------------------------
(* smartconfig_task: waits for either bit and clears both as it wakes.      *)

SmartWait ==
    /\ sc_at = "wait"
    /\ IF bits # {}
       THEN /\ bits' = {}
            /\ sc_at' = IF DONE \in bits THEN "stop" ELSE "wait"
       ELSE sc_at' = "blocked" /\ UNCHANGED bits
    /\ UNCHANGED <<driver_vars, events, wifi_retry_num, client_at>>

SmartStop ==
    /\ sc_at = "stop"
    /\ sc_at' = "none"
    /\ UNCHANGED <<driver_vars, events, wifi_retry_num, bits, client_at>>

-----------------------------------------------------------------------------
(* The application tasks: wait for the bit, without clearing it and without *)
(* a timeout; tcp_connect comes back to wait when it cannot connect.        *)

ClientWait(c) ==
    /\ client_at[c] = "idle"
    /\ mode # "off"
    /\ client_at' = [client_at EXCEPT ![c] = IF CONNECTED \in bits THEN "running" ELSE "blocked"]
    /\ UNCHANGED <<driver_vars, events, wifi_retry_num, bits, sc_at>>

ClientRetry(c) ==
    /\ client_at[c] = "running"
    /\ client_at' = [client_at EXCEPT ![c] = "idle"]
    /\ UNCHANGED <<driver_vars, events, wifi_retry_num, bits, sc_at>>

-----------------------------------------------------------------------------
(* The driver and the radio.                                                *)

Post(e) == Len(events) < MaxEvents /\ events' = Append(events, e)

Associate ==
    /\ link = "connecting"
    /\ link' = "associated"
    /\ UNCHANGED <<smartconfig, mode, phone, stations, events, wifi_retry_num, group_vars>>

GetIp ==
    /\ link = "associated"
    /\ link' = "ip"
    /\ Post("GOT_IP")
    /\ UNCHANGED <<smartconfig, mode, phone, stations, wifi_retry_num, group_vars>>

LinkLost ==
    /\ link # "idle"
    /\ link' = "idle"
    /\ Post("STA_DISCONNECTED")
    /\ UNCHANGED <<smartconfig, mode, phone, stations, wifi_retry_num, group_vars>>

\* The phone's credentials arrive once while smartconfig listens, and are
\* acknowledged when the station has an address.
PhoneSends ==
    /\ sc_at # "none"
    /\ phone = "silent"
    /\ phone' = "sent"
    /\ Post("GOT_SSID_PSWD")
    /\ UNCHANGED <<smartconfig, mode, link, stations, wifi_retry_num, group_vars>>

PhoneAcked ==
    /\ phone = "sent"
    /\ link = "ip"
    /\ phone' = "acked"
    /\ Post("SEND_ACK_DONE")
    /\ UNCHANGED <<smartconfig, mode, link, stations, wifi_retry_num, group_vars>>

PeerJoins(p) ==
    /\ mode = "ap"
    /\ p \notin stations
    /\ stations' = stations \cup {p}
    /\ Post("AP_STACONNECTED")
    /\ UNCHANGED <<smartconfig, mode, link, phone, wifi_retry_num, group_vars>>

PeerLeaves(p) ==
    /\ p \in stations
    /\ stations' = stations \ {p}
    /\ Post("AP_STADISCONNECTED")
    /\ UNCHANGED <<smartconfig, mode, link, phone, wifi_retry_num, group_vars>>

Driver ==
    \/ Associate \/ GetIp \/ LinkLost \/ PhoneSends \/ PhoneAcked
    \/ \E p \in Peers : PeerJoins(p) \/ PeerLeaves(p)

Next ==
    \/ InitStation \/ InitSoftap
    \/ HandleEvent
    \/ SmartWait \/ SmartStop
    \/ \E c \in Clients : ClientWait(c) \/ ClientRetry(c)
    \/ Driver

(***************************************************************************)
(* Fairness: the event task and smartconfig_task run whenever they have    *)
(* work; nothing is assumed about the radio, the phone or the application. *)
(***************************************************************************)
Spec == Init /\ [][Next]_vars /\ WF_vars(HandleEvent) /\ WF_vars(SmartWait) /\ WF_vars(SmartStop)

-----------------------------------------------------------------------------
(* Properties.                                                              *)

Pending(e) == \E i \in 1..Len(events) : events[i] = e

\* The bit is never left over: while it is set the station has an address or
\* a peer is joined, or the event that will clear it is on its way.  In
\* particular giving up retrying cannot leave the bit behind.
BitMeansLink ==
    CONNECTED \in bits =>
        IF mode = "sta"
        THEN link = "ip" \/ Pending("STA_DISCONNECTED")
        ELSE stations # {} \/ Pending("AP_STADISCONNECTED")

\* A station that has credentials, an idle link and retries left is about to
\* be reconnected: no disconnection goes unanswered.
NoStall ==
    mode = "sta" /\ link = "idle" /\ wifi_retry_num < MaxRetry /\ (smartconfig => phone # "silent")
        => Pending("STA_START") \/ Pending("STA_DISCONNECTED") \/ Pending("GOT_SSID_PSWD")

\* A task that waits for the connection is let through: none is blocked when
\* the station has an address and every event has been handled.
WaitersReleased ==
    mode = "sta" /\ link = "ip" /\ events = <<>> =>
        \A c \in Clients : client_at[c] # "blocked"

\* The same, for the build without smartconfig.
WaitersReleasedDirect == ~smartconfig => WaitersReleased

\* Once the phone has been answered smartconfig_task stops and deletes itself:
\* the bit it waits for is never lost among the connection's.
SmartconfigEnds == (phone = "acked") ~> (sc_at = "none")
=============================================================================
