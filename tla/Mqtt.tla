-------------------------------- MODULE Mqtt --------------------------------
(***************************************************************************)
(* hx-mqtt-wan (and hx-mqtt-domain-name, which differs in the broker's     *)
(* name): a key publishes "LED" on a topic to which the device itself has  *)
(* subscribed, and every "LED" that arrives switches the lamp over         *)
(* (app_main.c).  The MQTT client and the broker are the environment: what *)
(* is published with QoS 0 arrives once or not at all.                     *)
(*                                                                         *)
(* app_main configures the lamp and the key when the client is connected;  *)
(* the client's task may deliver messages from then on.                    *)
(***************************************************************************)
EXTENDS Naturals, Sequences

CONSTANT MaxMsgs \* bound: messages on their way to the device

ASSUME MqttAssumption == MaxMsgs \in Nat \ {0}

VARIABLES
    mq_at,      \* app_main: wifi, start, broker, config, off, loop
    mq_bits,    \* the bits: subset of {wifi, mqtt}
    mq_conn,    \* the client: idle, trying or connected
    mq_sub,     \* it has subscribed: no, asked or yes
    mq_msgs,    \* messages on their way, LED or text
    mq_task_at, \* mqtt_event_handler: idle, status or pin
    led_status,
    led_on,     \* what the pin says
    key_level,  \* of KEY_IO: 0 pressed
    key_status, \* key_status[1]
    mq_press,   \* history: the key was pressed since the last poll
    led_early,  \* history: LED came before the lamp was configured
    mq_unasked  \* history: LED was published and the key had not been pressed

mq_led_vars == <<led_status, led_on, led_early>>
mq_key_vars == <<key_level, key_status, mq_press>>
mq_net_vars == <<mq_bits, mq_conn, mq_sub, mq_msgs>>
mq_vars == <<mq_at, mq_net_vars, mq_task_at, mq_led_vars, mq_key_vars, mq_unasked>>

MqttTypeOK ==
    /\ mq_at \in {"wifi", "start", "broker", "config", "off", "loop"}
    /\ mq_bits \subseteq {"wifi", "mqtt"}
    /\ mq_conn \in {"idle", "trying", "connected"} /\ mq_sub \in {"no", "asked", "yes"}
    /\ mq_msgs \in Seq({"LED", "text"}) /\ Len(mq_msgs) <= MaxMsgs
    /\ mq_task_at \in {"idle", "status", "pin"}
    /\ led_status \in 0..1 /\ key_level \in 0..1 /\ key_status \in 0..1
    /\ {led_on, mq_press, led_early, mq_unasked} \subseteq BOOLEAN

MqttInit ==
    /\ mq_at = "wifi" /\ mq_bits = {} /\ mq_conn = "idle" /\ mq_sub = "no" /\ mq_msgs = <<>>
    /\ mq_task_at = "idle" /\ led_status = 0 /\ led_on = FALSE /\ led_early = FALSE
    /\ key_level \in 0..1 /\ key_status = 0 /\ mq_press = FALSE /\ mq_unasked = FALSE

\* What is published comes back if the broker has the subscription.
Publish(msg) ==
    IF mq_conn = "connected" /\ mq_sub = "yes" /\ Len(mq_msgs) < MaxMsgs
    THEN mq_msgs' \in {mq_msgs, Append(mq_msgs, msg)}
    ELSE UNCHANGED mq_msgs

-----------------------------------------------------------------------------
(* app_main.                                                                *)

\* wifi_init and mqtt_app_start, which wait for their bits.
AppWaits ==
    /\ \/ mq_at = "wifi" /\ "wifi" \in mq_bits /\ mq_at' = "start" /\ UNCHANGED mq_conn
       \/ mq_at = "start" /\ mq_at' = "broker" /\ mq_conn' = "trying"
       \/ mq_at = "broker" /\ "mqtt" \in mq_bits /\ mq_at' = "config" /\ UNCHANGED mq_conn
    /\ UNCHANGED <<mq_bits, mq_sub, mq_msgs, mq_task_at, mq_led_vars, mq_key_vars, mq_unasked>>

\* The pin becomes an output, and the lamp is switched off; led_status is left.
AppConfigures ==
    /\ \/ mq_at = "config" /\ mq_at' = "off" /\ UNCHANGED led_on
       \/ mq_at = "off" /\ mq_at' = "loop" /\ led_on' = FALSE
    /\ UNCHANGED <<mq_net_vars, mq_task_at, led_status, led_early, mq_key_vars, mq_unasked>>

\* key_read1: a key that has become pressed publishes.
KeyRead1 ==
    /\ mq_at = "loop"
    /\ key_status' = key_level
    /\ IF key_level = 0 /\ key_status = 1
       THEN Publish("LED") /\ mq_unasked' = (mq_unasked \/ ~mq_press)
       ELSE UNCHANGED <<mq_msgs, mq_unasked>>
    /\ mq_press' = FALSE
    /\ UNCHANGED <<mq_at, mq_bits, mq_conn, mq_sub, mq_task_at, mq_led_vars, key_level>>

KeyMoves ==
    /\ key_level' = 1 - key_level
    /\ mq_press' = (mq_press \/ key_level = 1)
    /\ UNCHANGED <<mq_at, mq_net_vars, mq_task_at, mq_led_vars, key_status, mq_unasked>>

-----------------------------------------------------------------------------
(* The client's task: mqtt_event_handler.                                   *)

MqttEvent == mq_task_at = "idle" /\ UNCHANGED <<mq_at, mq_key_vars, mq_unasked>>

\* CONNECTED sets the bit and subscribes, SUBSCRIBED publishes a text.
MqttConnected ==
    /\ MqttEvent
    /\ \/ /\ mq_conn = "trying" /\ mq_conn' = "connected" /\ mq_sub' = "asked"
          /\ mq_bits' = mq_bits \cup {"mqtt"}
          /\ UNCHANGED mq_msgs
       \/ /\ mq_conn = "connected" /\ mq_sub = "asked" /\ mq_sub' = "yes"
          /\ Len(mq_msgs) < MaxMsgs
          /\ mq_msgs' \in {mq_msgs, Append(mq_msgs, "text")}
          /\ UNCHANGED <<mq_conn, mq_bits>>
    /\ UNCHANGED <<mq_task_at, mq_led_vars>>

\* DISCONNECTED and ERROR clear the bit.
MqttDisconnected ==
    /\ MqttEvent
    /\ mq_conn = "connected"
    /\ mq_conn' = "trying" /\ mq_sub' = "no" /\ mq_msgs' = <<>>
    /\ mq_bits' = mq_bits \ {"mqtt"}
    /\ UNCHANGED <<mq_task_at, mq_led_vars>>

\* DATA: a message that is LED changes the status ...
MqttData ==
    /\ MqttEvent
    /\ mq_msgs # <<>>
    /\ mq_msgs' = Tail(mq_msgs)
    /\ IF Head(mq_msgs) = "LED"
       THEN /\ led_status' = 1 - led_status
            /\ mq_task_at' = "pin"
            /\ led_early' = (led_early \/ mq_at # "loop")
       ELSE UNCHANGED <<led_status, mq_task_at, led_early>>
    /\ UNCHANGED <<mq_bits, mq_conn, mq_sub, led_on>>

\* ... and then the pin.
MqttDataPin ==
    /\ mq_task_at = "pin"
    /\ mq_task_at' = "idle"
    /\ led_on' = (led_status = 1)
    /\ UNCHANGED <<mq_at, mq_net_vars, led_status, led_early, mq_key_vars, mq_unasked>>

\* Another client publishes LED.
OthersPublish ==
    /\ MqttEvent
    /\ mq_sub = "yes" /\ Len(mq_msgs) < MaxMsgs
    /\ mq_msgs' = Append(mq_msgs, "LED")
    /\ UNCHANGED <<mq_bits, mq_conn, mq_sub, mq_task_at, mq_led_vars>>

\* wifi_event_handler: the bit of the station's address.
MqttWifi ==
    /\ mq_bits' \in {mq_bits \cup {"wifi"}, mq_bits \ {"wifi"}}
    /\ UNCHANGED <<mq_at, mq_conn, mq_sub, mq_msgs, mq_task_at, mq_led_vars, mq_key_vars,
                   mq_unasked>>

MqttNext ==
    \/ AppWaits \/ AppConfigures \/ KeyRead1 \/ KeyMoves
    \/ MqttConnected \/ MqttDisconnected \/ MqttData \/ MqttDataPin
    \/ OthersPublish \/ MqttWifi

-----------------------------------------------------------------------------
\* The lamp shows what led_status says - two tasks write the pin, one of them
\* without the status - unless LED came before app_main had configured the
\* lamp; and a press of the key, however long, publishes LED once.
LampAsStatus ==
    /\ mq_at = "loop" /\ mq_task_at = "idle" /\ ~led_early => led_on = (led_status = 1)
    /\ ~mq_unasked
=============================================================================
