------------------------------ MODULE Pipeline ------------------------------
(***************************************************************************)
(* The way of a message from the TCP connection to the lamp and the screen.*)
(* recv_data (hans_tcp) puts every message it receives into a queue; two   *)
(* forwarder tasks (hans_queue) compete for that queue and feed the queue  *)
(* of the RGB lamp's task (hans_led_rgb) and that of the OLED's task       *)
(* (hans_oled).  The sender tasks of the last two components, which feed   *)
(* their own queue, may run as well.                                       *)
(*                                                                         *)
(* Every task is sequential and shares nothing but the queues, so a step   *)
(* is one queue operation or one visible output.  A queue copies what it   *)
(* is given.  The clock is left out: a receive times out only on an empty  *)
(* queue, a send with a wait only on a full one.                           *)
(***************************************************************************)
EXTENDS Naturals, Sequences, FiniteSets, Functions

CONSTANTS
    Data,     \* what a received message may say: a colour, a text or ""
    NoMsg,    \* no message
    QueueLen, \* the capacity of each queue (10 in the code)
    MaxTcp,   \* bound: messages recv_data receives
    MaxLed,   \* bound: messages of the lamp's sender task
    MaxOled   \* bound: messages of the screen's sender task

Producers == {"tcp", "led", "oled"}   \* recv_data and the two sender tasks
Sinks     == {"led", "oled"}
Pins      == {"r", "g", "b"}          \* LED_R_IO, LED_G_IO, LED_B_IO

Message == [from : Producers, id : Nat \ {0}, data : Data \cup Pins \cup {"text"}]

Bound(p) == CASE p = "tcp" -> MaxTcp [] p = "led" -> MaxLed [] p = "oled" -> MaxOled

ASSUME PipelineAssumption ==
    /\ QueueLen \in Nat \ {0}
    /\ MaxTcp \in Nat /\ MaxLed \in Nat /\ MaxOled \in Nat
    /\ NoMsg \notin Message

VARIABLES
    sent,       \* how many messages each producer has sent
    queue,      \* bsp_tcp_recive_xQueue, bsp_led_rgb_xQueue, bsp_oled_xQueue
    fwd_at,     \* where each forwarder is
    fwd_msg,    \* the message it holds
    sink_at,    \* where the tasks of the lamp and of the screen are
    sink_msg,   \* led_message_get, oled_message_get
    pins,       \* level of each pin: lit or not
    screen,     \* the message on the screen, NoMsg when it is blank
    shown,      \* history: what each sink has shown, oldest first
    lost        \* history: messages no queue had room for, and empty texts

fwd_vars == <<fwd_at, fwd_msg>>
out_vars == <<sink_at, sink_msg, pins, screen, shown>>
vars == <<sent, queue, fwd_vars, out_vars, lost>>

TypeOK ==
    /\ sent \in [Producers -> Nat]
    /\ queue \in [Producers -> Seq(Message)]
    /\ \A q \in Producers : Len(queue[q]) <= QueueLen
    /\ fwd_at \in [Sinks -> {"recv", "send", "delay"}]
    /\ fwd_msg \in [Sinks -> Message \cup {NoMsg}]
    /\ sink_at \in [Sinks -> {"recv", "r", "g", "b", "clear", "draw"}]
    /\ sink_msg \in [Sinks -> Message \cup {NoMsg}]
    /\ pins \in [Pins -> BOOLEAN]
    /\ screen \in Message \cup {NoMsg}
    /\ shown \in [Sinks -> Seq(Message)]
    /\ lost \subseteq Message

Init ==
    /\ sent = [p \in Producers |-> 0]
    /\ queue = [q \in Producers |-> <<>>]
    /\ fwd_at = [s \in Sinks |-> "recv"]
    /\ fwd_msg = [s \in Sinks |-> NoMsg]
    /\ sink_at = [s \in Sinks |-> "recv"]
    /\ sink_msg = [s \in Sinks |-> NoMsg]
    /\ pins = [c \in Pins |-> FALSE]
    /\ screen = NoMsg
    /\ shown = [s \in Sinks |-> <<>>]
    /\ lost = {}

-----------------------------------------------------------------------------
(* Queue operations.                                                        *)

\* xQueueSend that gives up: the message is stored, or lost on a full queue.
XQueueSend(q, m) ==
    IF Len(queue[q]) < QueueLen
    THEN queue' = [queue EXCEPT ![q] = Append(@, m)] /\ UNCHANGED lost
    ELSE lost' = lost \cup {m} /\ UNCHANGED queue

XQueueReceive(q, m) ==
    /\ queue[q] # <<>>
    /\ m = Head(queue[q])
    /\ queue' = [queue EXCEPT ![q] = Tail(@)]

\* A producer numbers its messages from 1.
Numbered(p, d) == [from |-> p, id |-> sent[p] + 1, data |-> d]

Counted(p) ==
    /\ sent[p] < Bound(p)
    /\ sent' = [sent EXCEPT ![p] = @ + 1]

-----------------------------------------------------------------------------
(* Deliberate faults, used by no specification.                             *)

\* The forwarder sends on what its buffer holds although nothing was received.
LedForwarderIgnoresTimeout ==
    /\ fwd_at["led"] = "recv"
    /\ queue["tcp"] = <<>>
    /\ fwd_at' = [fwd_at EXCEPT !["led"] = "send"]
    /\ UNCHANGED <<sent, queue, fwd_msg, out_vars, lost>>

\* The forwarder looks at the message and leaves it in the queue.
ForwarderPeeks(s) ==
    /\ fwd_at[s] = "recv"
    /\ queue["tcp"] # <<>>
    /\ fwd_msg' = [fwd_msg EXCEPT ![s] = Head(queue["tcp"])]
    /\ fwd_at' = [fwd_at EXCEPT ![s] = "send"]
    /\ UNCHANGED <<sent, queue, out_vars, lost>>

\* The forwarder puts its message at the front of the sink's queue.
ForwarderSendsToFront(s) ==
    /\ fwd_at[s] = "send"
    /\ IF Len(queue[s]) < QueueLen
       THEN queue' = [queue EXCEPT ![s] = <<fwd_msg[s]>> \o @] /\ UNCHANGED lost
       ELSE lost' = lost \cup {fwd_msg[s]} /\ UNCHANGED queue
    /\ fwd_msg' = [fwd_msg EXCEPT ![s] = NoMsg]
    /\ fwd_at' = [fwd_at EXCEPT ![s] = IF s = "led" THEN "delay" ELSE "recv"]
    /\ UNCHANGED <<sent, out_vars>>

\* One of the three pin writes is missing.
AfterPinSkipsGreen(c) == IF c = "r" THEN "b" ELSE "recv"

\* The screen's task removes a text only when it has something to draw.
OledReceivePeeksEmpty ==
    /\ sink_at["oled"] = "recv"
    /\ queue["oled"] # <<>>
    /\ Head(queue["oled"]).data # ""
    /\ sink_msg' = [sink_msg EXCEPT !["oled"] = Head(queue["oled"])]
    /\ queue' = [queue EXCEPT !["oled"] = Tail(@)]
    /\ sink_at' = [sink_at EXCEPT !["oled"] = "clear"]
    /\ UNCHANGED <<sent, fwd_vars, pins, screen, shown, lost>>

-----------------------------------------------------------------------------
(* Producers.                                                               *)

\* recv_data: one receive, forwarded without waiting.
RecvData(d) ==
    /\ Counted("tcp")
    /\ XQueueSend("tcp", Numbered("tcp", d))
    /\ UNCHANGED <<fwd_vars, out_vars>>

\* bsp_led_rgb_queue_send_set_rgb: red, green, blue, without waiting.
LampColour(n) == IF n % 3 = 0 THEN "r" ELSE IF n % 3 = 1 THEN "g" ELSE "b"

LedQueueSend ==
    /\ Counted("led")
    /\ XQueueSend("led", Numbered("led", LampColour(sent["led"])))
    /\ UNCHANGED <<fwd_vars, out_vars>>

\* bsp_oled_recive_send_to_oled: always the same text; waits 10 ticks.
OledQueueSend ==
    /\ Counted("oled")
    /\ XQueueSend("oled", Numbered("oled", "text"))
    /\ UNCHANGED <<fwd_vars, out_vars>>

-----------------------------------------------------------------------------
(* Forwarders: bsp_queue_tcp_recive_send_to_led and ..._to_oled.            *)

ForwarderReceive(s) ==
    /\ fwd_at[s] = "recv"
    /\ \E m \in Range(queue["tcp"]) :
          XQueueReceive("tcp", m) /\ fwd_msg' = [fwd_msg EXCEPT ![s] = m]
    /\ fwd_at' = [fwd_at EXCEPT ![s] = "send"]
    /\ UNCHANGED <<sent, out_vars, lost>>

\* Only the lamp's forwarder rests a second after every round.
ForwarderSend(s) ==
    /\ fwd_at[s] = "send"
    /\ XQueueSend(s, fwd_msg[s])
    /\ fwd_msg' = [fwd_msg EXCEPT ![s] = NoMsg]
    /\ fwd_at' = [fwd_at EXCEPT ![s] = IF s = "led" THEN "delay" ELSE "recv"]
    /\ UNCHANGED <<sent, out_vars>>

LedForwarderTimeout ==
    /\ fwd_at["led"] = "recv"
    /\ queue["tcp"] = <<>>
    /\ fwd_at' = [fwd_at EXCEPT !["led"] = "delay"]
    /\ UNCHANGED <<sent, queue, fwd_msg, out_vars, lost>>

LedForwarderWakes ==
    /\ fwd_at["led"] = "delay"
    /\ fwd_at' = [fwd_at EXCEPT !["led"] = "recv"]
    /\ UNCHANGED <<sent, queue, fwd_msg, out_vars, lost>>

-----------------------------------------------------------------------------
(* The lamp's task: bsp_led_rgb_queue_receive_set_rgb, and the three writes *)
(* of bsp_led_rgb_set_rgb.                                                  *)

LedReceive ==
    /\ sink_at["led"] = "recv"
    /\ \E m \in Range(queue["led"]) :
          XQueueReceive("led", m) /\ sink_msg' = [sink_msg EXCEPT !["led"] = m]
    /\ sink_at' = [sink_at EXCEPT !["led"] = "r"]
    /\ UNCHANGED <<sent, fwd_vars, pins, screen, shown, lost>>

AfterPin(c) == CASE c = "r" -> "g" [] c = "g" -> "b" [] c = "b" -> "recv"

SetLevel(c) ==
    /\ sink_at["led"] = c
    /\ pins' = [pins EXCEPT ![c] = (sink_msg["led"].data = c)]
    /\ sink_at' = [sink_at EXCEPT !["led"] = AfterPin(c)]
    /\ shown' = IF c = "b" THEN [shown EXCEPT !["led"] = Append(@, sink_msg["led"])] ELSE shown
    /\ UNCHANGED <<sent, queue, fwd_vars, sink_msg, screen, lost>>

-----------------------------------------------------------------------------
(* The screen's task: bsp_tcp_recive_send_to_oled.                          *)

\* An empty text is taken from the queue and ignored.
OledReceive ==
    /\ sink_at["oled"] = "recv"
    /\ \E m \in Range(queue["oled"]) :
          /\ XQueueReceive("oled", m)
          /\ sink_msg' = [sink_msg EXCEPT !["oled"] = m]
          /\ sink_at' = [sink_at EXCEPT !["oled"] = IF m.data = "" THEN "recv" ELSE "clear"]
          /\ lost' = IF m.data = "" THEN lost \cup {m} ELSE lost
    /\ UNCHANGED <<sent, fwd_vars, pins, screen, shown>>

OledClear ==
    /\ sink_at["oled"] = "clear"
    /\ screen' = NoMsg
    /\ sink_at' = [sink_at EXCEPT !["oled"] = "draw"]
    /\ UNCHANGED <<sent, queue, fwd_vars, sink_msg, pins, shown, lost>>

OledDraw ==
    /\ sink_at["oled"] = "draw"
    /\ screen' = sink_msg["oled"]
    /\ shown' = [shown EXCEPT !["oled"] = Append(@, sink_msg["oled"])]
    /\ sink_at' = [sink_at EXCEPT !["oled"] = "recv"]
    /\ UNCHANGED <<sent, queue, fwd_vars, sink_msg, pins, lost>>

-----------------------------------------------------------------------------
Produce == (\E d \in Data : RecvData(d)) \/ LedQueueSend \/ OledQueueSend

Forward(s) == ForwarderReceive(s) \/ ForwarderSend(s)

Next ==
    \/ Produce
    \/ \E s \in Sinks : Forward(s)
    \/ LedForwarderTimeout \/ LedForwarderWakes
    \/ LedReceive \/ \E c \in Pins : SetLevel(c)
    \/ OledReceive \/ OledClear \/ OledDraw

(***************************************************************************)
(* Fairness: all these tasks have the same priority and block when they    *)
(* have nothing to do, so each gets to run.  The producers owe nothing.    *)
(***************************************************************************)
Spec ==
    /\ Init /\ [][Next]_vars
    /\ \A s \in Sinks : WF_vars(Forward(s))
    /\ WF_vars(LedForwarderWakes)
    /\ WF_vars(LedReceive) /\ \A c \in Pins : WF_vars(SetLevel(c))
    /\ WF_vars(OledReceive) /\ WF_vars(OledClear) /\ WF_vars(OledDraw)

-----------------------------------------------------------------------------
(* Properties.                                                              *)

Showing(s) == IF sink_at[s] = "recv" THEN {} ELSE {sink_msg[s]}

InFlight ==
    (UNION {Range(queue[q]) : q \in Producers})
        \cup ({fwd_msg[s] : s \in Sinks} \ {NoMsg})
        \cup UNION {Showing(s) : s \in Sinks}

Settled == lost \cup UNION {Range(shown[s]) : s \in Sinks}

Holders(m) ==
    {<<"queue", q>> : q \in {q \in Producers : m \in Range(queue[q])}}
        \cup {<<"forwarder", s>> : s \in {s \in Sinks : fwd_msg[s] = m}}
        \cup {<<"task", s>> : s \in {s \in Sinks : m \in Showing(s)}}
        \cup {<<"shown", s>> : s \in {s \in Sinks : m \in Range(shown[s])}}
        \cup {<<"lost", m.from>> : x \in {m} \cap lost}

\* No message is duplicated on its way, though two forwarders compete for it,
\* and none vanishes except where the code gives up on a full queue or skips
\* an empty text: each is in one place, and all that were sent are somewhere.
OnePlace ==
    LET all == InFlight \cup Settled
    IN  /\ \A m \in all : Cardinality(Holders(m)) = 1
        /\ Cardinality(all) = sent["tcp"] + sent["led"] + sent["oled"]

\* A sink that waits for its next message still shows the last one: the pins
\* are exactly its colour (none for other data), the screen is its text.
AtRest ==
    LET last(s) == IF shown[s] = <<>> THEN NoMsg ELSE shown[s][Len(shown[s])]
    IN  /\ sink_at["led"] = "recv" =>
              \A c \in Pins : pins[c] = (last("led") # NoMsg /\ last("led").data = c)
        /\ sink_at["oled"] = "recv" => screen = last("oled")

\* The queues, forwarders and sinks together are a relay that may lose but
\* never repeats, reorders or delivers to both sinks.
Relay == INSTANCE LossyRelay

RelaySpec == Relay!Spec

\* Nothing stays on the way: every message sent is shown or given up.
Drains ==
    \A p \in Producers : \A i \in 1..Bound(p) :
        (sent[p] >= i) ~> (\E m \in Settled : m.from = p /\ m.id = i)
=============================================================================
