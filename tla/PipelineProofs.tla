--------------------------- MODULE PipelineProofs ---------------------------
(***************************************************************************)
(* Proofs about module Pipeline, for any capacity of the queues, any       *)
(* number of messages and any data.                                        *)
(***************************************************************************)
EXTENDS Pipeline, FiniteSetTheorems, TLAPS

-----------------------------------------------------------------------------
(* Queues.                                                                  *)

LEMMA AppendToQueue ==
    ASSUME NEW S, NEW q \in Seq(S), NEW m \in S
    PROVE  /\ Append(q, m) \in Seq(S)
           /\ Len(Append(q, m)) = Len(q) + 1
           /\ Range(Append(q, m)) = Range(q) \cup {m}
           /\ Append(q, m)[Len(Append(q, m))] = m
           /\ Append(q, m) # <<>>
<1>1. /\ Append(q, m) \in Seq(S)
      /\ Len(Append(q, m)) = Len(q) + 1
      /\ Append(q, m)[Len(q) + 1] = m
      /\ \A i \in 1..Len(q) : Append(q, m)[i] = q[i]
  OBVIOUS
<1>2. /\ DOMAIN q = 1..Len(q) /\ DOMAIN Append(q, m) = 1..(Len(q) + 1)
      /\ Len(q) \in Nat
  OBVIOUS
<1>3. Range(Append(q, m)) = Range(q) \cup {m}
  <2>1. 1..(Len(q) + 1) = 1..Len(q) \cup {Len(q) + 1}
    BY <1>2
  <2> QED
    BY <1>1, <1>2, <2>1 DEF Range
<1>4. Append(q, m) # <<>>
  <2>1. Len(<<>>) = 0
    OBVIOUS
  <2>2. Len(q) + 1 # 0
    BY <1>2
  <2> QED
    BY <1>1, <2>1, <2>2, Zenon
<1> QED
  BY <1>1, <1>3, <1>4

LEMMA TakeFromQueue ==
    ASSUME NEW S, NEW q \in Seq(S), q # <<>>
    PROVE  /\ Head(q) \in S /\ Head(q) \in Range(q)
           /\ Tail(q) \in Seq(S)
           /\ Len(Tail(q)) = Len(q) - 1
           /\ Range(q) = Range(Tail(q)) \cup {Head(q)}
<1>1. /\ Len(q) \in Nat \ {0} /\ DOMAIN q = 1..Len(q) /\ Head(q) = q[1] /\ Head(q) \in S
      /\ Tail(q) \in Seq(S) /\ Len(Tail(q)) = Len(q) - 1 /\ DOMAIN Tail(q) = 1..(Len(q) - 1)
      /\ \A i \in 1..(Len(q) - 1) : Tail(q)[i] = q[i + 1]
  OBVIOUS
<1>2. Range(q) \subseteq Range(Tail(q)) \cup {Head(q)}
  <2>1. ASSUME NEW i \in 1..Len(q) PROVE q[i] \in Range(Tail(q)) \cup {q[1]}
    <3>1. CASE i # 1
      <4>1. i - 1 \in 1..(Len(q) - 1) /\ (i - 1) + 1 = i
        BY <1>1, <3>1
      <4>2. Tail(q)[i - 1] = q[i]
        BY <1>1, <4>1
      <4> QED
        BY <1>1, <4>1, <4>2 DEF Range
    <3> QED
      BY <3>1
  <2> QED
    BY <1>1, <2>1 DEF Range
<1>3. Range(Tail(q)) \cup {Head(q)} \subseteq Range(q)
  BY <1>1 DEF Range
<1> QED
  BY <1>1, <1>2, <1>3

\* What a task does with a queue, in terms of the queue's type.
QueuesOK ==
    /\ queue \in [Producers -> Seq(Message)]
    /\ \A q \in Producers : Len(queue[q]) <= QueueLen

LEMMA SendTypes ==
    ASSUME QueuesOK, lost \subseteq Message, QueueLen \in Nat \ {0},
           NEW q \in Producers, NEW m \in Message, XQueueSend(q, m)
    PROVE  QueuesOK' /\ (lost \subseteq Message)'
<1>1. CASE Len(queue[q]) < QueueLen
  <2>1. /\ queue' = [queue EXCEPT ![q] = Append(queue[q], m)]
        /\ lost' = lost
    BY <1>1 DEF XQueueSend
  <2>2. Append(queue[q], m) \in Seq(Message) /\ Len(Append(queue[q], m)) = Len(queue[q]) + 1
    BY AppendToQueue DEF QueuesOK
  <2> QED
    BY <1>1, <2>1, <2>2 DEF QueuesOK
<1>2. CASE ~(Len(queue[q]) < QueueLen)
  BY <1>2 DEF XQueueSend, QueuesOK
<1> QED
  BY <1>1, <1>2

LEMMA ReceiveTypes ==
    ASSUME QueuesOK, QueueLen \in Nat \ {0},
           NEW q \in Producers, NEW m, XQueueReceive(q, m)
    PROVE  QueuesOK' /\ m \in Message /\ m \in Range(queue[q])
<1>1. /\ Head(queue[q]) \in Message /\ Head(queue[q]) \in Range(queue[q])
      /\ Tail(queue[q]) \in Seq(Message) /\ Len(Tail(queue[q])) = Len(queue[q]) - 1
  BY TakeFromQueue DEF XQueueReceive, QueuesOK
<1>2. Len(queue[q]) \in Nat
  BY DEF QueuesOK
<1> QED
  BY <1>1, <1>2 DEF XQueueReceive, QueuesOK

-----------------------------------------------------------------------------
(* Types.  A task that is past its receive holds a message.                 *)

Holding ==
    /\ \A s \in Sinks : IF fwd_at[s] = "send" THEN fwd_msg[s] \in Message ELSE fwd_msg[s] = NoMsg
    /\ \A s \in Sinks : sink_at[s] # "recv" => sink_msg[s] \in Message

Types == TypeOK /\ Holding

LEMMA TypesInit == Init => Types
BY PipelineAssumption DEF Init, Types, TypeOK, Holding, Producers, Sinks, Pins

LEMMA NumberedMessage ==
    ASSUME TypeOK, NEW p \in Producers, NEW d \in Data \cup Pins \cup {"text"}
    PROVE  Numbered(p, d) \in Message
BY DEF TypeOK, Numbered, Message

LEMMA CountedTypes ==
    ASSUME TypeOK, NEW p \in Producers, Counted(p)
    PROVE  /\ (sent \in [Producers -> Nat])'
           /\ sent'[p] = sent[p] + 1
           /\ \A q \in Producers : sent[q] <= sent'[q]
BY DEF TypeOK, Counted

LEMMA ProduceTypes ==
    ASSUME Types, Produce
    PROVE  Types'
<1> USE PipelineAssumption
<1>1. ASSUME NEW p \in Producers, NEW d \in Data \cup Pins \cup {"text"},
             Counted(p), XQueueSend(p, Numbered(p, d)), UNCHANGED <<fwd_vars, out_vars>>
      PROVE  Types'
  <2>1. QueuesOK' /\ (lost \subseteq Message)'
    BY <1>1, NumberedMessage, SendTypes DEF Types, TypeOK, QueuesOK
  <2>2. (sent \in [Producers -> Nat])'
    BY <1>1, CountedTypes DEF Types
  <2> QED
    BY <1>1, <2>1, <2>2 DEF Types, TypeOK, Holding, QueuesOK, fwd_vars, out_vars
<1>2. ASSUME NEW d \in Data, RecvData(d) PROVE Types'
  BY <1>1, <1>2 DEF RecvData, Producers
<1>3. CASE LedQueueSend
  <2>1. LampColour(sent["led"]) \in Pins
    BY DEF LampColour, Pins
  <2> QED
    BY <1>1, <1>3, <2>1 DEF LedQueueSend, Producers
<1>4. CASE OledQueueSend
  BY <1>1, <1>4 DEF OledQueueSend, Producers
<1> QED
  BY <1>2, <1>3, <1>4 DEF Produce

LEMMA ForwardTypes ==
    ASSUME Types, NEW s \in Sinks, Forward(s)
    PROVE  Types'
<1> USE PipelineAssumption
<1>a. QueuesOK /\ "tcp" \in Producers /\ s \in Producers
  BY DEF Types, TypeOK, QueuesOK, Producers, Sinks
<1>1. CASE ForwarderReceive(s)
  <2>1. PICK m : XQueueReceive("tcp", m) /\ fwd_msg' = [fwd_msg EXCEPT ![s] = m]
    BY <1>1 DEF ForwarderReceive
  <2>2. QueuesOK' /\ m \in Message
    BY <1>a, <2>1, ReceiveTypes
  <2>3. /\ fwd_at' = [fwd_at EXCEPT ![s] = "send"]
        /\ UNCHANGED <<sent, out_vars, lost>>
    BY <1>1 DEF ForwarderReceive
  <2>4. TypeOK'
    BY <2>1, <2>2, <2>3 DEF Types, TypeOK, QueuesOK, out_vars
  <2>5. Holding'
    BY <2>1, <2>2, <2>3 DEF Types, TypeOK, Holding, out_vars
  <2> QED
    BY <2>4, <2>5 DEF Types
<1>2. CASE ForwarderSend(s)
  <2>1. fwd_msg[s] \in Message
    BY <1>2 DEF ForwarderSend, Types, Holding
  <2>2. QueuesOK' /\ (lost \subseteq Message)'
    BY <1>2, <1>a, <2>1, SendTypes DEF ForwarderSend, Types, TypeOK
  <2>3. /\ fwd_msg' = [fwd_msg EXCEPT ![s] = NoMsg]
        /\ \E w \in {"delay", "recv"} : fwd_at' = [fwd_at EXCEPT ![s] = w]
        /\ UNCHANGED <<sent, out_vars>>
    BY <1>2 DEF ForwarderSend
  <2>4. TypeOK'
    BY <2>2, <2>3 DEF Types, TypeOK, QueuesOK, out_vars
  <2>5. Holding'
    BY <2>2, <2>3 DEF Types, TypeOK, Holding, out_vars
  <2> QED
    BY <2>4, <2>5 DEF Types
<1> QED
  BY <1>1, <1>2 DEF Forward

LEMMA SinkTypes ==
    ASSUME Types, LedReceive \/ (\E c \in Pins : SetLevel(c)) \/ OledReceive \/ OledClear \/ OledDraw
    PROVE  Types'
<1> USE PipelineAssumption
<1>a. QueuesOK /\ "led" \in Producers /\ "oled" \in Producers /\ "led" \in Sinks /\ "oled" \in Sinks
  BY DEF Types, TypeOK, QueuesOK, Producers, Sinks
<1>1. CASE LedReceive
  <2>1. PICK m : XQueueReceive("led", m) /\ sink_msg' = [sink_msg EXCEPT !["led"] = m]
    BY <1>1 DEF LedReceive
  <2>2. QueuesOK' /\ m \in Message
    BY <1>a, <2>1, ReceiveTypes
  <2>3. /\ sink_at' = [sink_at EXCEPT !["led"] = "r"]
        /\ UNCHANGED <<sent, fwd_vars, pins, screen, shown, lost>>
    BY <1>1 DEF LedReceive
  <2> QED
    BY <1>a, <2>1, <2>2, <2>3 DEF Types, TypeOK, Holding, QueuesOK, fwd_vars
<1>2. ASSUME NEW c \in Pins, SetLevel(c) PROVE Types'
  <2>1. sink_msg["led"] \in Message
    BY <1>2, <1>a DEF SetLevel, Types, Holding, Pins
  <2>2. pins' = [pins EXCEPT ![c] = (sink_msg["led"].data = c)]
    BY <1>2 DEF SetLevel
  <2>3. (sink_msg["led"].data = c) \in BOOLEAN
    OBVIOUS
  <2>4. pins' \in [Pins -> BOOLEAN]
    BY <2>2, <2>3, Zenon DEF Types, TypeOK
  <2>5. shown["led"] \in Seq(Message)
    BY <1>a DEF Types, TypeOK
  <2>6. Append(shown["led"], sink_msg["led"]) \in Seq(Message)
    BY <2>1, <2>5, AppendToQueue
  <2>7. shown' \in [Sinks -> Seq(Message)]
    BY <1>2, <1>a, <2>6 DEF SetLevel, Types, TypeOK
  <2>8. AfterPin(c) \in {"g", "b", "recv"}
    BY DEF AfterPin, Pins
  <2>9. sink_at' \in [Sinks -> {"recv", "r", "g", "b", "clear", "draw"}]
    BY <1>2, <2>8 DEF SetLevel, Types, TypeOK
  <2>10. UNCHANGED <<sent, queue, fwd_vars, sink_msg, screen, lost>>
    BY <1>2 DEF SetLevel
  <2>11. TypeOK'
    BY <2>4, <2>7, <2>9, <2>10 DEF Types, TypeOK, fwd_vars
  <2>12. \A s \in Sinks : sink_at'[s] # "recv" => sink_at[s] # "recv"
    BY <1>2, <1>a DEF SetLevel, Types, TypeOK, Pins
  <2> QED
    BY <2>10, <2>11, <2>12 DEF Types, Holding, fwd_vars
<1>3. CASE OledReceive
  <2>1. PICK m :
          /\ XQueueReceive("oled", m)
          /\ sink_msg' = [sink_msg EXCEPT !["oled"] = m]
          /\ sink_at' = [sink_at EXCEPT !["oled"] = IF m.data = "" THEN "recv" ELSE "clear"]
          /\ lost' = IF m.data = "" THEN lost \cup {m} ELSE lost
    BY <1>3 DEF OledReceive
  <2>2. QueuesOK' /\ m \in Message
    BY <1>a, <2>1, ReceiveTypes
  <2>3. UNCHANGED <<sent, fwd_vars, pins, screen, shown>>
    BY <1>3 DEF OledReceive
  <2> QED
    BY <1>a, <2>1, <2>2, <2>3 DEF Types, TypeOK, Holding, QueuesOK, fwd_vars
<1>4. CASE OledClear
  BY <1>4, <1>a DEF OledClear, Types, TypeOK, Holding, fwd_vars
<1>5. CASE OledDraw
  <2>1. sink_msg["oled"] \in Message
    BY <1>5, <1>a DEF OledDraw, Types, Holding
  <2>2. Append(shown["oled"], sink_msg["oled"]) \in Seq(Message)
    BY <1>a, <2>1, AppendToQueue DEF Types, TypeOK
  <2> QED
    BY <1>5, <1>a, <2>1, <2>2 DEF OledDraw, Types, TypeOK, Holding, fwd_vars
<1> QED
  BY <1>1, <1>2, <1>3, <1>4, <1>5

LEMMA LedForwarderTypes ==
    ASSUME Types, LedForwarderTimeout \/ LedForwarderWakes
    PROVE  Types'
BY DEF LedForwarderTimeout, LedForwarderWakes, Types, TypeOK, Holding, out_vars, Sinks

LEMMA TypesNext == Types /\ [Next]_vars => Types'
<1> SUFFICES ASSUME Types, [Next]_vars PROVE Types'
  OBVIOUS
<1>1. CASE UNCHANGED vars
  BY <1>1 DEF vars, fwd_vars, out_vars, Types, TypeOK, Holding
<1>2. CASE Next
  BY <1>2, ProduceTypes, ForwardTypes, SinkTypes, LedForwarderTypes DEF Next
<1> QED
  BY <1>1, <1>2

\* Types: every queue stays within its capacity, and whatever is in a queue,
\* in a buffer in use or on a display is a message.
THEOREM TypeCorrect == Spec => []TypeOK
<1>1. Types => TypeOK
  BY DEF Types
<1> QED
  BY <1>1, TypesInit, TypesNext, PTL DEF Spec

-----------------------------------------------------------------------------
(* The outputs.                                                             *)

Last(s) == IF shown[s] = <<>> THEN NoMsg ELSE shown[s][Len(shown[s])]

\* The pins the lamp's task has written for the message it holds.
Written == CASE sink_at["led"] = "g" -> {"r"} [] sink_at["led"] = "b" -> {"r", "g"} [] OTHER -> {}

PinsOK ==
    /\ sink_at["led"] \in {"recv", "r", "g", "b"}
    /\ sink_at["led"] = "recv" =>
          \A c \in Pins : pins[c] = (Last("led") # NoMsg /\ Last("led").data = c)
    /\ \A c \in Written : pins[c] = (sink_msg["led"].data = c)

ScreenOK ==
    /\ sink_at["oled"] \in {"recv", "clear", "draw"}
    /\ sink_at["oled"] = "recv" => screen = Last("oled")

LEMMA OutputsInit == Init => PinsOK /\ ScreenOK
<1> SUFFICES ASSUME Init PROVE PinsOK /\ ScreenOK
  OBVIOUS
<1>1. Last("led") = NoMsg /\ Last("oled") = NoMsg
  BY DEF Init, Last, Sinks
<1> QED
  BY <1>1 DEF Init, PinsOK, ScreenOK, Written, Sinks, Pins

LEMMA SinkFrame ==
    ASSUME Types, PinsOK, ScreenOK, NEW s \in Sinks,
           sink_at'[s] = sink_at[s], sink_msg'[s] = sink_msg[s], shown'[s] = shown[s],
           pins' = pins, screen' = screen
    PROVE  /\ s = "led" => PinsOK'
           /\ s = "oled" => ScreenOK'
BY DEF PinsOK, ScreenOK, Last, Written

LEMMA OutputsNext ==
    ASSUME Types, PinsOK, ScreenOK, [Next]_vars
    PROVE  PinsOK' /\ ScreenOK'
<1>a. "led" \in Sinks /\ "oled" \in Sinks /\ "r" \in Pins /\ "g" \in Pins /\ "b" \in Pins
  BY DEF Sinks, Pins
<1>1. CASE UNCHANGED out_vars
  BY <1>1, <1>a, SinkFrame DEF out_vars
<1>2. CASE LedReceive
  <2>1. PICK m : sink_msg' = [sink_msg EXCEPT !["led"] = m]
    BY <1>2 DEF LedReceive
  <2>2. sink_at' = [sink_at EXCEPT !["led"] = "r"] /\ UNCHANGED <<pins, screen, shown>>
    BY <1>2 DEF LedReceive
  <2>3. sink_at'["led"] = "r" /\ sink_at'["oled"] = sink_at["oled"]
    BY <1>a, <2>2 DEF Types, TypeOK
  <2>4. ScreenOK'
    BY <1>a, <2>1, <2>2, <2>3, SinkFrame DEF Types, TypeOK
  <2>5. Written' = {}
    BY <2>3 DEF Written
  <2>6. PinsOK'
    BY <2>3, <2>5 DEF PinsOK
  <2> QED
    BY <2>4, <2>6
<1>3. ASSUME NEW c \in Pins, SetLevel(c) PROVE PinsOK' /\ ScreenOK'
  <2> DEFINE m == sink_msg["led"]
  <2>1. /\ sink_at["led"] = c /\ sink_at' = [sink_at EXCEPT !["led"] = AfterPin(c)]
        /\ pins' = [pins EXCEPT ![c] = (m.data = c)]
        /\ UNCHANGED <<sink_msg, screen>>
    BY <1>3 DEF SetLevel
  <2>2. sink_at'["led"] = AfterPin(c) /\ sink_at'["oled"] = sink_at["oled"]
    BY <1>a, <2>1 DEF Types, TypeOK
  <2>3. m \in Message
    BY <1>a, <2>1 DEF Types, Holding, Pins
  <2>4. pins'[c] = (m.data = c) /\ \A d \in Pins \ {c} : pins'[d] = pins[d]
    BY <2>1 DEF Types, TypeOK
  <2>5. shown'["oled"] = shown["oled"]
    BY <1>3, <1>a DEF SetLevel, Types, TypeOK
  <2>6. ScreenOK'
    <3>1. sink_at'["oled"] \in {"recv", "clear", "draw"}
      BY <2>2 DEF ScreenOK
    <3>2. Last("oled")' = Last("oled")
      BY <2>5 DEF Last
    <3> QED
      BY <2>1, <2>2, <3>1, <3>2 DEF ScreenOK
  <2>7. CASE c = "r"
    <3>1. sink_at'["led"] = "g"
      BY <2>2, <2>7 DEF AfterPin
    <3>2. Written' = {"r"}
      BY <3>1 DEF Written
    <3> QED
      BY <2>1, <2>4, <2>6, <2>7, <3>1, <3>2 DEF PinsOK
  <2>8. CASE c = "g"
    <3>1. sink_at'["led"] = "b"
      BY <2>2, <2>8 DEF AfterPin
    <3>2. Written' = {"r", "g"} /\ Written = {"r"}
      BY <2>1, <2>8, <3>1 DEF Written
    <3>3. pins'["r"] = (m.data = "r")
      BY <1>a, <2>4, <2>8, <3>2 DEF PinsOK
    <3> QED
      BY <2>1, <2>4, <2>6, <2>8, <3>1, <3>2, <3>3 DEF PinsOK
  <2>9. CASE c = "b"
    <3>1. sink_at'["led"] = "recv"
      BY <2>2, <2>9 DEF AfterPin
    <3>2. Written' = {} /\ Written = {"r", "g"}
      BY <2>1, <2>9, <3>1 DEF Written
    <3>3. shown'["led"] = Append(shown["led"], m)
      BY <1>3, <1>a, <2>9 DEF SetLevel, Types, TypeOK
    <3>4. Last("led")' = m
      <4>1. shown["led"] \in Seq(Message)
        BY <1>a DEF Types, TypeOK
      <4>2. shown'["led"] # <<>> /\ shown'["led"][Len(shown'["led"])] = m
        <5> DEFINE q == Append(shown["led"], m)
        <5>1. q # <<>> /\ q[Len(q)] = m
          BY <2>3, <4>1, AppendToQueue
        <5>2. shown'["led"] = q
          BY <3>3
        <5> HIDE DEF q
        <5> QED
          BY <5>1, <5>2
      <4> QED
        BY <4>2, Zenon DEF Last
    <3>5. m # NoMsg
      BY <2>3, PipelineAssumption
    <3>6. \A d \in Pins : pins'[d] = (m.data = d)
      BY <1>a, <2>4, <2>9, <3>2 DEF PinsOK, Pins
    <3> QED
      BY <2>6, <3>1, <3>2, <3>4, <3>5, <3>6 DEF PinsOK
  <2> QED
    BY <2>7, <2>8, <2>9 DEF Pins
<1>4. CASE OledReceive
  <2>1. PICK m :
          /\ sink_msg' = [sink_msg EXCEPT !["oled"] = m]
          /\ sink_at' = [sink_at EXCEPT !["oled"] = IF m.data = "" THEN "recv" ELSE "clear"]
    BY <1>4 DEF OledReceive
  <2>2. sink_at["oled"] = "recv" /\ UNCHANGED <<pins, screen, shown>>
    BY <1>4 DEF OledReceive
  <2>3. sink_at'["oled"] \in {"recv", "clear"} /\ sink_at'["led"] = sink_at["led"]
    BY <1>a, <2>1 DEF Types, TypeOK
  <2>4. PinsOK'
    BY <1>a, <2>1, <2>2, <2>3, SinkFrame DEF Types, TypeOK
  <2>5. ScreenOK'
    BY <2>2, <2>3 DEF ScreenOK, Last
  <2> QED
    BY <2>4, <2>5
<1>5. CASE OledClear
  <2>1. /\ sink_at'["oled"] = "draw" /\ sink_at'["led"] = sink_at["led"]
        /\ UNCHANGED <<sink_msg, pins, shown>>
    BY <1>5, <1>a DEF OledClear, Types, TypeOK
  <2>2. PinsOK'
    BY <2>1 DEF PinsOK, Written, Last
  <2> QED
    BY <2>1, <2>2 DEF ScreenOK
<1>6. CASE OledDraw
  <2> DEFINE m == sink_msg["oled"]
  <2>1. /\ sink_at'["oled"] = "recv" /\ sink_at'["led"] = sink_at["led"]
        /\ screen' = m /\ UNCHANGED <<sink_msg, pins>>
    BY <1>6, <1>a DEF OledDraw, Types, TypeOK
  <2>2. m \in Message
    BY <1>6, <1>a DEF OledDraw, Types, Holding
  <2>3. shown'["oled"] = Append(shown["oled"], m) /\ shown'["led"] = shown["led"]
    BY <1>6, <1>a DEF OledDraw, Types, TypeOK
  <2>4. Last("oled")' = m
    <3>1. shown["oled"] \in Seq(Message)
      BY <1>a DEF Types, TypeOK
    <3>2. shown'["oled"] # <<>> /\ shown'["oled"][Len(shown'["oled"])] = m
      <4> DEFINE q == Append(shown["oled"], m)
      <4>1. q # <<>> /\ q[Len(q)] = m
        BY <2>2, <3>1, AppendToQueue
      <4>2. shown'["oled"] = q
        BY <2>3
      <4> HIDE DEF q
      <4> QED
        BY <4>1, <4>2
    <3> QED
      BY <3>2, Zenon DEF Last
  <2>5. PinsOK'
    BY <2>1, <2>3 DEF PinsOK, Written, Last
  <2> QED
    BY <2>1, <2>4, <2>5 DEF ScreenOK
<1>7. Next => UNCHANGED out_vars \/ LedReceive \/ (\E c \in Pins : SetLevel(c))
                \/ OledReceive \/ OledClear \/ OledDraw
  BY DEF Next, Produce, RecvData, LedQueueSend, OledQueueSend, Forward, ForwarderReceive,
         ForwarderSend, LedForwarderTimeout, LedForwarderWakes
<1> QED
  BY <1>1, <1>2, <1>3, <1>4, <1>5, <1>6, <1>7 DEF vars

\* A sink that waits for a message shows the last one: the lamp its colour
\* and nothing else, although its three pins are written one after another.
THEOREM AtRestCorrect == Spec => []AtRest
<1>1. Init => Types /\ PinsOK /\ ScreenOK
  BY TypesInit, OutputsInit
<1>2. Types /\ PinsOK /\ ScreenOK /\ [Next]_vars => (Types /\ PinsOK /\ ScreenOK)'
  BY TypesNext, OutputsNext
<1>3. PinsOK /\ ScreenOK => AtRest
  BY DEF PinsOK, ScreenOK, AtRest, Last
<1> QED
  BY <1>1, <1>2, <1>3, PTL DEF Spec

-----------------------------------------------------------------------------
(* The order of messages on their way.  For a sink s they pass, newest      *)
(* first, the queue of the connection, the forwarder, the sink's queue and  *)
(* its task; of one producer, each of them holds only newer messages than   *)
(* the next.                                                                *)

Before(A, B) == \A a \in A, b \in B : a.from = b.from => a.id < b.id

Apart(A, B) == \A a \in A, b \in B : a.from = b.from => a.id # b.id

InOrder(q) == \A i, j \in 1..Len(q) : i < j /\ q[i].from = q[j].from => q[i].id < q[j].id

Waiting   == Range(queue["tcp"])
Held(s)   == {fwd_msg[s]} \ {NoMsg}
Queued(s) == Range(queue[s])
Past(s)   == Range(shown[s])

Line(s) == Past(s) \cup Showing(s) \cup Queued(s) \cup Held(s)

Ordered(s) ==
    /\ Before(Past(s), Showing(s) \cup Queued(s) \cup Held(s) \cup Waiting)
    /\ Before(Showing(s), Queued(s) \cup Held(s) \cup Waiting)
    /\ Before(Queued(s), Held(s) \cup Waiting)
    /\ Before(Held(s), Waiting)

Sorted == \A q \in Producers : InOrder(queue[q])

FromTcp == \A m \in Waiting \cup Held("led") \cup Held("oled") : m.from = "tcp"

Known == \A m \in Waiting \cup Line("led") \cup Line("oled") : m \in Message /\ m.id <= sent[m.from]

OrderInv ==
    /\ Sorted /\ FromTcp /\ Known
    /\ Ordered("led") /\ Ordered("oled")
    /\ Apart(Line("led"), Line("oled"))

LEMMA RangeFacts ==
    ASSUME NEW S, NEW q \in Seq(S)
    PROVE  /\ \A i \in 1..Len(q) : q[i] \in Range(q)
           /\ \A m \in Range(q) : \E i \in 1..Len(q) : m = q[i]
BY DEF Range

LEMMA AppendInOrder ==
    ASSUME NEW q \in Seq(Message), NEW m \in Message, InOrder(q), Before(Range(q), {m})
    PROVE  InOrder(Append(q, m))
<1>1. /\ Len(Append(q, m)) = Len(q) + 1 /\ Len(q) \in Nat
      /\ Append(q, m)[Len(q) + 1] = m
      /\ \A i \in 1..Len(q) : Append(q, m)[i] = q[i]
  OBVIOUS
<1> SUFFICES ASSUME NEW i \in 1..(Len(q) + 1), NEW j \in 1..(Len(q) + 1), i < j,
                    Append(q, m)[i].from = Append(q, m)[j].from
             PROVE  Append(q, m)[i].id < Append(q, m)[j].id
  BY <1>1 DEF InOrder
<1>2. i \in 1..Len(q) /\ Append(q, m)[i] = q[i]
  BY <1>1
<1>3. CASE j \in 1..Len(q)
  BY <1>1, <1>2, <1>3 DEF InOrder
<1>4. CASE j = Len(q) + 1
  <2>1. q[i] \in Range(q)
    BY <1>2, RangeFacts
  <2> QED
    BY <1>1, <1>2, <1>4, <2>1 DEF Before
<1> QED
  BY <1>1, <1>3, <1>4

LEMMA TailInOrder ==
    ASSUME NEW q \in Seq(Message), q # <<>>, InOrder(q)
    PROVE  InOrder(Tail(q)) /\ Before({Head(q)}, Range(Tail(q)))
<1>1. /\ Tail(q) \in Seq(Message) /\ Len(Tail(q)) = Len(q) - 1 /\ Len(q) \in Nat \ {0}
      /\ Head(q) = q[1]
      /\ \A i \in 1..(Len(q) - 1) : Tail(q)[i] = q[i + 1]
  OBVIOUS
<1>2. InOrder(Tail(q))
  BY <1>1 DEF InOrder
<1>3. ASSUME NEW m \in Range(Tail(q)), Head(q).from = m.from
      PROVE  Head(q).id < m.id
  <2>0. \E i \in 1..Len(Tail(q)) : m = Tail(q)[i]
    BY <1>1, RangeFacts
  <2>1. PICK i \in 1..(Len(q) - 1) : m = q[i + 1]
    BY <1>1, <2>0
  <2>2. 1 \in 1..Len(q) /\ i + 1 \in 1..Len(q) /\ 1 < i + 1
    BY <1>1
  <2> QED
    BY <1>1, <1>3, <2>1, <2>2 DEF InOrder
<1> QED
  BY <1>2, <1>3 DEF Before

\* What a send and a receive do to the order within the queues.
LEMMA SendOrder ==
    ASSUME QueuesOK, Sorted, NEW q \in Producers, NEW m \in Message,
           XQueueSend(q, m), Before(Range(queue[q]), {m})
    PROVE  /\ Sorted'
           /\ \/ queue' = queue
              \/ Range(queue'[q]) = Range(queue[q]) \cup {m}
           /\ \A p \in Producers \ {q} : queue'[p] = queue[p]
<1>1. CASE Len(queue[q]) < QueueLen
  <2>1. queue' = [queue EXCEPT ![q] = Append(queue[q], m)]
    BY <1>1 DEF XQueueSend
  <2>2. queue[q] \in Seq(Message)
    BY DEF QueuesOK
  <2>3. InOrder(Append(queue[q], m))
    BY <2>2, AppendInOrder DEF Sorted
  <2>4. Range(Append(queue[q], m)) = Range(queue[q]) \cup {m}
    BY <2>2, AppendToQueue
  <2>5. queue'[q] = Append(queue[q], m) /\ \A p \in Producers \ {q} : queue'[p] = queue[p]
    BY <2>1 DEF QueuesOK
  <2> QED
    BY <2>3, <2>4, <2>5 DEF Sorted
<1>2. CASE ~(Len(queue[q]) < QueueLen)
  BY <1>2 DEF XQueueSend, Sorted
<1> QED
  BY <1>1, <1>2

LEMMA ReceiveOrder ==
    ASSUME QueuesOK, Sorted, NEW q \in Producers, NEW m, XQueueReceive(q, m)
    PROVE  /\ Sorted'
           /\ m \in Range(queue[q])
           /\ Range(queue[q]) = Range(queue'[q]) \cup {m}
           /\ Before({m}, Range(queue'[q]))
           /\ \A p \in Producers \ {q} : queue'[p] = queue[p]
<1>1. queue[q] \in Seq(Message) /\ queue[q] # <<>> /\ m = Head(queue[q])
  BY DEF QueuesOK, XQueueReceive
<1>2. queue'[q] = Tail(queue[q]) /\ \A p \in Producers \ {q} : queue'[p] = queue[p]
  BY DEF QueuesOK, XQueueReceive
<1>3. InOrder(Tail(queue[q])) /\ Before({Head(queue[q])}, Range(Tail(queue[q])))
  BY <1>1, TailInOrder DEF Sorted
<1>4. /\ Head(queue[q]) \in Range(queue[q])
      /\ Range(queue[q]) = Range(Tail(queue[q])) \cup {Head(queue[q])}
  BY <1>1, TakeFromQueue
<1> QED
  BY <1>1, <1>2, <1>3, <1>4 DEF Sorted

LEMMA OrderInit == Init => OrderInv
<1> SUFFICES ASSUME Init PROVE OrderInv
  OBVIOUS
<1>1. Range(<<>>) = {}
  BY DEF Range
<1>2. /\ Waiting = {} /\ \A q \in Producers : queue[q] = <<>> /\ Len(queue[q]) = 0
  BY <1>1 DEF Init, Waiting, Producers
<1>3. \A s \in Sinks : Held(s) = {} /\ Queued(s) = {} /\ Past(s) = {} /\ Showing(s) = {}
  BY <1>1 DEF Init, Held, Queued, Past, Showing, Producers, Sinks
<1>4. Sorted
  BY <1>2 DEF Sorted, InOrder
<1> QED
  BY <1>2, <1>3, <1>4 DEF OrderInv, FromTcp, Known, Ordered, Before, Apart, Line, Sinks

\* The places of one sink do not depend on what happens to the other.
LEMMA SameLine ==
    ASSUME NEW s \in Sinks, queue'[s] = queue[s], fwd_msg'[s] = fwd_msg[s],
           sink_at'[s] = sink_at[s], sink_msg'[s] = sink_msg[s], shown'[s] = shown[s]
    PROVE  /\ Past(s)' = Past(s) /\ Showing(s)' = Showing(s)
           /\ Queued(s)' = Queued(s) /\ Held(s)' = Held(s)
BY DEF Past, Showing, Queued, Held

\* A new message enters behind all that its producer has sent.
LEMMA ProduceOrder ==
    ASSUME Types, OrderInv, NEW p \in Producers, NEW d \in Data \cup Pins \cup {"text"},
           Counted(p), XQueueSend(p, Numbered(p, d)), UNCHANGED <<fwd_vars, out_vars>>
    PROVE  OrderInv'
<1> DEFINE m == Numbered(p, d)
<1>a. TypeOK /\ QueuesOK
  BY DEF Types, TypeOK, QueuesOK
<1>1. m \in Message /\ m.from = p /\ m.id = sent[p] + 1
  BY <1>a, NumberedMessage DEF Numbered
<1>2. /\ sent'[p] = sent[p] + 1
      /\ \A q \in Producers : sent[q] <= sent'[q] /\ sent[q] \in Nat /\ sent'[q] \in Nat
  BY <1>a, CountedTypes DEF TypeOK
<1>3. \A n \in Message : n.id \in Nat /\ n.from \in Producers
  BY DEF Message
<1> HIDE DEF m
<1>4. Before(Waiting \cup Line("led") \cup Line("oled"), {m})
  BY <1>1, <1>2, <1>3 DEF Before, OrderInv, Known
<1>5. Range(queue[p]) \subseteq Waiting \cup Line("led") \cup Line("oled")
  BY DEF Producers, Waiting, Line, Queued
<1>6. Before(Range(queue[p]), {m})
  BY <1>4, <1>5 DEF Before
<1>7. /\ Sorted'
      /\ queue' = queue \/ Range(queue'[p]) = Range(queue[p]) \cup {m}
      /\ \A q \in Producers \ {p} : queue'[q] = queue[q]
  <2>1. XQueueSend(p, m)
    BY DEF m
  <2>2. Sorted
    BY DEF OrderInv
  <2> QED
    BY <1>a, <1>1, <1>6, <2>1, <2>2, SendOrder
<1>8. \A s \in Sinks : Past(s)' = Past(s) /\ Showing(s)' = Showing(s) /\ Held(s)' = Held(s)
  BY DEF fwd_vars, out_vars, Past, Showing, Held
<1>9. /\ p = "tcp" => Waiting' \subseteq Waiting \cup {m} /\ \A s \in Sinks : Queued(s)' = Queued(s)
      /\ p # "tcp" => Waiting' = Waiting /\ Queued(p)' \subseteq Queued(p) \cup {m}
                        /\ \A s \in Sinks \ {p} : Queued(s)' = Queued(s)
  BY <1>7 DEF Waiting, Queued, Producers, Sinks
<1>10. "led" \in Sinks /\ "oled" \in Sinks /\ \A s \in Sinks : s = "led" \/ s = "oled"
  BY DEF Sinks
<1>11. Waiting' \cup Line("led")' \cup Line("oled")'
          \subseteq Waiting \cup Line("led") \cup Line("oled") \cup {m}
  BY <1>8, <1>9, <1>10 DEF Line, Producers
<1>12. Known'
  <2>1. ASSUME NEW n \in Waiting' \cup Line("led")' \cup Line("oled")'
        PROVE  n \in Message /\ n.id <= sent'[n.from]
    <3>1. CASE n = m
      BY <1>1, <1>2, <3>1
    <3>2. CASE n \in Waiting \cup Line("led") \cup Line("oled")
      <4>1. n \in Message /\ n.id <= sent[n.from]
        BY <3>2 DEF OrderInv, Known
      <4> QED
        BY <1>2, <1>3, <4>1
    <3> QED
      BY <1>11, <2>1, <3>1, <3>2
  <2> QED
    BY <2>1 DEF Known
<1>13. FromTcp'
  BY <1>1, <1>8, <1>9, <1>10 DEF OrderInv, FromTcp
<1>14. CASE p = "tcp"
  <2>1. \A s \in Sinks : Line(s)' = Line(s)
    BY <1>8, <1>9, <1>14 DEF Line
  <2>2. ASSUME NEW s \in Sinks, Ordered(s), Before(Line(s), {m}) PROVE Ordered(s)'
    BY <1>8, <1>9, <1>14, <2>2 DEF Ordered, Before, Line
  <2>3. Ordered("led")' /\ Ordered("oled")'
    BY <1>4, <1>10, <2>2 DEF OrderInv, Before
  <2> QED
    BY <1>7, <1>10, <1>12, <1>13, <2>1, <2>3 DEF OrderInv, Apart
<1>15. CASE p # "tcp"
  <2>1. p \in Sinks
    BY <1>15 DEF Producers, Sinks
  <2>2. PICK t \in Sinks : t # p /\ Sinks = {p, t}
    BY <2>1 DEF Sinks
  <2>3. Line(t)' = Line(t) /\ Line(p)' \subseteq Line(p) \cup {m}
    BY <1>8, <1>9, <1>15, <2>1, <2>2 DEF Line
  <2>4. Before(Line(p), {m}) /\ Before(Line(t), {m})
    BY <1>4, <1>10, <2>1 DEF Before
  <2>5. Before({m}, Held(p) \cup Waiting)
    BY <1>1, <1>10, <1>15, <2>1 DEF OrderInv, FromTcp, Before
  <2>6. Ordered(p)' 
    <3>1. Ordered(p)
      BY <1>10, <2>1 DEF OrderInv
    <3> QED
      BY <1>8, <1>9, <1>15, <2>1, <2>4, <2>5, <3>1 DEF Ordered, Before, Line
  <2>7. Ordered(t)'
    <3>1. Ordered(t)
      BY <1>10 DEF OrderInv
    <3> QED
      BY <1>8, <1>9, <1>15, <2>2, <3>1 DEF Ordered
  <2>8. Apart(Line(p), Line(t)) /\ Apart({m}, Line(t))
    <3>1. Apart(Line("led"), Line("oled")) /\ Apart(Line("oled"), Line("led"))
      BY DEF OrderInv, Apart
    <3>2. Apart({m}, Line(t))
      <4>1. \A n \in Line(t) : n \in Message
        BY <1>10 DEF OrderInv, Known
      <4> QED
        BY <1>1, <1>2, <1>3, <2>4, <4>1 DEF Apart, Before
    <3> QED
      BY <1>10, <2>1, <2>2, <3>1, <3>2
  <2>9. Apart(Line("led"), Line("oled"))'
    BY <1>10, <2>1, <2>2, <2>3, <2>8 DEF Apart
  <2>10. Ordered("led")' /\ Ordered("oled")'
    BY <1>10, <2>1, <2>2, <2>6, <2>7
  <2> QED
    BY <1>7, <1>12, <1>13, <2>9, <2>10 DEF OrderInv
<1> QED
  BY <1>14, <1>15

\* A step that moves messages along the line of one sink keeps the order if
\* it keeps it on that line, and takes nothing from elsewhere but the
\* connection's queue.
LEMMA MoveOrder ==
    ASSUME OrderInv, NEW s \in Sinks, Sorted', FromTcp', Ordered(s)', UNCHANGED sent,
           Waiting' \subseteq Waiting, Line(s)' \subseteq Line(s) \cup Waiting,
           \A t \in Sinks \ {s} :
              /\ Past(t)' = Past(t) /\ Showing(t)' = Showing(t)
              /\ Queued(t)' = Queued(t) /\ Held(t)' = Held(t)
    PROVE  OrderInv'
<1>1. PICK t \in Sinks : t # s /\ Sinks = {s, t}
  BY DEF Sinks
<1>2. Line(t)' = Line(t)
  BY <1>1 DEF Line
<1>3. "led" \in Sinks /\ "oled" \in Sinks /\ "led" # "oled"
  BY DEF Sinks
<1>4. Ordered(t) /\ Apart(Line(s), Line(t))
  BY <1>1, <1>3 DEF OrderInv, Apart
<1>5. Ordered(t)'
  BY <1>1, <1>4 DEF Ordered, Before
<1>6. Known'
  BY <1>1, <1>2, <1>3 DEF OrderInv, Known
<1>7. ASSUME NEW a \in Waiting, NEW b \in Line(t), a.from = b.from
      PROVE  a.id # b.id
  <2>1. b.id < a.id
    BY <1>4, <1>7 DEF Ordered, Before, Line
  <2>2. a \in Message /\ b \in Message
    BY <1>1, <1>3 DEF OrderInv, Known
  <2> QED
    BY <2>1, <2>2 DEF Message
<1>8. Apart(Line(s), Line(t))'
  BY <1>2, <1>4, <1>7 DEF Apart
<1>9. Apart(Line("led"), Line("oled"))'
  BY <1>1, <1>3, <1>8 DEF Apart
<1> QED
  BY <1>1, <1>3, <1>5, <1>6, <1>9 DEF OrderInv

LEMMA ForwardOrder ==
    ASSUME Types, OrderInv, NEW s \in Sinks, Forward(s)
    PROVE  OrderInv'
<1>a. /\ QueuesOK /\ Sorted /\ Ordered(s)
      /\ "tcp" \in Producers /\ s \in Producers /\ s # "tcp"
      /\ s = "led" \/ s = "oled"
  BY DEF Types, TypeOK, QueuesOK, OrderInv, Producers, Sinks
<1>1. CASE ForwarderReceive(s)
  <2>1. PICK m : XQueueReceive("tcp", m) /\ fwd_msg' = [fwd_msg EXCEPT ![s] = m]
    BY <1>1 DEF ForwarderReceive
  <2>2. UNCHANGED <<sent, out_vars>>
    BY <1>1 DEF ForwarderReceive
  <2>3. /\ Sorted' /\ m \in Waiting /\ Waiting' \subseteq Waiting /\ Before({m}, Waiting')
        /\ \A t \in Sinks : queue'[t] = queue[t]
    BY <1>a, <2>1, ReceiveOrder DEF Waiting, Producers, Sinks
  <2>4. \A t \in Sinks : Past(t)' = Past(t) /\ Showing(t)' = Showing(t) /\ Queued(t)' = Queued(t)
    BY <2>2, <2>3 DEF out_vars, Past, Showing, Queued
  <2>5. Held(s)' \subseteq {m} /\ \A t \in Sinks \ {s} : Held(t)' = Held(t)
    BY <2>1 DEF Types, TypeOK, Held
  <2>6. Ordered(s)'
    BY <1>a, <2>3, <2>4, <2>5 DEF Ordered, Before
  <2>7. FromTcp'
    BY <1>a, <2>3, <2>5 DEF OrderInv, FromTcp, Sinks
  <2>8. Line(s)' \subseteq Line(s) \cup Waiting
    BY <2>3, <2>4, <2>5 DEF Line
  <2> QED
    BY <2>2, <2>3, <2>4, <2>5, <2>6, <2>7, <2>8, MoveOrder
<1>2. CASE ForwarderSend(s)
  <2> DEFINE m == fwd_msg[s]
  <2>1. m \in Message /\ m # NoMsg /\ m \in Held(s)
    BY <1>2, PipelineAssumption DEF ForwarderSend, Types, Holding, Held
  <2>2. XQueueSend(s, m) /\ fwd_msg' = [fwd_msg EXCEPT ![s] = NoMsg] /\ UNCHANGED <<sent, out_vars>>
    BY <1>2 DEF ForwarderSend
  <2>3. Before(Queued(s), {m}) /\ Before({m}, Waiting)
    BY <1>a, <2>1 DEF Ordered, Before
  <2>4. /\ Sorted' /\ Queued(s)' \subseteq Queued(s) \cup {m}
        /\ \A p \in Producers \ {s} : queue'[p] = queue[p]
    BY <1>a, <2>1, <2>2, <2>3, SendOrder DEF Queued
  <2>5. \A t \in Sinks : Past(t)' = Past(t) /\ Showing(t)' = Showing(t)
    BY <2>2 DEF out_vars, Past, Showing
  <2>6. Held(s)' = {} /\ \A t \in Sinks \ {s} : Held(t)' = Held(t) /\ Queued(t)' = Queued(t)
    BY <2>2, <2>4 DEF Types, TypeOK, Held, Queued, Producers, Sinks
  <2>7. Waiting' = Waiting
    BY <1>a, <2>4 DEF Waiting
  <2> HIDE DEF m
  <2>8. Ordered(s)'
    BY <1>a, <2>1, <2>3, <2>4, <2>5, <2>6, <2>7 DEF Ordered, Before
  <2>9. FromTcp'
    BY <1>a, <2>6, <2>7 DEF OrderInv, FromTcp, Sinks
  <2>10. Line(s)' \subseteq Line(s)
    BY <2>1, <2>4, <2>5, <2>6 DEF Line
  <2> QED
    BY <2>2, <2>4, <2>5, <2>6, <2>7, <2>8, <2>9, <2>10, MoveOrder
<1> QED
  BY <1>1, <1>2 DEF Forward

\* What the sinks' tasks do to their line.
Takes(s, m) ==
    /\ XQueueReceive(s, m)
    /\ sink_at[s] = "recv"
    /\ sink_msg' = [sink_msg EXCEPT ![s] = m]
    /\ \E w \in {"recv", "r", "clear"} :
          /\ sink_at' = [sink_at EXCEPT ![s] = w]
          /\ lost' = IF w = "recv" THEN lost \cup {m} ELSE lost
    /\ UNCHANGED <<sent, fwd_vars, shown>>

Works(s) ==
    /\ sink_at[s] # "recv"
    /\ \E w \in {"g", "b", "draw"} : sink_at' = [sink_at EXCEPT ![s] = w]
    /\ UNCHANGED <<sent, queue, fwd_vars, sink_msg, shown, lost>>

Ends(s) ==
    /\ sink_at[s] # "recv"
    /\ sink_at' = [sink_at EXCEPT ![s] = "recv"]
    /\ shown' = [shown EXCEPT ![s] = Append(@, sink_msg[s])]
    /\ UNCHANGED <<sent, queue, fwd_vars, sink_msg, lost>>

LEMMA SinkSteps ==
    ASSUME LedReceive \/ (\E c \in Pins : SetLevel(c)) \/ OledReceive \/ OledClear \/ OledDraw
    PROVE  \E s \in Sinks : (\E m : Takes(s, m)) \/ Works(s) \/ Ends(s)
<1>a. "led" \in Sinks /\ "oled" \in Sinks
  BY DEF Sinks
<1>1. CASE LedReceive
  BY <1>1, <1>a DEF LedReceive, Takes
<1>2. ASSUME NEW c \in Pins, SetLevel(c) PROVE Works("led") \/ Ends("led")
  <2>1. CASE c = "b"
    BY <1>2, <2>1 DEF SetLevel, AfterPin, Ends
  <2>2. CASE c = "r"
    BY <1>2, <2>2 DEF SetLevel, AfterPin, Works
  <2>3. CASE c = "g"
    BY <1>2, <2>3 DEF SetLevel, AfterPin, Works
  <2> QED
    BY <2>1, <2>2, <2>3 DEF Pins
<1>3. CASE OledReceive
  BY <1>3, <1>a DEF OledReceive, Takes
<1>4. CASE OledClear
  BY <1>4, <1>a DEF OledClear, Works
<1>5. CASE OledDraw
  BY <1>5, <1>a DEF OledDraw, Ends
<1> QED
  BY <1>1, <1>2, <1>3, <1>4, <1>5, <1>a

LEMMA SinkOrder ==
    ASSUME Types, OrderInv, NEW s \in Sinks, (\E m : Takes(s, m)) \/ Works(s) \/ Ends(s)
    PROVE  OrderInv'
<1>a. /\ QueuesOK /\ Sorted /\ Ordered(s) /\ FromTcp
      /\ s \in Producers /\ s # "tcp" /\ "tcp" \in Producers
  BY DEF Types, TypeOK, QueuesOK, OrderInv, Producers, Sinks
<1>1. ASSUME NEW m, Takes(s, m) PROVE OrderInv'
  <2>1. /\ Sorted' /\ m \in Queued(s) /\ Queued(s)' \subseteq Queued(s) /\ Before({m}, Queued(s)')
        /\ \A p \in Producers \ {s} : queue'[p] = queue[p]
    BY <1>1, <1>a, ReceiveOrder DEF Takes, Queued
  <2>2. Waiting' = Waiting /\ \A t \in Sinks : Held(t)' = Held(t) /\ Past(t)' = Past(t)
    BY <1>1, <1>a, <2>1 DEF Takes, fwd_vars, Waiting, Held, Past
  <2>3. \A t \in Sinks \ {s} : Showing(t)' = Showing(t) /\ Queued(t)' = Queued(t)
    BY <1>1, <2>1 DEF Takes, Types, TypeOK, Showing, Queued, Producers, Sinks
  <2>4. Showing(s)' \subseteq {m}
    BY <1>1 DEF Takes, Types, TypeOK, Showing
  <2>5. Ordered(s)'
    BY <1>a, <2>1, <2>2, <2>4 DEF Ordered, Before
  <2>6. FromTcp'
    BY <1>a, <2>2 DEF FromTcp, Sinks
  <2>7. Line(s)' \subseteq Line(s)
    BY <2>1, <2>2, <2>4 DEF Line
  <2>8. UNCHANGED sent
    BY <1>1 DEF Takes
  <2> QED
    BY <2>1, <2>2, <2>3, <2>5, <2>6, <2>7, <2>8, MoveOrder
<1>2. ASSUME UNCHANGED <<sent, queue, fwd_vars>>, Past(s)' \cup Showing(s)' \subseteq Past(s) \cup Showing(s),
             Showing(s)' \subseteq Showing(s), Showing(s)' # {} => Past(s)' = Past(s),
             \A t \in Sinks \ {s} : Past(t)' = Past(t) /\ Showing(t)' = Showing(t)
      PROVE  OrderInv'
  <2>1. Waiting' = Waiting /\ \A t \in Sinks : Held(t)' = Held(t) /\ Queued(t)' = Queued(t)
    BY <1>2 DEF fwd_vars, Waiting, Held, Queued
  <2>2. Ordered(s)'
    BY <1>2, <1>a, <2>1 DEF Ordered, Before
  <2>3. FromTcp' /\ Sorted'
    BY <1>2, <1>a, <2>1 DEF FromTcp, Sorted, Sinks
  <2>4. Line(s)' \subseteq Line(s)
    BY <1>2, <2>1 DEF Line
  <2> QED
    BY <1>2, <2>1, <2>2, <2>3, <2>4, MoveOrder
<1>3. CASE Works(s)
  <2>1. \A t \in Sinks : Past(t)' = Past(t) /\ Showing(t)' = Showing(t)
    BY <1>3 DEF Works, Types, TypeOK, Past, Showing
  <2> QED
    BY <1>2, <1>3, <2>1 DEF Works
<1>4. CASE Ends(s)
  <2>1. sink_msg[s] \in Message /\ sink_msg[s] \in Showing(s)
    BY <1>4 DEF Ends, Types, Holding, Showing
  <2>2. \A t \in Sinks : shown[t] \in Seq(Message)
    BY DEF Types, TypeOK
  <2>3. Past(s)' = Past(s) \cup {sink_msg[s]}
    <3>1. shown'[s] = Append(shown[s], sink_msg[s])
      BY <1>4 DEF Ends, Types, TypeOK
    <3> QED
      BY <2>1, <2>2, <3>1, AppendToQueue DEF Past
  <2>4. Showing(s)' = {}
    BY <1>4 DEF Ends, Types, TypeOK, Showing
  <2>5. \A t \in Sinks \ {s} : Past(t)' = Past(t) /\ Showing(t)' = Showing(t)
    BY <1>4 DEF Ends, Types, TypeOK, Past, Showing
  <2> QED
    BY <1>2, <1>4, <2>1, <2>3, <2>4, <2>5 DEF Ends
<1> QED
  BY <1>1, <1>3, <1>4

LEMMA OrderNext == Types /\ OrderInv /\ [Next]_vars => OrderInv'
<1> SUFFICES ASSUME Types, OrderInv, [Next]_vars PROVE OrderInv'
  OBVIOUS
<1>1. CASE UNCHANGED <<sent, queue, fwd_msg, out_vars>>
  <2>1. Waiting' = Waiting /\ \A s \in Sinks : Line(s)' = Line(s) /\ (Ordered(s) => Ordered(s)')
                          /\ Held(s)' = Held(s)
    BY <1>1 DEF out_vars, Waiting, Line, Past, Showing, Queued, Held, Ordered
  <2>2. Sorted' /\ "led" \in Sinks /\ "oled" \in Sinks
    BY <1>1 DEF OrderInv, Sorted, Sinks
  <2>3. Known' /\ FromTcp'
    BY <1>1, <2>1, <2>2 DEF OrderInv, Known, FromTcp
  <2> QED
    BY <2>1, <2>2, <2>3 DEF OrderInv
<1>2. CASE Produce
  <2>1. LampColour(sent["led"]) \in Pins
    BY DEF LampColour, Pins
  <2>2. ASSUME NEW d \in Data, RecvData(d) PROVE OrderInv'
    BY <2>2, ProduceOrder DEF RecvData, Producers
  <2>3. CASE LedQueueSend
    BY <2>1, <2>3, ProduceOrder DEF LedQueueSend, Producers
  <2>4. CASE OledQueueSend
    BY <2>4, ProduceOrder DEF OledQueueSend, Producers
  <2> QED
    BY <1>2, <2>2, <2>3, <2>4 DEF Produce
<1>3. CASE LedForwarderTimeout \/ LedForwarderWakes
  BY <1>1, <1>3 DEF LedForwarderTimeout, LedForwarderWakes
<1>4. CASE UNCHANGED vars
  BY <1>1, <1>4 DEF vars, fwd_vars
<1> QED
  BY <1>2, <1>3, <1>4, ForwardOrder, SinkSteps, SinkOrder DEF Next

-----------------------------------------------------------------------------
(* The relay.                                                               *)

LEMMA ShowsFresh ==
    ASSUME Types, OrderInv, NEW s \in Sinks, sink_at[s] # "recv"
    PROVE  Relay!Fresh(s, sink_msg[s])
<1> DEFINE m == sink_msg[s]
<1>1. m \in Message /\ m \in Showing(s)
  BY DEF Types, Holding, Showing
<1>2. "led" \in Sinks /\ "oled" \in Sinks /\ (s = "led" \/ s = "oled")
      /\ \A t \in Sinks : t = "led" \/ t = "oled"
  BY DEF Sinks
<1>3. m.id \in Nat \ {0} /\ m.from \in Producers
  BY <1>1 DEF Message
<1> HIDE DEF m
<1>4. m.id \in 1..sent[m.from]
  <2>1. m.id <= sent[m.from]
    BY <1>1, <1>2 DEF OrderInv, Known, Line
  <2>2. sent[m.from] \in Nat
    BY <1>3 DEF Types, TypeOK
  <2> QED
    BY <1>3, <2>1, <2>2
<1>5. ASSUME NEW n \in Past(s), n.from = m.from PROVE n.id < m.id
  BY <1>1, <1>2, <1>5 DEF OrderInv, Ordered, Before
<1>6. ASSUME NEW t \in Sinks, NEW n \in Past(t), n.from = m.from PROVE n.id # m.id
  <2>1. CASE t = s
    <3>1. n.id < m.id /\ n \in Message
      BY <1>2, <1>5, <1>6, <2>1 DEF OrderInv, Known, Line
    <3> QED
      BY <1>3, <3>1 DEF Message
  <2>2. CASE t # s
    BY <1>1, <1>2, <1>6, <2>2 DEF OrderInv, Apart, Line
  <2> QED
    BY <2>1, <2>2
<1>7. Relay!Fresh(s, m)
  BY <1>4, <1>5, <1>6 DEF Relay!Fresh, Past, Range, Relay!Range
<1> QED
  BY <1>7 DEF m

LEMMA RelayStep ==
    ASSUME Types, OrderInv, [Next]_vars
    PROVE  [Relay!Next]_Relay!vars
<1>1. ASSUME NEW s \in Sinks, Ends(s) PROVE Relay!Next
  <2>1. Relay!Fresh(s, sink_msg[s])
    BY <1>1, ShowsFresh DEF Ends
  <2>2. sink_msg[s] \in Message /\ shown[s] \in Seq(Message)
    BY <1>1 DEF Ends, Types, TypeOK, Holding
  <2>3. shown' = [shown EXCEPT ![s] = Append(@, sink_msg[s])] /\ UNCHANGED sent
    BY <1>1 DEF Ends
  <2>4. sink_msg[s] \in Range(shown'[s])
    <3>1. shown'[s] = Append(shown[s], sink_msg[s])
      BY <2>3 DEF Types, TypeOK
    <3> QED
      BY <2>2, <3>1, AppendToQueue
  <2> QED
    BY <2>1, <2>3, <2>4 DEF Relay!Next, Relay!Show, Range, Relay!Range
<1>2. ASSUME NEW s \in Sinks, NEW m, Takes(s, m) PROVE UNCHANGED Relay!vars
  BY <1>2 DEF Takes, Relay!vars
<1>3. ASSUME NEW s \in Sinks, Works(s) PROVE UNCHANGED Relay!vars
  BY <1>3 DEF Works, Relay!vars
<1>4. CASE Produce
  BY <1>4 DEF Produce, RecvData, LedQueueSend, OledQueueSend, Counted, out_vars, Producers,
              Relay!Next, Relay!Send
<1>5. ASSUME NEW s \in Sinks, Forward(s) PROVE UNCHANGED Relay!vars
  BY <1>5 DEF Forward, ForwarderReceive, ForwarderSend, out_vars, Relay!vars
<1>6. CASE LedForwarderTimeout \/ LedForwarderWakes
  BY <1>6 DEF LedForwarderTimeout, LedForwarderWakes, out_vars, Relay!vars
<1>7. CASE UNCHANGED vars
  BY <1>7 DEF vars, out_vars, Relay!vars
<1> QED
  BY <1>1, <1>2, <1>3, <1>4, <1>5, <1>6, <1>7, SinkSteps DEF Next

\* The queues, the competing forwarders and the two sinks together implement
\* a relay that may lose messages, but shows none twice, none at both sinks,
\* and no older message of a producer after a newer one.
THEOREM PipelineRelays == Spec => RelaySpec
<1>1. Init => Relay!Init
  BY DEF Init, Relay!Init
<1>2. Spec => [](Types /\ OrderInv)
  BY TypesInit, TypesNext, OrderInit, OrderNext, PTL DEF Spec
<1> QED
  BY <1>1, <1>2, RelayStep, PTL DEF Spec, RelaySpec, Relay!Spec

-----------------------------------------------------------------------------
(* One place for each message.                                              *)

Moving == Waiting \cup Line("led") \cup Line("oled")

LostInv ==
    /\ lost \cap Moving = {}
    /\ \A m \in lost : m \in Message /\ m.id <= sent[m.from]

Total == sent["tcp"] + sent["led"] + sent["oled"]

CountInv == IsFiniteSet(Moving \cup lost) /\ Cardinality(Moving \cup lost) = Total

LEMMA Distinct ==
    ASSUME OrderInv, NEW s \in Sinks
    PROVE  /\ Waiting \cap Line(s) = {}
           /\ Held(s) \cap (Past(s) \cup Showing(s) \cup Queued(s)) = {}
           /\ Queued(s) \cap (Past(s) \cup Showing(s)) = {}
           /\ Past(s) \cap Showing(s) = {}
           /\ \A t \in Sinks \ {s} : Line(s) \cap Line(t) = {}
<1>1. s = "led" \/ s = "oled"
  BY DEF Sinks
<1>2. \A m \in Waiting \cup Line(s) : m.id \in Nat
  BY <1>1 DEF OrderInv, Known, Message
<1>3. \A m \in Waiting \cup Line(s) : ~(m.id < m.id)
  BY <1>2
<1>4. Ordered(s)
  BY <1>1 DEF OrderInv
<1>5. /\ Waiting \cap Line(s) = {}
      /\ Held(s) \cap (Past(s) \cup Showing(s) \cup Queued(s)) = {}
      /\ Queued(s) \cap (Past(s) \cup Showing(s)) = {}
      /\ Past(s) \cap Showing(s) = {}
  BY <1>3, <1>4 DEF Ordered, Before, Line
<1>6. ASSUME NEW t \in Sinks \ {s} PROVE Line(s) \cap Line(t) = {}
  BY <1>1 DEF OrderInv, Apart, Sinks
<1> QED
  BY <1>5, <1>6

LEMMA ForwardPlaces ==
    ASSUME Types, OrderInv, NEW s \in Sinks, Forward(s)
    PROVE  \/ Moving' = Moving /\ lost' = lost
           \/ \E m \in Moving : Moving' = Moving \ {m} /\ lost' = lost \cup {m}
<1>a. /\ QueuesOK /\ Sorted /\ "tcp" \in Producers /\ s \in Producers /\ s # "tcp"
      /\ \A t \in Sinks : t # "tcp" /\ t \in Producers
  BY DEF Types, TypeOK, QueuesOK, OrderInv, Producers, Sinks
<1>b. PICK t \in Sinks : t # s /\ Sinks = {s, t} /\ Line("led") \cup Line("oled") = Line(s) \cup Line(t)
                           /\ (Line("led") \cup Line("oled") = Line(s) \cup Line(t))'
  BY DEF Sinks
<1>1. CASE ForwarderReceive(s)
  <2>1. PICK m : XQueueReceive("tcp", m) /\ fwd_msg' = [fwd_msg EXCEPT ![s] = m]
    BY <1>1 DEF ForwarderReceive
  <2>2. UNCHANGED <<sent, out_vars, lost>> /\ fwd_at[s] = "recv"
    BY <1>1 DEF ForwarderReceive
  <2>3. Waiting = Waiting' \cup {m} /\ \A u \in Sinks : queue'[u] = queue[u]
    BY <1>a, <2>1, ReceiveOrder DEF Waiting
  <2>4. m \in Message /\ m # NoMsg
    BY <1>a, <2>1, ReceiveTypes, PipelineAssumption
  <2>5. \A u \in Sinks : Past(u)' = Past(u) /\ Showing(u)' = Showing(u) /\ Queued(u)' = Queued(u)
    BY <2>2, <2>3 DEF out_vars, Past, Showing, Queued
  <2>6. Held(s) = {} /\ Held(s)' = {m} /\ Held(t)' = Held(t)
    BY <1>b, <2>1, <2>2, <2>4 DEF Types, TypeOK, Holding, Held
  <2> QED
    BY <1>b, <2>2, <2>3, <2>5, <2>6 DEF Moving, Line
<1>2. CASE ForwarderSend(s)
  <2> DEFINE m == fwd_msg[s]
  <2>1. m \in Message /\ Held(s) = {m}
    BY <1>2, PipelineAssumption DEF ForwarderSend, Types, Holding, Held
  <2>2. XQueueSend(s, m) /\ fwd_msg' = [fwd_msg EXCEPT ![s] = NoMsg] /\ UNCHANGED <<sent, out_vars>>
    BY <1>2 DEF ForwarderSend
  <2>3. \A u \in Sinks : Past(u)' = Past(u) /\ Showing(u)' = Showing(u)
    BY <2>2 DEF out_vars, Past, Showing
  <2>4. Held(s)' = {} /\ Held(t)' = Held(t)
    BY <1>b, <2>2 DEF Types, TypeOK, Held
  <2>5. CASE Len(queue[s]) < QueueLen
    <3>1. queue' = [queue EXCEPT ![s] = Append(queue[s], m)] /\ lost' = lost
      BY <2>2, <2>5 DEF XQueueSend
    <3>2. Range(Append(queue[s], m)) = Range(queue[s]) \cup {m}
      BY <1>a, <2>1, AppendToQueue DEF QueuesOK
    <3>3. Queued(s)' = Queued(s) \cup {m} /\ Queued(t)' = Queued(t) /\ Waiting' = Waiting
      BY <1>a, <1>b, <3>1, <3>2 DEF Queued, Waiting, QueuesOK
    <3> HIDE DEF m
    <3> QED
      BY <1>b, <2>1, <2>3, <2>4, <3>1, <3>3 DEF Moving, Line
  <2>6. CASE ~(Len(queue[s]) < QueueLen)
    <3>1. queue' = queue /\ lost' = lost \cup {m}
      BY <2>2, <2>6 DEF XQueueSend
    <3>2. \A u \in Sinks : Queued(u)' = Queued(u)
      BY <3>1 DEF Queued
    <3>3. Waiting' = Waiting
      BY <3>1 DEF Waiting
    <3>4. /\ m \notin Waiting \cup Past(s) \cup Showing(s) \cup Queued(s) \cup Line(t)
      BY <1>b, <2>1, Distinct DEF Line
    <3> HIDE DEF m
    <3>5. Moving' = Moving \ {m} /\ m \in Moving
      BY <1>b, <2>1, <2>3, <2>4, <3>2, <3>3, <3>4 DEF Moving, Line
    <3> QED
      BY <3>1, <3>5
  <2> QED
    BY <2>5, <2>6
<1> QED
  BY <1>1, <1>2 DEF Forward

LEMMA SinkPlaces ==
    ASSUME Types, OrderInv, NEW s \in Sinks, (\E m : Takes(s, m)) \/ Works(s) \/ Ends(s)
    PROVE  \/ Moving' = Moving /\ lost' = lost
           \/ \E m \in Moving : Moving' = Moving \ {m} /\ lost' = lost \cup {m}
<1>a. /\ QueuesOK /\ Sorted /\ "tcp" \in Producers /\ s \in Producers /\ s # "tcp"
      /\ \A t \in Sinks : t # "tcp" /\ t \in Producers
  BY DEF Types, TypeOK, QueuesOK, OrderInv, Producers, Sinks
<1>b. PICK t \in Sinks : t # s /\ Sinks = {s, t} /\ Line("led") \cup Line("oled") = Line(s) \cup Line(t)
                           /\ (Line("led") \cup Line("oled") = Line(s) \cup Line(t))'
  BY DEF Sinks
<1>1. ASSUME NEW m, Takes(s, m)
      PROVE  \/ Moving' = Moving /\ lost' = lost
             \/ \E n \in Moving : Moving' = Moving \ {n} /\ lost' = lost \cup {n}
  <2>1. /\ Queued(s) = Queued(s)' \cup {m} /\ Before({m}, Queued(s)')
        /\ \A p \in Producers \ {s} : queue'[p] = queue[p]
    BY <1>1, <1>a, ReceiveOrder DEF Takes, Queued
  <2>2. Waiting' = Waiting /\ Queued(t)' = Queued(t)
    BY <1>a, <1>b, <2>1 DEF Waiting, Queued
  <2>3. \A u \in Sinks : Held(u)' = Held(u) /\ Past(u)' = Past(u)
    BY <1>1 DEF Takes, fwd_vars, Held, Past
  <2>4. Showing(s) = {} /\ Showing(t)' = Showing(t)
    BY <1>1, <1>b DEF Takes, Types, TypeOK, Showing
  <2>5. \/ Showing(s)' = {m} /\ lost' = lost
        \/ Showing(s)' = {} /\ lost' = lost \cup {m}
    BY <1>1 DEF Takes, Types, TypeOK, Showing
  <2>6. CASE Showing(s)' = {m} /\ lost' = lost
    BY <1>b, <2>1, <2>2, <2>3, <2>4, <2>6 DEF Moving, Line
  <2>7. CASE Showing(s)' = {} /\ lost' = lost \cup {m}
    <3>1. m \notin Waiting \cup Past(s) \cup Held(s) \cup Line(t)
      BY <1>b, <2>1, Distinct DEF Line
    <3>2. m \notin Queued(s)'
      <4>1. m \in Message
        BY <1>1, <1>a, ReceiveTypes, PipelineAssumption DEF Takes
      <4>2. m.id \in Nat
        BY <4>1 DEF Message
      <4> QED
        BY <2>1, <4>2 DEF Before
    <3>3. Moving' = Moving \ {m} /\ m \in Moving
      BY <1>b, <2>1, <2>2, <2>3, <2>4, <2>7, <3>1, <3>2 DEF Moving, Line
    <3> QED
      BY <2>7, <3>3
  <2> QED
    BY <2>5, <2>6, <2>7
<1>2. CASE Works(s)
  <2>1. \A u \in Sinks : Line(u)' = Line(u)
    BY <1>2 DEF Works, Types, TypeOK, Line, Past, Showing, Queued, Held, fwd_vars
  <2>2. Waiting' = Waiting /\ lost' = lost
    BY <1>2 DEF Works, Waiting
  <2> QED
    BY <1>b, <2>1, <2>2 DEF Moving
<1>3. CASE Ends(s)
  <2>1. sink_msg[s] \in Message /\ Showing(s) = {sink_msg[s]}
    BY <1>3 DEF Ends, Types, Holding, Showing
  <2>2. shown[s] \in Seq(Message) /\ shown'[s] = Append(shown[s], sink_msg[s])
    BY <1>3 DEF Ends, Types, TypeOK
  <2>3. Past(s)' = Past(s) \cup {sink_msg[s]}
    BY <2>1, <2>2, AppendToQueue DEF Past
  <2>4. Showing(s)' = {} /\ Past(t)' = Past(t) /\ Showing(t)' = Showing(t)
    BY <1>3, <1>b DEF Ends, Types, TypeOK, Showing, Past
  <2>5. \A u \in Sinks : Held(u)' = Held(u) /\ Queued(u)' = Queued(u)
    BY <1>3 DEF Ends, fwd_vars, Held, Queued
  <2>6. Waiting' = Waiting /\ lost' = lost
    BY <1>3 DEF Ends, Waiting
  <2> QED
    BY <1>b, <2>1, <2>3, <2>4, <2>5, <2>6 DEF Moving, Line
<1> QED
  BY <1>1, <1>2, <1>3

LEMMA ProducePlaces ==
    ASSUME Types, OrderInv, LostInv, NEW p \in Producers, NEW d \in Data \cup Pins \cup {"text"},
           Counted(p), XQueueSend(p, Numbered(p, d)), UNCHANGED <<fwd_vars, out_vars>>
    PROVE  /\ Numbered(p, d) \notin Moving \cup lost
           /\ \/ Moving' = Moving \cup {Numbered(p, d)} /\ lost' = lost
              \/ Moving' = Moving /\ lost' = lost \cup {Numbered(p, d)}
           /\ LostInv' /\ Total' = Total + 1
<1> DEFINE m == Numbered(p, d)
<1>a. TypeOK /\ QueuesOK /\ "tcp" \in Producers /\ \A s \in Sinks : s \in Producers /\ s # "tcp"
  BY DEF Types, TypeOK, QueuesOK, Producers, Sinks
<1>1. m \in Message /\ m.from = p /\ m.id = sent[p] + 1
  BY <1>a, NumberedMessage DEF Numbered
<1>2. /\ sent'[p] = sent[p] + 1
      /\ \A q \in Producers : sent[q] <= sent'[q] /\ sent[q] \in Nat /\ sent'[q] \in Nat
  BY <1>a, CountedTypes DEF TypeOK
<1>3. \A n \in Moving \cup lost : n \in Message /\ n.id <= sent[n.from]
  BY DEF OrderInv, Known, LostInv, Moving
<1>4. m \notin Moving \cup lost
  BY <1>1, <1>2, <1>3
<1>5. XQueueSend(p, m) /\ queue[p] \in Seq(Message)
  BY <1>a DEF QueuesOK
<1> HIDE DEF m
<1>6. \A s \in Sinks : Past(s)' = Past(s) /\ Showing(s)' = Showing(s) /\ Held(s)' = Held(s)
  BY DEF fwd_vars, out_vars, Past, Showing, Held
<1>7. p = "tcp" \/ (p \in Sinks /\ p # "tcp")
  BY DEF Producers, Sinks
<1>8. "led" \in Sinks /\ "oled" \in Sinks /\ Sinks = {"led", "oled"}
  BY DEF Sinks
<1>9. \/ Moving' = Moving \cup {m} /\ lost' = lost
      \/ Moving' = Moving /\ lost' = lost \cup {m}
  <2>1. CASE Len(queue[p]) < QueueLen
    <3>1. queue' = [queue EXCEPT ![p] = Append(queue[p], m)] /\ lost' = lost
      BY <1>5, <2>1 DEF XQueueSend
    <3>2. Range(Append(queue[p], m)) = Range(queue[p]) \cup {m}
      BY <1>1, <1>5, AppendToQueue
    <3>3. Range(queue'[p]) = Range(queue[p]) \cup {m} /\ \A q \in Producers \ {p} : queue'[q] = queue[q]
      BY <1>a, <3>1, <3>2 DEF QueuesOK
    <3>4. CASE p = "tcp"
      <4>1. Waiting' = Waiting \cup {m} /\ \A s \in Sinks : Queued(s)' = Queued(s)
        BY <1>a, <3>3, <3>4 DEF Waiting, Queued
      <4> QED
        BY <1>6, <1>8, <3>1, <4>1 DEF Moving, Line
    <3>5. CASE p \in Sinks /\ p # "tcp"
      <4>1. Waiting' = Waiting /\ Queued(p)' = Queued(p) \cup {m}
            /\ \A s \in Sinks \ {p} : Queued(s)' = Queued(s)
        BY <1>a, <3>3, <3>5 DEF Waiting, Queued
      <4> QED
        BY <1>6, <1>8, <3>1, <3>5, <4>1 DEF Moving, Line
    <3> QED
      BY <1>7, <3>4, <3>5
  <2>2. CASE ~(Len(queue[p]) < QueueLen)
    <3>1. queue' = queue /\ lost' = lost \cup {m}
      BY <1>5, <2>2 DEF XQueueSend
    <3>2. Waiting' = Waiting /\ \A s \in Sinks : Queued(s)' = Queued(s)
      BY <3>1 DEF Waiting, Queued
    <3> QED
      BY <1>6, <1>8, <3>1, <3>2 DEF Moving, Line
  <2> QED
    BY <2>1, <2>2
<1>10. LostInv'
  <2>1. lost' \cap Moving' = {}
    BY <1>4, <1>9 DEF LostInv
  <2>2. ASSUME NEW n \in lost' PROVE n \in Message /\ n.id <= sent'[n.from]
    <3>1. CASE n = m
      BY <1>1, <1>2, <3>1
    <3>2. CASE n \in lost
      <4>1. n \in Message /\ n.id <= sent[n.from] /\ n.id \in Nat /\ n.from \in Producers
        BY <1>3, <3>2 DEF Message
      <4> QED
        BY <1>2, <4>1
    <3> QED
      BY <1>9, <2>2, <3>1, <3>2
  <2> QED
    BY <2>1, <2>2 DEF LostInv
<1>11. Total' = Total + 1
  <2>1. sent' = [sent EXCEPT ![p] = @ + 1]
    BY DEF Counted
  <2> QED
    BY <1>2, <2>1 DEF Types, TypeOK, Total, Producers
<1> QED
  BY <1>4, <1>9, <1>10, <1>11 DEF m

LEMMA CountNext ==
    ASSUME Types, OrderInv, LostInv, CountInv, [Next]_vars
    PROVE  LostInv' /\ CountInv'
<1>1. ASSUME UNCHANGED sent,
             \/ Moving' = Moving /\ lost' = lost
             \/ \E m \in Moving : Moving' = Moving \ {m} /\ lost' = lost \cup {m}
      PROVE  LostInv' /\ CountInv'
  <2>1. Moving' \cup lost' = Moving \cup lost /\ lost' \cap Moving' = {} /\ lost' \subseteq Moving \cup lost
    BY <1>1 DEF LostInv
  <2>2. \A n \in Moving \cup lost : n \in Message /\ n.id <= sent[n.from]
    BY DEF OrderInv, Known, LostInv, Moving
  <2>3. Total' = Total
    BY <1>1 DEF Total
  <2> QED
    BY <1>1, <2>1, <2>2, <2>3 DEF LostInv, CountInv
<1>2. ASSUME NEW p \in Producers, NEW d \in Data \cup Pins \cup {"text"},
             Counted(p), XQueueSend(p, Numbered(p, d)), UNCHANGED <<fwd_vars, out_vars>>
      PROVE  LostInv' /\ CountInv'
  <2>1. /\ Numbered(p, d) \notin Moving \cup lost
        /\ Moving' \cup lost' = (Moving \cup lost) \cup {Numbered(p, d)}
        /\ LostInv' /\ Total' = Total + 1
    BY <1>2, ProducePlaces
  <2>2. IsFiniteSet((Moving \cup lost) \cup {Numbered(p, d)})
        /\ Cardinality((Moving \cup lost) \cup {Numbered(p, d)}) = Cardinality(Moving \cup lost) + 1
    BY <2>1, FS_AddElement DEF CountInv
  <2> QED
    BY <2>1, <2>2 DEF CountInv
<1>3. CASE Produce
  <2>1. LampColour(sent["led"]) \in Pins
    BY DEF LampColour, Pins
  <2> QED
    BY <1>2, <1>3, <2>1 DEF Produce, RecvData, LedQueueSend, OledQueueSend, Producers
<1>4. ASSUME NEW s \in Sinks, Forward(s) PROVE LostInv' /\ CountInv'
  <2>1. UNCHANGED sent
    BY <1>4 DEF Forward, ForwarderReceive, ForwarderSend
  <2> QED
    BY <1>1, <1>4, <2>1, ForwardPlaces
<1>5. ASSUME NEW s \in Sinks, (\E m : Takes(s, m)) \/ Works(s) \/ Ends(s)
      PROVE  LostInv' /\ CountInv'
  <2>1. UNCHANGED sent
    BY <1>5 DEF Takes, Works, Ends
  <2> QED
    BY <1>1, <1>5, <2>1, SinkPlaces
<1>6. CASE UNCHANGED <<sent, queue, fwd_msg, out_vars, lost>>
  <2>1. Moving' = Moving
    BY <1>6 DEF Moving, Waiting, Line, Past, Showing, Queued, Held, out_vars
  <2> QED
    BY <1>1, <1>6, <2>1
<1>7. CASE LedForwarderTimeout \/ LedForwarderWakes
  BY <1>6, <1>7 DEF LedForwarderTimeout, LedForwarderWakes
<1>8. CASE UNCHANGED vars
  BY <1>6, <1>8 DEF vars, fwd_vars
<1> QED
  BY <1>3, <1>4, <1>5, <1>7, <1>8, SinkSteps DEF Next

LEMMA CountInit == Init => LostInv /\ CountInv
<1> SUFFICES ASSUME Init PROVE LostInv /\ CountInv
  OBVIOUS
<1>1. Range(<<>>) = {}
  BY DEF Range
<1>2. Moving = {} /\ lost = {} /\ Total = 0
  BY <1>1 DEF Init, Moving, Waiting, Line, Held, Queued, Past, Showing, Total, Producers, Sinks
<1> QED
  BY <1>2, FS_EmptySet DEF LostInv, CountInv

LEMMA Places == InFlight \cup Settled = Moving \cup lost
<1> DEFINE queued  == UNION {Range(queue[q]) : q \in Producers}
           held    == {fwd_msg[s] : s \in Sinks} \ {NoMsg}
           showing == UNION {Showing(s) : s \in Sinks}
           past    == UNION {Range(shown[s]) : s \in Sinks}
<1>1. queued = Waiting \cup Queued("led") \cup Queued("oled")
  BY DEF Producers, Waiting, Queued
<1>2. held = Held("led") \cup Held("oled")
  BY DEF Sinks, Held
<1>3. showing = Showing("led") \cup Showing("oled")
  BY DEF Sinks
<1>4. past = Past("led") \cup Past("oled")
  BY DEF Sinks, Past
<1>5. InFlight = queued \cup held \cup showing
  BY DEF InFlight
<1>6. Settled = lost \cup past
  BY Zenon DEF Settled
<1> HIDE DEF queued, held, showing, past
<1> QED
  BY <1>1, <1>2, <1>3, <1>4, <1>5, <1>6 DEF Moving, Line

LEMMA OneHolder ==
    ASSUME OrderInv, LostInv, NoMsg \notin Message, NEW m \in Moving \cup lost
    PROVE  \E h : Holders(m) = {h}
<1>0. m \in Message /\ m # NoMsg
  BY DEF OrderInv, Known, LostInv, Moving
<1>a. Holders(m) =
        {<<"queue", q>> : q \in {q \in Producers : m \in Range(queue[q])}}
        \cup {<<"forwarder", s>> : s \in {s \in Sinks : m \in Held(s)}}
        \cup {<<"task", s>> : s \in {s \in Sinks : m \in Showing(s)}}
        \cup {<<"shown", s>> : s \in {s \in Sinks : m \in Past(s)}}
        \cup {<<"lost", m.from>> : x \in {m} \cap lost}
  BY <1>0 DEF Holders, Held, Past
<1>1. CASE m \in Waiting
  <2>1. m \notin Line("led") /\ m \notin Line("oled") /\ m \notin lost
    BY <1>1, Distinct DEF LostInv, Moving, Sinks
  <2>2. Holders(m) = {<<"queue", "tcp">>}
    BY <1>a, <1>1, <2>1 DEF Line, Queued, Waiting, Producers, Sinks
  <2> QED
    BY <2>2
<1>2. CASE m \in lost
  <2>1. m \notin Waiting /\ m \notin Line("led") /\ m \notin Line("oled")
    BY <1>2 DEF LostInv, Moving
  <2>2. Holders(m) = {<<"lost", m.from>>}
    BY <1>a, <1>2, <2>1 DEF Line, Queued, Waiting, Producers, Sinks
  <2> QED
    BY <2>2
<1>3. ASSUME NEW s \in Sinks, m \in Line(s) PROVE \E h : Holders(m) = {h}
  <2>1. PICK t \in Sinks : t # s /\ Sinks = {s, t} /\ Producers = {"tcp", s, t} /\ s # "tcp" /\ t # "tcp"
    BY DEF Sinks, Producers
  <2>2. m \notin Waiting /\ m \notin lost /\ m \notin Line(t)
    BY <1>3, <2>1, Distinct DEF LostInv, Moving, Sinks
  <2>3. Holders(m) =
          {<<"queue", x>> : x \in {q \in {s} : m \in Queued(s)}}
          \cup {<<"forwarder", x>> : x \in {q \in {s} : m \in Held(s)}}
          \cup {<<"task", x>> : x \in {q \in {s} : m \in Showing(s)}}
          \cup {<<"shown", x>> : x \in {q \in {s} : m \in Past(s)}}
    <3>1. {q \in Producers : m \in Range(queue[q])} = {q \in {s} : m \in Queued(s)}
      BY <2>1, <2>2 DEF Line, Queued, Waiting
    <3>2. {q \in Sinks : m \in Held(q)} = {q \in {s} : m \in Held(s)}
      BY <2>1, <2>2 DEF Line
    <3>3. {q \in Sinks : m \in Showing(q)} = {q \in {s} : m \in Showing(s)}
      BY <2>1, <2>2 DEF Line
    <3>4. {q \in Sinks : m \in Past(q)} = {q \in {s} : m \in Past(s)}
      BY <2>1, <2>2 DEF Line
    <3>5. {<<"lost", m.from>> : x \in {m} \cap lost} = {}
      BY <2>2
    <3> QED
      BY <1>a, <3>1, <3>2, <3>3, <3>4, <3>5
  <2>4. CASE m \in Queued(s)
    <3>1. m \notin Held(s) /\ m \notin Showing(s) /\ m \notin Past(s)
      BY <2>4, Distinct
    <3>2. Holders(m) = {<<"queue", s>>}
      BY <2>3, <2>4, <3>1
    <3> QED
      BY <3>2
  <2>5. CASE m \in Held(s)
    <3>1. m \notin Queued(s) /\ m \notin Showing(s) /\ m \notin Past(s)
      BY <2>5, Distinct
    <3>2. Holders(m) = {<<"forwarder", s>>}
      BY <2>3, <2>5, <3>1
    <3> QED
      BY <3>2
  <2>6. CASE m \in Showing(s)
    <3>1. m \notin Queued(s) /\ m \notin Held(s) /\ m \notin Past(s)
      BY <2>6, Distinct
    <3>2. Holders(m) = {<<"task", s>>}
      BY <2>3, <2>6, <3>1
    <3> QED
      BY <3>2
  <2>7. CASE m \in Past(s)
    <3>1. m \notin Queued(s) /\ m \notin Held(s) /\ m \notin Showing(s)
      BY <2>7, Distinct
    <3>2. Holders(m) = {<<"shown", s>>}
      BY <2>3, <2>7, <3>1
    <3> QED
      BY <3>2
  <2> QED
    BY <1>3, <2>4, <2>5, <2>6, <2>7 DEF Line
<1> QED
  BY <1>1, <1>2, <1>3 DEF Moving, Sinks

\* Every message sent is in exactly one place - a queue, a forwarder, a task,
\* a display, or lost where the code gives up on it - though two tasks compete
\* for one queue.
THEOREM OnePlaceCorrect == Spec => []OnePlace
<1> DEFINE Inv == Types /\ OrderInv /\ LostInv /\ CountInv
<1>1. Init => Inv
  BY TypesInit, OrderInit, CountInit
<1>2. Inv /\ [Next]_vars => Inv'
  BY TypesNext, OrderNext, CountNext
<1>3. Inv => OnePlace
  <2> SUFFICES ASSUME Inv PROVE OnePlace
    OBVIOUS
  <2>1. ASSUME NEW m \in Moving \cup lost PROVE Cardinality(Holders(m)) = 1
    BY OneHolder, FS_Singleton, PipelineAssumption
  <2>2. Cardinality(Moving \cup lost) = sent["tcp"] + sent["led"] + sent["oled"]
    BY DEF CountInv, Total
  <2> QED
    BY <2>1, <2>2, Places DEF OnePlace
<1> HIDE DEF Inv
<1>4. Spec => []OnePlace
  BY <1>1, <1>2, <1>3, PTL DEF Spec
<1> QED
  BY <1>4
=============================================================================
