----------------------------- MODULE WifiProofs -----------------------------
(***************************************************************************)
(* Proofs about module Wifi, for any number of waiting tasks, peers and    *)
(* retries and any length of the event queue.                              *)
(***************************************************************************)
EXTENDS Wifi, TLAPS

-----------------------------------------------------------------------------
(* The inductive invariant.  The handler lags behind the driver, so most of *)
(* it says what a pending event tells of the link, and which event must     *)
(* still follow when it no longer tells the truth.                          *)

Later(k, e) == \E j \in 1..Len(events) : j > k /\ events[j] = e

Modes ==
    /\ mode = "off" => events = <<>>
    /\ mode # "sta" => link = "idle" /\ phone = "silent" /\ sc_at = "none"
    /\ mode # "ap" => stations = {}
    /\ mode = "off" => bits = {}
    /\ \A k \in 1..Len(events) : events[k] \in StaEvent => mode = "sta"
    /\ \A k \in 1..Len(events) : events[k] \in ApEvent => mode = "ap"

\* Nothing happens before the station's first event is handled.
Started ==
    \A k \in 1..Len(events) : events[k] = "STA_START" =>
        /\ Len(events) = 1 /\ link = "idle"
        /\ phone = "silent" /\ sc_at = "none" /\ bits = {}

\* An address, or a station that joined, may be gone by the time its event is
\* handled, but then the event of that follows.
Announced ==
    \A k \in 1..Len(events) :
        /\ events[k] = "GOT_IP" => link = "ip" \/ Later(k, "STA_DISCONNECTED")
        /\ events[k] = "AP_STACONNECTED" =>
              stations # {} \/ Later(k, "AP_STADISCONNECTED")

\* The bit is only set with all the retries left, so that the next
\* disconnection is one that clears it.
FreshBit == mode = "sta" /\ CONNECTED \in bits => wifi_retry_num = 0

\* Without smartconfig nothing else happens once the link is lost.
Direct ==
    ~smartconfig =>
        /\ sc_at = "none" /\ phone = "silent"
        /\ \A k \in 1..Len(events) :
              /\ events[k] \notin {"GOT_SSID_PSWD", "SEND_ACK_DONE"}
              /\ events[k] = "STA_DISCONNECTED" => k = Len(events) /\ link = "idle"
        /\ link = "ip" => CONNECTED \in bits \/ Pending("GOT_IP")

\* Nobody sleeps on a bit that is set.
NoSleeper == CONNECTED \in bits => \A c \in Clients : client_at[c] # "blocked"

WifiInv ==
    /\ TypeOK
    /\ Modes
    /\ Started
    /\ Announced
    /\ FreshBit
    /\ Direct
    /\ NoSleeper
    /\ BitMeansLink
    /\ NoStall

-----------------------------------------------------------------------------
(* The event queue.                                                         *)

LEMMA AppendFacts ==
    ASSUME NEW S, NEW q \in Seq(S), NEW e \in S
    PROVE  /\ Append(q, e) \in Seq(S)
           /\ Len(q) \in Nat
           /\ Len(Append(q, e)) = Len(q) + 1
           /\ \A k \in 1..Len(q) : Append(q, e)[k] = q[k]
           /\ Append(q, e)[Len(q) + 1] = e
OBVIOUS

LEMMA TailFacts ==
    ASSUME NEW S, NEW q \in Seq(S), q # <<>>
    PROVE  /\ Tail(q) \in Seq(S)
           /\ Len(q) \in Nat \ {0}
           /\ Len(Tail(q)) = Len(q) - 1
           /\ \A k \in 1..(Len(q) - 1) : Tail(q)[k] = q[k + 1]
           /\ Head(q) = q[1]
           /\ Head(q) \in S
OBVIOUS

LEMMA TypeOKInit == Init => TypeOK
BY WifiAssumption DEF Init, TypeOK

LEMMA InvInit == Init => WifiInv
BY TypeOKInit
   DEF Init, WifiInv, Modes, Started, Announced, FreshBit, Direct, NoSleeper,
       BitMeansLink, NoStall, Pending, Later, CONNECTED

-----------------------------------------------------------------------------
(* The event handler.  What it leaves of the queue is everything behind the *)
(* head, and perhaps a disconnection at the end.                            *)

Dropped == events[1] = "GOT_SSID_PSWD" /\ link # "idle"

\* Element k of the new queue was element k + 1, or is the new last one.
Queued ==
    /\ Len(events) \in Nat \ {0}
    /\ Len(events') = IF Dropped THEN Len(events) ELSE Len(events) - 1
    /\ \A k \in 1..(Len(events) - 1) : events'[k] = events[k + 1]
    /\ Dropped => events'[Len(events)] = "STA_DISCONNECTED"

LEMMA HandleQueue ==
    ASSUME TypeOK, HandleEvent
    PROVE  /\ events' \in Seq(StaEvent \cup ApEvent)
           /\ Queued
           /\ Dispatch(events[1])
           /\ events[1] \in StaEvent \cup ApEvent
           /\ UNCHANGED <<smartconfig, mode, phone, stations>>
<1> DEFINE E == StaEvent \cup ApEvent
<1>1. events \in Seq(E) /\ events # <<>>
  BY DEF TypeOK, HandleEvent
<1> HIDE DEF E
<1>2. /\ Tail(events) \in Seq(E)
      /\ Len(events) \in Nat \ {0}
      /\ Len(Tail(events)) = Len(events) - 1
      /\ \A k \in 1..(Len(events) - 1) : Tail(events)[k] = events[k + 1]
      /\ Head(events) = events[1]
      /\ Head(events) \in E
  BY <1>1, TailFacts
<1>3. "STA_DISCONNECTED" \in E
  BY DEF E, StaEvent
<1>4. Dispatch(events[1]) /\ events[1] \in E
  BY <1>2 DEF HandleEvent
<1>5. events' = IF Dropped THEN Append(Tail(events), "STA_DISCONNECTED") ELSE Tail(events)
  BY <1>2 DEF HandleEvent, Dropped
<1>6. Queued /\ events' \in Seq(E)
  <2>1. CASE Dropped
    <3> DEFINE T == Tail(events)
    <3>1. T \in Seq(E) /\ Len(T) = Len(events) - 1
      BY <1>2
    <3> HIDE DEF T
    <3>2. /\ Append(T, "STA_DISCONNECTED") \in Seq(E)
          /\ Len(Append(T, "STA_DISCONNECTED")) = Len(T) + 1
          /\ \A k \in 1..Len(T) : Append(T, "STA_DISCONNECTED")[k] = T[k]
          /\ Append(T, "STA_DISCONNECTED")[Len(T) + 1] = "STA_DISCONNECTED"
      BY <1>3, <3>1, AppendFacts
    <3>3. events' = Append(T, "STA_DISCONNECTED")
      BY <1>5, <2>1 DEF T
    <3>4. \A k \in 1..Len(T) : T[k] = events[k + 1]
      BY <1>2, <3>1 DEF T
    <3>5. Len(T) + 1 = Len(events)
      BY <1>2, <3>1
    <3> QED BY <1>2, <2>1, <3>1, <3>2, <3>3, <3>4, <3>5 DEF Queued, E
  <2>2. CASE ~Dropped
    BY <1>2, <1>5, <2>2 DEF Queued, E
  <2> QED BY <2>1, <2>2
<1> QED BY <1>4, <1>6 DEF HandleEvent, E

\* What is pending after the handler was pending before, one place later, or
\* is the disconnection it caused; and what was pending behind the head is.
LEMMA HandleInv ==
    ASSUME WifiInv, HandleEvent
    PROVE  WifiInv'
<1>1. /\ Queued
      /\ Dispatch(events[1])
      /\ events[1] \in StaEvent \cup ApEvent
      /\ UNCHANGED <<smartconfig, mode, phone, stations>>
  BY HandleQueue DEF WifiInv
<1>2. /\ Len(events) \in Nat \ {0}
      /\ 1 \in 1..Len(events)
  BY <1>1 DEF Queued
<1>3. events[1] \in StaEvent => mode = "sta"
  BY <1>2 DEF WifiInv, Modes
<1>4. events[1] \in ApEvent => mode = "ap"
  BY <1>2 DEF WifiInv, Modes
<1>5. TypeOK'
  <2>1. TypeOK
    BY DEF WifiInv
  <2>2. events' \in Seq(StaEvent \cup ApEvent)
    BY <2>1, HandleQueue
  <2> USE DEF CONNECTED, DONE, group_vars
  <2>3. CASE events[1] = "STA_START" /\ OnStart
    BY <1>1, <2>1, <2>2, <2>3 DEF TypeOK, OnStart
  <2>4. CASE events[1] = "STA_DISCONNECTED" /\ OnDisconnected
    <3>1. wifi_retry_num' \in 0..MaxRetry
      BY <2>1, <2>4, WifiAssumption DEF TypeOK, OnDisconnected
    <3>2. link' \in {"idle", "connecting", "associated", "ip"}
      BY <2>1, <2>4 DEF TypeOK, OnDisconnected
    <3>3. bits' \in SUBSET {CONNECTED, DONE}
      BY <2>1, <2>4 DEF TypeOK, OnDisconnected
    <3>4. UNCHANGED <<sc_at, client_at>>
      BY <2>4 DEF OnDisconnected
    <3> QED BY <1>1, <2>1, <2>2, <3>1, <3>2, <3>3, <3>4 DEF TypeOK
  <2>5. CASE events[1] = "GOT_SSID_PSWD" /\ OnCredentials
    BY <1>1, <2>1, <2>2, <2>5 DEF TypeOK, OnCredentials
  <2>6. ASSUME NEW b \in SUBSET {CONNECTED, DONE}, SetBits(b)
        PROVE  /\ bits' \in SUBSET {CONNECTED, DONE}
               /\ sc_at' \in {"none", "wait", "blocked", "stop"}
               /\ client_at' \in [Clients -> {"idle", "blocked", "running"}]
    BY <2>1, <2>6 DEF TypeOK, SetBits
  <2>7. CASE events[1] = "GOT_IP" /\ OnGotIp
    BY <1>1, <2>1, <2>2, <2>6, <2>7, WifiAssumption DEF TypeOK, OnGotIp
  <2>8. CASE events[1] = "SEND_ACK_DONE" /\ OnAckDone
    BY <1>1, <2>1, <2>2, <2>6, <2>8 DEF TypeOK, OnAckDone
  <2>9. CASE events[1] = "AP_STACONNECTED" /\ OnStaConnected
    BY <1>1, <2>1, <2>2, <2>6, <2>9 DEF TypeOK, OnStaConnected
  <2>10. CASE events[1] = "AP_STADISCONNECTED" /\ OnStaDisconnected
    BY <1>1, <2>1, <2>2, <2>10 DEF TypeOK, OnStaDisconnected
  <2> QED BY <1>1, <2>3, <2>4, <2>5, <2>7, <2>8, <2>9, <2>10 DEF Dispatch
<1> USE DEF StaEvent, ApEvent, CONNECTED, DONE, group_vars
<1> USE DEF Dispatch, OnStart, OnDisconnected, OnGotIp, OnCredentials, OnAckDone,
            OnStaConnected, OnStaDisconnected, SetBits
<1>6. Modes'
  BY <1>1, <1>2, <1>3, <1>4 DEF WifiInv, Modes, Queued, Dropped
<1>7. Started'
  BY <1>1, <1>2, <1>3, <1>4 DEF WifiInv, Started, Queued, Dropped
<1>8. \A k \in 1..Len(events') :
         \/ k \in 1..(Len(events) - 1) /\ events'[k] = events[k + 1]
         \/ Dropped /\ events'[k] = "STA_DISCONNECTED"
  BY <1>1, <1>2 DEF Queued
<1>9. \A j \in 2..Len(events) : j - 1 \in 1..Len(events') /\ events'[j - 1] = events[j]
  BY <1>1, <1>2 DEF Queued
<1>10. Dropped => Len(events') \in 1..Len(events') /\ events'[Len(events')] = "STA_DISCONNECTED"
  BY <1>1, <1>2 DEF Queued
<1>11. \A k \in 1..(Len(events) - 1) : \A e : Later(k + 1, e) => Later(k, e)'
  BY <1>2, <1>9 DEF Later
<1>12. \A e : Later(1, e) => Pending(e)'
  BY <1>2, <1>9 DEF Later, Pending
<1>13. /\ Dropped => Pending("STA_DISCONNECTED")'
       /\ \A e : Pending(e) /\ events[1] # e => Pending(e)'
  <2>1. \A e : Pending(e) /\ events[1] # e => Later(1, e)
    BY <1>2 DEF Pending, Later
  <2> QED BY <1>10, <1>12, <2>1 DEF Pending
<1>14. Announced'
  <2> SUFFICES ASSUME NEW k \in 1..Len(events')
               PROVE  /\ events'[k] = "GOT_IP" => link' = "ip" \/ Later(k, "STA_DISCONNECTED")'
                      /\ events'[k] = "AP_STACONNECTED" =>
                            stations' # {} \/ Later(k, "AP_STADISCONNECTED")'
    BY DEF Announced, Later
  <2>1. CASE Dropped /\ events'[k] = "STA_DISCONNECTED"
    BY <2>1
  <2>2. CASE k \in 1..(Len(events) - 1) /\ events'[k] = events[k + 1]
    <3>1. /\ events[k + 1] = "GOT_IP" => link = "ip" \/ Later(k + 1, "STA_DISCONNECTED")
          /\ events[k + 1] = "AP_STACONNECTED" =>
                stations # {} \/ Later(k + 1, "AP_STADISCONNECTED")
      BY <1>2, <2>2 DEF WifiInv, Announced
    <3>2. link = "ip" => link' = "ip" \/ Dropped
      <4>1. link = "ip" => events[1] # "STA_START"
        BY <1>2 DEF WifiInv, Started
      <4> QED BY <1>1, <4>1 DEF Dropped
    <3>3. ASSUME Dropped, events'[k] # "STA_DISCONNECTED"
          PROVE  Later(k, "STA_DISCONNECTED")'
      <4>1. Len(events') \in 1..Len(events')
        BY <1>10, <3>3
      <4>2. events'[Len(events')] = "STA_DISCONNECTED"
        BY <1>10, <3>3
      <4>3. k # Len(events')
        BY <3>3, <4>2
      <4>4. Len(events') \in Nat
        BY <1>1, <1>2 DEF Queued
      <4>5. Len(events') > k
        BY <4>3, <4>4
      <4> QED BY <4>1, <4>2, <4>5 DEF Later
    <3> QED BY <1>1, <1>11, <2>2, <3>1, <3>2, <3>3
  <2> QED BY <1>8, <2>1, <2>2
<1>15. FreshBit'
  BY <1>1, <1>3, <1>4 DEF WifiInv, FreshBit
<1>16. Direct'
  <2> SUFFICES ASSUME ~smartconfig
               PROVE  /\ sc_at' = "none" /\ phone' = "silent"
                      /\ \A k \in 1..Len(events') :
                            /\ events'[k] \notin {"GOT_SSID_PSWD", "SEND_ACK_DONE"}
                            /\ events'[k] = "STA_DISCONNECTED" =>
                                  k = Len(events') /\ link' = "idle"
                      /\ link' = "ip" => CONNECTED \in bits' \/ Pending("GOT_IP")'
    BY <1>1 DEF Direct
  <2>1. /\ sc_at = "none" /\ phone = "silent"
        /\ events[1] \notin {"GOT_SSID_PSWD", "SEND_ACK_DONE"}
        /\ events[1] = "STA_DISCONNECTED" => Len(events) = 1 /\ link = "idle"
        /\ link = "ip" => CONNECTED \in bits \/ Pending("GOT_IP")
    BY <1>2 DEF WifiInv, Direct
  <2>2. ~Dropped /\ Len(events') = Len(events) - 1
    BY <1>1, <2>1 DEF Dropped, Queued
  <2>3. sc_at' = "none" /\ phone' = "silent"
    BY <1>1, <2>1
  <2>4. ASSUME NEW k \in 1..Len(events')
        PROVE  /\ events'[k] \notin {"GOT_SSID_PSWD", "SEND_ACK_DONE"}
               /\ events'[k] = "STA_DISCONNECTED" => k = Len(events') /\ link' = "idle"
    <3>1. k + 1 \in 1..Len(events) /\ events'[k] = events[k + 1] /\ Len(events) # 1
      BY <1>2, <1>8, <2>2
    <3>2. /\ events[k + 1] \notin {"GOT_SSID_PSWD", "SEND_ACK_DONE"}
          /\ events[k + 1] = "STA_DISCONNECTED" => k + 1 = Len(events) /\ link = "idle"
      BY <3>1 DEF WifiInv, Direct
    <3>3. events[1] # "STA_START" /\ events[1] # "STA_DISCONNECTED"
      BY <1>2, <2>1, <3>1 DEF WifiInv, Started
    <3>4. link' = link
      BY <1>1, <2>1, <3>3
    <3> QED BY <1>2, <2>2, <3>1, <3>2, <3>4
  <2>5. link' = "ip" => CONNECTED \in bits' \/ Pending("GOT_IP")'
    <3>1. CASE events[1] = "GOT_IP"
      BY <1>1, <2>1, <3>1
    <3>2. CASE events[1] # "GOT_IP" /\ link' = "ip"
      <4>1. link = "ip" /\ events[1] # "STA_DISCONNECTED"
        BY <1>1, <2>1, <3>2
      <4>2. events[1] \notin ApEvent
        BY <1>4, <4>1 DEF WifiInv, Modes
      <4>3. bits' = bits
        BY <1>1, <2>1, <3>2, <4>1, <4>2
      <4> QED BY <1>13, <2>1, <3>2, <4>1, <4>3
    <3> QED BY <3>1, <3>2
  <2> QED BY <2>3, <2>4, <2>5
<1>17. NoSleeper'
  BY <1>1, <1>2 DEF WifiInv, TypeOK, NoSleeper
<1>18. BitMeansLink'
  <2> SUFFICES ASSUME CONNECTED \in bits'
               PROVE  IF mode = "sta" THEN link' = "ip" \/ Pending("STA_DISCONNECTED")'
                      ELSE stations # {} \/ Pending("AP_STADISCONNECTED")'
    BY <1>1 DEF BitMeansLink, Pending
  <2>1. CONNECTED \in bits =>
            IF mode = "sta" THEN link = "ip" \/ Pending("STA_DISCONNECTED")
            ELSE stations # {} \/ Pending("AP_STADISCONNECTED")
    BY DEF WifiInv, BitMeansLink
  <2>2. /\ events[1] = "GOT_IP" => link = "ip" \/ Pending("STA_DISCONNECTED")'
        /\ events[1] = "AP_STACONNECTED" => stations # {} \/ Pending("AP_STADISCONNECTED")'
    BY <1>2, <1>12 DEF WifiInv, Announced
  <2>3. CASE events[1] = "STA_START"
    BY <1>1, <1>2, <2>3 DEF WifiInv, Started
  <2>4. CASE events[1] = "STA_DISCONNECTED"
    BY <1>1, <1>3, <2>4, WifiAssumption DEF WifiInv, FreshBit
  <2>5. CASE events[1] = "GOT_IP"
    BY <1>1, <1>3, <2>2, <2>5
  <2>6. CASE events[1] = "GOT_SSID_PSWD"
    BY <1>1, <1>3, <1>13, <2>1, <2>6 DEF Dropped
  <2>7. CASE events[1] = "SEND_ACK_DONE"
    BY <1>1, <1>3, <1>13, <2>1, <2>7
  <2>8. CASE events[1] = "AP_STACONNECTED"
    BY <1>1, <1>4, <2>2, <2>8
  <2>9. CASE events[1] = "AP_STADISCONNECTED"
    BY <1>1, <2>9
  <2> QED BY <1>1, <2>3, <2>4, <2>5, <2>6, <2>7, <2>8, <2>9
<1>19. NoStall'
  <2> DEFINE Coming == Pending("STA_START") \/ Pending("STA_DISCONNECTED")
                          \/ Pending("GOT_SSID_PSWD")
  <2> SUFFICES ASSUME mode = "sta", link' = "idle", wifi_retry_num' < MaxRetry,
                      smartconfig => phone # "silent"
               PROVE  Coming'
    BY <1>1 DEF NoStall, Pending
  <2>1. events[1] # "STA_START"
    BY <1>1, <1>2 DEF WifiInv, Started
  <2>2. events[1] # "STA_DISCONNECTED"
    BY <1>1
  <2>3. events[1] # "GOT_SSID_PSWD" /\ link = "idle"
    BY <1>1, <2>1, <2>2
  <2>4. CASE events[1] = "GOT_IP"
    BY <1>2, <1>12, <2>3, <2>4 DEF WifiInv, Announced
  <2>5. CASE events[1] # "GOT_IP"
    <3>1. wifi_retry_num' = wifi_retry_num
      BY <1>1, <2>1, <2>2, <2>3, <2>5
    <3>2. Coming
      BY <2>3, <3>1 DEF WifiInv, NoStall
    <3> HIDE DEF Pending
    <3> QED BY <1>13, <2>1, <2>2, <2>3, <3>2
  <2> QED BY <2>4, <2>5
<1> QED
  BY <1>5, <1>6, <1>7, <1>14, <1>15, <1>16, <1>17, <1>18, <1>19 DEF WifiInv

-----------------------------------------------------------------------------
(* The driver's own steps: an event goes to the end of the queue.           *)

Posted(e) ==
    /\ Len(events) \in Nat
    /\ Len(events') = Len(events) + 1
    /\ \A k \in 1..Len(events) : events'[k] = events[k]
    /\ events'[Len(events) + 1] = e

LEMMA PostQueue ==
    ASSUME TypeOK, NEW e \in StaEvent \cup ApEvent, Post(e)
    PROVE  events' \in Seq(StaEvent \cup ApEvent) /\ Posted(e)
<1> DEFINE E == StaEvent \cup ApEvent
<1>1. events \in Seq(E) /\ e \in E
  BY DEF TypeOK
<1> HIDE DEF E
<1>2. /\ Append(events, e) \in Seq(E)
      /\ Len(events) \in Nat
      /\ Len(Append(events, e)) = Len(events) + 1
      /\ \A k \in 1..Len(events) : Append(events, e)[k] = events[k]
      /\ Append(events, e)[Len(events) + 1] = e
  BY <1>1, AppendFacts
<1>3. events' = Append(events, e)
  BY DEF Post
<1> QED BY <1>2, <1>3 DEF Posted, E

\* What was pending still is, and so is what follows it.
LEMMA PostKeeps ==
    ASSUME NEW e, Posted(e)
    PROVE  /\ Pending(e)'
           /\ \A f : Pending(f) => Pending(f)'
           /\ \A k \in 1..Len(events) : Later(k, e)'
           /\ \A k \in 1..Len(events) : \A f : Later(k, f) => Later(k, f)'
           /\ \A k \in 1..Len(events') :
                 \/ k \in 1..Len(events) /\ events'[k] = events[k]
                 \/ k = Len(events') /\ events'[k] = e
BY DEF Posted, Pending, Later

\* What every such step has in common: it comes after the station's start and
\* touches neither the bits nor the tasks.
LEMMA PostCommon ==
    ASSUME WifiInv, NEW e \in (StaEvent \cup ApEvent) \ {"STA_START"}, Post(e),
           mode = IF e \in StaEvent THEN "sta" ELSE "ap",
           mode = "sta" => link # "idle" \/ sc_at # "none",
           UNCHANGED <<smartconfig, mode, wifi_retry_num, group_vars>>
    PROVE  /\ events' \in Seq(StaEvent \cup ApEvent)
           /\ Posted(e)
           /\ Started'
           /\ FreshBit'
           /\ NoSleeper'
           /\ \A k \in 1..Len(events') :
                 (events'[k] \in StaEvent => mode = "sta") /\ (events'[k] \in ApEvent => mode = "ap")
<1>1. events' \in Seq(StaEvent \cup ApEvent) /\ Posted(e)
  BY PostQueue DEF WifiInv
<1>2. \A k \in 1..Len(events) : events[k] # "STA_START"
  BY DEF WifiInv, Modes, Started, StaEvent
<1>3. Started'
  BY <1>1, <1>2, PostKeeps DEF Started
<1>4. FreshBit' /\ NoSleeper'
  BY DEF WifiInv, FreshBit, NoSleeper, group_vars, CONNECTED
<1>5. \A k \in 1..Len(events) :
         (events[k] \in StaEvent => mode = "sta") /\ (events[k] \in ApEvent => mode = "ap")
  BY DEF WifiInv, Modes
<1>6. (e \in StaEvent => mode = "sta") /\ (e \in ApEvent => mode = "ap")
  BY DEF StaEvent, ApEvent
<1>7. \A k \in 1..Len(events') :
         (events'[k] \in StaEvent => mode = "sta") /\ (events'[k] \in ApEvent => mode = "ap")
  BY <1>1, <1>5, <1>6, PostKeeps
<1> QED BY <1>1, <1>3, <1>4, <1>7

LEMMA GetIpInv == ASSUME WifiInv, GetIp PROVE WifiInv'
<1>1. mode = "sta" /\ link = "associated" /\ link' = "ip"
  BY DEF WifiInv, Modes, GetIp
<1>2. /\ events' \in Seq(StaEvent \cup ApEvent) /\ Posted("GOT_IP")
      /\ Started' /\ FreshBit' /\ NoSleeper'
      /\ \A k \in 1..Len(events') :
            (events'[k] \in StaEvent => mode = "sta") /\ (events'[k] \in ApEvent => mode = "ap")
  BY <1>1, PostCommon DEF GetIp, StaEvent
<1>3. UNCHANGED <<smartconfig, mode, phone, stations, wifi_retry_num, bits, sc_at, client_at>>
  BY DEF GetIp, group_vars
<1>4. TypeOK' /\ Modes'
  BY <1>1, <1>2, <1>3 DEF WifiInv, TypeOK, Modes
<1>5. Announced'
  BY <1>1, <1>2, <1>3, PostKeeps DEF WifiInv, Announced
<1>6. Direct'
  BY <1>1, <1>2, <1>3, PostKeeps DEF WifiInv, Direct
<1>7. BitMeansLink' /\ NoStall'
  BY <1>1, <1>3 DEF BitMeansLink, NoStall
<1> QED BY <1>2, <1>4, <1>5, <1>6, <1>7 DEF WifiInv

LEMMA LinkLostInv == ASSUME WifiInv, LinkLost PROVE WifiInv'
<1>1. mode = "sta" /\ link # "idle" /\ link' = "idle"
  BY DEF WifiInv, Modes, LinkLost
<1>2. /\ events' \in Seq(StaEvent \cup ApEvent) /\ Posted("STA_DISCONNECTED")
      /\ Started' /\ FreshBit' /\ NoSleeper'
      /\ \A k \in 1..Len(events') :
            (events'[k] \in StaEvent => mode = "sta") /\ (events'[k] \in ApEvent => mode = "ap")
  BY <1>1, PostCommon DEF LinkLost, StaEvent
<1>3. UNCHANGED <<smartconfig, mode, phone, stations, wifi_retry_num, bits, sc_at, client_at>>
  BY DEF LinkLost, group_vars
<1>4. TypeOK' /\ Modes'
  BY <1>1, <1>2, <1>3 DEF WifiInv, TypeOK, Modes
<1>5. Announced'
  BY <1>1, <1>2, <1>3, PostKeeps DEF WifiInv, Announced
<1>6. Direct'
  BY <1>1, <1>2, <1>3, PostKeeps DEF WifiInv, Direct
<1>7. BitMeansLink' /\ NoStall'
  BY <1>1, <1>2, <1>3, PostKeeps DEF BitMeansLink, NoStall
<1> QED BY <1>2, <1>4, <1>5, <1>6, <1>7 DEF WifiInv

LEMMA PhoneSendsInv == ASSUME WifiInv, PhoneSends PROVE WifiInv'
<1>1. /\ mode = "sta" /\ smartconfig /\ sc_at # "none"
      /\ phone' = "sent"
  BY DEF WifiInv, Modes, Direct, PhoneSends
<1>2. /\ events' \in Seq(StaEvent \cup ApEvent) /\ Posted("GOT_SSID_PSWD")
      /\ Started' /\ FreshBit' /\ NoSleeper'
      /\ \A k \in 1..Len(events') :
            (events'[k] \in StaEvent => mode = "sta") /\ (events'[k] \in ApEvent => mode = "ap")
  BY <1>1, PostCommon DEF PhoneSends, StaEvent, ApEvent
<1>3. UNCHANGED <<smartconfig, mode, link, stations, wifi_retry_num, bits, sc_at, client_at>>
  BY DEF PhoneSends, group_vars
<1>4. TypeOK' /\ Modes'
  BY <1>1, <1>2, <1>3 DEF WifiInv, TypeOK, Modes
<1>5. Announced'
  BY <1>1, <1>2, <1>3, PostKeeps DEF WifiInv, Announced
<1>6. Direct'
  BY <1>1, <1>2, <1>3, PostKeeps DEF WifiInv, Direct
<1>7. BitMeansLink' /\ NoStall'
  BY <1>1, <1>2, <1>3, PostKeeps DEF WifiInv, BitMeansLink, NoStall
<1> QED BY <1>2, <1>4, <1>5, <1>6, <1>7 DEF WifiInv

LEMMA PhoneAckedInv == ASSUME WifiInv, PhoneAcked PROVE WifiInv'
<1>1. /\ mode = "sta" /\ smartconfig /\ link = "ip"
      /\ phone = "sent" /\ phone' = "acked"
  BY DEF WifiInv, Modes, Direct, PhoneAcked
<1>2. /\ events' \in Seq(StaEvent \cup ApEvent) /\ Posted("SEND_ACK_DONE")
      /\ Started' /\ FreshBit' /\ NoSleeper'
      /\ \A k \in 1..Len(events') :
            (events'[k] \in StaEvent => mode = "sta") /\ (events'[k] \in ApEvent => mode = "ap")
  BY <1>1, PostCommon DEF PhoneAcked, StaEvent, ApEvent
<1>3. UNCHANGED <<smartconfig, mode, link, stations, wifi_retry_num, bits, sc_at, client_at>>
  BY DEF PhoneAcked, group_vars
<1>4. TypeOK' /\ Modes'
  BY <1>1, <1>2, <1>3 DEF WifiInv, TypeOK, Modes
<1>5. Announced'
  BY <1>1, <1>2, <1>3, PostKeeps DEF WifiInv, Announced
<1>6. Direct'
  BY <1>1, <1>2, <1>3, PostKeeps DEF WifiInv, Direct
<1>7. BitMeansLink' /\ NoStall'
  BY <1>1, <1>2, <1>3, PostKeeps DEF WifiInv, BitMeansLink, NoStall
<1> QED BY <1>2, <1>4, <1>5, <1>6, <1>7 DEF WifiInv

LEMMA PeerJoinsInv == ASSUME WifiInv, NEW p \in Peers, PeerJoins(p) PROVE WifiInv'
<1>1. mode = "ap" /\ stations' = stations \cup {p}
  BY DEF PeerJoins
<1>2. /\ events' \in Seq(StaEvent \cup ApEvent) /\ Posted("AP_STACONNECTED")
      /\ Started' /\ FreshBit' /\ NoSleeper'
      /\ \A k \in 1..Len(events') :
            (events'[k] \in StaEvent => mode = "sta") /\ (events'[k] \in ApEvent => mode = "ap")
  BY <1>1, PostCommon DEF PeerJoins, StaEvent, ApEvent
<1>3. UNCHANGED <<smartconfig, mode, link, phone, wifi_retry_num, bits, sc_at, client_at>>
  BY DEF PeerJoins, group_vars
<1>4. TypeOK' /\ Modes'
  BY <1>1, <1>2, <1>3 DEF WifiInv, TypeOK, Modes
<1>5. Announced'
  BY <1>1, <1>2, <1>3, PostKeeps DEF WifiInv, Announced
<1>6. Direct'
  BY <1>1, <1>2, <1>3, PostKeeps DEF WifiInv, Direct, Modes, StaEvent
<1>7. BitMeansLink' /\ NoStall'
  BY <1>1, <1>2, <1>3, PostKeeps DEF WifiInv, BitMeansLink, NoStall
<1> QED BY <1>2, <1>4, <1>5, <1>6, <1>7 DEF WifiInv

LEMMA PeerLeavesInv == ASSUME WifiInv, NEW p \in Peers, PeerLeaves(p) PROVE WifiInv'
<1>1. mode = "ap" /\ stations' \in SUBSET stations
  BY DEF WifiInv, Modes, PeerLeaves
<1>2. /\ events' \in Seq(StaEvent \cup ApEvent) /\ Posted("AP_STADISCONNECTED")
      /\ Started' /\ FreshBit' /\ NoSleeper'
      /\ \A k \in 1..Len(events') :
            (events'[k] \in StaEvent => mode = "sta") /\ (events'[k] \in ApEvent => mode = "ap")
  BY <1>1, PostCommon DEF PeerLeaves, StaEvent, ApEvent
<1>3. UNCHANGED <<smartconfig, mode, link, phone, wifi_retry_num, bits, sc_at, client_at>>
  BY DEF PeerLeaves, group_vars
<1>4. TypeOK' /\ Modes'
  BY <1>1, <1>2, <1>3 DEF WifiInv, TypeOK, Modes
<1>5. Announced'
  BY <1>1, <1>2, <1>3, PostKeeps DEF WifiInv, Announced
<1>6. Direct'
  BY <1>1, <1>2, <1>3, PostKeeps DEF WifiInv, Direct, Modes, StaEvent
<1>7. BitMeansLink' /\ NoStall'
  BY <1>1, <1>2, <1>3, PostKeeps DEF WifiInv, BitMeansLink, NoStall
<1> QED BY <1>2, <1>4, <1>5, <1>6, <1>7 DEF WifiInv

-----------------------------------------------------------------------------
(* The steps that leave the queue alone.                                    *)

\* Initialisation is the one step that begins a queue.
LEMMA InitStationInv == ASSUME WifiInv, InitStation PROVE WifiInv'
<1>1. /\ mode = "off" /\ mode' = "sta" /\ link = "idle" /\ phone = "silent"
      /\ stations = {} /\ bits = {} /\ sc_at = "none"
      /\ UNCHANGED <<smartconfig, link, phone, stations, wifi_retry_num, bits, sc_at, client_at>>
  BY DEF WifiInv, Modes, InitStation, group_vars
<1>2. /\ events' = <<"STA_START">>
      /\ events' \in Seq(StaEvent \cup ApEvent)
      /\ Len(events') = 1 /\ events'[1] = "STA_START"
  BY DEF InitStation, StaEvent
<1>3. TypeOK'
  BY <1>1, <1>2 DEF WifiInv, TypeOK
<1>4. Modes' /\ Started' /\ Announced'
  BY <1>1, <1>2 DEF Modes, Started, Announced, ApEvent
<1>5. FreshBit' /\ NoSleeper' /\ BitMeansLink'
  BY <1>1 DEF FreshBit, NoSleeper, BitMeansLink
<1>6. Direct' /\ NoStall'
  BY <1>1, <1>2 DEF Direct, NoStall, Pending
<1> QED BY <1>3, <1>4, <1>5, <1>6 DEF WifiInv

LEMMA InitSoftapInv == ASSUME WifiInv, InitSoftap PROVE WifiInv'
<1>1. /\ mode = "off" /\ mode' = "ap" /\ link = "idle" /\ phone = "silent"
      /\ stations = {} /\ bits = {} /\ sc_at = "none"
      /\ events = <<>>
      /\ UNCHANGED <<smartconfig, link, phone, stations, events, wifi_retry_num,
                     bits, sc_at, client_at>>
  BY DEF WifiInv, Modes, InitSoftap, group_vars
<1>2. TypeOK'
  BY <1>1 DEF WifiInv, TypeOK
<1>3. Modes' /\ Started' /\ Announced'
  BY <1>1 DEF Modes, Started, Announced
<1>4. FreshBit' /\ NoSleeper' /\ BitMeansLink'
  BY <1>1 DEF FreshBit, NoSleeper, BitMeansLink
<1>5. Direct' /\ NoStall'
  BY <1>1 DEF Direct, NoStall
<1> QED BY <1>2, <1>3, <1>4, <1>5 DEF WifiInv

LEMMA AssociateInv == ASSUME WifiInv, Associate PROVE WifiInv'
<1>1. /\ link = "connecting" /\ link' = "associated"
      /\ UNCHANGED <<smartconfig, mode, phone, stations, events, wifi_retry_num,
                     bits, sc_at, client_at>>
  BY DEF Associate, group_vars
<1>2. mode = "sta"
  BY <1>1 DEF WifiInv, Modes
<1>3. TypeOK' /\ Modes'
  BY <1>1, <1>2 DEF WifiInv, TypeOK, Modes
<1>4. Started' /\ Announced' /\ FreshBit' /\ NoSleeper'
  BY <1>1 DEF WifiInv, Started, Announced, Later, FreshBit, NoSleeper
<1>5. Direct' /\ BitMeansLink' /\ NoStall'
  BY <1>1 DEF WifiInv, Direct, BitMeansLink, NoStall, Pending
<1> QED BY <1>3, <1>4, <1>5 DEF WifiInv

\* The smartconfig task only ever takes bits away, and runs only in a build
\* that has it.
LEMMA SmartInv == ASSUME WifiInv, SmartWait \/ SmartStop PROVE WifiInv'
<1>1. /\ sc_at # "none" /\ sc_at' \in {"none", "wait", "blocked", "stop"}
      /\ bits' \in SUBSET bits
      /\ UNCHANGED <<smartconfig, mode, link, phone, stations, events, wifi_retry_num, client_at>>
  BY DEF SmartWait, SmartStop, driver_vars
<1>2. mode = "sta" /\ smartconfig
  BY <1>1 DEF WifiInv, Modes, Direct
<1>3. TypeOK' /\ Modes'
  BY <1>1, <1>2 DEF WifiInv, TypeOK, Modes
<1>4. Started' /\ Announced' /\ FreshBit' /\ NoSleeper'
  BY <1>1 DEF WifiInv, Started, Announced, Later, FreshBit, NoSleeper
<1>5. Direct' /\ BitMeansLink' /\ NoStall'
  BY <1>1, <1>2 DEF WifiInv, Direct, BitMeansLink, NoStall, Pending
<1> QED BY <1>3, <1>4, <1>5 DEF WifiInv

LEMMA ClientInv ==
    ASSUME WifiInv, NEW c \in Clients, ClientWait(c) \/ ClientRetry(c)
    PROVE  WifiInv'
<1>1. UNCHANGED <<smartconfig, mode, link, phone, stations, events, wifi_retry_num, bits, sc_at>>
  BY DEF ClientWait, ClientRetry, driver_vars
<1>2. TypeOK'
  BY <1>1 DEF WifiInv, TypeOK, ClientWait, ClientRetry
<1>3. NoSleeper'
  BY <1>1 DEF WifiInv, TypeOK, NoSleeper, ClientWait, ClientRetry
<1>4. Modes' /\ Started' /\ Announced' /\ FreshBit'
  BY <1>1 DEF WifiInv, Modes, Started, Announced, Later, FreshBit
<1>5. Direct' /\ BitMeansLink' /\ NoStall'
  BY <1>1 DEF WifiInv, Direct, BitMeansLink, NoStall, Pending
<1> QED BY <1>2, <1>3, <1>4, <1>5 DEF WifiInv

-----------------------------------------------------------------------------
(* The theorems.                                                            *)

LEMMA InvNext == WifiInv /\ [Next]_vars => WifiInv'
<1> SUFFICES ASSUME WifiInv, [Next]_vars PROVE WifiInv'
  OBVIOUS
<1>1. CASE InitStation \/ InitSoftap
  BY <1>1, InitStationInv, InitSoftapInv
<1>2. CASE HandleEvent
  BY <1>2, HandleInv
<1>3. CASE SmartWait \/ SmartStop
  BY <1>3, SmartInv
<1>4. CASE \E c \in Clients : ClientWait(c) \/ ClientRetry(c)
  BY <1>4, ClientInv
<1>5. CASE Driver
  BY <1>5, AssociateInv, GetIpInv, LinkLostInv, PhoneSendsInv, PhoneAckedInv,
     PeerJoinsInv, PeerLeavesInv DEF Driver
<1>6. CASE UNCHANGED vars
  BY <1>6 DEF vars, driver_vars, group_vars, WifiInv, TypeOK, Modes, Started, Announced,
              Later, FreshBit, Direct, NoSleeper, BitMeansLink, NoStall, Pending
<1> QED BY <1>1, <1>2, <1>3, <1>4, <1>5, <1>6 DEF Next

LEMMA Invariance == Spec => []WifiInv
BY InvInit, InvNext, PTL DEF Spec

\* Every variable keeps its type: the retry counter never passes the limit and
\* the event group holds no bit but the two.
THEOREM TypeCorrect == Spec => []TypeOK
<1>1. WifiInv => TypeOK
  BY DEF WifiInv
<1> QED BY <1>1, Invariance, PTL

\* The connection bit is never left over: while it is set the station has an
\* address, a peer is joined, or the event that clears it is on its way.
THEOREM BitCorrect == Spec => []BitMeansLink
<1>1. WifiInv => BitMeansLink
  BY DEF WifiInv
<1> QED BY <1>1, Invariance, PTL

\* No disconnection goes unanswered while retries are left.
THEOREM NoStallCorrect == Spec => []NoStall
<1>1. WifiInv => NoStall
  BY DEF WifiInv
<1> QED BY <1>1, Invariance, PTL

\* Without smartconfig no task waits for a connection that is there: the
\* address is announced by an event or already by the bit, and nobody sleeps
\* on a bit that is set.
THEOREM DirectReleased == Spec => []WaitersReleasedDirect
<1>1. WifiInv => WaitersReleasedDirect
  <2> SUFFICES ASSUME WifiInv, ~smartconfig, link = "ip", events = <<>>
               PROVE  \A c \in Clients : client_at[c] # "blocked"
    BY DEF WaitersReleasedDirect, WaitersReleased
  <2>1. ~Pending("GOT_IP")
    BY DEF Pending
  <2>2. CONNECTED \in bits
    BY <2>1 DEF WifiInv, Direct
  <2> QED BY <2>2 DEF WifiInv, NoSleeper
<1> QED BY <1>1, Invariance, PTL
=============================================================================
