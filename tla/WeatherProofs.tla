---------------------------- MODULE WeatherProofs ---------------------------
(***************************************************************************)
(* Proofs about module Weather: the key driver for any length of its       *)
(* queue, the lamp, and the HTTPS client for any number of requests and    *)
(* cities.                                                                 *)
(***************************************************************************)
EXTENDS Weather, TLAPS

-----------------------------------------------------------------------------
(* The key driver.                                                          *)

\* What user_key_init has set up when it is at each stage.  A queue that was
\* not created is never created.
Setup ==
    /\ init_at \in 4..7 => "task" \in built
    /\ init_at \in 5..7 => "debounce" \in built
    /\ init_at \in 6..7 => "short" \in built
    /\ init_at = 7 => "long" \in built
    /\ "task" \in built => init_at > 3
    /\ "queue" \in built => init_at > 2
    /\ evt_queue > 0 => "queue" \in built

\* Before the driver is ready nothing has happened, unless an interrupt came.
QuietStart ==
    ~unready /\ ~Ready =>
        /\ evt_queue = 0 /\ ~key_transition /\ ~debounce_armed
        /\ debounce_at = "off" /\ ~short_armed /\ long = "off"

\* A queue that was used before it existed will never exist.
NoLateQueue == ~unready /\ null_handle => init_at > 3

\* The long-press timer runs only after a push that is still the last report;
\* when it has fired, the time of a click is over.
PressOrder ==
    /\ long # "off" => reported = PUSH
    /\ ~uneven => long # "old"
    /\ reported = 2 => since = "past"
    /\ ~uneven /\ reported = PUSH /\ long_fired => since = "past"

KeyInv == KeysTypeOK /\ Setup /\ QuietStart /\ NoLateQueue /\ PressOrder /\ KeyAlive /\ OneGesture

LEMMA NextStage ==
    ASSUME init_at \in 1..6
    PROVE  Stages[init_at] \in {"isr", "queue", "task", "debounce", "short", "long"}
BY DEF Stages

LEMMA StageOrder ==
    ASSUME init_at \in 1..6
    PROVE  /\ Stages[init_at] = "queue" <=> init_at = 2
           /\ Stages[init_at] = "task" <=> init_at = 3
           /\ Stages[init_at] = "debounce" <=> init_at = 4
           /\ Stages[init_at] = "short" <=> init_at = 5
           /\ Stages[init_at] = "long" <=> init_at = 6
BY DEF Stages

LEMMA KeysTypeInit == KeysInit => KeysTypeOK
<1> SUFFICES ASSUME KeysInit PROVE KeysTypeOK
  OBVIOUS
<1> USE KeysAssumption DEF KeysInit, PUSH, RELEASE
<1>1. key_transition \in BOOLEAN
  OBVIOUS
<1>2. debounce_armed \in BOOLEAN
  OBVIOUS
<1>3. EdgeTypeOK
  BY <1>1, <1>2 DEF EdgeTypeOK
<1>4. short_armed \in BOOLEAN
  OBVIOUS
<1>5. uneven \in BOOLEAN
  OBVIOUS
<1>6. PressTypeOK
  <2>1. long_fired \in BOOLEAN
    OBVIOUS
  <2> QED BY <1>4, <1>5, <2>1 DEF PressTypeOK
<1>7. unready \in BOOLEAN
  OBVIOUS
<1>8. null_handle \in BOOLEAN
  OBVIOUS
<1> QED BY <1>3, <1>6, <1>7, <1>8 DEF KeysTypeOK

LEMMA KeysType == KeysTypeOK /\ [KeysNext]_keys_vars => KeysTypeOK'
<1> SUFFICES ASSUME KeysTypeOK, [KeysNext]_keys_vars PROVE KeysTypeOK'
  OBVIOUS
<1> USE KeysAssumption
    DEF KeysTypeOK, EdgeTypeOK, PressTypeOK, PUSH, RELEASE, pin_vars, init_vars, edge_vars, press_vars
<1>1. CASE UNCHANGED keys_vars
  BY <1>1 DEF keys_vars
<1>2. CASE PinEdge
  <2> USE <1>2 DEF PinEdge, GpioIntrHandler, Ready
  <2>1. unready' \in BOOLEAN
    OBVIOUS
  <2>2. null_handle' \in BOOLEAN
    OBVIOUS
  <2> QED BY <2>1, <2>2
<1>3. CASE UserKeyInit
  <2>1. built' \subseteq {"isr", "queue", "task", "debounce", "short", "long"}
    BY <1>3, NextStage DEF UserKeyInit
  <2>2. init_at' \in 1..8
    BY <1>3 DEF UserKeyInit, Failed
  <2>3. EdgeTypeOK' /\ PressTypeOK'
    BY <1>3 DEF UserKeyInit
  <2>4. unready' \in BOOLEAN /\ null_handle' \in BOOLEAN
    BY <1>3 DEF UserKeyInit
  <2> QED BY <2>1, <2>2, <2>3, <2>4
<1>4. CASE GpioIntrTask \/ GpioIntrTaskNoQueue
  <2> USE <1>4 DEF GpioIntrTask, GpioIntrTaskNoQueue, EdgeTaken
  <2>1. key_transition' \in BOOLEAN
    OBVIOUS
  <2>2. debounce_armed' \in BOOLEAN
    OBVIOUS
  <2>3. null_handle' \in BOOLEAN
    OBVIOUS
  <2>4. EdgeTypeOK'
    BY <2>1, <2>2
  <2> QED BY <2>3, <2>4
<1>5. CASE DebounceClear
  <2> USE <1>5 DEF DebounceClear
  <2>1. key_transition' \in BOOLEAN
    OBVIOUS
  <2>2. debounce_armed' \in BOOLEAN
    OBVIOUS
  <2> QED BY <2>1, <2>2
<1>6. CASE DebounceRead
  <2> USE <1>6 DEF DebounceRead, ShortPressedCb, Pushed, Released
  <2>1. short_armed' \in BOOLEAN
    OBVIOUS
  <2>2. uneven' \in BOOLEAN
    OBVIOUS
  <2>3. long_fired' \in BOOLEAN
    OBVIOUS
  <2>4. null_handle' \in BOOLEAN
    OBVIOUS
  <2> QED BY <2>1, <2>2, <2>3, <2>4
<1>7. CASE TimePasses \/ ShortPressTimeOut \/ LongPressTimeOut
  <2> USE <1>7 DEF TimePasses, ShortPressTimeOut, LongPressTimeOut
  <2>1. short_armed' \in BOOLEAN
    OBVIOUS
  <2>2. long_fired' \in BOOLEAN
    OBVIOUS
  <2>3. PressTypeOK'
    BY <2>1, <2>2
  <2> QED BY <2>3
<1> QED BY <1>1, <1>2, <1>3, <1>4, <1>5, <1>6, <1>7 DEF KeysNext, KeysQuiet
LEMMA KeyInit == KeysInit => KeyInv
BY KeysTypeInit
   DEF KeysInit, KeyInv, Setup, QuietStart, NoLateQueue, PressOrder, KeyAlive,
       OneGesture, PUSH, RELEASE, Ready

LEMMA KeyInitStage ==
    ASSUME KeyInv, UserKeyInit
    PROVE  KeyInv'
<1> USE DEF UserKeyInit, KeyInv, pin_vars, edge_vars, press_vars
<1>1. KeysTypeOK'
  BY KeysType DEF KeysNext, KeysQuiet
<1>2. Setup'
  BY StageOrder DEF KeysTypeOK, EdgeTypeOK, Setup, Failed
<1>4. NoLateQueue' /\ KeyAlive'
  BY StageOrder DEF KeysTypeOK, Setup, NoLateQueue, KeyAlive, QuietStart, Ready, Failed
<1>3. QuietStart' /\ PressOrder' /\ OneGesture'
  BY DEF KeysTypeOK, QuietStart, PressOrder, OneGesture, Ready
<1> QED BY <1>1, <1>2, <1>3, <1>4

LEMMA KeyPinEdge ==
    ASSUME KeyInv, PinEdge
    PROVE  KeyInv'
<1> USE DEF PinEdge, GpioIntrHandler, KeyInv, init_vars, edge_vars, press_vars
<1>1. KeysTypeOK'
  BY KeysType DEF KeysNext, KeysQuiet
<1>2. Setup' /\ QuietStart'
  BY DEF KeysTypeOK, EdgeTypeOK, Setup, QuietStart, Ready
<1>3. NoLateQueue' /\ KeyAlive'
  BY DEF KeysTypeOK, QuietStart, NoLateQueue, KeyAlive, Ready
<1>4. PressOrder' /\ OneGesture'
  BY DEF PressOrder, OneGesture
<1> QED BY <1>1, <1>2, <1>3, <1>4

LEMMA KeyTask ==
    ASSUME KeyInv, GpioIntrTask \/ GpioIntrTaskNoQueue
    PROVE  KeyInv'
<1> USE DEF GpioIntrTask, GpioIntrTaskNoQueue, EdgeTaken, KeyInv, pin_vars, init_vars,
            edge_vars, press_vars
<1>1. KeysTypeOK'
  BY KeysType DEF KeysNext, KeysQuiet
<1>2. Setup' /\ QuietStart'
  BY DEF KeysTypeOK, EdgeTypeOK, Setup, QuietStart, Ready
<1>4. NoLateQueue'
  BY DEF KeysTypeOK, Setup, NoLateQueue
<1>5. KeyAlive'
  <2>1. CASE GpioIntrTask /\ ~unready /\ ~key_transition
    <3>1. "debounce" \in built
      BY <2>1 DEF KeysTypeOK, EdgeTypeOK, Setup, QuietStart, Ready
    <3> QED BY <2>1, <3>1 DEF KeyAlive
  <2>2. CASE GpioIntrTask /\ (unready \/ key_transition)
    BY <2>2 DEF KeyAlive
  <2>3. CASE GpioIntrTaskNoQueue
    BY <2>3 DEF KeyAlive
  <2> QED BY <2>1, <2>2, <2>3
<1>3. PressOrder' /\ OneGesture'
  BY DEF PressOrder, OneGesture
<1> QED BY <1>1, <1>2, <1>3, <1>4, <1>5

LEMMA KeyDebounce ==
    ASSUME KeyInv, DebounceClear \/ DebounceRead
    PROVE  KeyInv'
<1>1. KeysTypeOK'
  BY KeysType DEF KeysNext, KeysQuiet, KeyInv
<1> USE DEF KeyInv, Setup, QuietStart, NoLateQueue, KeyAlive, Ready, PressOrder, OneGesture,
            pin_vars, init_vars
<1>2. CASE DebounceClear
  BY <1>1, <1>2 DEF DebounceClear, press_vars
<1>3. CASE DebounceRead /\ key_state # level
  BY <1>1, <1>3 DEF DebounceRead, edge_vars, press_vars
<1>4. CASE DebounceRead /\ key_state = level
  <2> USE <1>4 DEF DebounceRead, ShortPressedCb, Pushed, Released, PUSH, RELEASE, edge_vars
  <2>1. Setup' /\ QuietStart' /\ NoLateQueue' /\ KeyAlive'
    BY DEF KeysTypeOK
  <2>2. CASE level = PUSH
    <3>1. reported' = PUSH /\ ~long_fired' /\ (~uneven' => long' # "old")
      BY <2>2 DEF KeysTypeOK, PressTypeOK
    <3>2. PressOrder'
      BY <3>1
    <3> QED BY <1>1, <2>1, <2>2, <3>2
  <2>3. CASE level = RELEASE
    BY <1>1, <2>1, <2>3 DEF KeysTypeOK, PressTypeOK
  <2> QED BY <2>2, <2>3 DEF KeysTypeOK, EdgeTypeOK
<1> QED BY <1>2, <1>3, <1>4

LEMMA KeyTimers ==
    ASSUME KeyInv, ShortPressTimeOut \/ LongPressTimeOut \/ TimePasses
    PROVE  KeyInv'
<1> USE DEF ShortPressTimeOut, LongPressTimeOut, TimePasses, KeyInv, pin_vars, init_vars, edge_vars
<1>1. KeysTypeOK'
  BY KeysType DEF KeysNext, KeysQuiet
<1>2. Setup' /\ QuietStart' /\ NoLateQueue' /\ KeyAlive'
  BY DEF Setup, QuietStart, NoLateQueue, KeyAlive, Ready
<1>3. PressOrder' /\ OneGesture'
  BY DEF PressOrder, OneGesture
<1> QED BY <1>1, <1>2, <1>3

LEMMA KeyStep == KeyInv /\ [KeysNext]_keys_vars => KeyInv'
<1> SUFFICES ASSUME KeyInv, [KeysNext]_keys_vars PROVE KeyInv'
  OBVIOUS
<1>1. CASE UNCHANGED keys_vars
  BY <1>1, KeysType
     DEF keys_vars, pin_vars, init_vars, edge_vars, press_vars, KeyInv, Setup,
         QuietStart, NoLateQueue, KeyAlive, Ready, PressOrder, OneGesture
<1> QED
  BY <1>1, KeyInitStage, KeyPinEdge, KeyTask, KeyDebounce, KeyTimers DEF KeysNext, KeysQuiet

-----------------------------------------------------------------------------
(* The lamp.                                                                *)

\* The colour of the last click.
Turn(c) == click_num > 0 /\ c = <<"r", "g", "b">>[click_num]

\* A fade task lives as long as its handle is good, and only the last click's
\* colour has one.
LampOrder ==
    /\ \A c \in Colours : lamp.tasks[c] = IF lamp.handle[c] = "task" THEN 1 ELSE 0
    /\ lamp.fault = "none" => \A c \in Colours : lamp.handle[c] = "task" => Turn(c)

LampInv == LampTypeOK /\ click_num \in 0..3 /\ LampOrder /\ LampSafe

LEMMA LampInit == Init => LampInv
BY LampAssumption
   DEF Init, LampOff, LampInv, LampTypeOK, Lamps, LampOrder, LampSafe, Turn, Colours

\* What starting and stopping a fade does, field by field.
LEMMA FadeStartFields ==
    ASSUME NEW l \in Lamps, NEW c \in Colours, NEW created \in BOOLEAN, l.tasks[c] = 0
    PROVE  LET n == FadeStart(l, c, created) IN
           /\ n \in Lamps
           /\ created => /\ n.tasks = [l.tasks EXCEPT ![c] = 1]
                         /\ n.handle = [l.handle EXCEPT ![c] = "task"]
                         /\ n.refused = l.refused
           /\ ~created => n.tasks = l.tasks /\ n.handle = l.handle /\ n.refused
           /\ n.glow = l.glow /\ n.fault = l.fault
<1> DEFINE n == FadeStart(l, c, created)
<1>1. CASE created
  <2>1. n = [l EXCEPT !.tasks = [l.tasks EXCEPT ![c] = 1], !.handle = [l.handle EXCEPT ![c] = "task"]]
    BY <1>1 DEF FadeStart, Lamps
  <2>2. [l.tasks EXCEPT ![c] = 1] \in [Colours -> 0..MaxFades]
    BY LampAssumption DEF Lamps
  <2>3. [l.handle EXCEPT ![c] = "task"] \in [Colours -> {"null", "task", "gone"}]
    BY DEF Lamps
  <2> QED BY <1>1, <2>1, <2>2, <2>3 DEF Lamps
<1>2. CASE ~created
  BY <1>2 DEF FadeStart, Lamps
<1> QED BY <1>1, <1>2

LEMMA FadeStopFields ==
    ASSUME NEW l \in Lamps, NEW c \in Colours,
           l.tasks[c] = IF l.handle[c] = "task" THEN 1 ELSE 0
    PROVE  LET n == FadeStop(l, c) IN
           /\ n \in Lamps
           /\ l.handle[c] = "task" =>
                /\ n.tasks = [l.tasks EXCEPT ![c] = 0]
                /\ n.handle = [l.handle EXCEPT ![c] = "gone"]
                /\ n.glow = [l.glow EXCEPT ![c] = "off"]
                /\ n.fault = l.fault
           /\ l.handle[c] # "task" => n.tasks = l.tasks /\ n.handle = l.handle /\ n.fault # "none"
           /\ n.refused = l.refused
<1> DEFINE n == FadeStop(l, c)
<1>1. [l.glow EXCEPT ![c] = "off"] \in [Colours -> {"off", "down", "up"}]
  BY DEF Lamps
<1>2. CASE l.handle[c] = "task"
  <2>1. n = [l EXCEPT !.tasks = [l.tasks EXCEPT ![c] = 0], !.handle = [l.handle EXCEPT ![c] = "gone"],
                      !.glow = [l.glow EXCEPT ![c] = "off"]]
    BY <1>2 DEF FadeStop, Lamps
  <2>2. [l.tasks EXCEPT ![c] = 0] \in [Colours -> 0..MaxFades]
    BY LampAssumption DEF Lamps
  <2>3. [l.handle EXCEPT ![c] = "gone"] \in [Colours -> {"null", "task", "gone"}]
    BY DEF Lamps
  <2> QED BY <1>1, <1>2, <2>1, <2>2, <2>3 DEF Lamps
<1>3. CASE l.handle[c] = "null"
  BY <1>3 DEF FadeStop, Lamps
<1>4. CASE l.handle[c] = "gone"
  <2>1. n = [l EXCEPT !.fault = "stale", !.glow = [l.glow EXCEPT ![c] = "off"]]
    BY <1>4 DEF FadeStop, Lamps
  <2> QED BY <1>1, <1>4, <2>1 DEF Lamps
<1> QED BY <1>2, <1>3, <1>4 DEF Lamps

LEMMA FirstClick ==
    ASSUME LampInv, lamp.fault = "none", NEW created \in BOOLEAN,
           click_num = 0, click_num' = 1, lamp' = FadeStart(lamp, "r", created)
    PROVE  LampInv'
<1>1. lamp \in Lamps /\ "r" \in Colours /\ \A c \in Colours : lamp.tasks[c] = 0 /\ lamp.handle[c] # "task"
  BY DEF LampInv, LampTypeOK, LampOrder, Turn, Colours
<1>2. /\ lamp' \in Lamps
      /\ created => /\ lamp'.tasks = [lamp.tasks EXCEPT !["r"] = 1]
                    /\ lamp'.handle = [lamp.handle EXCEPT !["r"] = "task"]
                    /\ lamp'.refused = lamp.refused
      /\ ~created => lamp'.tasks = lamp.tasks /\ lamp'.handle = lamp.handle /\ lamp'.refused
      /\ lamp'.glow = lamp.glow /\ lamp'.fault = lamp.fault
  BY <1>1, FadeStartFields
<1>3. \A c \in Colours : Turn(c)' <=> c = "r"
  BY DEF Turn
<1>4. LampOrder'
  BY <1>1, <1>2, <1>3 DEF LampOrder, Lamps
<1>5. LampSafe'
  BY <1>1, <1>2, <1>3 DEF LampSafe, LampInv, Lamps, Turn
<1> QED BY <1>2, <1>4, <1>5 DEF LampInv, LampTypeOK

LEMMA NextClick ==
    ASSUME LampInv, lamp.fault = "none", NEW created \in BOOLEAN,
           NEW a \in Colours, NEW b \in Colours, a # b,
           click_num > 0, a = <<"r", "g", "b">>[click_num],
           lamp' = FadeStart(FadeStop(lamp, a), b, created),
           click_num' \in 0..3,
           lamp'.fault # "caller" => \A c \in Colours : Turn(c)' <=> c = b
    PROVE  LampInv'
<1> DEFINE m == FadeStop(lamp, a)
<1>1. /\ lamp \in Lamps
      /\ \A c \in Colours : Turn(c) <=> c = a
      /\ \A c \in Colours : lamp.tasks[c] = IF lamp.handle[c] = "task" THEN 1 ELSE 0
      /\ \A c \in Colours : lamp.handle[c] = "task" => c = a
  BY DEF LampInv, LampTypeOK, LampOrder, Turn
<1>2. /\ m \in Lamps
      /\ lamp.handle[a] = "task" => /\ m.tasks = [lamp.tasks EXCEPT ![a] = 0]
                                    /\ m.handle = [lamp.handle EXCEPT ![a] = "gone"]
                                    /\ m.glow = [lamp.glow EXCEPT ![a] = "off"]
                                    /\ m.fault = lamp.fault
      /\ lamp.handle[a] # "task" => /\ m.tasks = lamp.tasks /\ m.handle = lamp.handle
                                    /\ m.fault # "none"
      /\ m.refused = lamp.refused
  BY <1>1, FadeStopFields
<1>3. \A c \in Colours : m.tasks[c] = 0 /\ m.handle[c] # "task"
  BY <1>1, <1>2 DEF Lamps
<1> HIDE DEF m
<1>4. /\ lamp' \in Lamps
      /\ created => /\ lamp'.tasks = [m.tasks EXCEPT ![b] = 1]
                    /\ lamp'.handle = [m.handle EXCEPT ![b] = "task"]
                    /\ lamp'.refused = m.refused
      /\ ~created => lamp'.tasks = m.tasks /\ lamp'.handle = m.handle /\ lamp'.refused
      /\ lamp'.glow = m.glow /\ lamp'.fault = m.fault
  BY <1>2, <1>3, FadeStartFields DEF m
<1>5. LampOrder'
  BY <1>2, <1>3, <1>4 DEF LampOrder, Lamps
<1>6. LampSafe'
  <2> SUFFICES ASSUME ~lamp'.refused PROVE LampSafe'
    BY DEF LampSafe
  <2>1. /\ created /\ ~lamp.refused
        /\ lamp.handle[a] = "task"
        /\ \A c \in Colours : lamp.tasks[c] = 0 => lamp.glow[c] = "off"
    BY <1>1, <1>2, <1>4 DEF LampInv, LampSafe, Lamps
  <2>2. lamp'.fault = "none" /\ lamp'.tasks = [m.tasks EXCEPT ![b] = 1]
        /\ lamp'.glow = [lamp.glow EXCEPT ![a] = "off"]
    BY <1>2, <1>4, <2>1
  <2>3. \A c \in Colours : lamp'.tasks[c] = IF c = b THEN 1 ELSE 0
    BY <1>2, <1>3, <2>2 DEF Lamps
  <2>4. \A c \in Colours : lamp'.tasks[c] = 0 => lamp'.glow[c] = "off"
    <3> SUFFICES ASSUME NEW c \in Colours, c # b PROVE lamp'.glow[c] = "off"
      BY <2>3
    <3>1. lamp.glow \in [Colours -> {"off", "down", "up"}]
      BY <1>1 DEF Lamps
    <3>2. c # a => lamp.glow[c] = "off"
      BY <1>1, <2>1
    <3> QED BY <2>2, <3>1, <3>2
  <2> QED BY <2>2, <2>3, <2>4 DEF LampSafe, Turn
<1> QED BY <1>4, <1>5, <1>6 DEF LampInv, LampTypeOK

LEMMA ClickStep == ASSUME LampInv, lamp.fault = "none", SingleClick PROVE LampInv'
<1>1. PICK created \in BOOLEAN : lamp' = ClickLamp(created)
  BY DEF SingleClick
<1>2. click_num \in 0..3
  BY DEF LampInv
<1>3. click_num' = IF lamp'.fault = "caller" THEN click_num
                   ELSE IF click_num = 3 THEN 1 ELSE click_num + 1
  BY DEF SingleClick
<1>4. CASE click_num = 0
  <2>1. lamp' = FadeStart(lamp, "r", created)
    BY <1>1, <1>4 DEF ClickLamp
  <2>2. lamp \in Lamps /\ "r" \in Colours /\ lamp.tasks["r"] = 0
    BY <1>4 DEF LampInv, LampTypeOK, LampOrder, Turn, Colours
  <2>3. lamp'.fault = lamp.fault
    BY <2>1, <2>2 DEF FadeStart, Lamps
  <2> QED BY <1>3, <1>4, <2>1, <2>3, FirstClick
<1>5. CASE click_num = 1
  <2>1. lamp' = FadeStart(FadeStop(lamp, "r"), "g", created)
    BY <1>1, <1>5 DEF ClickLamp
  <2> QED BY <1>3, <1>5, <2>1, NextClick DEF Turn, Colours
<1>6. CASE click_num = 2
  <2>1. lamp' = FadeStart(FadeStop(lamp, "g"), "b", created)
    BY <1>1, <1>6 DEF ClickLamp
  <2> QED BY <1>3, <1>6, <2>1, NextClick DEF Turn, Colours
<1>7. CASE click_num = 3
  <2>1. lamp' = FadeStart(FadeStop(lamp, "b"), "r", created)
    BY <1>1, <1>7 DEF ClickLamp
  <2> QED BY <1>3, <1>7, <2>1, NextClick DEF Turn, Colours
<1> QED BY <1>2, <1>4, <1>5, <1>6, <1>7

LEMMA LampFades ==
    ASSUME LampInv, NEW c \in Colours, FadeTask(c), UNCHANGED click_num
    PROVE  LampInv'
<1>1. /\ lamp' = [lamp EXCEPT !.glow = [lamp.glow EXCEPT ![c] = IF @ = "down" THEN "up" ELSE "down"]]
      /\ lamp \in Lamps /\ lamp.tasks[c] > 0
  BY DEF FadeTask, LampInv, LampTypeOK, Lamps
<1>2. lamp' \in Lamps
  BY <1>1 DEF Lamps
<1>3. LampOrder' /\ LampSafe'
  BY <1>1 DEF LampInv, LampOrder, LampSafe, Turn, Lamps
<1> QED BY <1>2, <1>3 DEF LampInv, LampTypeOK

LEMMA LampRgb == ASSUME LampInv, RgbInit, UNCHANGED click_num PROVE LampInv'
BY DEF RgbInit, LampInv, LampTypeOK, Lamps, LampOrder, LampSafe, Turn

LEMMA LampStep == LampInv /\ [Next]_vars => LampInv'
<1> SUFFICES ASSUME LampInv, [Next]_vars PROVE LampInv'
  OBVIOUS
<1>1. CASE UNCHANGED <<lamp, click_num>>
  BY <1>1 DEF LampInv, LampTypeOK, LampOrder, LampSafe, Turn
<1>2. CASE SingleClick /\ lamp.fault = "none"
  BY <1>2, ClickStep
<1>3. CASE RgbInit /\ UNCHANGED click_num
  BY <1>3, LampRgb
<1>4. CASE UNCHANGED click_num /\ \E c \in Colours : FadeTask(c)
  BY <1>4, LampFades
<1> QED
  BY <1>1, <1>2, <1>3, <1>4
     DEF Next, InDriver, AppNext, StartupRgb, StartupGotIp, vars, weather_vars, app_vars

-----------------------------------------------------------------------------
(* The HTTPS client, as long as no request overlaps another and every       *)
(* answer comes in one record.                                              *)

Orderly == ~overlapped /\ ~oversized

\* The buffer allocated last is this request's, and nothing is in it.
OwnBuffer(r) == json_ptr = r /\ buffer[r] = "live" /\ jobs[r] = 0

\* What holds of request r, by the place where it is.
Place(r) ==
    /\ req_at[r] = "made" => want[r] = city /\ jobs[r] = 0
    /\ req_at[r] \in {"made", "connect", "write"} => records[r] = 0
    /\ req_at[r] \in {"connect", "write"} => url = want[r] /\ OwnBuffer(r)
    /\ req_at[r] = "read" => asked[r] = want[r] /\ (records[r] = 0 => OwnBuffer(r))
    /\ req_at[r] = "copy" =>
         records[r] = 1 /\ asked[r] = want[r] /\ recv_buff = want[r] /\ OwnBuffer(r)

\* And what holds of its answer.
Answer(r) ==
    /\ jobs[r] > 0 => jobs[r] = 1 /\ answer[r] = want[r] /\ buffer[r] = "live" /\ records[r] > 0
    /\ buffer[r] = "live" /\ records[r] > 0 /\ jobs[r] = 0 /\ req_at[r] # "copy" => r \in unparsed

OneWaits == \A q, r \in Requests : ~Served(q) /\ ~Served(r) => q = r

HttpsOrder ==
    /\ OneWaits
    /\ \A r \in Requests : Place(r) /\ Answer(r)
    /\ ~heap_fault

HttpsInv == HttpsTypeOK /\ city \in 0..LastCity /\ (Orderly => HttpsOrder)

LEMMA HttpsInvInit == Init => HttpsInv
<1> SUFFICES ASSUME Init PROVE HttpsInv
  OBVIOUS
<1>1. HttpsTypeOK /\ city \in 0..LastCity
  <2> USE HttpsAssumption DEF Init, HttpsInit
  <2>1. overlapped \in BOOLEAN
    OBVIOUS
  <2>2. oversized \in BOOLEAN
    OBVIOUS
  <2>3. heap_fault \in BOOLEAN
    OBVIOUS
  <2> QED BY <2>1, <2>2, <2>3 DEF HttpsTypeOK
<1>2. HttpsOrder
  BY DEF Init, HttpsInit, HttpsOrder, OneWaits, Served, Place, Answer, OwnBuffer
<1> QED BY <1>1, <1>2 DEF HttpsInv

LEMMA HttpsRefuse ==
    ASSUME HttpsInv, Orderly, RefuseRequest, city' \in 0..LastCity
    PROVE  HttpsInv'
<1> USE DEF RefuseRequest, NoteOverlap, shared_vars, heap_vars
<1>1. overlapped' \in BOOLEAN
  OBVIOUS
<1>2. HttpsTypeOK'
  BY <1>1 DEF HttpsInv, HttpsTypeOK
<1>3. ASSUME Orderly' PROVE HttpsOrder'
  <2>1. \A r \in Requests : Served(r)
    BY <1>3 DEF Orderly
  <2> QED
    BY <2>1 DEF HttpsInv, HttpsOrder, Orderly, OneWaits, Served, Place, Answer, OwnBuffer
<1> QED BY <1>2, <1>3 DEF HttpsInv

LEMMA HttpsMake ==
    ASSUME HttpsInv, Orderly, NEW r \in Requests, city' \in 0..LastCity, MakeRequest(r, city')
    PROVE  HttpsInv'
<1> USE DEF MakeRequest, NoteOverlap, shared_vars, To
<1>1. overlapped' \in BOOLEAN
  OBVIOUS
<1>2. HttpsTypeOK'
  <2>1. /\ req_at' \in [Requests -> {"idle", "made", "connect", "write", "read", "copy", "exit"}]
        /\ asked' \in [Requests -> 0..LastCity] /\ want' \in [Requests -> 0..LastCity]
        /\ records' \in [Requests -> 0..2]
    BY HttpsAssumption DEF HttpsInv, HttpsTypeOK
  <2>2. /\ buffer' \in [Requests -> {"none", "live", "freed"}]
        /\ answer' \in [Requests -> 0..LastCity]
        /\ unparsed' \subseteq Requests
    BY HttpsAssumption DEF HttpsInv, HttpsTypeOK
  <2> QED BY <1>1, <2>1, <2>2 DEF HttpsInv, HttpsTypeOK
<1>3. ASSUME Orderly' PROVE HttpsOrder'
  <2>1. \A q \in Requests : Served(q)
    BY <1>3 DEF Orderly, Served
  <2>2. OneWaits'
    BY <2>1 DEF HttpsInv, HttpsTypeOK, OneWaits, Served
  <2>3. ASSUME NEW q \in Requests PROVE Place(q)' /\ Answer(q)'
    BY <2>1, <2>3 DEF HttpsInv, HttpsTypeOK, HttpsOrder, Orderly, Served, Place, Answer, OwnBuffer
  <2> QED BY <2>2, <2>3 DEF HttpsInv, HttpsOrder
<1> QED BY <1>2, <1>3 DEF HttpsInv

LEMMA HttpsTask ==
    ASSUME HttpsInv, Orderly, NEW r \in Requests, RequestTask(r), UNCHANGED city
    PROVE  HttpsInv'
<1> USE DEF RequestTask, StartRequest, HttpUrlParse, AllocateAnswer, note_vars, To
<1>1. HttpsTypeOK'
  BY DEF HttpsInv, HttpsTypeOK
<1>2. ~Served(r)
  BY DEF Served
<1>3. OneWaits'
  BY <1>2 DEF HttpsInv, HttpsTypeOK, HttpsOrder, OneWaits, Served
<1>4. ASSUME NEW q \in Requests PROVE Place(q)' /\ Answer(q)'
  <2>1. CASE q = r
    BY <2>1 DEF HttpsInv, HttpsTypeOK, HttpsOrder, Place, Answer, OwnBuffer
  <2>2. CASE q # r
    <3>1. Served(q)
      BY <1>2, <2>2 DEF HttpsInv, HttpsOrder, OneWaits
    <3> QED
      BY <2>2, <3>1 DEF HttpsInv, HttpsTypeOK, HttpsOrder, Served, Place, Answer, OwnBuffer
  <2> QED BY <2>1, <2>2
<1> QED BY <1>1, <1>3, <1>4 DEF HttpsInv, HttpsOrder

LEMMA HttpsTls ==
    ASSUME HttpsInv, Orderly, NEW r \in Requests, UNCHANGED city,
           TlsSetup(r) \/ WriteRequest(r) \/ ReadEnd(r) \/ Exit(r)
    PROVE  HttpsInv'
<1> USE DEF TlsSetup, WriteRequest, ReadEnd, Exit, shared_vars, heap_vars, note_vars, To
<1>1. HttpsTypeOK'
  BY DEF HttpsInv, HttpsTypeOK
<1>2. OneWaits'
  BY DEF HttpsInv, HttpsTypeOK, HttpsOrder, OneWaits, Served
<1>3. ASSUME NEW q \in Requests PROVE Place(q)' /\ Answer(q)'
  BY <1>3 DEF HttpsInv, HttpsTypeOK, HttpsOrder, Place, Answer, OwnBuffer
<1> QED BY <1>1, <1>2, <1>3 DEF HttpsInv, HttpsOrder

LEMMA HttpsRead ==
    ASSUME HttpsInv, Orderly, NEW r \in Requests, UNCHANGED city, ReadRecord(r)
    PROVE  HttpsInv'
<1> USE DEF ReadRecord, heap_vars, To
<1>1. oversized' \in BOOLEAN
  BY DEF HttpsInv, HttpsTypeOK
<1>2. HttpsTypeOK'
  BY <1>1 DEF HttpsInv, HttpsTypeOK
<1>3. ASSUME Orderly' PROVE HttpsOrder'
  <2>1. records[r] = 0 /\ ~Served(r)
    <3>1. ~(records[r] > 0)
      BY <1>3 DEF Orderly
    <3> QED BY <3>1 DEF HttpsInv, HttpsTypeOK, Served
  <2>2. OneWaits'
    BY <2>1 DEF HttpsInv, HttpsTypeOK, HttpsOrder, OneWaits, Served
  <2>3. ASSUME NEW q \in Requests PROVE Place(q)' /\ Answer(q)'
    <3>1. CASE q = r
      BY <2>1, <3>1 DEF HttpsInv, HttpsTypeOK, HttpsOrder, Place, Answer, OwnBuffer
    <3>2. CASE q # r
      <4>1. Served(q)
        BY <2>1, <3>2 DEF HttpsInv, HttpsOrder, OneWaits
      <4> QED
        BY <3>2, <4>1 DEF HttpsInv, HttpsTypeOK, HttpsOrder, Served, Place, Answer, OwnBuffer
    <3> QED BY <3>1, <3>2
  <2> QED BY <2>2, <2>3 DEF HttpsInv, HttpsOrder
<1> QED BY <1>2, <1>3 DEF HttpsInv

LEMMA HttpsCopy ==
    ASSUME HttpsInv, Orderly, NEW r \in Requests, UNCHANGED city, CopyRecord(r)
    PROVE  HttpsInv'
<1> USE DEF CopyRecord, shared_vars, To
<1>1. json_ptr = r /\ req_at[r] = "copy" /\ ~heap_fault /\ Place(r)
  BY DEF HttpsInv, HttpsOrder, Place, OwnBuffer
<1>2. HttpsTypeOK'
  <2>1. oversized' \in BOOLEAN
    OBVIOUS
  <2>2. heap_fault' \in BOOLEAN
    OBVIOUS
  <2> QED BY <1>1, <2>1, <2>2 DEF HttpsInv, HttpsTypeOK
<1>3. ASSUME Orderly' PROVE HttpsOrder'
  <2>1. OneWaits'
    BY <1>1 DEF HttpsInv, HttpsTypeOK, HttpsOrder, OneWaits, Served
  <2>2. ASSUME NEW q \in Requests PROVE Place(q)' /\ Answer(q)'
    <3>1. CASE q = r
      BY <1>1, <3>1 DEF HttpsInv, HttpsTypeOK, Place, Answer, OwnBuffer
    <3>2. CASE q # r
      BY <1>1, <3>2 DEF HttpsInv, HttpsTypeOK, HttpsOrder, Place, Answer, OwnBuffer
    <3> QED BY <3>1, <3>2
  <2>3. ~heap_fault'
    BY <1>1, <1>3 DEF Orderly, Place, OwnBuffer
  <2> QED BY <2>1, <2>2, <2>3 DEF HttpsOrder
<1> QED BY <1>2, <1>3 DEF HttpsInv

LEMMA HttpsJson ==
    ASSUME HttpsInv, Orderly, NEW b \in Requests, UNCHANGED city, JsonTask(b)
    PROVE  HttpsInv'
<1> USE DEF JsonTask, shared_vars, note_vars
<1>1. ~heap_fault /\ Answer(b) /\ Place(b) /\ jobs[b] = 1 /\ buffer[b] = "live"
  BY DEF HttpsInv, HttpsOrder, Answer
<1>2. ~heap_fault'
  BY <1>1
<1>3. HttpsTypeOK'
  BY <1>1, <1>2 DEF HttpsInv, HttpsTypeOK
<1>4. OneWaits'
  BY DEF HttpsInv, HttpsOrder, OneWaits, Served
<1>5. ASSUME NEW q \in Requests PROVE Place(q)' /\ Answer(q)'
  BY <1>1, <1>5 DEF HttpsInv, HttpsTypeOK, HttpsOrder, Place, Answer, OwnBuffer
<1> QED BY <1>2, <1>3, <1>4, <1>5 DEF HttpsInv, HttpsOrder

\* A read answers the request that was sent, also when it is a second one.
AskedOwn ==
    ~overlapped => \A r \in Requests : req_at[r] \in {"read", "copy"} => asked[r] = want[r]

LEMMA AskedRecords ==
    ASSUME HttpsInv, Orderly, NEW r \in Requests, ReadRecord(r) \/ CopyRecord(r)
    PROVE  AskedOwn'
BY DEF ReadRecord, CopyRecord, To, shared_vars, heap_vars, HttpsInv, HttpsTypeOK, HttpsOrder,
       Place, AskedOwn

LEMMA AskedOrderly == HttpsInv' /\ Orderly' => AskedOwn'
BY DEF HttpsInv, HttpsOrder, Place, AskedOwn

LEMMA CityType == HttpsInv => NextCity \in 0..LastCity
BY HttpsAssumption DEF HttpsInv, NextCity

LEMMA HttpsAction ==
    ASSUME HttpsInv, AskedOwn, AppNext
    PROVE  HttpsInv' /\ AskedOwn'
<1>1. Orderly
  BY DEF AppNext, Orderly
<1>2. CASE UNCHANGED <<city, https_vars>>
  BY <1>2 DEF https_vars, shared_vars, heap_vars, note_vars, HttpsInv, HttpsTypeOK, Orderly,
       HttpsOrder, OneWaits, Served, Place, Answer, OwnBuffer, AskedOwn
<1>3. CASE SingleClick /\ ~UNCHANGED <<city, https_vars>>
  <2>1. city' = NextCity /\ city' \in 0..LastCity
    BY <1>3, CityType DEF SingleClick
  <2>2. RefuseRequest \/ \E r \in Requests : MakeRequest(r, city')
    BY <1>3, <2>1 DEF SingleClick
  <2>3. HttpsInv'
    BY <1>1, <2>1, <2>2, HttpsRefuse, HttpsMake
  <2>4. UNCHANGED oversized
    BY <2>2 DEF RefuseRequest, MakeRequest
  <2>5. AskedOwn'
    BY <1>1, <2>3, <2>4, AskedOrderly DEF Orderly, AskedOwn
  <2> QED BY <2>3, <2>5
<1>4. ASSUME NEW r \in Requests, RequestTask(r) \/ HttpsStep(r), UNCHANGED <<app_vars, lamp>>
      PROVE  HttpsInv' /\ AskedOwn'
  <2> USE <1>4 DEF app_vars, HttpsStep
  <2>1. HttpsInv'
    BY <1>1, HttpsTask, HttpsTls, HttpsRead, HttpsCopy, HttpsJson
  <2>2. CASE ReadRecord(r) \/ CopyRecord(r)
    BY <1>1, <2>1, <2>2, AskedRecords
  <2>3. CASE ~(ReadRecord(r) \/ CopyRecord(r))
    <3>1. UNCHANGED oversized
      BY <2>3 DEF RequestTask, StartRequest, TlsSetup, WriteRequest, ReadEnd, Exit, JsonTask, note_vars
    <3> QED BY <1>1, <2>1, <3>1, AskedOrderly DEF Orderly, AskedOwn
  <2> QED BY <2>2, <2>3
<1> QED
  BY <1>2, <1>3, <1>4 DEF AppNext, StartupRgb, StartupGotIp, app_vars

LEMMA HttpsAll == HttpsInv /\ AskedOwn /\ [Next]_vars => HttpsInv' /\ AskedOwn'
<1> SUFFICES ASSUME HttpsInv, AskedOwn, [Next]_vars PROVE HttpsInv' /\ AskedOwn'
  OBVIOUS
<1>1. CASE UNCHANGED <<city, https_vars>>
  BY <1>1 DEF https_vars, shared_vars, heap_vars, note_vars, HttpsInv, HttpsTypeOK, Orderly,
       HttpsOrder, OneWaits, Served, Place, Answer, OwnBuffer, AskedOwn
<1>2. CASE AppNext
  BY <1>2, HttpsAction
<1> QED
  BY <1>1, <1>2 DEF Next, InDriver, vars, weather_vars, app_vars

-----------------------------------------------------------------------------
(* The whole.                                                               *)

\* Which part is exercised, and how far the application is.
AppInv == scope \in {"driver", "lamp", "https"} /\ app_at \in {"rgb", "wifi", "run"}

WeatherInv == AppInv /\ KeyInv /\ LampInv /\ HttpsInv /\ AskedOwn

LEMMA WeatherInit == Init => WeatherInv
<1> SUFFICES ASSUME Init PROVE WeatherInv
  OBVIOUS
<1>1. KeysInit /\ AppInv /\ AskedOwn
  BY DEF Init, AppInv, AskedOwn, HttpsInit
<1> QED BY <1>1, KeyInit, LampInit, HttpsInvInit DEF WeatherInv

LEMMA WeatherStep == WeatherInv /\ [Next]_vars => WeatherInv'
<1> SUFFICES ASSUME WeatherInv, [Next]_vars PROVE WeatherInv'
  OBVIOUS
<1>1. [KeysNext]_keys_vars
  BY DEF Next, InDriver, vars
<1>2. AppInv'
  BY DEF WeatherInv, AppInv, Next, InDriver, AppNext, StartupRgb, StartupGotIp, SingleClick,
         vars, weather_vars, app_vars
<1> QED BY <1>1, <1>2, KeyStep, LampStep, HttpsAll DEF WeatherInv

LEMMA WeatherAlways == Spec => []WeatherInv
<1>1. Init => WeatherInv
  BY WeatherInit
<1>2. WeatherInv /\ [Next]_vars => WeatherInv'
  BY WeatherStep
<1> QED BY <1>1, <1>2, PTL DEF Spec

\* Every variable of driver, lamp and client keeps its type: in particular a
\* fade task is never started twice (user_led.c) and no request goes to a city
\* that does not exist (user_app.c).
THEOREM TypeCorrect == Spec => []TypeOK
<1>1. WeatherInv => TypeOK
  BY DEF WeatherInv, AppInv, KeyInv, LampInv, HttpsInv, TypeOK
<1> QED BY <1>1, WeatherAlways, PTL

\* The transition bit of a key is never set without a debounce timer that will
\* clear it, whatever the length of the queue, unless an interrupt came during
\* user_key_init (user_key.c).
THEOREM KeyAliveCorrect == Spec => []KeyAlive
<1>1. WeatherInv => KeyAlive
  BY DEF WeatherInv, KeyInv
<1> QED BY <1>1, WeatherAlways, PTL

\* The timers of the short and the long press never run together, and a press
\* reported as long is not counted as a click (user_key.c).
THEOREM OneGestureCorrect == Spec => []OneGesture
<1>1. WeatherInv => OneGesture
  BY DEF WeatherInv, KeyInv
<1> QED BY <1>1, WeatherAlways, PTL

\* Until a fade task is refused, one colour fades, the one of the last click,
\* and no task is deleted through a wrong handle (user_led.c).
THEOREM LampCorrect == Spec => []LampSafe
<1>1. WeatherInv => LampSafe
  BY DEF WeatherInv, LampInv
<1> QED BY <1>1, WeatherAlways, PTL

\* For any number of cities and requests, what is asked and printed is the city
\* of the click, as long as no request overlaps another (user_http_s.c).
THEOREM OwnCityCorrect == Spec => []OwnCity
<1>1. WeatherInv => OwnCity
  BY DEF WeatherInv, HttpsInv, AskedOwn, Orderly, HttpsOrder, Answer, OwnCity
<1> QED BY <1>1, WeatherAlways, PTL

\* For any number of requests, the answer's buffer is used only while it is
\* live, freed once, and lost only for want of a task (user_http_s.c).
THEOREM AnswerCorrect == Spec => []AnswerBuffer
<1>1. WeatherInv => AnswerBuffer
  <2> SUFFICES ASSUME WeatherInv, ~overlapped, ~oversized PROVE AnswerBuffer
    BY DEF AnswerBuffer
  <2>1. HttpsOrder /\ HttpsTypeOK
    BY DEF WeatherInv, HttpsInv, Orderly
  <2> QED BY <2>1 DEF HttpsOrder, HttpsTypeOK, Answer, AnswerBuffer
<1> QED BY <1>1, WeatherAlways, PTL
=============================================================================
