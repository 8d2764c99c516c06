------------------------------ MODULE Weather -------------------------------
(***************************************************************************)
(* hx-https-mbedtls: the application (user_app.c) over its key driver, its *)
(* lamp and its HTTPS client.  A single click changes the colour of the    *)
(* lamp and asks for the weather of the next city.                         *)
(*                                                                         *)
(* The driver's promise to the application is that its callbacks are run   *)
(* one at a time by the esp_timer task.  So driver and application are     *)
(* checked side by side, by what `scope' says: "driver" is the key driver, *)
(* with callbacks that may do to the count what the application's do;      *)
(* "lamp" and "https" are the application, called back at any time, in     *)
(* "lamp" with fade tasks that run or cannot be created, in "https" with   *)
(* request tasks that do.                                                  *)
(***************************************************************************)
EXTENDS Keys, Lamp, Https

VARIABLES
    scope,      \* which part is exercised
    app_at,     \* startup_initialization_task: rgb, wifi, run
    click_num,  \* s_sigle_click_num
    city        \* s_city_select

app_vars == <<app_at, click_num, city>>
weather_vars == <<app_vars, lamp, https_vars>>
vars == <<scope, keys_vars, weather_vars>>

TypeOK ==
    /\ KeysTypeOK /\ LampTypeOK /\ HttpsTypeOK
    /\ scope \in {"driver", "lamp", "https"}
    /\ app_at \in {"rgb", "wifi", "run"}
    /\ click_num \in 0..3
    /\ city \in 0..LastCity

Init ==
    /\ scope \in {"driver", "lamp", "https"}
    /\ KeysInit /\ HttpsInit
    /\ lamp = LampOff
    /\ app_at = "rgb" /\ click_num = 0 /\ city = 0

-----------------------------------------------------------------------------
(* The application.                                                         *)

\* startup_initialization_task and, when the station has its address, the
\* event handler that calls user_app_key_init.
StartupRgb ==
    /\ app_at = "rgb" /\ app_at' = "wifi"
    /\ RgbInit
    /\ UNCHANGED <<click_num, city, https_vars>>

StartupGotIp ==
    /\ app_at = "wifi" /\ app_at' = "run"
    /\ UNCHANGED <<click_num, city, lamp, https_vars>>

\* The lamp's next colour.
ClickLamp(created) ==
    CASE click_num = 0 -> FadeStart(lamp, "r", created)
      [] click_num = 1 -> FadeStart(FadeStop(lamp, "r"), "g", created)
      [] click_num = 2 -> FadeStart(FadeStop(lamp, "g"), "b", created)
      [] click_num = 3 -> FadeStart(FadeStop(lamp, "b"), "r", created)

\* Deliberate fault: the count of cities goes on.
NextCityUnbounded == city + 1

\* The city is passed by its address: until the request task has read it, the
\* next click changes it.
NextCity == IF city = LastCity THEN 1 ELSE city + 1

\* short_pressed_cb of the application, case 1.
SingleClick ==
    /\ app_at = "run"
    /\ \E created \in {TRUE, scope = "https"} : lamp' = ClickLamp(created)
    /\ IF lamp'.fault = "caller"
       THEN UNCHANGED <<click_num, city, https_vars>>
       ELSE /\ click_num' = IF click_num = 3 THEN 1 ELSE click_num + 1
            /\ city' = NextCity
            /\ \/ scope = "https" /\ \E r \in Requests : MakeRequest(r, NextCity)
               \/ RefuseRequest
    /\ UNCHANGED app_at

\* Deliberate fault: the city is chosen after the task was made.
CityOfNextClick(r) == StartRequest(r, NextCity)

\* https_request_by_get_task reads the city where its argument points.
RequestTask(r) == StartRequest(r, city)

\* Nothing is said of what follows a fault, a click that came too early or an
\* answer that is too long.
AppNext ==
  /\ lamp.fault = "none" /\ ~heap_fault /\ ~overlapped /\ ~oversized
  /\ \/ StartupRgb \/ StartupGotIp
     \/ SingleClick
     \/ \E c \in Colours : scope = "lamp" /\ FadeTask(c) /\ UNCHANGED <<app_vars, https_vars>>
     \/ \E r \in Requests : (RequestTask(r) \/ HttpsStep(r)) /\ UNCHANGED <<app_vars, lamp>>

-----------------------------------------------------------------------------
InDriver(A) == scope = "driver" /\ A /\ UNCHANGED <<scope, weather_vars>>

Next ==
    \/ InDriver(KeysNext)
    \/ scope # "driver" /\ AppNext /\ UNCHANGED <<scope, keys_vars>>

\* The interrupt task and the esp_timer task run when they have work.
Fairness ==
    /\ WF_vars(InDriver(GpioIntrTask))
    /\ WF_vars(InDriver(DebounceClear \/ DebounceRead))
    /\ WF_vars(InDriver(ShortPressTimeOut))

Spec == Init /\ [][Next]_vars /\ Fairness

-----------------------------------------------------------------------------
\* The lamp is deleted through a valid handle, one colour fades at a time and
\* it is the one of the last click - unless a fade task could not be created:
\* its handle is then null or stale, and the next click deletes through it.
LampSafe ==
    ~lamp.refused =>
        /\ lamp.fault = "none"
        /\ \A c \in Colours :
             /\ lamp.tasks[c] = IF click_num > 0 /\ c = <<"r", "g", "b">>[click_num] THEN 1 ELSE 0
             /\ lamp.tasks[c] = 0 => lamp.glow[c] = "off"
=============================================================================
