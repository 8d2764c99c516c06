-------------------------------- MODULE Lamp --------------------------------
(***************************************************************************)
(* The RGB lamp of hx-https-mbedtls and hx-tmall (user_led.c): a task per  *)
(* colour that fades it down and up until it is deleted.  The driver keeps *)
(* one task handle per colour and never clears it: deleting through a      *)
(* handle that was never written deletes the caller, and through one whose *)
(* task is gone, whatever is there now.                                    *)
(*                                                                         *)
(* The lamp is a record, so that an application can apply several          *)
(* operations of one callback in order.                                    *)
(***************************************************************************)
EXTENDS Naturals

Colours == {"r", "g", "b"}

CONSTANT MaxFades \* bound: fade tasks of one colour

ASSUME LampAssumption == MaxFades \in Nat \ {0}

VARIABLE lamp

Lamps == [ready   : BOOLEAN,                              \* rgb_init succeeded
          tasks   : [Colours -> 0..MaxFades],             \* live fade tasks
          handle  : [Colours -> {"null", "task", "gone"}],\* gs_m_r_fase_handle, ...
          glow    : [Colours -> {"off", "down", "up"}],   \* what the channel does
          refused : BOOLEAN,                              \* history: xTaskCreate failed
          fault   : {"none", "caller", "stale"}]          \* a wrong task was deleted

LampTypeOK == lamp \in Lamps

LampOff == [ready   |-> FALSE,
            tasks   |-> [c \in Colours |-> 0],
            handle  |-> [c \in Colours |-> "null"],
            glow    |-> [c \in Colours |-> "off"],
            refused |-> FALSE,
            fault   |-> "none"]

\* rgb_init: an error of the timer, a channel or the fade service is logged.
RgbInit == \E ok \in BOOLEAN : lamp' = [lamp EXCEPT !.ready = ok]

\* r_fade_start, g_fade_start, b_fade_start: a task that cannot be created
\* leaves the handle as it was.
FadeStart(l, c, created) ==
    IF created THEN [l EXCEPT !.tasks[c] = @ + 1, !.handle[c] = "task"]
    ELSE [l EXCEPT !.refused = TRUE]

\* Deliberate fault: the channel is stopped but its task goes on.
FadeStopKeepsTask(l, c) == [l EXCEPT !.glow[c] = "off"]

\* r_fade_stop, g_fade_stop, b_fade_stop.
FadeStop(l, c) ==
    CASE l.handle[c] = "task" -> [l EXCEPT !.tasks[c] = @ - 1, !.handle[c] = "gone",
                                           !.glow[c] = "off"]
      [] l.handle[c] = "null" -> [l EXCEPT !.fault = "caller"]
      [] l.handle[c] = "gone" -> [l EXCEPT !.fault = "stale", !.glow[c] = "off"]

\* Half a round of r_fade_task, g_fade_task or b_fade_task.
FadeTask(c) ==
    /\ lamp.tasks[c] > 0
    /\ lamp.ready
    /\ lamp' = [lamp EXCEPT !.glow[c] = IF @ = "down" THEN "up" ELSE "down"]
=============================================================================
