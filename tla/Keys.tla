-------------------------------- MODULE Keys --------------------------------
(***************************************************************************)
(* The key driver of hx-https-mbedtls (user_key.c) for the one key that    *)
(* the board has (BOARD_BUTTON_COUNT).  The pin raises an interrupt at     *)
(* every edge; the handler queues it, a task records the level and starts  *)
(* the debounce timer, and the callbacks of three one-shot timers - which  *)
(* the esp_timer task runs one after the other - tell short presses from   *)
(* long ones.  The two tasks may run on different cores.                   *)
(*                                                                         *)
(* Time is left out but for what the code compares: whether the last       *)
(* report is less than MULTI_PRESSED_TIMER ago.                            *)
(***************************************************************************)
EXTENDS Naturals

CONSTANTS
    EvtQueueLen, \* length of gpio_evt_queue (10 in the code)
    CountCap     \* bound: short_pressed_counts from here on are one value

ASSUME KeysAssumption == EvtQueueLen \in Nat \ {0} /\ CountCap \in Nat \ {0}

PUSH    == 0   \* APP_KEY_PUSH: the pin is low
RELEASE == 1   \* APP_KEY_RELEASE

\* What user_key_init sets up, in its order.
Stages == <<"isr", "queue", "task", "debounce", "short", "long">>

VARIABLES
    level,          \* of the pin
    built,          \* what user_key_init has set up
    init_at,        \* its next stage; 7 when it has returned ESP_OK
    evt_queue,      \* number of entries in gpio_evt_queue
    key_state,      \* gs_key_state: the level when the interrupt was handled
    key_transition, \* gs_key_transition
    debounce_armed, \* the debounce timer runs
    debounce_at,    \* its callback: off, or read: the level is not read yet
    short_armed,    \* the short-press timer runs
    long,           \* the long-press timer: off, armed, old (pushed again)
    counts,         \* short_pressed_counts
    since,          \* last_time: less than 250 ms ago (recent) or not (past)
    reported,       \* history: the last level given to short_pressed_cb
    uneven,         \* history: a level was reported twice in a row
    long_fired,     \* history: the long press was reported since the push
    unready,        \* history: an interrupt came before the driver was ready
    null_handle     \* history: a queue or timer was used that is not there

pin_vars == <<level, unready>>
init_vars == <<built, init_at>>
edge_vars == <<key_state, key_transition, debounce_armed>>
press_vars == <<short_armed, long, counts, since, reported, uneven, long_fired>>
keys_vars == <<pin_vars, init_vars, evt_queue, edge_vars, debounce_at,
               press_vars, null_handle>>

EdgeTypeOK ==
    /\ level \in {PUSH, RELEASE} /\ key_state \in {PUSH, RELEASE}
    /\ evt_queue \in 0..EvtQueueLen
    /\ key_transition \in BOOLEAN /\ debounce_armed \in BOOLEAN
    /\ debounce_at \in {"off", "read"}

PressTypeOK ==
    /\ short_armed \in BOOLEAN
    /\ long \in {"off", "armed", "old"}
    /\ counts \in 0..CountCap
    /\ since \in {"recent", "past"}
    /\ reported \in {PUSH, RELEASE, 2}
    /\ uneven \in BOOLEAN /\ long_fired \in BOOLEAN

KeysTypeOK ==
    /\ built \subseteq {"isr", "queue", "task", "debounce", "short", "long"}
    /\ init_at \in 1..8
    /\ EdgeTypeOK /\ PressTypeOK
    /\ unready \in BOOLEAN /\ null_handle \in BOOLEAN

KeysInit ==
    /\ level \in {PUSH, RELEASE}
    /\ built = {} /\ init_at = 1
    /\ evt_queue = 0 /\ key_state = 0 /\ key_transition = FALSE
    /\ debounce_armed = FALSE /\ debounce_at = "off"
    /\ short_armed = FALSE /\ long = "off"
    /\ counts = 0 /\ since = "past"
    /\ reported = 2 /\ uneven = FALSE /\ long_fired = FALSE
    /\ unready = FALSE /\ null_handle = FALSE

Ready == init_at = 7
Failed == 8

-----------------------------------------------------------------------------
(* user_key_init: the interrupts are on before the queue, the task and the  *)
(* timers exist.  Every stage may fail; only a queue that cannot be created *)
(* goes unnoticed.                                                          *)

UserKeyInit ==
    /\ init_at \in 1..6
    /\ \/ built' = built \cup {Stages[init_at]} /\ init_at' = init_at + 1
       \/ built' = built /\ init_at' = IF Stages[init_at] = "queue" THEN 3 ELSE Failed
    /\ UNCHANGED <<pin_vars, evt_queue, edge_vars, debounce_at, press_vars, null_handle>>

-----------------------------------------------------------------------------
(* The pin, its interrupt and the task behind it.                           *)

\* gpio_intr_handler: a full queue drops the entry.
GpioIntrHandler ==
    /\ evt_queue' = IF "queue" \in built /\ evt_queue < EvtQueueLen
                    THEN evt_queue + 1 ELSE evt_queue
    /\ null_handle' = (null_handle \/ "queue" \notin built)

\* The pin changes, by a finger or a bounce.
PinEdge ==
    /\ level' = 1 - level
    /\ IF "isr" \in built
       THEN GpioIntrHandler /\ unready' = (unready \/ ~Ready)
       ELSE UNCHANGED <<evt_queue, unready, null_handle>>
    /\ UNCHANGED <<init_vars, edge_vars, debounce_at, press_vars>>

\* Deliberate fault: the task starts the timer only for a falling edge.
IntrStartsForPush ==
    IF key_transition
    THEN UNCHANGED <<edge_vars, null_handle>>
    ELSE /\ key_state' = level
         /\ key_transition' = TRUE
         /\ debounce_armed' = (debounce_armed \/ ("debounce" \in built /\ level = PUSH))
         /\ UNCHANGED null_handle

\* An edge of a key whose transition bit is set is ignored.
EdgeTaken ==
    IF key_transition
    THEN UNCHANGED <<edge_vars, null_handle>>
    ELSE /\ key_state' = level
         /\ key_transition' = TRUE
         /\ debounce_armed' = (debounce_armed \/ "debounce" \in built)
         /\ null_handle' = (null_handle \/ "debounce" \notin built)

\* One round of gpio_intr_task_thread.
GpioIntrTask ==
    /\ "task" \in built
    /\ evt_queue > 0
    /\ evt_queue' = evt_queue - 1
    /\ EdgeTaken
    /\ UNCHANGED <<pin_vars, init_vars, debounce_at, press_vars>>

\* The task waits on a queue that was never created.
GpioIntrTaskNoQueue ==
    /\ "task" \in built /\ "queue" \notin built
    /\ ~null_handle
    /\ null_handle' = TRUE
    /\ UNCHANGED <<pin_vars, init_vars, evt_queue, edge_vars, debounce_at, press_vars>>

-----------------------------------------------------------------------------
(* The timers' callbacks.                                                   *)

\* Deliberate fault: a release does not stop the long-press timer.
ReleaseKeepsLong ==
    /\ UNCHANGED long
    /\ IF since = "recent"
       THEN /\ counts' = IF counts < CountCap THEN counts + 1 ELSE counts
            /\ short_armed' = (short_armed \/ "short" \in built)
            /\ null_handle' = (null_handle \/ ~({"short", "long"} \subseteq built))
       ELSE /\ counts' = 0
            /\ null_handle' = (null_handle \/ "long" \notin built)
            /\ UNCHANGED short_armed

\* short_pressed_cb of the driver, one operator per case of its switch.
Pushed ==
    /\ short_armed' = FALSE
    /\ long' = IF "long" \notin built THEN long
               ELSE IF long = "off" THEN "armed" ELSE "old"
    /\ null_handle' = (null_handle \/ ~({"short", "long"} \subseteq built))
    /\ UNCHANGED counts

Released ==
    /\ long' = "off"
    /\ IF since = "recent"
       THEN /\ counts' = IF counts < CountCap THEN counts + 1 ELSE counts
            /\ short_armed' = (short_armed \/ "short" \in built)
            /\ null_handle' = (null_handle \/ ~({"short", "long"} \subseteq built))
       ELSE /\ counts' = 0
            /\ null_handle' = (null_handle \/ "long" \notin built)
            /\ UNCHANGED short_armed

ShortPressedCb(key_action) ==
    /\ IF key_action = PUSH THEN Pushed ELSE Released
    /\ since' = "recent"
    /\ reported' = key_action
    /\ uneven' = (uneven \/ reported = key_action)
    /\ long_fired' = (long_fired /\ key_action # PUSH)

\* Deliberate fault: the bit stays when the level is not the recorded one.
BitStaysOnBounce ==
    /\ debounce_armed /\ debounce_at = "off"
    /\ debounce_armed' = FALSE
    /\ key_transition' = (key_transition /\ key_state # level)
    /\ debounce_at' = IF key_transition /\ key_state = level THEN "read" ELSE "off"
    /\ UNCHANGED <<pin_vars, init_vars, evt_queue, key_state, press_vars, null_handle>>

\* after_key_decounce_cb clears the bit before it reads the level: between
\* the two, the interrupt task may take the next edge.
DebounceClear ==
    /\ debounce_armed /\ debounce_at = "off"
    /\ debounce_armed' = FALSE
    /\ key_transition' = FALSE
    /\ debounce_at' = IF key_transition THEN "read" ELSE "off"
    /\ UNCHANGED <<pin_vars, init_vars, evt_queue, key_state, press_vars, null_handle>>

\* The level counts if it is still the recorded one.
DebounceRead ==
    /\ debounce_at = "read"
    /\ debounce_at' = "off"
    /\ IF key_state = level THEN ShortPressedCb(level)
       ELSE UNCHANGED <<press_vars, null_handle>>
    /\ UNCHANGED <<pin_vars, init_vars, evt_queue, edge_vars>>

\* short_press_time_out_handle: the application's callback may reset the count.
ShortPressTimeOut ==
    /\ short_armed /\ debounce_at = "off"
    /\ short_armed' = FALSE
    /\ counts' \in {counts, 0}
    /\ UNCHANGED <<pin_vars, init_vars, evt_queue, edge_vars, debounce_at, long,
                   since, reported, uneven, long_fired, null_handle>>

\* long_press_time_out_handle.  The five seconds since the push are over, and
\* with them the 250 ms unless another push was reported meanwhile.
LongPressTimeOut ==
    /\ long = "old" \/ (long = "armed" /\ since = "past")
    /\ debounce_at = "off"
    /\ long' = "off"
    /\ long_fired' = TRUE
    /\ counts' \in {counts, 0}
    /\ UNCHANGED <<pin_vars, init_vars, evt_queue, edge_vars, debounce_at, short_armed,
                   since, reported, uneven, null_handle>>

\* 250 ms since the last report: the 150 ms of the short-press timer are over.
TimePasses ==
    /\ since = "recent" /\ ~short_armed
    /\ since' = "past"
    /\ UNCHANGED <<pin_vars, init_vars, evt_queue, edge_vars, debounce_at, short_armed,
                   long, counts, reported, uneven, long_fired, null_handle>>

-----------------------------------------------------------------------------
KeysQuiet == \* what changes no more than the driver's own state
    \/ PinEdge \/ UserKeyInit
    \/ GpioIntrTask \/ GpioIntrTaskNoQueue
    \/ DebounceClear \/ DebounceRead \/ TimePasses

KeysNext == KeysQuiet \/ ShortPressTimeOut \/ LongPressTimeOut

-----------------------------------------------------------------------------
(* Properties.                                                              *)

\* No dead key: an edge is ignored while the transition bit is set, so the
\* bit must never be set without a debounce timer that will clear it, and no
\* queue or timer may be used before it exists.  An interrupt that comes during
\* user_key_init breaks both, since the interrupts are switched on first and
\* the timers are created last; so does a queue that could not be created.
KeyAlive ==
    ~unready =>
        /\ key_transition => debounce_armed
        /\ null_handle => "queue" \notin built

\* One press is one gesture: the timers of the short and the long press never
\* run together, and as long as pushes and releases are reported in turn a
\* push that was reported as long is not counted as a click as well.
OneGesture ==
    /\ short_armed => long = "off"
    /\ ~uneven => ~(short_armed /\ long_fired)

\* An edge that was taken is judged: the transition bit does not stay set.
EdgeJudged == key_transition /\ ~unready ~> ~key_transition
=============================================================================
