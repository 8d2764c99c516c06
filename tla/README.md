# esp32_learn: specifications, model checks and proofs

TLA+ specifications of the firmware in this repository: the `esp32/`
application with its components, and the lessons and device projects around it
that have a state of their own. Paths are relative to the repository;
`hans_tcp` stands for `src/esp32/components/hans_tcp`, `hx-ws` for
`src/my/wifi_source_code/hx-ws`, and so on.

Contents

1. The system: inventory
2. Modules
3. Runs: what is checked, with which bounds
4. Fairness
5. Proofs
6. Disagreements between code and comments
7. Plan
8. Not modelled

## 1. The system: inventory

The `esp32/` application is a set of FreeRTOS tasks around queues, one event
group and lwIP sockets. `esp32/main/esp32.c` starts the tasks of the components
that a build uses; all but one call are commented out, so a board runs one of
them. The other directories are lessons (`my/`), each a small firmware, and
projects by others that the components were made from.

| component | state | operations | interacts through |
|---|---|---|---|
| `hans_wifi` | event group bits, retry counter, smartconfig task | `bsp_wifi_init_station`, `_softap`, `wifi_event_handler`, `smartconfig_task` | ESP event loop (callbacks), event group |
| `hans_tcp` | `server_socket`, `connect_socket`, `g_rxtx_need_restart`, tasks `tcp_connect` and `recv_data` | `create_tcp_server`, `create_tcp_client`, `recv_data`, `close_socket`, `tcp_connect` | event group, lwIP, `bsp_tcp_recive_xQueue`, unprotected globals |
| `hans_queue` | a message buffer per task | `bsp_queue_tcp_recive_send_to_led`, `..._to_oled` | `bsp_tcp_recive_xQueue` in, the sinks' queues out |
| `hans_led_rgb` | three pins, `bsp_led_rgb_xQueue` | receive-and-show task, sending task, pipeline lamp | its queue, GPIO, an argument by address |
| `hans_oled` | frame buffer, cursor, panel, `bsp_oled_xQueue` | receive-and-show task, sending task, text, pixel, rectangle and fill, update | its queue, I2C |
| `hans_udp` | one socket, one address | connect task, `recv_data` | event group, lwIP |
| `hans_http` | registry of URI handlers, error handler | start, `/hello`, `/echo`, `/ctrl`, 404 | event group, esp_http_server |
| `hans_mfrc522` | FIFO of the reader, heap blocks, a periodic timer | `rc522_start`, timer callback, `rc522_card_write`, `rc522_get_tag` | SPI, esp_timer, a callback |
| `hans_st7735` | window and memory of the panel, `display_buff` | fill, rectangle, pixel, character, string | SPI |
| `hans_spi`, `hans_i2c`, `hans_sd_card` | none of their own | driver initialisation | ESP-IDF drivers |
| `esp32` main | the build's choice | starts one component | direct calls |
| `hx-https-mbedtls` | key transition bit, three timers, a click counter, city choice, lamp handles, shared URL and buffers | key interrupt, debounce, short and long press, lamp fade, GET and parsing tasks | interrupt queue, esp_timer, tasks given an argument by address |
| `hx-tmall` | contexts of the TLS connection, token digest, lamp | connect task, check-in dialogue, heart-beat task, lamp fade | one TLS context shared by two tasks, the cloud |
| `hx-ws` | `WS_conn`, frame queue, heap payloads | handshake and receive loop, `WS_write_data`, consumer task | queue of buffers, shared connection |
| `hx-tcp`, `hx-udp` | as `hans_tcp`, `hans_udp` | the same with an older event handler | the same |
| `hx-mqtt-wan` | event bits, lamp and its status, key | client callbacks, polling loop | broker, GPIO |
| `hx-ota` | socket, where the body starts, partition | fetch task: connect, request, packets, finish | HTTP over TCP, flash |
| `hx-sc`, `hx-sc-http` | event bits, text of the answers, weather | smartconfig task, request loop | event group, HTTP over TCP |
| `hx-wifi`, `hx-mqtt-tcp`, `hx-mqtt-domain-name` | event bits | event handlers | events |
| `hx-key`, `hx-nvs`, `hx-oled`, `hx-sht30`, `hx-tm1638` | key status; counters in flash; frame and panel; a reading; counts | polling loops, start, show, read | GPIO, flash, I2C |
| other basic lessons | none | blink, PWM, timer, UART echo | GPIO |
| DHT11, PCA9685, infrared, SNTP | a frame; the outputs; a frame; the time | read, test task, decode, wait for the time | one wire, I2C, RMT, network |

Behaviours that are hard to test:

- `hans_tcp`: two tasks and three globals without a lock. `recv_data` reads
  `connect_socket` on every call; `tcp_connect` overwrites it; both write the
  restart flag; the only thing that keeps a new `recv_data` from overlapping
  with the old one is the order of writes and a delay. In `hx-tcp` the event
  handler raises that flag as well.
- `hans_wifi`: events are handled some time after the link changed, the bit is
  set and cleared in different events, the retry counter decides whether a
  disconnection is answered, and a second waiting task takes the bit away.
- the message path: five queues or buffers, two tasks competing for one queue,
  queues that fill up because the lamp's forwarder takes one message a second.
- `hans_oled`, `hans_st7735`: row, column and window arithmetic at the edges,
  and a panel that goes on showing what a failed transfer put in the wrong page.
- `hx-https-mbedtls`: an interrupt, its task and three timer callbacks share a
  transition bit without a lock; requests in flight share a URL, a buffer and a
  pointer; arguments are passed by address; task handles are never cleared.
- `hx-tmall`, `hx-ws`: a connection used by one task while another tears it
  down; heap blocks that change hands through a queue.
- `hx-ota`, `hx-sc-http`: what TCP cuts in pieces must be put together.
- the devices: transfers that fail half-way, lengths that are not initialised,
  checksums, counters that wrap, and power that fails between set and commit.

What makes each component correct:

- `hans_tcp`: at most one `recv_data`; it only touches its own connection; no
  descriptor is lost; every ended connection leads to a new one.
- `hans_wifi`: the bit is set only while there is a link (or the event that
  clears it is pending); every disconnection is answered while retries are left;
  a task waiting for the link is released when it is there; smartconfig ends.
- message path: a message is in one place at a time, is shown at most once, in
  order, and is lost only where a queue is full; the outputs show the last one.
- `hans_oled`, `hx-oled`, `hans_st7735`: a text stays inside its array and is
  displayed whole; a drawing covers its dots and no other; an update that went
  through shows the whole frame buffer, whatever failed before.
- `hans_http`: from the answer and the state of its socket a client infers what
  the last PUT did; an echo that ends well is whole, unless a piece of it could
  not be sent, which the code does not look at.
- `hans_mfrc522`: the callback gets a whole serial number, and nothing is left
  on the heap.
- `hx-https-mbedtls`: the key never goes dead; a press is one gesture; one
  colour fades at a time; a request is about the city of its click, and its
  answer's buffer is freed once.
- `hx-tmall`: one task writes to the TLS context; a connection that ends gives
  its contexts back; the lamp does the last thing it was told. `hx-mqtt-wan`:
  the same of its lamp, and one press publishes once.
- `hx-ws`: every payload has one owner and is freed once; an echo is whole.
- `hx-udp`, `hx-tcp`, `hx-ota`, `hx-sc-http`: a socket is closed once by a task
  that owns it. `hx-ota`: the partition holds the image. `hx-sc-http`: the
  weather shown is that of the last answer.
- sensors and remote control: what is reported was sent, whole. Counters in the
  flash count every start once. SNTP: the program waits for the time.

The hazards behind these, each at its line, are in `PROJECT.json`, with the
properties that cover them.

## 2. Modules

Five compositions are checked, and two abstract specifications are implemented
by two of them.

    TcpLink ----refines---> TcpSession          TcpLink <--INSTANCE-- TcpLesson
    Pipeline ---refines---> LossyRelay          UdpLink <--EXTENDS--- UdpLesson
    Wifi
    Weather  = Keys + Lamp + Https + the application
    Lessons  = Tmall (+ Lamp) | WebSocket | UdpLesson | TcpLesson | Ota | ScHttp | Mqtt
    Devices  = HttpServer | Rc522 | St7735 | OledPanel | Pca9685 | Dht11 | Sht30 |
               IrRemote | Tm1638 | NvsLesson | KeyLesson | Sntp | LedLamp | OledLesson |
               OledText

A bar means that a board runs one of them: a variable (`lesson`, `image`) that
never changes says which, and the variables of the others keep their initial
values. `X`Proofs holds the theorems about `X`; `DrawingProofs` has the lemmas
about the three display drivers, and `OledTextProofs` those about the text on
the OLED, that `DevicesProofs` uses.

### The `esp32/` application

`TcpLink` (with `TcpSession`, `TcpLinkProofs`) - `hans_tcp/bsp_tcp.c`.
The constant `Server` is `TCP_SERVER_CLIENT_OPTION`. `conn_at` is the program
counter of `tcp_connect`, `recv_at[r]` that of the r-th instance of `recv_data`.
Every access to a shared global that another task can observe is a step of its
own: `RecvCall` reads `connect_socket`, `RecvData` and `RecvEnd` clear the flag,
`RecvFailed` raises it, `CloseSocket` closes, `MarkRestart` raises it again;
`SocketOk`/`SocketFail`, `ConnectOk`/`ConnectFail`, `AcceptOk`/`AcceptFail` and
so on are the two outcomes of each call. A socket is `closed`, `fresh`, `bound`,
`listening`, `up` or `gone` (ended by the peer). `served` is a history variable:
the current connection was given a task. `restarting` tells the first create
from those of the inner loop. `TcpSession` is the abstract cycle idle - open -
served - ending - idle; `SessionPhase` is the refinement mapping. A repeated
create of the server build that reaches `listen` on a closed descriptor is
kept: `ListenFail` is its only outcome.

`Wifi` (with `WifiProofs`) - `hans_wifi/bsp_wifi.c`. `events` is the default event loop's queue,
`link` the driver's state, `HandleEvent` one run of `wifi_event_handler`, with an
operator per branch. `SetBits` is `xEventGroupSetBits`: it wakes the tasks whose
condition holds and then clears the bits that a woken task asked to have
cleared, which is what `smartconfig_task` does. `client_at` are the tasks that
wait for `WIFI_CONNECTED_BIT`. `smartconfig` is the build option.

`Pipeline` (with `LossyRelay`, `PipelineProofs`) - the queue users of `hans_tcp`, `hans_queue`,
`hans_led_rgb`, `hans_oled`. A message is a record of its producer, its number
and what it says. A step is one queue operation or one visible output; the three
`gpio_set_level` calls of a colour are three steps. `LossyRelay` is the abstract
specification: sent and shown, at most once, at one sink, in order.

`OledText` (with `OledTextProofs`) - `bsp_oled_queue_str` and
`bsp_oled_show_str`; one of the images of `Devices`. A character is its position in the text; the array's size,
the font and the display are constants. One step per character, then one per
row shown. A write outside the array sets `text_outside` and nothing more is said of
the state after it.

### The weather lamp, `hx-https-mbedtls`

`Keys` - `user_key.c` for the one key of the board: `PinEdge` is the interrupt
with its send to `gpio_evt_queue`, `GpioIntrTask` the task that notes the level
and starts the debounce timer, `DebounceClear` and `DebounceRead` the two parts
of its callback (it clears the transition bit before it reads the level, and the task may run in
between on the other core), then the callbacks of the short and the long timer.
`user_key_init` is a stage at a time, and an edge may come between two of them:
`null_handle` and `unready` record that something was used before it existed.
The only time the code compares is whether the last report is less than
`MULTI_PRESSED_TIMER` ago (`since`).

`Lamp` - `user_led.c`, shared with `hx-tmall`: a record of tasks, handles and
channels, so that a callback can apply several operations in order. Handles are
never cleared by the code, so `FadeStop` through one whose task is gone, or was
never made, is a fault.

`Https` - `user_http_s.c`: request tasks and parsing tasks around the static
URL, receive buffer and `recv_json_buff`. A TLS connection is one step that
succeeds or fails. Request r allocates buffer r.

`Weather` composes them with `user_app.c`. The esp_timer task runs one callback
at a time, so the driver's promise to the application is only that; `scope` says
whether the driver, the lamp or the requests are exercised, and in the last two
the click comes at any time.

### The network lessons

`Tmall` - `user_tmall_genie.c` with its application. Each address that the
station gets starts a task with contexts (`ctx`) of its own, which live and die
together; `dialogue` is how far the check-in of a connection is, `sent` what the
cloud sent. `Writers` are the tasks inside `mbedtls_ssl_write`.

`WebSocket` - `WebSocket_Task.c` and the consumer in `main.c`. A payload, a
digest or a netbuf is counted while it is on the heap; that the counts match the
places that own them is the property.

`UdpLink` - `hans_udp/bsp_udp.c`, and `UdpLesson`, the same tasks under the
event handler of `hx-udp`, which sets the bit before there is an address.
`TcpLesson` - `hx-tcp` as a server: an instance of `TcpLink` whose restart flag
is also raised by the event handler, when a station leaves.

`Ota` - `ota_example_main.c`: the response is a sequence of the pieces that the
code tells apart (the header's text, CR, LF, the chunks of the image), a packet
is any run of them, and `EmptyLine` looks for the empty line in each
packet on its own, as the code does. `ScHttp` - `hx_sc.c` and `hx_sc_http.c`:
the text collected with `strcat` is the sequence of the answers in it. `Mqtt` -
`app_main.c` of `hx-mqtt-wan`: the client's task and `app_main` both write the
lamp's pin.

### The devices

`HttpServer` - `bsp_http.c`: the registry, the 404 handler, and the socket that
an answer leaves open or closed. A piece of an echo is received and counted off
whether or not it could be sent back; `http_left`, `http_sent` and `http_body`
count the pieces to come, sent and in the body. `Rc522` - `bsp_mfrc522.c`: a timer round with
`card_write` poll by poll; `NULL` is a value never written. `St7735` - the
window and the number of pixels of each drawing operation, clipping included; a
drawing is a set of strokes, a stroke the block filled and the block asked for.
`OledPanel` - dots, rectangles and single characters in the frame buffer, and
`bsp_oled_update_screen` page by page over a bus that may fail. `OledLesson` -
the older copy of that driver under `hx-oled`'s program, where one update
follows each string. `Pca9685` - the test task with every transfer that may
fail and an auto-increment that may not have been set. `Dht11` has the getter
that called `getData` (`dht_getter`, in the order of `DHT_task`) and the number
it passes (`TypeOf`). `Dht11`, `Sht30`,
`IrRemote`: a frame that may be cut short or garbled, then the decoder; `Sht30`
has bytes as sets of bits, so that the checksum is computed shift by shift, and
both words of a reading, each with its checksum. `Tm1638`: keys, counts and digits from uninitialised memory.
`NvsLesson`: start, read, set, commit, restart, with a power failure between any
two. `KeyLesson`, `Sntp`, `LedLamp`: a polled key, the wait for the time, the
running light with its argument on a stack that may be gone.

Operators described as deliberate faults are the code with one plausible bug;
each property has one that violates it, so that no property holds for want of
anything that could break it. No specification uses them.

### Conditions in the properties

Some properties hold only under a condition, because the code does not protect
itself without it. Each condition is a history variable that some step of the
model really sets:

- `Weather`: `overlapped` (a click while an earlier request waits for its
  answer), `oversized` (an answer in two records or longer than the buffer),
  `lamp.refused` (a fade task could not be created), `uneven` (pushes and
  releases not reported in turn), `unready` (an edge during initialisation).
- `Lessons`: `got_ip <= 1` and `hung_up` (a second address builds a second
  connection in the same global; the heart beat goes on after the peer hung up),
  `repeated` (`play` twice in a row starts a second fade), `ws_unmasked` (the
  payload of an unmasked frame is not heap of its own), `ws_raced` (a connection
  ends while it is being written to), `tl_asked` and `tl_under` (a station left
  and the server restarted under a live reader), `udp_unread` (no task could be
  made to read), `ota_split`, `ota_cut` and `ota_lost` (the header came in two
  packets, the connection ended early, a write failed that the code does not
  look at), `hg_long` (an answer in several reads) and `led_early` (a message
  before the lamp was configured).
- `Devices`: `http_unsent` (a piece of an echo, or its end, could not be sent,
  and the handler ends well all the same), `nvs_unread` (a counter could not be
  read, and starts anew), `pca_counts` (auto increment was set), x = 0 in
  `OledShows` (the index is computed from x-1), a fill of the full screen in
  `LcdExact` (the fill loop writes two bytes a step), a text that reaches the
  edge in `LcdExact` (`end`, the column behind the text, is then greater than 20:
  the number returned is one less than the number drawn), the command 255 in
  `IrWhole`, and attempts that are used up in `SntpWaits`. `DhtChecked` says which
  quantity is returned only for `getTemp`; the two other getters are the run
  `DhtGetters`. `OledShows` compares a rectangle with the frame before it
  (`oled_before`): it does not say whether the rest of the screen is cleared or
  kept, nor which rectangles are refused, since code and documentation disagree
  on both (section 6).

## 3. Runs

| run | module | result | shows |
|---|---|---|---|
| `TcpClient` | `TcpLink` | holds | one reader with its own socket (`ReaderOwnsSocket`), no leak, no lost restart, eventual reconnection, refinement of `TcpSession` |
| `TcpServer` | `TcpLink` | holds | one reader (`OneReader`), accept is reached |
| `TcpServerListener` | `TcpLink` | violated | the listener is not created again |
| `TcpServerLostRestart` | `TcpLink` | violated | the flag cleared after the task was started |
| `Wifi` | `Wifi` | holds | bit and link, no stall, waiting tasks released without smartconfig, smartconfig ends |
| `WifiSmartconfig` | `Wifi` | violated | the bit taken away from a waiting task |
| `Pipeline` | `Pipeline` | holds | no duplicate, no reordering, no loss but on a full queue, outputs at rest, everything drains, refinement of `LossyRelay` |
| `OledTextHeight` | `OledText` | violated | the row guard is one row late |
| `Weather` | `Weather` | holds | no dead key (`KeyAlive`), one gesture a press, every taken edge judged, one fading colour, the city of the click, one owner of the answer's buffer |
| `Lessons` | `Lessons` | holds | one user of the TLS context, lamps that obey, payloads with one owner, whole echoes, sockets closed once, a whole image, fresh weather |
| `Devices` | `Devices` | holds | what a client infers from a 404, no broken reading reported, true outputs, text of the OLED in bounds and displayed |
| `DhtGetters` | `Dht11` | violated | `getFtemp` returns the humidity |

Bounds of the first eight runs.

- `Fds` has three descriptors: the client uses one at a time and a leak of one
  or two shows; the server needs a listener and a connection, and a third lets
  one connection leak before `accept` fails. `Readers` has two identities: the
  question is whether a second task can exist. The model has no counters, so the
  state space is finite without further bounds.
- `SlowCleanup = FALSE`: `close_socket` ends within the second three-second
  delay of `tcp_connect`. With `TRUE` nothing but that delay separates the two
  tasks, and `OneReader` does not hold; the fault `CleanupNotAwaited` is that
  case.
- `Wifi`: `MaxRetry = 2` (the code has 5) is enough to retry, to retry again and
  to give up. `MaxEvents = 3` pending events let a connection, its loss and the
  credentials overlap. Two peers, so that one can leave while the other stays;
  one waiting task, since waiting tasks do not interact with each other.
- `Pipeline`: queues of 2 (10 in the code), three messages by TCP and one from
  each of the sender tasks: three are enough to fill a queue and overtake.
  A colour and the empty text are the cases the receivers tell apart.
- `OledTextHeight`: the real sizes, and every text of 1 to 130 characters: the
  array holds 107 with the last cell free, 108 is the first that overruns it, and
  from 126 on the loop's own guard ends the text. The character set does not
  matter.

Bounds of `Weather` (157,521 states).

- `EvtQueueLen = 3` (10): a bounce is two edges, so the queue can be full while
  the task is between two of them. `CountCap = 3`: clicks are told apart up to
  two. `MaxFades = 2`: a second fade task of a colour is already wrong.
- `Requests = {1, 2}`: one request may still be parsed while the next is made,
  and the conditions are about the second. `LastCity = 3` (4): wraps, and the
  city before, of and after a click differ.

Bounds of `Lessons` (289,264 states).

- `MaxConns = 2` connections of `hx-tmall` (the second is what `got_ip <= 1`
  excludes) and `MaxSent = 2` messages under way, so that a command can follow
  another; `MaxFades = 2` as above.
- `WsQueueLen = 2` (10), `MaxWsConns = 2`, `MaxWsFrames = 3`: a queue that is
  full with one frame in the consumer's hands, and an echo that is due when the
  next connection is there.
- `hx-tcp`: descriptors and readers as in `TcpServer`; `MaxStations = 2`, so
  that the one that leaves need not be the one that is served.
- `ImageChunks = 3`: first, middle and last; the packets are all ways to cut
  the header and three chunks. `MaxReads = 3` reads for an answer: one, a
  second, and one after that. `MaxMsgs = 2` MQTT messages under way.

Bounds of `Devices` (445,470 states).

- `BodyChunks = 2`; `MaxPolls = 3` (1000) polls of the card reader: first, middle, last.
  `FifoLevels = {0,1,2,3,5,6}` and `LastBits = {0,1,3}`: the lengths the code
  compares with (2 and 5), their neighbours, and partial bytes.
- the ST7735: the real 128 x 128; coordinates at, beside and beyond each edge
  and up to three before it (`LcdBefore`), sides that fit, touch and exceed the
  screen, strings up to one past a row of 21.
- the OLED panel: `OledWidth = 16` columns (128), the real font of 7 x 10 and
  64 rows, coordinates 0, 1, in the second page, and 58, from where a character
  does not fit; two drawings, so that the second finds what a failed update of
  the first left behind; one failing transfer. `hx-oled` has the real 128 columns,
  lines of 1 and of 19 characters (18 fit).
- the text of the OLED: the sizes and lengths of `OledTextHeight`.
- `PcaPins = 2`, `FadeSteps = 2`, `MaxI2cErrors = 2`: the outputs are treated
  alike; the second failure may follow the one that leaves auto increment off.
- bytes of a frame (`DhtBytes`, `ShtBytes`, `IrBytes`): zero, ordinary values,
  values whose sum passes 255 and pairs of complements. `DhtGetters` has
  `DhtBytes = {20, 60, 80}`: a humidity, a temperature and their sum, so that a
  frame with a right checksum exists in which all three quantities differ. `ShtBytes` (the byte 0
  and 0xBE) is checked with every error of one or two bits in the six bytes.
- `NvsWrap = 3` (256) with `MaxStarts = 4`: the counter wraps. `RetryAttempts =
  3` (10), `TmKeys = {0, 1}` (8), `TmJunk` values in and beyond the table of 16.
  `MaxShtLinks = 2` bounds the leak of section 6 and nothing else.

Deadlock is checked in the TCP runs. It is not in the others because the system
may stop there: a station that used up its retries, producers that have sent
their last message, a function that has returned, a task that has ended, a
program of which nothing more is said after a fault it was not protected from.

## 4. Fairness

- `TcpLink`: weak fairness of each step of a task that is not waiting for the
  outside. FreeRTOS runs ready tasks of equal priority in turn, and every loop
  here blocks or delays. Strong fairness of the success of `socket`, `bind`,
  `listen` and `connect` (`NetworkFairness`): a call that can fail does not fail
  for ever, which is the assumption under which the code retries at all. Nothing
  is assumed of the peer, of WiFi or of `accept`.
- `Wifi`: the event task and `smartconfig_task` run when they have work. Nothing
  is assumed of the radio, the phone or the waiting tasks.
- `Pipeline`: the forwarder and sink tasks run when they have work; the
  producers owe nothing.
- `Weather`: the interrupt task and the esp_timer task run when they have work;
  both block on a queue or a timer in between. Nothing is assumed of the finger.
- `Lessons` and `Devices` are about safety only and state no fairness. What is
  live there is the peer's or the user's doing, or a retry without an end.

## 5. Proofs

TLC shows the properties for the bounds above, the proofs show most of them for
every value of the constants. The `ASSUME` of each module is all that is assumed
of its constants; it is evaluated by the runs.

`TcpLinkProofs`, for any set of descriptors and any number of tasks:

- `TypeCorrect`: types, both builds.
- client build (`ClientAssumption`: `Server` and `SlowCleanup` are FALSE):
  `ClientOneReader`, `ClientReaderOwnsSocket`, `ClientNoSocketLeak`,
  `ClientNoLostRestart`, and `ClientImplementsSession`, the safety part of the
  refinement. None of the properties is inductive alone: that there is one
  reader depends on the flag being down while a reader is at work, which depends
  on where `tcp_connect` clears it. `ClientInv` says, for each place of
  `tcp_connect`, what the flag and the sockets are (`ClientControl`,
  `ClientSockets`, `ClientFlag`), for each place of a reader where `tcp_connect`
  can be (`ClientReaders`), and what is left when there is none (`ClientIdle`).
  `ClientNext` proves it step by step, one case per action.
- server build (`Server`): `ServerOneReader` and `ServerReaderOwnsSocket`, from
  `ServerInv`. Here the reader ends before anything is reopened, so no
  assumption about `close_socket` is needed.

`WifiProofs`, for any number of waiting tasks and peers, any length of the event
queue and any retry limit from 1 (`WifiAssumption`: with a limit of no retry the
handler would never clear the bit): `TypeCorrect`, `BitCorrect`,
`NoStallCorrect`, `DirectReleased`. The handler runs behind the driver, so
`WifiInv` is about the queue: what a pending event says is still true or the
event that ends it follows (`Announced`), the station's start is alone in the
queue (`Started`), and the bit is only set with all the retries left
(`FreshBit`), which is why the disconnection that follows is never the one that
the retry limit ignores. `Direct` is what the build without smartconfig adds: a
disconnection is the last event until it is handled. `HandleInv` proves the
handler, with one case per event, `PostCommon` what the driver's steps share.

`PipelineProofs`, for any capacity, any data and any number of messages:
`TypeCorrect`, `AtRestCorrect`, `OnePlaceCorrect` and `PipelineRelays`, which is
the whole of `LossyRelay`. For a sink s a message passes the connection's queue
(`Waiting`), the forwarder (`Held(s)`), the sink's queue (`Queued(s)`) and its
task (`Showing(s)`) on its way to `Past(s)`; `Ordered` says that, of one
producer, each of these holds only older messages than the one before it,
`Sorted` that each queue is sorted in itself, and `Apart` that the lines of the
two sinks have nothing in common, although both forwarders take from the same
queue. From `OrderInv` a sink that takes a message takes one that neither sink
has shown and that is newer than all it has shown, which is what `LossyRelay`
allows. `OnePlace` adds the lost messages, disjoint from those that move
(`LostInv`), and counts: together they are as many as were sent (`CountInv`).

`WeatherProofs`, all six invariants of the run, for any length of the interrupt
queue and any number of requests and cities: `TypeCorrect`, `KeyAliveCorrect`,
`OneGestureCorrect`, `LampCorrect`, `OwnCityCorrect`, `AnswerCorrect`. `KeyInv`
is by stages of the initialisation (`Setup`, `QuietStart`, `NoLateQueue`) and by
the order of reports (`PressOrder`: as long as pushes and releases alternate,
the long-press timer is off after a release and a press that was long is past).
`LampOrder` ties handles, tasks and the click count together. `HttpsOrder` says,
for an orderly run, that one request at a most waits for its answer
(`OneWaits`), and for each place of a request what the shared URL, buffer and
pointer hold (`Place`, `OwnBuffer`, `Answer`).

`LessonsProofs`, all the invariants of the run: `TypeCorrect`, `OneTlsUserCorrect`, `ObeyCorrect`, `PayloadsCorrect`, `EchoCorrect`,
`SocketsCorrect`, `ImageCorrect`, `FreshCorrect`, for any number of connections,
frames, messages, image chunks, reads, descriptors, tasks and stations. Lemma
`Parts` splits a step of the composition; then each lesson has its own
invariant. `TlsInv` (from `TlsTypes`, `TlsStart`, `TlsTalk`) says where the
receive and the heart-beat task can be at each point of the dialogue, so that
the beat starts only when the receive task no longer writes. `ImageInv` says
through `Received` that the partition holds exactly the chunks received so far,
once the header is past, wherever the packets were cut. `ReaderInv` is the
server's invariant of `TcpLink` with one difference: the flag may be up
because a station left. `PayloadInv` counts payloads where they are. `LampKind`
and `StatusInv` are the lamps', `UdpInv`, `OtaSockInv` and `HgInv` the sockets'.
`TypeCorrect` needs more than the types, since counters go down as well: the heap
of `hx-ws` never holds less than nothing because the masked frames that come
before the first unmasked one each still have their payload (`PayloadsThere`:
after that one is freed nothing more is said), the fade tasks because a handle
that says `task` is one of a live task (`LampCounts`), the closes of `hx-udp`
because `udp_closes` is at most 1 (`UdpInv`).

`DevicesProofs`, all the invariants of the run: `TypeCorrect`, `InfersCorrect`,
`ReadingsCorrect` and `OutputsCorrect`, from `DevicesInv`, which has one inductive
invariant for each of the fifteen programs. What the two large ones say of
each program has a theorem of its own where it says most: `TagCorrect` (any number of
polls, any FIFO content), `WaitsCorrect` (any number of attempts), `CountedCorrect`
(any wrap, any number of power failures), `TurnsCorrect`, `WalksCorrect`,
`DarkCorrect` (any number of pins, steps and errors), and:

- `WrongBitsSeen`: whatever six bytes the humidity sensor sends, one wrong bit or
  two anywhere in them leave at least one checksum wrong. `CrcShift` and
  `CrcByte` are linear over `Xor` (`ShiftLinear`, `CrcByteLinear`), so what an error
  does to the checksum (`Residue`) does not depend on the bytes; a single bit
  leaves the remainder of its place (`Syndrome`, `OneResidue`), none of the 24
  remainders of a word is empty, and no two are equal (`SyndromesDiffer`).
- `LcdCorrect`: the window is computed in bytes, and the panel lies one or two
  columns and rows off them; with any coordinate, negative ones included, the
  corner that the controller gets is the one that was meant (`CornerIsTrue`), a
  rectangle fills what is on the screen (`RectGood`), and a string that ends
  before the edge returns the number of characters drawn (`CountGood`, with the
  least of the places where it can end, `MinOfNats`). `LcdAssumption` bounds the screen by 128 x 128,
  for which a coordinate fits its byte.
- `OledCorrect`: while the panel is written without an error, the pages behind
  `oled_at` show the buffer (`OledInv`); a page is eight rows and a place in it a
  dot (`PageOfPlace`, `PlaceOfPage`), the pages together are the panel
  (`PagesMakePanel`); and a rectangle that is drawn lights its dots and adds no
  other to the frame it found (`RectangleStep`).
- `LinesCorrect`: the same for the lines of `hx-oled`, whose rows do not touch
  (`OlRowsAre`), so that the buffer is the union of the lines so far (`OlInv`).
- `BoundsCorrect`, `ShownCorrect`: the text of the OLED, for any size of array,
  font and display for which the array fits the display (`FontFits`, which TLC
  evaluates for the real sizes). The invariant `TextInv` of `OledTextProofs` says
  that row, column and index agree (`str_6_h * Cols + str_6_l = text_i`), that the
  array holds exactly the characters placed so far, each in its row, and that the
  frame and the display hold exactly the rows shown so far.

Only model-checked: liveness (`RestartServed`, `ListenerStarts`,
`SmartconfigEnds`, `Drains`, `EdgeJudged`, and the fairness part of the
refinements) is out of the prover's reach, as `ENABLED` is. Every invariant that a
passing run checks, and the safety part of both refinements, is proved.

## 6. Disagreements between code and comments

- `bsp_tcp.c:361`: after a failed `accept` the restart path calls
  `create_tcp_server(false)`, which never creates the listener that was closed,
  although the comments say it waits to be created again. The connection that
  `recv_data` leaves open (line 84) makes `accept` run out of descriptors sooner
  or later. Run `TcpServerListener`.
- `bsp_tcp.c:371`: the server build clears the restart flag after it has started
  the task that may already have raised it. Run `TcpServerLostRestart`. The
  client build clears it before, and `ClientNoLostRestart` is proved.
- `bsp_wifi.c:17`: with smartconfig, the default, the connection bit is cleared
  by the task that waits for smartconfig's end. Run `WifiSmartconfig`. Without
  smartconfig `WaitersReleasedDirect` holds.
- `bsp_oled.c:440`: the guard for the height lets a seventh row be written into
  an array of six. Run `OledTextHeight`; `BoundsCorrect` says up to which
  length it cannot happen.
- `dht11.c:189`: `getFtemp` and `getHumidity` pass each other's type to `getData`,
  so that each returns what the other is documented to return (`dht11.c:4`,
  `dht11.h:4`, the prints of `main.c`). Run `DhtGetters`. `getTemp` is right, which
  is part of `DhtChecked`.

Further disagreements, which no property denies and none relies on:

- `sntp_helper.c:148` is never reached: the caller is told `ESP_OK` without a
  time, where lines 150 and 154 say "Couldn't connect, check LAN connection" and
  "connection success". `SntpWaits` says what remains true.
- `bsp_st7735.c:236` returns one less than the characters drawn when a text
  reaches the edge, where the comments there and at line 239 say "number of
  characters printed". `LcdExact` says it of the texts that end before the edge.
- `bsp_oled.c:393` clears the panel before a rectangle, where line 385 tells the
  caller to do so; and line 394 refuses a rectangle that ends at 127 or 63, where
  the text it then shows (lines 406 and 407) allows anything below 128 and 64.

What else was seen and no run states, because nothing in the repository says what
should happen, or because it is a condition of a property (section 2):

- `bsp_http.c:117`: the result of sending a piece of an echo is ignored, and the
  handler ends well although the body has a hole.
- `hx-nvs.c:44`: whatever error `nvs_get` reports is taken for a first start, and
  the counter starts anew.
- `hx_sht30.c:193`: a failed transfer returns before it deletes its command link.
- `IRRemote.c:117`: zero bytes of a frame cut short are the complement of 255.
- `bsp_mfrc522.c`: the flag that says that the timer runs is never set.
- `bsp_http.c:111`: `/echo` retries for as long as its peer is silent.
- `bsp_queue.c:64`: the text is copied from a buffer that is uninitialised until
  the first message; `Pipeline` has it as a buffer that nothing reads.
- `bsp_led_rgb.c:174`: a producer that runs before its consumer has created the
  queue uses a null handle. `Pipeline` starts with the queues there.
- `bsp_wifi.c:98`: one station leaving the soft AP clears the bit although
  others are joined.

## 7. Plan

Done: `TcpLink`, `TcpSession`, `TcpLinkProofs`; `Wifi`, `WifiProofs`;
`Pipeline`, `LossyRelay`, `PipelineProofs`; `Keys`, `Lamp`, `Https`, `Weather`,
`WeatherProofs`; the seven lessons under `Lessons`, `LessonsProofs`; the fifteen programs under `Devices`, `DrawingProofs`,
`OledTextProofs`, `DevicesProofs`.

Next:

1. `hans_tcp`'s server under an `accept` that runs out of descriptors, as a
   refinement of `TcpSession` with a repaired restart path.
2. `Mqtt` and `Tmall` with an abstract specification each (a lamp that follows a
   log of commands), of which `LampsObey` is the invariant.
3. Liveness of `Lessons`: the heart beat, and the release of tasks waiting for
   the bit, with the fairness of each task stated.

## 8. Not modelled

Bytes and formatting, log output, the contents of driver configuration, I2C and
SPI transfers below the level of a command that succeeds or fails, and time
itself (a delay is the freedom of other tasks to run).

- `hans_spi`, `hans_i2c` and `hans_sd_card` only initialise drivers.
- `hx-wifi` prints its events. `hx-mqtt-tcp` and `hx-mqtt-domain-name` are
  `hx-mqtt-wan` with another broker.
- `hx-led`, `hx-pwm`, `hx-tim`, `hx-uart`, the ADC and the template: loops over a
  driver, without a state of their own.
- `rc522_pause` and `rc522_resume` (called by nobody), inverting colours and the
  fixed picture of `hans_st7735`, reading back and single-pin fades of the
  PCA9685 (called by nobody), the time formats of SNTP.
- The TCP client build of `hx-tcp` and the UDP server build of `hx-udp`: the
  code of the former is that of `hans_tcp`'s client.
- Third-party projects other than those named, their copies under `text/`, and
  the generated files under `esp32/build/`.

FreeRTOS, lwIP, mbedtls, esp_timer, the MQTT client and the WiFi driver are
modelled only from how the code uses them, and marked external.
