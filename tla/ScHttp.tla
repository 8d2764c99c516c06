------------------------------- MODULE ScHttp -------------------------------
(***************************************************************************)
(* hx-sc-http: the station is configured by smartconfig; then a task asks  *)
(* a weather service over plain HTTP again and again (hx_sc_http.c).       *)
(* hx-sc is the same without that task.                                    *)
(*                                                                         *)
(* Of an answer counts whether it is the expected JSON, JSON of another    *)
(* shape, no JSON at all ("broken": it does not parse, "none": it has no   *)
(* brace), and in how many reads it arrives; of the text buffer, the       *)
(* answers whose text is in it.                                            *)
(***************************************************************************)
EXTENDS Naturals, Sequences

CONSTANT MaxReads \* bound: reads that return data for one answer

ASSUME ScHttpAssumption == MaxReads \in Nat \ {0}

Answers == {"weather", "other", "broken", "none"}

VARIABLES
    sc_program, \* hx-sc or hx-sc-http
    sc_at,      \* smartconfig_example_task: none, wait, blocked, over
    sc_bits,    \* the event group: subset of {connected, done}
    sc_phase,   \* the station and smartconfig: off, search, link, ip, over
    hg_at,      \* http_get_task: none or where it is
    hg_sock,    \* its socket: closed or open
    hg_res,     \* the result of getaddrinfo: none or live
    hg_round,   \* which of two successive requests this is
    hg_text,    \* mid_buf: the answers it holds, in order
    hg_reads,   \* reads with data for this answer
    hg_answer,  \* what it is, once it has come
    hg_weather, \* weathe: the round it is from, 2 at first
    hg_long,    \* history: an answer that came in several reads
    hg_fault    \* history: a copy from null, or beyond mid_buf

sc_task_vars == <<sc_program, sc_at, sc_bits, sc_phase>>
hg_text_vars == <<hg_text, hg_reads, hg_answer, hg_weather, hg_long, hg_fault>>
sc_vars == <<sc_task_vars, hg_at, hg_sock, hg_res, hg_round, hg_text_vars>>

ScHttpTypeOK ==
    /\ sc_program \in {"hx-sc", "hx-sc-http"}
    /\ sc_at \in {"none", "wait", "blocked", "over"}
    /\ sc_bits \subseteq {"connected", "done"}
    /\ sc_phase \in {"off", "search", "link", "ip", "over"}
    /\ hg_at \in {"none", "lookup", "socket", "connect", "write", "read", "parse", "close"}
    /\ hg_sock \in {"closed", "open"} /\ hg_res \in {"none", "live"}
    /\ hg_round \in 0..1 /\ hg_text \in Seq(0..1) /\ hg_reads \in 0..MaxReads
    /\ hg_answer \in Answers /\ hg_weather \in 0..2
    /\ {hg_long, hg_fault} \subseteq BOOLEAN

ScHttpInit ==
    /\ sc_program \in {"hx-sc", "hx-sc-http"}
    /\ sc_at = "none" /\ sc_bits = {} /\ sc_phase = "off"
    /\ hg_at = "none" /\ hg_sock = "closed" /\ hg_res = "none" /\ hg_round = 0
    /\ hg_text = <<>> /\ hg_reads = 0 /\ hg_answer = "none" /\ hg_weather = 2
    /\ hg_long = FALSE /\ hg_fault = FALSE

-----------------------------------------------------------------------------
(* Smartconfig.                                                             *)

\* A bit wakes the task that waits for either.
ScSet(bits) ==
    /\ sc_bits' = bits
    /\ sc_at' = IF bits # {} /\ sc_at = "blocked" THEN "wait" ELSE sc_at

\* event_handler: STA_START makes the smartconfig task, GOT_IP sets the bit,
\* DISCONNECTED connects again and clears it.
ScEventHandler ==
    /\ \/ sc_phase = "off" /\ sc_phase' = "search" /\ sc_at' = "wait" /\ UNCHANGED sc_bits
       \/ /\ sc_phase \in {"link", "ip", "over"}
          /\ sc_phase' = IF sc_phase = "link" THEN "ip" ELSE sc_phase
          /\ ScSet(sc_bits \cup {"connected"})
       \/ /\ sc_phase \in {"link", "ip", "over"} /\ UNCHANGED sc_phase
          /\ ScSet(sc_bits \ {"connected"})
    /\ UNCHANGED <<sc_program, hg_at, hg_sock, hg_res, hg_round, hg_text_vars>>

\* sc_callback: LINK disconnects and connects to the new access point,
\* LINK_OVER sets the bit of the end.
ScCallback ==
    /\ \/ sc_phase = "search" /\ sc_phase' = "link" /\ UNCHANGED <<sc_at, sc_bits>>
       \/ sc_phase = "ip" /\ sc_phase' = "over" /\ ScSet(sc_bits \cup {"done"})
    /\ UNCHANGED <<sc_program, hg_at, hg_sock, hg_res, hg_round, hg_text_vars>>

\* smartconfig_example_task: both bits are cleared by the wait; the end of
\* smartconfig, alone or with a connection, ends the task.
ScTask(last) ==
    /\ sc_at = "wait"
    /\ sc_bits' = {}
    /\ IF "done" \in sc_bits THEN sc_at' = "over" /\ last
       ELSE sc_at' = (IF sc_bits = {} THEN "blocked" ELSE "wait") /\ UNCHANGED hg_at
    /\ UNCHANGED <<sc_program, sc_phase, hg_sock, hg_res, hg_round, hg_text_vars>>

\* hx-sc.
ScTaskPlain == sc_program = "hx-sc" /\ ScTask(UNCHANGED hg_at)

\* hx-sc-http: the task that asks for the weather is made, or not.
ScTaskHttp == sc_program = "hx-sc-http" /\ ScTask(hg_at' \in {"lookup", "none"})

-----------------------------------------------------------------------------
(* http_get_task.                                                           *)

\* getaddrinfo.
HgLookup ==
    /\ hg_at = "lookup"
    /\ \/ hg_res' = "live" /\ hg_at' = "socket"
       \/ UNCHANGED <<hg_res, hg_at>>
    /\ UNCHANGED <<sc_task_vars, hg_sock, hg_round, hg_text_vars>>

\* socket: without one the result is freed and the task starts again.
HgSocket ==
    /\ hg_at = "socket"
    /\ \/ hg_sock' = "open" /\ hg_at' = "connect" /\ UNCHANGED hg_res
       \/ hg_res' = "none" /\ hg_at' = "lookup" /\ UNCHANGED hg_sock
    /\ UNCHANGED <<sc_task_vars, hg_round, hg_text_vars>>

\* connect: the result is freed either way.
HgConnect ==
    /\ hg_at = "connect"
    /\ hg_res' = "none"
    /\ \/ hg_at' = "write" /\ UNCHANGED hg_sock
       \/ hg_at' = "lookup" /\ hg_sock' = "closed"
    /\ UNCHANGED <<sc_task_vars, hg_round, hg_text_vars>>

\* Deliberate fault: the text of the last answer is not cleared.
WriteKeepsText ==
    /\ hg_at = "write"
    /\ \/ /\ hg_at' = "read" /\ hg_reads' = 0
          /\ UNCHANGED <<hg_sock, hg_text>>
       \/ /\ hg_at' = "lookup" /\ hg_sock' = "closed"
          /\ UNCHANGED <<hg_text, hg_reads>>
    /\ UNCHANGED <<sc_task_vars, hg_res, hg_round, hg_answer, hg_weather, hg_long, hg_fault>>

\* The request is written and the text cleared.
HgWrite ==
    /\ hg_at = "write"
    /\ \/ /\ hg_at' = "read" /\ hg_text' = <<>> /\ hg_reads' = 0
          /\ UNCHANGED hg_sock
       \/ /\ hg_at' = "lookup" /\ hg_sock' = "closed"
          /\ UNCHANGED <<hg_text, hg_reads>>
    /\ UNCHANGED <<sc_task_vars, hg_res, hg_round, hg_answer, hg_weather, hg_long, hg_fault>>

\* A read with data, appended to the text whatever room there is ...
HgRead ==
    /\ hg_at = "read" /\ hg_reads < MaxReads
    /\ hg_reads' = hg_reads + 1
    /\ hg_long' = (hg_long \/ hg_reads > 0)
    /\ hg_fault' \in {hg_fault, hg_fault \/ hg_text # <<>>}
    /\ hg_text' = IF hg_reads > 0 THEN hg_text ELSE Append(hg_text, hg_round)
    /\ UNCHANGED <<sc_task_vars, hg_at, hg_sock, hg_res, hg_round, hg_answer, hg_weather>>

\* ... and one without.  A part of an answer is like any answer.
HgReadEnd ==
    /\ hg_at = "read"
    /\ hg_at' = "parse"
    /\ hg_answer' \in IF hg_reads = 0 THEN {"none"} ELSE Answers
    /\ UNCHANGED <<sc_task_vars, hg_sock, hg_res, hg_round, hg_text, hg_reads, hg_weather,
                   hg_long, hg_fault>>

\* cjson_to_struct_info: the text from its first brace on, which must be there;
\* of other JSON, the objects that are missing are used all the same.
HgParse ==
    /\ hg_at = "parse"
    /\ hg_at' = "close"
    /\ hg_weather' = IF hg_answer = "weather" THEN Head(hg_text) ELSE hg_weather
    /\ \/ hg_answer \in {"none", "other"} /\ hg_fault' = TRUE
       \/ hg_answer # "none" /\ UNCHANGED hg_fault
    /\ UNCHANGED <<sc_task_vars, hg_sock, hg_res, hg_round, hg_text, hg_reads, hg_answer, hg_long>>

\* close, and ten seconds.
HgClose ==
    /\ hg_at = "close"
    /\ hg_at' = "lookup"
    /\ hg_sock' = "closed"
    /\ hg_round' = 1 - hg_round
    /\ UNCHANGED <<sc_task_vars, hg_res, hg_text_vars>>

HttpGetTask ==
    \/ HgLookup \/ HgSocket \/ HgConnect \/ HgWrite
    \/ HgRead \/ HgReadEnd \/ HgParse \/ HgClose

ScHttpNext ==
    /\ ~hg_fault    \* nothing is said of what follows
    /\ \/ ScEventHandler \/ ScCallback
       \/ ScTaskPlain \/ ScTaskHttp
       \/ HttpGetTask

-----------------------------------------------------------------------------
\* What is taken over is this round's weather, and the task survives its answer
\* unless it was too long for one read or not the JSON that is expected.
FreshWeather ==
    /\ hg_at = "close" /\ hg_answer = "weather" => hg_weather = hg_round
    /\ hg_fault => hg_long \/ hg_answer \in {"none", "other"}

\* A socket and a lookup result belong to the request that is under way.
HgResources ==
    /\ hg_sock = "open" => hg_at \in {"connect", "write", "read", "parse", "close"}
    /\ hg_res = "live" => hg_at \in {"socket", "connect"}
=============================================================================
