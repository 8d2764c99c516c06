----------------------------- MODULE HttpServer -----------------------------
(***************************************************************************)
(* The web server of components/hans_http/bsp_http.c.  One task of         *)
(* esp_http_server runs the handlers one after another, for all clients.   *)
(* A PUT to /ctrl takes the handlers of /hello and /echo away and installs *)
(* one for the error 404, or puts them back.                               *)
(***************************************************************************)
EXTENDS Naturals

CONSTANT BodyChunks \* the longest body posted to /echo, in reads

ASSUME BodyChunksAssumption == BodyChunks \in Nat \ {0}

Uris == {"/hello", "/echo", "/ctrl", "/other"}
NoAnswer404 == [uri |-> "none", status |-> 0, open |-> FALSE]

VARIABLES
    http_at,       \* wait, start, off, idle, ctrl, echo
    uris,          \* the registered URIs
    err_404,       \* http_404_error_handler is registered
    last_put,      \* history: the byte of the last PUT, "none" at first
    http_left,     \* echo_post_handler: remaining
    http_sent,     \* chunks sent back so far
    http_body,     \* chunks in the body
    http_unsent,   \* history: a chunk of this answer could not be sent
    http_answer    \* the last request with its status; is its socket kept open?

echo_vars == <<http_left, http_sent, http_body, http_unsent>>
http_vars == <<http_at, uris, err_404, last_put, echo_vars, http_answer>>

HttpTypeOK ==
    /\ http_at \in {"wait", "start", "off", "idle", "ctrl", "echo"}
    /\ uris \subseteq Uris
    /\ {err_404, http_unsent} \subseteq BOOLEAN
    /\ last_put \in {"none", "0", "1"}
    /\ {http_left, http_sent, http_body} \subseteq 0..BodyChunks
    /\ http_answer.status \in {0, 200, 404, 408}

HttpInit ==
    /\ http_at = "wait" /\ uris = {} /\ err_404 = FALSE /\ last_put = "none"
    /\ http_left = 0 /\ http_sent = 0 /\ http_body = 0 /\ http_unsent = FALSE
    /\ http_answer = NoAnswer404

HttpAnswer(uri, status, open) ==
    http_answer' = [uri |-> uri, status |-> status, open |-> open]

\* httpd_register_uri_handler fails when there is no memory, and nobody looks.
RegisterUris(new) == \E done \in SUBSET new : uris' = uris \cup done

-----------------------------------------------------------------------------
\* start_webserver: the wait for the connection bit, and httpd_start.
HttpWait ==
    /\ http_at = "wait" /\ http_at' = "start"
    /\ UNCHANGED <<uris, err_404, last_put, echo_vars, http_answer>>

StartWebserver ==
    /\ http_at = "start"
    /\ \/ http_at' = "idle" /\ RegisterUris({"/hello", "/echo", "/ctrl"})
       \/ http_at' = "off" /\ UNCHANGED uris
    /\ UNCHANGED <<err_404, last_put, echo_vars, http_answer>>

\* The headers and the query are copied to the heap and freed again.
HelloGet ==
    /\ http_at = "idle" /\ "/hello" \in uris
    /\ HttpAnswer("/hello", 200, TRUE)
    /\ UNCHANGED <<http_at, uris, err_404, last_put, echo_vars>>

\* echo_post_handler sends every piece of the body back as a chunk.
EchoPost ==
    /\ http_at = "idle" /\ "/echo" \in uris
    /\ http_at' = "echo"
    /\ http_body' \in 0..BodyChunks
    /\ http_left' = http_body' /\ http_sent' = 0 /\ http_unsent' = FALSE
    /\ UNCHANGED <<uris, err_404, last_put, http_answer>>

\* A piece is received, or the socket fails; after a time-out it is tried again.
\* Nobody looks whether the piece could be sent back.
EchoChunk ==
    /\ http_at = "echo" /\ http_left > 0
    /\ \/ /\ http_left' = http_left - 1
          /\ \/ http_sent' = http_sent + 1 /\ UNCHANGED http_unsent
             \/ http_unsent' = TRUE /\ UNCHANGED http_sent
          /\ UNCHANGED <<http_at, http_answer>>
       \/ http_at' = "idle" /\ HttpAnswer("/echo", 0, FALSE)
          /\ UNCHANGED <<http_left, http_sent, http_unsent>>
    /\ UNCHANGED <<uris, err_404, last_put, http_body>>

\* The empty chunk that ends the answer may be lost as well.
EchoEnd ==
    /\ http_at = "echo" /\ http_left = 0
    /\ http_at' = "idle" /\ HttpAnswer("/echo", 200, TRUE)
    /\ http_unsent' \in {http_unsent, TRUE}
    /\ UNCHANGED <<uris, err_404, last_put, http_left, http_sent, http_body>>

\* What the server answers for a URI that has no handler.
NotFound ==
    /\ http_at = "idle"
    /\ \E uri \in Uris \ uris : HttpAnswer(uri, 404, err_404 /\ uri = "/hello")
    /\ UNCHANGED <<http_at, uris, err_404, last_put, echo_vars>>

-----------------------------------------------------------------------------
(* ctrl_put_handler reads one byte and changes the registry.                *)

CtrlPut ==
    /\ http_at = "idle" /\ "/ctrl" \in uris
    /\ http_at' = "ctrl"
    /\ UNCHANGED <<uris, err_404, last_put, echo_vars, http_answer>>

\* No byte came: 408 after a time-out; the socket is closed.
CtrlNoByte ==
    /\ http_at = "ctrl" /\ http_at' = "idle"
    /\ \E status \in {0, 408} : HttpAnswer("/ctrl", status, FALSE)
    /\ UNCHANGED <<uris, err_404, last_put, echo_vars>>

CtrlOff ==
    /\ http_at = "ctrl" /\ http_at' = "idle"
    /\ uris' = uris \ {"/hello", "/echo"}
    /\ err_404' = TRUE
    /\ last_put' = "0"
    /\ HttpAnswer("/ctrl", 200, TRUE)
    /\ UNCHANGED echo_vars

\* Deliberate fault: the handler of the error stays.
CtrlOnKeepsHandler ==
    /\ http_at = "ctrl" /\ http_at' = "idle"
    /\ RegisterUris({"/hello", "/echo"})
    /\ last_put' = "1"
    /\ HttpAnswer("/ctrl", 200, TRUE)
    /\ UNCHANGED <<err_404, echo_vars>>

CtrlOn ==
    /\ http_at = "ctrl" /\ http_at' = "idle"
    /\ RegisterUris({"/hello", "/echo"})
    /\ err_404' = FALSE
    /\ last_put' = "1"
    /\ HttpAnswer("/ctrl", 200, TRUE)
    /\ UNCHANGED echo_vars

HttpNext ==
    \/ HttpWait \/ StartWebserver
    \/ HelloGet \/ EchoPost \/ EchoChunk \/ EchoEnd \/ NotFound
    \/ CtrlPut \/ CtrlNoByte \/ CtrlOff \/ CtrlOn

-----------------------------------------------------------------------------
\* The client learns from the socket what the last PUT did, as the comment at
\* http_404_error_handler promises: after a 0, /hello is refused on an open
\* socket and /echo on one that is closed; a 404 on an open socket means just
\* that, even when a handler could not be registered again.  And an answer of
\* /echo that ends well has returned the whole body, unless a piece of it could
\* not be sent: the handler ends well all the same, and the body has a hole.
HttpInfers ==
    /\ http_at = "idle" /\ http_answer.status = 404 =>
            (http_answer.open <=> last_put = "0" /\ http_answer.uri = "/hello")
    /\ last_put = "0" => uris \cap {"/hello", "/echo"} = {}
    /\ http_at = "idle" /\ http_answer.uri = "/echo" /\ http_answer.status = 200 =>
            http_sent = http_body \/ http_unsent
=============================================================================
