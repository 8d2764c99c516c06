-------------------------------- MODULE Https -------------------------------
(***************************************************************************)
(* The HTTPS client of hx-https-mbedtls (user_http_s.c).  Every request    *)
(* runs in a task of its own, but the parsed URL, the receive buffer and   *)
(* the pointer to the buffer with the answer are static: requests that are *)
(* in flight together share them.  The answer is handed to a task that     *)
(* parses it and frees the buffer.                                         *)
(*                                                                         *)
(* A URL and an answer are the number of the city they are about.  Request *)
(* r allocates buffer r.                                                   *)
(***************************************************************************)
EXTENDS Naturals

CONSTANTS
    Requests, \* bound: request tasks that may exist together
    LastCity  \* the cities are 1..LastCity (4 in the code)

ASSUME HttpsAssumption == Requests \subseteq Nat \ {0} /\ LastCity \in Nat \ {0}

VARIABLES
    req_at,     \* where each request task is
    url,        \* host and filename
    asked,      \* the city in the request that was sent, 0 before
    recv_buff,  \* whose answer is in recv_buff
    json_ptr,   \* recv_json_buff: the buffer allocated last
    buffer,     \* each answer buffer: none, live or freed
    answer,     \* and what was copied into it
    jobs,       \* tasks that will parse and free it
    records,    \* how often the request's read returned data (2: or more)
    want,       \* history: the city chosen by the click that made the request
    overlapped, \* history: made while another one was waiting for its answer
    oversized,  \* history: a second record, or one longer than the buffer
    unparsed,   \* history: requests whose parsing task could not be created
    heap_fault  \* history: a freed buffer was used or freed, or overrun

shared_vars == <<url, recv_buff, json_ptr>>
heap_vars == <<buffer, answer, jobs, heap_fault>>
note_vars == <<want, overlapped, oversized, unparsed>>
https_vars == <<req_at, asked, records, shared_vars, heap_vars, note_vars>>

HttpsTypeOK ==
    /\ req_at \in [Requests -> {"idle", "made", "connect", "write", "read", "copy", "exit"}]
    /\ url \in 0..LastCity /\ recv_buff \in 0..LastCity /\ json_ptr \in Requests \cup {0}
    /\ asked \in [Requests -> 0..LastCity] /\ want \in [Requests -> 0..LastCity]
    /\ buffer \in [Requests -> {"none", "live", "freed"}]
    /\ answer \in [Requests -> 0..LastCity]
    /\ jobs \in [Requests -> 0..3] /\ records \in [Requests -> 0..2]
    /\ unparsed \subseteq Requests
    /\ overlapped \in BOOLEAN /\ oversized \in BOOLEAN /\ heap_fault \in BOOLEAN

HttpsInit ==
    /\ req_at = [r \in Requests |-> "idle"]
    /\ url = 0 /\ recv_buff = 0 /\ json_ptr = 0
    /\ asked = [r \in Requests |-> 0] /\ want = [r \in Requests |-> 0]
    /\ buffer = [r \in Requests |-> "none"]
    /\ answer = [r \in Requests |-> 0]
    /\ jobs = [r \in Requests |-> 0] /\ records = [r \in Requests |-> 0]
    /\ unparsed = {}
    /\ overlapped = FALSE /\ oversized = FALSE /\ heap_fault = FALSE

\* Request r has no part in the shared buffers any more.
Served(r) == req_at[r] \in {"idle", "exit"} \/ (req_at[r] = "read" /\ records[r] > 0)

To(r, place) == req_at' = [req_at EXCEPT ![r] = place]

-----------------------------------------------------------------------------
NoteOverlap(others) == overlapped' = (overlapped \/ \E q \in others : ~Served(q))

\* The application makes a task for a request of city c ...
MakeRequest(r, c) ==
    /\ req_at[r] = "idle" /\ jobs[r] = 0
    /\ To(r, "made")
    /\ want' = [want EXCEPT ![r] = c]
    /\ records' = [records EXCEPT ![r] = 0]
    /\ asked' = [asked EXCEPT ![r] = 0]
    /\ answer' = [answer EXCEPT ![r] = 0]
    /\ buffer' = [buffer EXCEPT ![r] = "none"]
    /\ unparsed' = unparsed \ {r}
    /\ NoteOverlap(Requests \ {r})
    /\ UNCHANGED <<shared_vars, jobs, oversized, heap_fault>>

\* ... or xTaskCreate refuses.
RefuseRequest ==
    /\ NoteOverlap(Requests)
    /\ UNCHANGED <<req_at, asked, records, shared_vars, heap_vars, want, oversized, unparsed>>

\* http_url_parse: into the static host and filename.
HttpUrlParse(c) == url' = c

\* tls_client_handle allocates a buffer for the answer.
AllocateAnswer(r) ==
    /\ json_ptr' = r
    /\ buffer' = [buffer EXCEPT ![r] = "live"]

\* https_request_by_GET, up to the first call that may wait.
StartRequest(r, c) ==
    /\ req_at[r] = "made"
    /\ To(r, "connect")
    /\ HttpUrlParse(c)
    /\ AllocateAnswer(r)
    /\ UNCHANGED <<asked, records, recv_buff, answer, jobs, heap_fault, note_vars>>

\* tls_client_handle up to the handshake: any of its calls may fail.
TlsSetup(r) ==
    /\ req_at[r] = "connect"
    /\ To(r, "write") \/ To(r, "exit")
    /\ UNCHANGED <<asked, records, shared_vars, heap_vars, note_vars>>

\* The request is printed from host and filename, and written.
WriteRequest(r) ==
    /\ req_at[r] = "write"
    /\ asked' = [asked EXCEPT ![r] = url]
    /\ To(r, "read") \/ To(r, "exit")
    /\ UNCHANGED <<records, shared_vars, heap_vars, note_vars>>

\* mbedtls_ssl_read returns data.
ReadRecord(r) ==
    /\ req_at[r] = "read"
    /\ To(r, "copy")
    /\ recv_buff' = asked[r]
    /\ records' = [records EXCEPT ![r] = IF @ < 2 THEN @ + 1 ELSE 2]
    /\ oversized' = (oversized \/ records[r] > 0)
    /\ UNCHANGED <<asked, url, json_ptr, heap_vars, want, overlapped, unparsed>>

\* Deliberate fault: the request's own copy of the pointer is lost, and the
\* buffer is freed where the contexts are.
ExitFreesAnswer(r) ==
    /\ req_at[r] = "exit"
    /\ To(r, "idle")
    /\ heap_fault' = (heap_fault \/ buffer[r] = "freed")
    /\ buffer' = [buffer EXCEPT ![r] = "freed"]
    /\ UNCHANGED <<asked, records, shared_vars, answer, jobs, note_vars>>

\* The data is copied to where recv_json_buff points now and a task is made
\* for it.
CopyRecord(r) ==
    /\ req_at[r] = "copy"
    /\ To(r, "read")
    /\ \E fits \in BOOLEAN :
         /\ oversized' = (oversized \/ ~fits)
         /\ heap_fault' = (heap_fault \/ ~fits \/ buffer[json_ptr] # "live")
    /\ answer' = [answer EXCEPT ![json_ptr] = recv_buff]
    /\ \/ /\ jobs[json_ptr] < 3
          /\ jobs' = [jobs EXCEPT ![json_ptr] = @ + 1]
          /\ UNCHANGED unparsed
       \/ UNCHANGED jobs /\ unparsed' = unparsed \cup {json_ptr}
    /\ UNCHANGED <<asked, records, shared_vars, buffer, want, overlapped>>

\* mbedtls_ssl_read returns an error, a close notification or the end.
ReadEnd(r) ==
    /\ req_at[r] = "read"
    /\ To(r, "exit")
    /\ UNCHANGED <<asked, records, shared_vars, heap_vars, note_vars>>

\* exit: the contexts are freed, which are local; the answer's buffer is not.
Exit(r) ==
    /\ req_at[r] = "exit"
    /\ To(r, "idle")
    /\ UNCHANGED <<asked, records, shared_vars, heap_vars, note_vars>>

\* https_get_reuest_json_data_task: parses and prints buffer b and frees it.
JsonTask(b) ==
    /\ jobs[b] > 0
    /\ jobs' = [jobs EXCEPT ![b] = @ - 1]
    /\ heap_fault' = (heap_fault \/ buffer[b] # "live")
    /\ buffer' = [buffer EXCEPT ![b] = "freed"]
    /\ UNCHANGED <<req_at, asked, records, shared_vars, answer, note_vars>>

HttpsStep(r) ==
    \/ TlsSetup(r) \/ WriteRequest(r) \/ ReadRecord(r) \/ CopyRecord(r)
    \/ ReadEnd(r) \/ Exit(r) \/ JsonTask(r)

-----------------------------------------------------------------------------
(* Properties, as far as each answer comes before the next click and in one *)
(* record that fits the buffer.                                             *)

\* What is asked for, and what is printed, is the city of the click, although
\* the city, the URL, the receive buffer and the pointer are all shared.
OwnCity ==
    ~overlapped =>
        \A r \in Requests :
            /\ req_at[r] \in {"read", "copy"} => asked[r] = want[r]
            /\ ~oversized /\ jobs[r] > 0 => answer[r] = want[r]

\* The answer's buffer is freed once and not used after that; it is lost only
\* when no answer came or no task could be made to parse it.
AnswerBuffer ==
    ~overlapped /\ ~oversized =>
        /\ ~heap_fault
        /\ \A r \in Requests :
             /\ req_at[r] = "idle" /\ jobs[r] = 0 /\ buffer[r] = "live"
             => records[r] = 0 \/ r \in unparsed
=============================================================================
