--------------------------------- MODULE Ota --------------------------------
(***************************************************************************)
(* hx-ota: one task fetches a new firmware image over HTTP and writes it   *)
(* to the next partition while it arrives (ota_example_main.c).  TCP cuts  *)
(* the response where it likes; the task looks for the empty line at the   *)
(* end of the HTTP header in every packet on its own.                      *)
(*                                                                         *)
(* The response is a sequence of pieces: the text of the one header line,  *)
(* the bytes CR and LF, and the chunks 1..ImageChunks of the image.  A     *)
(* chunk is many bytes, of any value.                                      *)
(***************************************************************************)
EXTENDS Naturals, Sequences

CONSTANT ImageChunks \* bound: chunks of the image

ASSUME OtaAssumption == ImageChunks \in Nat \ {0}

TEXT == 0
CR == ImageChunks + 1
LF == ImageChunks + 2

Header == <<TEXT, CR, LF, CR, LF>>
Image == [k \in 1..ImageChunks |-> k]

VARIABLES
    ota_at,      \* ota_example_task
    ota_bit,     \* CONNECTED_BIT
    ota_sock,    \* socket_id: none, open, closed or twice (closed again)
    ota_got,     \* pieces of the response received so far
    ota_body,    \* resp_body_start
    ota_flash,   \* chunks written to the partition, 0 for anything else
    ota_split,   \* history: the header did not come in one packet
    ota_cut,     \* history: the connection ended before the response
    ota_lost,    \* history: the chunks after the header could not be written
    ota_crash    \* history: a copy of a negative length

ota_note_vars == <<ota_split, ota_cut, ota_lost, ota_crash>>
ota_vars == <<ota_at, ota_bit, ota_sock, ota_got, ota_body, ota_flash, ota_note_vars>>

OtaTypeOK ==
    /\ ota_at \in {"wait", "blocked", "connect", "send", "begin", "recv", "end", "boot",
                   "fatal", "gone", "restart"}
    /\ ota_sock \in {"none", "open", "closed", "twice"}
    /\ ota_got \in 0..Len(Header) + ImageChunks
    /\ ota_flash \in Seq(0..ImageChunks)
    /\ {ota_bit, ota_body, ota_split, ota_cut, ota_lost, ota_crash} \subseteq BOOLEAN

OtaInit ==
    /\ ota_at = "wait" /\ ota_bit = FALSE /\ ota_sock = "none"
    /\ ota_got = 0 /\ ota_body = FALSE /\ ota_flash = <<>>
    /\ ota_split = FALSE /\ ota_cut = FALSE /\ ota_lost = FALSE /\ ota_crash = FALSE

CloseSocketId ==
    ota_sock' = IF ota_sock = "open" THEN "closed"
                ELSE IF ota_sock = "closed" THEN "twice" ELSE ota_sock

-----------------------------------------------------------------------------
(* The packets.                                                             *)

Response == Header \o Image

\* A piece that may be a single byte other than LF.
OneByte(piece) == piece \in {TEXT, CR}

\* read_past_http_header: the places where a line of two bytes begins.  Of a
\* chunk it is not known, and a packet of one byte counts as such a line too,
\* since read_until returns one more than it read.
EmptyLine(packet) ==
    {i \in 1..Len(packet) :
        /\ i = 1 \/ packet[i - 1] \notin {TEXT, CR}
        /\ \/ packet[i] = CR /\ i < Len(packet) /\ packet[i + 1] = LF
           \/ packet[i] \in 1..ImageChunks}

\* What remains of a packet from place i on, as chunks: a chunk that was begun
\* and whatever is not of the image are 0.
Chunks(packet, i) ==
    [k \in 1..Len(packet) - i + 1 |->
        IF packet[i + k - 1] \in 1..ImageChunks /\ (k > 1 \/ i = 1 \/ packet[i - 1] = LF)
        THEN packet[i + k - 1] ELSE 0]

\* Deliberate fault: the write starts at the empty line, not after it.
AfterLineTooEarly(packet, i) ==
    IF packet[i] = CR THEN Chunks(packet, i + 1)
    ELSE [k \in 1..Len(packet) - i + 1 |-> 0]

\* The bytes after the empty line at place i.
AfterLine(packet, i) ==
    IF packet[i] = CR THEN Chunks(packet, i + 2)
    ELSE [k \in 1..Len(packet) - i + 1 |-> 0]

-----------------------------------------------------------------------------
(* The task.                                                                *)

\* The event handler sets or clears the bit; setting it wakes the task.
OtaEventHandler ==
    \E set \in BOOLEAN :
        /\ ota_bit' = set
        /\ ota_at' = IF set /\ ota_at = "blocked" THEN "connect" ELSE ota_at
        /\ UNCHANGED <<ota_sock, ota_got, ota_body, ota_flash, ota_note_vars>>

OtaWait ==
    /\ ota_at = "wait"
    /\ ota_at' = IF ota_bit THEN "connect" ELSE "blocked"
    /\ UNCHANGED <<ota_bit, ota_sock, ota_got, ota_body, ota_flash, ota_note_vars>>

\* connect_to_http_server: a socket that cannot be connected is closed here
\* and, since every failure is fatal, once more.
OtaConnect ==
    /\ ota_at = "connect"
    /\ \/ ota_sock' = "open" /\ ota_at' = "send"
       \/ ota_sock' \in {"none", "closed"} /\ ota_at' = "fatal"
    /\ UNCHANGED <<ota_bit, ota_got, ota_body, ota_flash, ota_note_vars>>

\* The request is printed and sent, and esp_ota_begin called.
OtaRequest ==
    /\ ota_at \in {"send", "begin"}
    /\ ota_at' \in {IF ota_at = "send" THEN "begin" ELSE "recv", "fatal"}
    /\ UNCHANGED <<ota_bit, ota_sock, ota_got, ota_body, ota_flash, ota_note_vars>>

\* A packet while the header is not over.
HeaderPacket(packet) ==
    /\ ~ota_body
    /\ ota_split' = (ota_split \/ Len(packet) < Len(Header))
    /\ ota_crash' \in {ota_crash, ota_crash \/ (Len(packet) = 1 /\ OneByte(packet[1]))}
    /\ LET lines == EmptyLine(packet)
           sure == {i \in lines : packet[i] = CR}
           first == CHOOSE i \in sure : \A j \in sure : i <= j
           found == IF sure # {} THEN {first} ELSE lines
       IN  \/ \E i \in found, written \in BOOLEAN :
                /\ ota_body' = written
                /\ ota_lost' = (ota_lost \/ ~written)
                /\ ota_flash' = IF written THEN ota_flash \o AfterLine(packet, i) ELSE ota_flash
           \/ sure = {} /\ UNCHANGED <<ota_body, ota_lost, ota_flash>>
    /\ ota_at' = "recv"

\* A packet of the body; an error of the write is fatal.
BodyPacket(packet) ==
    /\ ota_body
    /\ \/ ota_at' = "recv" /\ ota_flash' = ota_flash \o Chunks(packet, 1)
       \/ ota_at' = "fatal" /\ UNCHANGED ota_flash
    /\ UNCHANGED <<ota_body, ota_split, ota_lost, ota_crash>>

\* recv() returns the next piece or several.
OtaPacket ==
    /\ ota_at = "recv"
    /\ \E n \in 1..Len(Response) - ota_got :
         LET packet == SubSeq(Response, ota_got + 1, ota_got + n)
         IN  /\ ota_got' = ota_got + n
             /\ HeaderPacket(packet) \/ BodyPacket(packet)
    /\ UNCHANGED <<ota_bit, ota_sock, ota_cut>>

\* recv() returns an error, or 0: the end, which may come too early.
OtaReceiveEnd ==
    /\ ota_at = "recv"
    /\ \/ ota_at' = "fatal" /\ UNCHANGED <<ota_sock, ota_cut>>
       \/ /\ ota_at' = "end"
          /\ ota_cut' = (ota_got < Len(Response))
          /\ CloseSocketId
    /\ UNCHANGED <<ota_bit, ota_got, ota_body, ota_flash, ota_split, ota_lost, ota_crash>>

\* esp_ota_end, which accepts no other image than the one that was sent, and
\* esp_ota_set_boot_partition.
OtaFinish ==
    /\ ota_at \in {"end", "boot"}
    /\ \/ ota_at' = "fatal"
       \/ ota_at = "end" /\ ota_flash = Image /\ ota_at' = "boot"
       \/ ota_at = "boot" /\ ota_at' = "restart"
    /\ UNCHANGED <<ota_bit, ota_sock, ota_got, ota_body, ota_flash, ota_note_vars>>

\* task_fatal_error.
TaskFatalError ==
    /\ ota_at = "fatal"
    /\ ota_at' = "gone"
    /\ CloseSocketId
    /\ UNCHANGED <<ota_bit, ota_got, ota_body, ota_flash, ota_note_vars>>

OtaNext ==
    /\ ~ota_crash    \* nothing is said of what follows
    /\ \/ OtaEventHandler \/ OtaWait \/ OtaConnect \/ OtaRequest
       \/ OtaPacket \/ OtaReceiveEnd \/ OtaFinish \/ TaskFatalError

-----------------------------------------------------------------------------
\* However TCP cuts the response, what is in the partition when the transfer is
\* over is the image, whole and in order - unless the header came in more than
\* one packet, the connection ended early, or the chunks that came with the
\* header could not be written: that error alone is not fatal.
ImageWhole ==
    ~ota_split =>
        /\ ~ota_crash
        /\ ota_at = "end" /\ ~ota_cut /\ ~ota_lost => ota_flash = Image

\* When the task is gone its socket is closed.
OtaSocketClosed == ota_at \in {"gone", "restart"} => ota_sock # "open"
=============================================================================
