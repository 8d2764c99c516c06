------------------------------- MODULE Rc522 --------------------------------
(***************************************************************************)
(* The card reader of components/hans_mfrc522/bsp_mfrc522.c.  A periodic   *)
(* timer asks for a card, reads its serial number, puts it to sleep and    *)
(* gives the number to a callback.  Every exchange is card_write: a        *)
(* command, a loop that polls for its interrupt, and the bytes the card    *)
(* left in the FIFO, in a block from the heap.                             *)
(***************************************************************************)
EXTENDS Integers

CONSTANTS
    MaxPolls,   \* 1000 in the code
    FifoLevels, \* how many bytes the FIFO may hold
    LastBits    \* how many bits of the last one are valid, 0 for all

ASSUME Rc522Assumption == MaxPolls \in Nat \ {0} /\ FifoLevels \subseteq 0..64 /\ LastBits \subseteq 0..7

NULL == -1

VARIABLES
    rc_at,     \* where rc522_start and the timer callback are
    rc_cmd,    \* the exchange: request, anticoll, halt
    rc_i,      \* polls left
    rc_n,      \* *res_n; NULL stands for the uninitialised byte
    rc_result, \* the length of the block that card_write returned, or NULL
    rc_serial, \* the same for the serial number
    rc_heap    \* blocks of this callback

rc_vars == <<rc_at, rc_cmd, rc_i, rc_n, rc_result, rc_serial, rc_heap>>

RcTypeOK ==
    /\ rc_at \in {"start", "timer", "idle", "send", "poll", "read", "check", "crc", "tag", "dead", "over"}
    /\ rc_cmd \in {"request", "anticoll", "halt"}
    /\ rc_i \in 0..MaxPolls
    /\ {rc_n, rc_result, rc_serial} \subseteq NULL..255
    /\ rc_heap \in 0..2

RcInit ==
    /\ rc_at = "start" /\ rc_cmd = "request" /\ rc_i = MaxPolls
    /\ rc_n = NULL /\ rc_result = NULL /\ rc_serial = NULL /\ rc_heap = 0

-----------------------------------------------------------------------------
\* rc522_spi_init and rc522_init: the bus, the test of a register, the settings
\* and the antenna.  An assertion stops the program.
RcStart ==
    /\ rc_at = "start"
    /\ rc_at' \in {"timer", "dead"}
    /\ UNCHANGED <<rc_cmd, rc_i, rc_n, rc_result, rc_serial, rc_heap>>

\* esp_timer_create, and rc522_resume, which starts the timer.
RcTimer ==
    /\ rc_at = "timer"
    /\ rc_at' \in {"idle", "over"}
    /\ UNCHANGED <<rc_cmd, rc_i, rc_n, rc_result, rc_serial, rc_heap>>

\* rc522_timer_callback calls rc522_get_tag.
RcTick ==
    /\ rc_at = "idle"
    /\ rc_at' = "send" /\ rc_cmd' = "request" /\ rc_n' = NULL
    /\ UNCHANGED <<rc_i, rc_result, rc_serial, rc_heap>>

-----------------------------------------------------------------------------
(* rc522_card_write.                                                        *)

\* The registers and the command; a transfer that fails while a register is
\* read ends the program.
CardSend ==
    /\ rc_at = "send"
    /\ rc_at' \in {"poll", "dead"}
    /\ rc_i' = MaxPolls
    /\ rc_result' = NULL
    /\ UNCHANGED <<rc_cmd, rc_n, rc_serial, rc_heap>>

\* One round of the loop: the interrupt has come, or the chip's timer ran out,
\* or neither; the polls may run out in the same round.
CardPoll ==
    /\ rc_at = "poll"
    /\ rc_i' = rc_i - 1
    /\ \/ rc_at' = "read"
       \/ rc_at' = IF rc_i' = 0 THEN "read" ELSE "poll"
    /\ UNCHANGED <<rc_cmd, rc_n, rc_result, rc_serial, rc_heap>>

\* The length of the result.  It is a byte.
ResultLength(nn, last_bits) == IF last_bits # 0 THEN ((nn - 1) + last_bits) % 256 ELSE nn

\* The bytes are there unless the polls ran out or the error register says so:
\* then there is no block and *res_n stays as it is.
CardRead ==
    /\ rc_at = "read" /\ rc_at' = "check"
    /\ \/ rc_i # 0 /\ \E nn \in FifoLevels, last_bits \in LastBits :
            /\ rc_n' = ResultLength(nn, last_bits)
            /\ rc_result' = rc_n'
            /\ rc_heap' = rc_heap + 1
       \/ UNCHANGED <<rc_n, rc_result, rc_heap>>
    /\ UNCHANGED <<rc_cmd, rc_i, rc_serial>>

FreeResult == rc_heap' = IF rc_result = NULL THEN rc_heap ELSE rc_heap - 1

-----------------------------------------------------------------------------
(* rc522_get_tag, by the result of each exchange.                           *)

\* rc522_request: an answer of two bytes, or an uninitialised length that says
\* so of none, goes on as it is; get_tag frees it.
AnswerToRequest == rc_result # NULL /\ rc_n = 2

RequestCheck ==
    /\ rc_at = "check" /\ rc_cmd = "request"
    /\ FreeResult
    /\ rc_result' = NULL
    /\ IF AnswerToRequest
       THEN rc_at' = "send" /\ rc_cmd' = "anticoll" /\ rc_n' = NULL
       ELSE rc_at' = "idle" /\ UNCHANGED <<rc_cmd, rc_n>>
    /\ UNCHANGED <<rc_i, rc_serial>>

\* Deliberate fault: any answer is a serial number.
AnticollTakesAll ==
    /\ rc_at = "check" /\ rc_cmd = "anticoll"
    /\ rc_result' = NULL
    /\ IF rc_result # NULL
       THEN rc_at' = "crc" /\ rc_serial' = rc_result /\ UNCHANGED rc_heap
       ELSE rc_at' = "idle" /\ FreeResult /\ UNCHANGED rc_serial
    /\ UNCHANGED <<rc_cmd, rc_i, rc_n>>

\* rc522_anticoll: the serial number is five bytes long.
AnticollCheck ==
    /\ rc_at = "check" /\ rc_cmd = "anticoll"
    /\ rc_result' = NULL
    /\ IF rc_result # NULL /\ rc_n = 5
       THEN rc_at' = "crc" /\ rc_serial' = rc_result /\ UNCHANGED rc_heap
       ELSE rc_at' = "idle" /\ FreeResult /\ UNCHANGED rc_serial
    /\ UNCHANGED <<rc_cmd, rc_i, rc_n>>

\* rc522_calculate_crc waits at most 255 polls and returns two bytes in any
\* case; they are copied and freed.
RcCrc ==
    /\ rc_at = "crc"
    /\ rc_at' \in {"send", "dead"} /\ rc_cmd' = "halt"
    /\ UNCHANGED <<rc_i, rc_n, rc_result, rc_serial, rc_heap>>

HaltCheck ==
    /\ rc_at = "check" /\ rc_cmd = "halt"
    /\ rc_at' = "tag"
    /\ FreeResult /\ rc_result' = NULL
    /\ UNCHANGED <<rc_cmd, rc_i, rc_n, rc_serial>>

\* The callback reads five bytes; the block is freed.
TagHandler ==
    /\ rc_at = "tag" /\ rc_at' = "idle"
    /\ rc_heap' = rc_heap - 1 /\ rc_serial' = NULL
    /\ UNCHANGED <<rc_cmd, rc_i, rc_n, rc_result>>

RcNext ==
    \/ RcStart \/ RcTimer \/ RcTick
    \/ CardSend \/ CardPoll \/ CardRead
    \/ RequestCheck \/ AnticollCheck \/ RcCrc \/ HaltCheck \/ TagHandler

-----------------------------------------------------------------------------
\* The callback is given a serial number of five bytes, whatever the card
\* answered and although the length is not initialised when it did not answer;
\* and no round leaves a block on the heap.
TagWhole ==
    /\ rc_at = "tag" => rc_serial = 5 /\ rc_heap = 1
    /\ rc_at = "idle" => rc_heap = 0
=============================================================================
