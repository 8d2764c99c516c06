------------------------------ MODULE IrRemote ------------------------------
(***************************************************************************)
(* The infrared receiver of ESP32_IR_Remote_Control-master: IRRemote.c     *)
(* decodes a frame of the NEC protocol, a header and 32 bits: address,     *)
(* complement of the address, command, complement of the command.          *)
(***************************************************************************)
EXTENDS Integers, Sequences

CONSTANT IrBytes \* values of a byte to try

ASSUME IrAssumption == IrBytes \subseteq 0..255 /\ IrBytes # {}

VARIABLES
    ir_at,      \* wait, decode, returned
    ir_header,  \* the frame begins with the header
    ir_items,   \* the items of the frame, the header included
    ir_bytes,   \* what its bits say; an item that is neither bit garbles a byte
    ir_command  \* what IRrecvReadIR returned

ir_vars == <<ir_at, ir_header, ir_items, ir_bytes, ir_command>>

IrTypeOK ==
    /\ ir_at \in {"wait", "decode", "returned"} /\ ir_header \in BOOLEAN
    /\ ir_items \in 1..41 /\ ir_bytes \in [1..4 -> 0..255] /\ ir_command \in 0..255

IrInit ==
    /\ ir_at = "wait" /\ ir_header = FALSE /\ ir_items = 1 /\ ir_bytes = <<0, 0, 0, 0>>
    /\ ir_command = 0

\* The ring buffer hands a frame over, whatever the receiver took for one.
IrFrame ==
    /\ ir_at = "wait" /\ ir_at' = "decode"
    /\ ir_header' \in BOOLEAN
    /\ ir_items' \in {1, 8, 9, 24, 25, 32, 33, 41}
    /\ ir_bytes' \in [1..4 -> IrBytes]
    /\ UNCHANGED ir_command

\* Byte n is complete when the item 8 * n has been looked at; else it is 0.
Decoded(n) == IF ir_items > 8 * n THEN ir_bytes[n] ELSE 0

\* IRrecvDecode.
IrDecode ==
    /\ ir_at = "decode" /\ ir_at' = "returned"
    /\ ir_command' = IF /\ ir_header
                        /\ Decoded(1) = 255 - Decoded(2)
                        /\ Decoded(3) = 255 - Decoded(4)
                     THEN Decoded(3) ELSE 0
    /\ UNCHANGED <<ir_header, ir_items, ir_bytes>>

\* IRrecvReadIR is called again.
IrReadAgain ==
    /\ ir_at = "returned" /\ ir_at' = "wait"
    /\ ir_header' = FALSE /\ ir_items' = 1 /\ ir_bytes' = <<0, 0, 0, 0>> /\ ir_command' = 0

IrNext == IrFrame \/ IrDecode \/ IrReadAgain

\* A command is of a whole frame with both complements right - the command 255
\* excepted, whose complement is what a frame cut short leaves behind.
IrWhole ==
    ir_at = "returned" /\ ir_command \notin {0, 255} =>
        /\ ir_header /\ ir_items >= 33
        /\ ir_bytes[1] + ir_bytes[2] = 255 /\ ir_bytes[3] + ir_bytes[4] = 255
        /\ ir_command = ir_bytes[3]
=============================================================================
