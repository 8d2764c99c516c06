----------------------------- MODULE NvsLesson ------------------------------
(***************************************************************************)
(* hx-nvs: at every start the program reads its counters from the flash,   *)
(* adds one, writes them back, commits, and restarts itself.  Power may    *)
(* fail at any time.  Of the four counters one is kept that wraps soon and *)
(* one that does not; the text names the second.                           *)
(***************************************************************************)
EXTENDS Integers, Sequences

CONSTANTS
    NvsWrap,  \* 256 in the code: the counter nvs_i8 wraps there
    MaxStarts \* bound on the starts of a run

ASSUME NvsAssumption == NvsWrap \in Nat \ {0} /\ MaxStarts \in Nat

NvsKeys == <<"i8", "u64", "str">>

VARIABLES
    nvs_at,     \* start, read, set, commit, restart
    nvs_flash,  \* what a start finds
    nvs_unsure, \* written but not committed: lost or kept if power fails
    nvs_ram,    \* the globals
    nvs_next,   \* the key to set next
    nvs_found,  \* history: what this start found in the flash
    nvs_unread, \* history: the counters this start could not read
    nvs_failed, \* history: a set or the commit of this start failed
    nvs_starts

nvs_vars == <<nvs_at, nvs_flash, nvs_unsure, nvs_ram, nvs_next, nvs_found, nvs_unread, nvs_failed,
              nvs_starts>>

Zeros == [i8 |-> 0, u64 |-> 0, str |-> 0]

NvsTypeOK ==
    /\ nvs_at \in {"start", "read", "set", "commit", "restart"}
    /\ {nvs_flash, nvs_unsure, nvs_ram, nvs_found} \subseteq [i8 : 0..NvsWrap - 1, u64 : Nat, str : Nat]
    /\ nvs_next \in 1..3 /\ nvs_unread \subseteq {"i8", "u64"}
    /\ nvs_failed \in BOOLEAN /\ nvs_starts \in 0..MaxStarts

NvsInit ==
    /\ nvs_at = "start" /\ nvs_flash = Zeros /\ nvs_unsure = Zeros /\ nvs_ram = Zeros
    /\ nvs_next = 1 /\ nvs_found = Zeros /\ nvs_unread = {} /\ nvs_failed = FALSE /\ nvs_starts = 0

\* nvs_flash_init, which may have to erase the flash; and nvs_open.
NvsOpen ==
    /\ nvs_at = "start" /\ nvs_starts < MaxStarts
    /\ nvs_starts' = nvs_starts + 1
    /\ nvs_flash' \in {nvs_flash, Zeros}
    /\ nvs_unsure' = nvs_flash' /\ nvs_found' = nvs_flash'
    /\ nvs_ram' = Zeros /\ nvs_next' = 1 /\ nvs_unread' = {}
    /\ \/ nvs_at' = "read" /\ nvs_failed' = FALSE
       \/ nvs_at' = "restart" /\ nvs_failed' = TRUE

\* Deliberate fault: the counter is read into something wider.
NvsReadUnwrapped ==
    /\ nvs_at = "read" /\ nvs_at' = "set"
    /\ nvs_ram' = [i8  |-> nvs_flash.i8 + 1,
                   u64 |-> nvs_flash.u64 + 1, str |-> nvs_flash.u64 + 1]
    /\ UNCHANGED <<nvs_flash, nvs_unsure, nvs_next, nvs_found, nvs_unread, nvs_failed, nvs_starts>>

\* A key that is not there, or that cannot be read, leaves the global at zero.
\* Each counter goes on in its own width; the text is made of the second.
NvsRead ==
    /\ nvs_at = "read" /\ nvs_at' = "set"
    /\ nvs_unread' \in SUBSET {"i8", "u64"}
    /\ LET got(key) == IF key \in nvs_unread' THEN 0 ELSE nvs_flash[key]
       IN nvs_ram' = [i8  |-> (got("i8") + 1) % NvsWrap,
                      u64 |-> got("u64") + 1, str |-> got("u64") + 1]
    /\ UNCHANGED <<nvs_flash, nvs_unsure, nvs_next, nvs_found, nvs_failed, nvs_starts>>

\* A set that fails is reported, and the next one follows.
NvsSet ==
    /\ nvs_at = "set"
    /\ LET key == NvsKeys[nvs_next]
       IN \/ nvs_unsure' = [nvs_unsure EXCEPT ![key] = nvs_ram[key]] /\ UNCHANGED nvs_failed
          \/ nvs_failed' = TRUE /\ UNCHANGED nvs_unsure
    /\ IF nvs_next = 3 THEN nvs_at' = "commit" /\ nvs_next' = 1
       ELSE nvs_next' = nvs_next + 1 /\ UNCHANGED nvs_at
    /\ UNCHANGED <<nvs_flash, nvs_ram, nvs_found, nvs_unread, nvs_starts>>

\* Deliberate fault: no commit.
NvsNoCommit ==
    /\ nvs_at = "commit" /\ nvs_at' = "restart"
    /\ UNCHANGED <<nvs_flash, nvs_unsure, nvs_ram, nvs_next, nvs_found, nvs_unread, nvs_failed, nvs_starts>>

NvsCommit ==
    /\ nvs_at = "commit" /\ nvs_at' = "restart"
    /\ \/ nvs_flash' = nvs_unsure /\ UNCHANGED nvs_failed
       \/ nvs_failed' = TRUE /\ UNCHANGED nvs_flash
    /\ UNCHANGED <<nvs_unsure, nvs_ram, nvs_next, nvs_found, nvs_unread, nvs_starts>>

\* Power fails, or esp_restart is called: of what was not committed, any part
\* may have reached the flash.
NvsStops ==
    /\ nvs_at # "start" /\ nvs_at' = "start"
    /\ \E kept \in SUBSET DOMAIN Zeros :
            nvs_flash' = [k \in DOMAIN Zeros |-> IF k \in kept THEN nvs_unsure[k] ELSE nvs_flash[k]]
    /\ nvs_unsure' = nvs_flash'
    /\ UNCHANGED <<nvs_ram, nvs_next, nvs_found, nvs_unread, nvs_failed, nvs_starts>>

NvsNext == NvsOpen \/ NvsRead \/ NvsSet \/ NvsCommit \/ NvsStops

\* A start that got as far as the restart has counted once in every counter it
\* could read, whatever part of a start before it was cut off in the middle, and
\* the text names the second counter; no start, cut off or not, counts twice,
\* and it loses the count only if it could not read it.
NvsCounted ==
    /\ nvs_at = "restart" /\ ~nvs_failed =>
            /\ "i8" \notin nvs_unread => nvs_flash.i8 = (nvs_found.i8 + 1) % NvsWrap
            /\ "u64" \notin nvs_unread => nvs_flash.u64 = nvs_found.u64 + 1
            /\ nvs_flash.str = nvs_flash.u64
    /\ nvs_flash.u64 <= nvs_found.u64 + 1
    /\ "u64" \notin nvs_unread => nvs_flash.u64 >= nvs_found.u64
    /\ nvs_flash.u64 <= nvs_starts
=============================================================================
