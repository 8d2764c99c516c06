----------------------------- MODULE TcpSession -----------------------------
(***************************************************************************)
(* What the client build of the TCP link promises, without its tasks,      *)
(* descriptors and flag: a single session that goes round a fixed cycle.   *)
(* A connection is opened only when there is none, is served by one task,  *)
(* ends when that task sees its end, and is closed before the next opens.  *)
(* A connection that could not be given a task stays open.                 *)
(***************************************************************************)
VARIABLE phase

Phase == {"idle", "open", "served", "ending"}

Init == phase = "idle"

Open  == phase = "idle"   /\ phase' = "open"
Serve == phase = "open"   /\ phase' = "served"
End   == phase = "served" /\ phase' = "ending"
Shut  == phase = "ending" /\ phase' = "idle"

Next == Open \/ Serve \/ End \/ Shut

SafeSpec == Init /\ [][Next]_phase

Spec == SafeSpec /\ WF_phase(Shut)
=============================================================================
