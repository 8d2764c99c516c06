----------------------------- MODULE LossyRelay -----------------------------
(***************************************************************************)
(* What the message pipeline promises, whatever its queues and tasks do:   *)
(* a message may be lost, but it is shown at most once, at one sink, and   *)
(* no sink shows an older message of a producer after a newer one.         *)
(***************************************************************************)
EXTENDS Naturals, Sequences, Functions

CONSTANTS Producers, Sinks

VARIABLES
    sent,   \* how many messages each producer has sent
    shown   \* what each sink has shown, oldest first: [from, id, data]

vars == <<sent, shown>>

Init ==
    /\ sent = [p \in Producers |-> 0]
    /\ shown = [s \in Sinks |-> <<>>]

Send(p) ==
    /\ sent' = [sent EXCEPT ![p] = @ + 1]
    /\ UNCHANGED shown

\* Numbers are unique to their producer, so "newer than all of them" is also
\* "not among them".
Fresh(s, m) ==
    /\ m.id \in 1..sent[m.from]
    /\ \A n \in Range(shown[s]) : n.from = m.from => n.id < m.id
    /\ \A t \in Sinks : \A n \in Range(shown[t]) : n.from = m.from => n.id # m.id

Show(s, m) ==
    /\ Fresh(s, m)
    /\ shown' = [shown EXCEPT ![s] = Append(@, m)]
    /\ UNCHANGED sent

\* Any message may come next; it can be read off the new value of shown.
Next ==
    \/ \E p \in Producers : Send(p)
    \/ \E s \in Sinks : \E m \in Range(shown'[s]) : Show(s, m)

Spec == Init /\ [][Next]_vars
=============================================================================
