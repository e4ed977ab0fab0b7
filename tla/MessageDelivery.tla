--------------------------- MODULE MessageDelivery ---------------------------
(***************************************************************************)
(* What the runner manager promises about the messages of the scale set,   *)
(* over all runs of the program: the next one is taken up only when every  *)
(* message before it has been processed or has gone with its scale set,    *)
(* and GitHub is told to forget a message only after it was processed.     *)
(* A message may be processed more than once.                              *)
(***************************************************************************)
EXTENDS Naturals

VARIABLES
    created,    \* GitHub has created the messages 1 .. created
    processed,  \* the latest message that has been processed
    removed,    \* the messages GitHub does not have any more
    lost        \* those of them that went with a scale set unprocessed

vars == <<created, processed, removed, lost>>

pending == {m \in 1 .. created : m > processed} \ lost

Init == created = 0 /\ processed = 0 /\ removed = {} /\ lost = {}

Create == created' = created + 1 /\ UNCHANGED <<processed, removed, lost>>

Process ==
    /\ processed' \in pending
    /\ \A m \in pending : processed' <= m
    /\ UNCHANGED <<created, removed, lost>>

Remove(m) ==
    /\ m \in 1 .. processed
    /\ removed' = removed \union {m}
    /\ UNCHANGED <<created, processed, lost>>

\* The scale set is deleted, and with it all of its messages at once.
Discard ==
    /\ removed' = 1 .. created
    /\ lost' = lost \union pending
    /\ UNCHANGED <<created, processed>>

Next == Create \/ Process \/ (\E m \in 1 .. processed : Remove(m)) \/ Discard

Spec == Init /\ [][Next]_vars

=============================================================================
