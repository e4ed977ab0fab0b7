--------------------------- MODULE EphemeralRunner ---------------------------
(***************************************************************************)
(* What the integration promises about each pair of a VM and the runner    *)
(* registered for it, with no word about how: the VM is deployed, at most  *)
(* one runner is registered for it while it is up, that runner executes at *)
(* most one job, and the VM is deleted only when no registration refers to *)
(* it, so never under a job and never while GitHub could start one.        *)
(***************************************************************************)
CONSTANT VM

VARIABLES vm, runner

vars == <<vm, runner>>

TypeOK ==
    /\ vm \in [VM -> {"absent", "up", "deleted"}]
    /\ runner \in [VM -> {"none", "idle", "busy", "used", "gone"}]

Init ==
    /\ vm = [v \in VM |-> "absent"]
    /\ runner = [v \in VM |-> "none"]

Deploy(v) ==
    /\ vm[v] = "absent"
    /\ vm' = [vm EXCEPT ![v] = "up"]
    /\ UNCHANGED runner

Register(v) ==
    /\ vm[v] = "up" /\ runner[v] = "none"
    /\ runner' = [runner EXCEPT ![v] = "idle"]
    /\ UNCHANGED vm

StartJob(v) ==
    /\ vm[v] = "up" /\ runner[v] = "idle"
    /\ runner' = [runner EXCEPT ![v] = "busy"]
    /\ UNCHANGED vm

EndJob(v) ==
    /\ runner[v] = "busy"
    /\ runner' = [runner EXCEPT ![v] = "used"]
    /\ UNCHANGED vm

Deregister(v) ==
    /\ runner[v] \in {"idle", "busy", "used"}
    /\ runner' = [runner EXCEPT ![v] = "gone"]
    /\ UNCHANGED vm

Delete(v) ==
    /\ vm[v] = "up" /\ runner[v] \in {"none", "gone"}
    /\ vm' = [vm EXCEPT ![v] = "deleted"]
    /\ UNCHANGED runner

Next ==
    \E v \in VM :
        \/ Deploy(v)
        \/ Register(v)
        \/ StartJob(v)
        \/ EndJob(v)
        \/ Deregister(v)
        \/ Delete(v)

Spec == Init /\ [][Next]_vars

=============================================================================
