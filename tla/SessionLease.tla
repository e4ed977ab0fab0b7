---------------------------- MODULE SessionLease ----------------------------
(***************************************************************************)
(* What the runs of the program promise each other about the session, with *)
(* no word about scale sets, retries and goroutines: a lease that one run  *)
(* holds at a time.  A starting run takes it when it is free, or takes it  *)
(* away from whoever holds it; a run that ends in an orderly way gives it  *)
(* back before it exits and does not come back to it; what it does to      *)
(* others at its end is harmless to those that manage their scale set; and *)
(* the lease of a run that is over expires.                                *)
(***************************************************************************)
CONSTANTS Process, NoProcess

VARIABLES
    holder,     \* the run that has the session, NoProcess if none
    phase,      \* where each run is in its life
    manages     \* the runs that may replace and delete the scale set

vars == <<holder, phase, manages>>

TypeOK ==
    /\ holder \in Process \union {NoProcess}
    /\ phase \in [Process -> {"off", "starting", "serving", "closed", "exited",
                              "broken"}]
    /\ manages \in [Process -> BOOLEAN]

Init ==
    /\ holder = NoProcess
    /\ phase = [p \in Process |-> "off"]
    /\ manages \in [Process -> BOOLEAN]

become(p, next) == phase' = [phase EXCEPT ![p] = next] /\ UNCHANGED manages

Begin(p) ==
    /\ phase[p] = "off"
    /\ become(p, "starting")
    /\ UNCHANGED holder

\* The last attempt may take the session and count as failed.
Take(p) ==
    /\ phase[p] = "starting" /\ holder = NoProcess
    /\ holder' = p
    /\ \E next \in {"starting", "broken"} : become(p, next)

TakeAway(p) ==
    /\ phase[p] = "starting"
    /\ holder' = NoProcess
    /\ \E next \in {"starting", "broken"} : become(p, next)

Serve(p) ==
    /\ phase[p] = "starting"
    /\ become(p, "serving")
    /\ UNCHANGED holder

\* GitHub confirms that the session is given back, or does not.
Close(p) ==
    /\ phase[p] = "serving"
    /\ become(p, "closed")
    /\ \/ holder = p /\ holder' = NoProcess
       \/ UNCHANGED holder

\* The scale set goes at the end of the run that manages it.
Evict(p) ==
    /\ phase[p] = "closed" /\ manages[p]
    /\ holder \in {p, NoProcess} \/ ~manages[holder]
    /\ holder' = NoProcess
    /\ UNCHANGED <<phase, manages>>

Exit(p) ==
    /\ phase[p] = "closed"
    /\ become(p, "exited")
    /\ UNCHANGED holder

\* By a panic, or from outside.
Break(p) ==
    /\ phase[p] \in {"starting", "serving", "closed"}
    /\ become(p, "broken")
    /\ UNCHANGED holder

Expire ==
    /\ holder # NoProcess /\ phase[holder] \in {"exited", "broken"}
    /\ holder' = NoProcess
    /\ UNCHANGED <<phase, manages>>

Next ==
    \/ Expire
    \/ \E p \in Process :
          \/ Begin(p)
          \/ Take(p)
          \/ TakeAway(p)
          \/ Serve(p)
          \/ Close(p)
          \/ Evict(p)
          \/ Exit(p)
          \/ Break(p)

Spec == Init /\ [][Next]_vars

=============================================================================
