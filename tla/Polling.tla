------------------------------ MODULE Polling ------------------------------
(***************************************************************************)
(* What the poll loop promises: which hosts are polled.  A reload, some    *)
(* time after the configuration was replaced, makes them the configured    *)
(* ones at one blow.  Between two reloads no host is taken up, and none is *)
(* given up that is configured; at the end nobody is polled, for good.     *)
(***************************************************************************)
CONSTANT Hosts

VARIABLES
    wanted,     \* the configured hosts
    polled,     \* the hosts that a worker goes on polling
    phase,      \* "new"; "on" while reloads count; "off" for good
    ending      \* the process is to end

vars == <<wanted, polled, phase, ending>>

Init ==
    /\ wanted \in SUBSET Hosts
    /\ polled = {}
    /\ phase = "new"
    /\ ending = FALSE

Configure ==
    /\ wanted' \in SUBSET Hosts
    /\ UNCHANGED <<polled, phase, ending>>

Begin ==
    /\ phase = "new"
    /\ phase' = "on"
    /\ UNCHANGED <<wanted, polled, ending>>

\* The configured hosts, all of them unless the process is to end.
Adopt ==
    /\ phase = "on"
    /\ polled' \in SUBSET wanted
    /\ ~ending => polled' = wanted
    /\ UNCHANGED <<wanted, phase, ending>>

\* A worker ends of its own accord.
GiveUp(h) ==
    /\ h \in polled
    /\ h \notin wanted \/ ending
    /\ polled' = polled \ {h}
    /\ UNCHANGED <<wanted, phase, ending>>

End ==
    /\ ending' = TRUE
    /\ UNCHANGED <<wanted, polled, phase>>

Finish ==
    /\ phase = "on"
    /\ ending
    /\ phase' = "off"
    /\ polled' = {}
    /\ UNCHANGED <<wanted, ending>>

Next == Configure \/ Begin \/ Adopt \/ (\E h \in Hosts : GiveUp(h)) \/ End \/ Finish

Spec == Init /\ [][Next]_vars

============================================================================
