------------------------------ MODULE NodeLife ------------------------------
(***************************************************************************)
(* What the node group may expect of one node: the steps of module          *)
(* NodeGroup on a single node object, without the books of the group.  A    *)
(* goroutine launches the node, others delete it, and statusVM overwrites   *)
(* its state.  Module Node, which has the calls inside launchVM, deleteVM   *)
(* and statusVM, implements this specification.                             *)
(***************************************************************************)
CONSTANT Callers   \* goroutines that work on the node

VARIABLES
  faults,    \* which external calls may fail: "launch", "delete"; does not change
  state,     \* vm.State
  exists,    \* the provider has a VM for the node
  phase      \* where each goroutine is, see NodeGroup!Phase

vars == <<faults, state, exists, phase>>

Launching == {"start", "creating", "booting", "joined"}

To(c, p) == phase' = [phase EXCEPT ![c] = p]

Init ==
  /\ faults \subseteq {"launch", "delete", "kube"}
  /\ state = "NotCreated"
  /\ exists = FALSE
  /\ phase = [c \in Callers |-> "none"]

\* The group launches a node once.
Launch(c) ==
  /\ phase[c] = "none" /\ state = "NotCreated"
  /\ \A d \in Callers : phase[d] \notin Launching
  /\ To(c, "start")
  /\ UNCHANGED <<faults, state, exists>>

LaunchVM(c) ==
  /\ phase[c] = "start" /\ state = "NotCreated"
  /\ state' = "Creating" /\ To(c, "creating")
  /\ UNCHANGED <<faults, exists>>

InstanceCreate(c) ==
  /\ phase[c] = "creating" /\ ~exists
  /\ exists' = TRUE /\ To(c, "booting")
  /\ UNCHANGED <<faults, state>>

NodeJoins(c) ==
  /\ phase[c] = "booting"
  /\ state' = "Running" /\ To(c, "joined")
  /\ UNCHANGED <<faults, exists>>

LaunchSucceeds(c) ==
  /\ phase[c] = "joined"
  /\ To(c, "none")
  /\ UNCHANGED <<faults, state, exists>>

CheckNotDeleting == IF state = "Deleting" THEN "refused" ELSE "checked"

\* The launch fails: statusVM, then deleteVM begins.
LaunchFails(c) ==
  /\ \/ phase[c] \in {"start", "creating"} /\ "launch" \in faults
     \/ phase[c] = "creating" /\ exists
     \/ phase[c] \in {"booting", "joined"}
  /\ \/ /\ exists \/ phase[c] \in {"booting", "joined"}
        /\ state' \in {"Running", "Stopped"} /\ To(c, "checked")
     \/ /\ ~exists \/ "delete" \in faults
        /\ UNCHANGED state /\ To(c, CheckNotDeleting)
  /\ UNCHANGED <<faults, exists>>

Delete(c) ==
  /\ phase[c] = "none"
  /\ To(c, CheckNotDeleting)
  /\ UNCHANGED <<faults, state, exists>>

LaunchUnderWay(c) == \E d \in Callers : d # c /\ phase[d] \in {"booting", "joined"}

InstanceStatus(c) ==
  /\ phase[c] = "checked"
  /\ \/ /\ exists /\ state' = "Deleting"
        /\ To(c, IF LaunchUnderWay(c) THEN "racing" ELSE "deleting")
     \/ (~exists \/ "delete" \in faults) /\ UNCHANGED state /\ To(c, "refused")
  /\ UNCHANGED <<faults, exists>>

InstancePowerOff(c) ==
  /\ phase[c] \in {"deleting", "racing"} /\ exists
  /\ state' = "Stopped" /\ To(c, "stopped")
  /\ UNCHANGED <<faults, exists>>

VMDeleted(c) ==
  /\ phase[c] \in {"deleting", "racing", "stopped"} /\ exists
  /\ exists' = FALSE /\ state' = "Deleted" /\ To(c, "none")
  /\ UNCHANGED faults

PoweredOff(c) == \E d \in Callers : d # c /\ phase[d] = "stopped"

VMNotDeleted(c) ==
  /\ \/ phase[c] \in {"deleting", "stopped"} /\ ("delete" \in faults \/ ~exists \/ PoweredOff(c))
     \/ phase[c] \in {"racing", "refused"}
  /\ To(c, "none")
  /\ UNCHANGED <<faults, state, exists>>

Refresh ==
  /\ state \notin {"NotCreated", "Creating"}
  /\ state' \in {"Running", "Stopped"}
  /\ UNCHANGED <<faults, exists, phase>>

Next ==
  \/ \E c \in Callers :
       \/ Launch(c) \/ LaunchVM(c) \/ InstanceCreate(c) \/ NodeJoins(c) \/ LaunchSucceeds(c)
       \/ LaunchFails(c) \/ Delete(c) \/ InstanceStatus(c) \/ InstancePowerOff(c)
       \/ VMDeleted(c) \/ VMNotDeleted(c)
  \/ Refresh

Spec == Init /\ [][Next]_vars
=============================================================================
