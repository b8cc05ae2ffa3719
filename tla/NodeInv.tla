------------------------------ MODULE NodeInv ------------------------------
(***************************************************************************)
(* The inductive invariant of module Node: what makes DeletedIsGone,        *)
(* FailedLaunchLeavesNoVM, CanBeDeleted and DrainedBeforePowerOff true in   *)
(* every state, and every step of Node a step of NodeLife.                  *)
(***************************************************************************)
EXTENDS Node

Launching(c) == call[c].op = "launch"
Cleaning(c) == call[c].op = "clean"
Launcher(c) == Launching(c) \/ Cleaning(c)
Deleting(c) == call[c].op \in {"clean", "delete"}
Powering(c) == call[c].op \in {"start", "started", "stop"}

\* Between InstanceStatus, which found the VM powered, and InstancePowerOff.
Draining(c) == Deleting(c) /\ call[c].pc \in {"getNode", "drain", "deleteNode", "powerOff"}

\* InstanceStatus found the VM off.
Destroying(c) == Deleting(c) /\ call[c].pc = "destroy"

\* InstancePowerOff has stopped the VM.
Stopped(c) == Deleting(c) /\ call[c].pc = "destroyStopped"

\* Nothing stops this deletion, if no call fails.
Ending(c) ==
  \/ Draining(c) /\ Powered
  \/ (Destroying(c) \/ Stopped(c)) /\ vm = "off"

\* The launch, or its clean-up, will still write the state of the VM that it finds.
Rescuing(c) ==
  \/ Launching(c) /\ call[c].pc \in {"instanceID", "powerOn", "autoStart", "join", "noAddress",
                                     "tools", "status", "seen"}
  \/ Cleaning(c) /\ call[c].pc = "status"
  \/ Cleaning(c) /\ call[c].pc = "seen" /\ call[c].seen # "error"

\* The state has left NotCreated and Creating, for good.
Past == state \notin {"NotCreated", "Creating"}

-----------------------------------------------------------------------------
(* Where each goroutine can be *)

LaunchLabels ==
  {"launch", "prepare", "create", "instanceID", "powerOn", "autoStart", "join", "noAddress",
   "tools", "joinCluster", "ready", "register", "status", "seen"}

DeleteLabels ==
  {"created", "getStatus", "getNode", "drain", "deleteNode", "powerOff", "destroy",
   "destroyStopped", "failed"}

CallInv ==
  \A c \in Callers :
    /\ call[c].op = "none" => call[c] = Idle
    /\ Launching(c) => call[c].pc \in LaunchLabels
    /\ Cleaning(c) => call[c].pc \in DeleteLabels \cup {"status", "seen"}
    /\ call[c].op = "delete" => call[c].pc \in DeleteLabels
    /\ call[c].op \in {"refresh", "started"} => call[c].pc \in {"status", "seen"}
    /\ call[c].op = "start" => call[c].pc \in {"status", "seen", "powerOn"}
    /\ call[c].op = "stop" => call[c].pc \in {"status", "seen", "powerOff"}
    /\ call[c].pc = "seen" => call[c].seen \in {"on", "off", "error"}
    /\ call[c].pc \in {"join", "noAddress"} => cloudInit
    /\ Cleaning(c) /\ call[c].pc \in {"status", "seen"} =>
         call[c].at \in {"start", "creating", "booting", "joined"}
    /\ Draining(c) \/ Destroying(c) => call[c].at \in {"deleting", "racing"}

\* The node is launched once, and cleaned up by the goroutine that launched it.
OneLaunch ==
  /\ \A c \in Callers : Launcher(c) => launch = "under way"
  /\ \A c, d \in Callers : Launcher(c) /\ Launcher(d) => c = d
  /\ launch = "none" => \A c \in Callers : call[c].op = "none"
  /\ launch = "none" => state = "NotCreated" /\ vm = "absent" /\ kube = "absent"

\* startVM and stopVM have the node for themselves.
PowerAlone ==
  \A c \in Callers : Powering(c) =>
    /\ "power" \in requests /\ launch \in {"ok", "failed"}
    /\ \A d \in Callers \ {c} : call[d].op = "none"

-----------------------------------------------------------------------------
(* The state and the VM while the node is launched *)

\* There is no VM, and nobody else touches the state, before launchVM has made one.
PreVM ==
  \A c \in Callers :
    /\ Launching(c) /\ call[c].pc \in {"launch", "prepare"} => state = "NotCreated" /\ vm = "absent"
    /\ Launching(c) /\ call[c].pc = "create" => state = "Creating" /\ vm = "absent"
    /\ Cleaning(c) /\ call[c].pc \in {"status", "seen"} /\ call[c].at \in {"start", "creating"} =>
         /\ vm = "absent" /\ "launch" \in faults
         /\ call[c].pc = "seen" => call[c].seen = "error"

\* A node is Creating while its launch has it so, and nobody else: whoever stops or
\* deletes the VM, or refreshes the node, writes another state.
PastCreating ==
  /\ \A c \in Callers :
       /\ call[c].op = "refresh" => Past
       /\ Launching(c) /\ call[c].pc \in {"autoStart", "join", "noAddress", "tools", "status", "seen"} =>
            Past \/ Powered
       /\ Launching(c) /\ call[c].pc = "seen" /\ call[c].seen = "off" => Past
       /\ Launching(c) /\ call[c].pc \in {"joinCluster", "ready", "register"} => Past
  /\ launch = "ok" => Past

\* Nobody drains or has stopped a VM that launchVM has yet to power on.
NoLateStart ==
  \A c \in Callers :
    Launching(c) /\ call[c].pc \in {"launch", "prepare", "create", "instanceID", "powerOn"} =>
      ~Powered /\ \A d \in Callers : ~Draining(d) /\ ~Stopped(d)

\* A deletion that met no launch meets none later, and a VM that it found or made off
\* stays off.
NotRacing ==
  \A c \in Callers :
    /\ (Draining(c) \/ Destroying(c)) /\ call[c].at = "deleting" => \A d \in Callers : ~Launching(d)
    /\ (Draining(c) \/ Destroying(c)) /\ Cleaning(c) => call[c].at = "deleting"
    /\ Stopped(c) \/ (Destroying(c) /\ call[c].at = "deleting") => ~Powered

-----------------------------------------------------------------------------
(* No deletion fails *)

Sure == "delete" \notin faults

\* A clean-up gives up only when there is no VM.
CleanSees ==
  Sure => \A c \in Callers :
    /\ Cleaning(c) /\ call[c].pc = "seen" /\ call[c].seen = "error" => vm = "absent"
    /\ Cleaning(c) /\ call[c].pc = "failed" => vm = "absent"

\* A deletion that finds the VM off, after it found it powered, has been overtaken by one
\* that will delete it.
Overtaken ==
  Sure /\ vm = "off" /\ (\E c \in Callers : Draining(c)) => \E c \in Callers : Stopped(c)

\* A VM whose launch has failed is being deleted.
FailedEnds == Sure /\ launch = "failed" /\ vm # "absent" => \E c \in Callers : Ending(c)

\* A node that is Deleting is being deleted, or the launch will correct its state.
DeletingEnds ==
  Sure /\ state = "Deleting" /\ vm # "absent" => \E c \in Callers : Ending(c) \/ Rescuing(c)

\* startVM and stopVM find no VM of a node that is Creating.
PowerPast ==
  Sure => \A c \in Callers : Powering(c) =>
    \/ Past
    \/ /\ vm = "absent" /\ call[c].op # "started"
       /\ call[c].pc = "status" \/ (call[c].pc = "seen" /\ call[c].seen = "error")

-----------------------------------------------------------------------------
(* Nothing fails and nobody deletes the node while it is launched *)

\* No deletion meets the launch, and a node that is in Kubernetes has its VM.
CalmLaunch ==
  Calm => \A c \in Callers :
    /\ call[c].at # "racing"
    /\ call[c].op = "delete" => launch \in {"ok", "failed"}
    /\ Launching(c) /\ kube # "absent" => vm = "on"
    /\ Launching(c) /\ call[c].pc \in {"ready", "noAddress", "register"} => kube # "absent"

\* A node that has been launched leaves Kubernetes only to be deleted.
CalmNode ==
  Calm /\ launch = "ok" =>
    /\ vm # "booting"
    /\ kube = "absent" /\ vm # "absent" => \E c \in Callers : Ending(c)
    /\ \A c \in Callers :
         /\ Deleting(c) /\ call[c].pc = "powerOff" => kube = "absent"
         /\ call[c].op = "stop" /\ call[c].pc = "powerOff" => kube # "ready"

-----------------------------------------------------------------------------

NodeInv ==
  /\ TypeOK /\ CallInv /\ OneLaunch /\ PowerAlone
  /\ PreVM /\ PastCreating /\ NoLateStart /\ NotRacing /\ DeletedIsGone
  /\ CleanSees /\ Overtaken /\ FailedEnds /\ DeletingEnds /\ PowerPast
  /\ CalmLaunch /\ CalmNode

-----------------------------------------------------------------------------
(* When NodeLife is implemented *)

\* startVM and stopVM are not called on a node that a failed deletion has left Creating.
Orderly == ~("power" \in requests /\ "delete" \in faults)
=============================================================================
