-------------------------------- MODULE Node --------------------------------
(***************************************************************************)
(* One node and its VM (server/node.go): the calls of the cloud provider    *)
(* and of Kubernetes inside launchVM, cleanOnLaunchError, deleteVM,         *)
(* statusVM, startVM and stopVM, made by several goroutines at a time.      *)
(*                                                                          *)
(* A step is one external call and the code that follows it, up to the next *)
(* call.  statusVM is two steps: the provider answers, then the answer is   *)
(* written over the state of the node, however old it is.                   *)
(*                                                                          *)
(* A definition that stands before another one and is named after it is a   *)
(* faulty variant of it that no action uses.                                *)
(***************************************************************************)

CONSTANTS
  Callers,     \* goroutines that may work on the node at the same time
  Environments \* what may happen to the node: sets of requests and of faults

RequestKinds ==
  { "delete",   \* deleteVM, once the launch has ended
    "early",    \* deleteVM, before that
    "refresh",  \* statusVM
    "power" }   \* startVM and stopVM, alone: only tests call them

FaultKinds ==
  { "launch",   \* a call inside launchVM returns an error
    "delete",   \* InstanceCreated, InstanceStatus, InstancePowerOff, InstanceDelete
    "kube" }    \* GetNode, DrainNode, DeleteNode

ASSUME NodeAssumption ==
  Environments \subseteq [requests : SUBSET RequestKinds, faults : SUBSET FaultKinds]

VARIABLES
  requests,    \* what the goroutines may be asked to do, does not change
  faults,      \* which external calls may fail, does not change
  cloudInit,   \* serverConfig.UseCloudInitToConfigure(), does not change
  state,       \* vm.State
  vm,          \* the VM, as the provider has it
  kube,        \* the node in Kubernetes
  launch,      \* what became of launchVM: the group calls it once
  call         \* what each goroutine is doing

config == <<requests, faults, cloudInit>>

vars == <<requests, faults, cloudInit, state, vm, kube, launch, call>>

-----------------------------------------------------------------------------
(* Types *)

NodeState == {"NotCreated", "Creating", "Running", "Stopped", "Deleted", "Deleting"}
VMState == {"absent", "off", "booting", "on"}
KubeState == {"absent", "ready", "cordoned"}

Op == {"none", "launch", "clean", "delete", "refresh", "start", "started", "stop"}

Label == {"idle", "launch", "prepare", "create", "instanceID", "powerOn", "autoStart", "join",
          "noAddress", "tools", "joinCluster", "ready", "register", "status", "seen",
          "created", "getStatus", "getNode", "drain", "deleteNode", "powerOff", "destroy",
          "destroyStopped", "failed"}

Seen == {"none", "on", "off", "error"}
Progress == {"none", "start", "creating", "booting", "joined", "deleting", "racing"}

Call == [op : Op, pc : Label, seen : Seen, at : Progress]

Idle == [op |-> "none", pc |-> "idle", seen |-> "none", at |-> "none"]

Powered == vm \in {"booting", "on"}

-----------------------------------------------------------------------------
(* Steps of a goroutine *)

At(c, op, pc) == call[c].op = op /\ call[c].pc = pc
Goto(c, pc) == call' = [call EXCEPT ![c].pc = pc]
Begin(c, op, pc) == call[c] = Idle /\ call' = [call EXCEPT ![c] = [Idle EXCEPT !.op = op, !.pc = pc]]
Return(c) == call' = [call EXCEPT ![c] = Idle]

Quiet == \A c \in Callers : call[c] = Idle

\* No startVM or stopVM is under way.
NoPowerCall == \A c \in Callers : call[c].op \notin {"start", "started", "stop"}

May(fault) == fault \in faults

\* launchVM has an error; createNode calls cleanOnLaunchError, whose first call is
\* statusVM.  "at" is how far the launch, or the deletion, had come.
LaunchError(c, at) ==
  call' = [call EXCEPT ![c] = [op |-> "clean", pc |-> "status", seen |-> "none", at |-> at]]

-----------------------------------------------------------------------------
(* What the node group sees: the phases of module NodeGroup *)

PhaseOf(c) ==
  LET pc == call[c].pc
  IN CASE call[c].op = "launch" /\ pc \in {"launch", "prepare"} -> "start"
       [] call[c].op = "launch" /\ pc = "create" -> "creating"
       [] call[c].op = "launch" /\ pc \in {"joinCluster", "ready", "register"} -> "joined"
       [] call[c].op = "launch" /\ pc \in {"instanceID", "powerOn", "autoStart", "join", "noAddress",
                                           "tools", "status", "seen"} -> "booting"
       [] call[c].op = "clean" /\ pc \in {"status", "seen"} -> call[c].at
       [] call[c].op \in {"clean", "delete"} /\ pc \in {"created", "getStatus"} -> "checked"
       [] call[c].op \in {"clean", "delete"}
            /\ pc \in {"getNode", "drain", "deleteNode", "powerOff", "destroy"} -> call[c].at
       [] call[c].op \in {"clean", "delete"} /\ pc = "destroyStopped" -> "stopped"
       [] call[c].op \in {"clean", "delete"} /\ pc = "failed" -> "refused"
       [] OTHER -> "none"

-----------------------------------------------------------------------------
(* launchVM *)

Launch(c) ==
  /\ launch = "none"
  /\ Begin(c, "launch", "launch")
  /\ launch' = "under way"
  /\ UNCHANGED <<config, state, vm, kube>>

CheckNotCreated(c) ==
  /\ At(c, "launch", "launch")
  /\ IF state = "NotCreated" THEN Goto(c, "prepare") ELSE LaunchError(c, "start")
  /\ UNCHANGED <<config, state, vm, kube, launch>>

\* InstanceMaxPods, PrepareNodeCreation, prepareCloudInit.
PrepareInstance(c) ==
  /\ At(c, "launch", "prepare")
  /\ \/ state' = "Creating" /\ Goto(c, "create")
     \/ May("launch") /\ LaunchError(c, "start") /\ UNCHANGED state
  /\ UNCHANGED <<config, vm, kube, launch>>

\* A failed InstanceCreate may leave a VM behind.
InstanceCreate(c) ==
  /\ At(c, "launch", "create")
  /\ \/ vm = "absent" /\ vm' = "off" /\ Goto(c, "instanceID")
     \/ May("launch") /\ vm = "absent" /\ vm' = "off" /\ LaunchError(c, "booting")
     \/ (May("launch") \/ vm # "absent") /\ UNCHANGED vm /\ LaunchError(c, "creating")
  /\ UNCHANGED <<config, state, kube, launch>>

InstanceID(c) ==
  /\ At(c, "launch", "instanceID")
  /\ \/ vm # "absent" /\ Goto(c, "powerOn")
     \/ (May("launch") \/ vm = "absent") /\ LaunchError(c, "booting")
  /\ UNCHANGED <<config, state, vm, kube, launch>>

InstancePowerOn(c) ==
  /\ At(c, "launch", "powerOn")
  /\ \/ vm = "off" /\ vm' = "booting" /\ Goto(c, "autoStart")
     \/ (May("launch") \/ vm # "off") /\ UNCHANGED vm /\ LaunchError(c, "booting")
  /\ UNCHANGED <<config, state, kube, launch>>

InstanceAutoStart(c) ==
  /\ At(c, "launch", "autoStart")
  /\ \/ vm # "absent" /\ Goto(c, IF cloudInit THEN "join" ELSE "tools")
     \/ (May("launch") \/ vm = "absent") /\ LaunchError(c, "booting")
  /\ UNCHANGED <<config, state, vm, kube, launch>>

\* waitReady polls Kubernetes until the node is there, or until its time is over.
\* Only a node that has an internal address is Running.
WaitJoined(c) ==
  /\ At(c, "launch", "join")
  /\ \/ kube # "absent" /\ state' = "Running" /\ Goto(c, "ready")
     \/ kube # "absent" /\ May("launch") /\ UNCHANGED state /\ Goto(c, "noAddress")
     \/ (May("launch") \/ kube = "absent") /\ UNCHANGED state /\ LaunchError(c, "booting")
  /\ UNCHANGED <<config, vm, kube, launch>>

\* InstanceWaitForToolsRunning, WaitForIP, RegisterDNS.
WaitTools(c) ==
  /\ At(c, "launch", "tools")
  /\ \/ Powered /\ Goto(c, "status")
     \/ (May("launch") \/ ~Powered) /\ LaunchError(c, "booting")
  /\ UNCHANGED <<config, state, vm, kube, launch>>

\* The statusVM of postSshConfiguration has answered.
LaunchStatus(c) ==
  /\ At(c, "launch", "seen")
  /\ CASE call[c].seen = "on" -> state' = "Running" /\ Goto(c, "joinCluster")
       [] call[c].seen = "off" -> state' = "Stopped" /\ LaunchError(c, "booting")
       [] OTHER -> UNCHANGED state /\ LaunchError(c, "booting")
  /\ UNCHANGED <<config, vm, kube, launch>>

JoinCluster(c) ==
  /\ At(c, "launch", "joinCluster")
  /\ \/ vm = "booting" /\ vm' = "on" /\ kube' = "ready" /\ Goto(c, "ready")
     \/ (May("launch") \/ vm # "booting") /\ UNCHANGED <<vm, kube>> /\ LaunchError(c, "joined")
  /\ UNCHANGED <<config, state, launch>>

\* WaitNodeToBeReady; with cloud-init the state has to be Running still.
WaitNodeToBeReady(c) ==
  /\ At(c, "launch", "ready") \/ At(c, "launch", "noAddress")
  /\ \/ kube # "absent" /\ (cloudInit => state = "Running") /\ Goto(c, "register")
     \/ /\ May("launch") \/ kube = "absent" \/ (cloudInit /\ state # "Running")
        /\ LaunchError(c, IF call[c].pc = "ready" THEN "joined" ELSE "booting")
  /\ UNCHANGED <<config, state, vm, kube, launch>>

\* retrieveNodeInfo, setProviderID, RegisterDNS, setNodeLabels.
Register(c) ==
  /\ At(c, "launch", "register")
  /\ \/ kube # "absent" /\ launch' = "ok" /\ Return(c)
     \/ (May("launch") \/ kube = "absent") /\ UNCHANGED launch /\ LaunchError(c, "joined")
  /\ UNCHANGED <<config, state, vm, kube>>

\* With cloud-init a VM that boots joins the cluster by itself.
VMJoins ==
  /\ cloudInit /\ vm = "booting"
  /\ vm' = "on"
  /\ kube' = IF kube = "absent" THEN "ready" ELSE kube
  /\ UNCHANGED <<config, state, launch, call>>

-----------------------------------------------------------------------------
(* statusVM: the provider answers; what its callers do then *)

StatusVM(c) ==
  /\ call[c].pc = "status"
  /\ \E s \in (IF vm # "absent" THEN {IF Powered THEN "on" ELSE "off"} ELSE {"error"})
              \cup (IF May("delete") THEN {"error"} ELSE {}) :
       call' = [call EXCEPT ![c].pc = "seen", ![c].seen = s]
  /\ UNCHANGED <<config, state, vm, kube, launch>>

StatusStateUndefined(c) ==
  CASE call[c].seen = "on" -> "Running"
    [] call[c].seen = "off" -> "Stopped"
    [] OTHER -> "Undefined"

\* What statusVM writes.  After an error it returns Undefined, and writes nothing.
StatusState(c) ==
  CASE call[c].seen = "on" -> "Running"
    [] call[c].seen = "off" -> "Stopped"
    [] OTHER -> state

CheckNotDeletingNever(s) == "created"

\* deleteVM refuses a node that is being deleted.
CheckNotDeleting(s) == IF s = "Deleting" THEN "failed" ELSE "created"

CleanOnLaunchErrorKeepsRunning(c) ==
  /\ At(c, "clean", "seen")
  /\ state' = StatusState(c)
  /\ Goto(c, IF state' = "Running" THEN "failed" ELSE CheckNotDeleting(state'))
  /\ UNCHANGED <<config, vm, kube, launch>>

CleanOnLaunchErrorTrustsState(c) ==
  /\ At(c, "clean", "seen")
  /\ Goto(c, CheckNotDeleting(state))
  /\ UNCHANGED <<config, state, vm, kube, launch>>

\* statusVM's error is not NotCreated either: deleteVM is called in any case.
CleanOnLaunchError(c) ==
  /\ At(c, "clean", "seen")
  /\ state' = StatusState(c)
  /\ Goto(c, CheckNotDeleting(state'))
  /\ UNCHANGED <<config, vm, kube, launch>>

\* The group refreshes nodes that are past Creating.
Refresh(c) ==
  /\ "refresh" \in requests /\ NoPowerCall
  /\ state \notin {"NotCreated", "Creating"}
  /\ Begin(c, "refresh", "status")
  /\ UNCHANGED <<config, state, vm, kube, launch>>

Refreshed(c) ==
  /\ At(c, "refresh", "seen")
  /\ state' = StatusState(c)
  /\ Return(c)
  /\ UNCHANGED <<config, vm, kube, launch>>

-----------------------------------------------------------------------------
(* deleteVM *)

DeleteVM(c) ==
  /\ "delete" \in requests /\ launch # "none" /\ NoPowerCall
  /\ "early" \in requests \/ launch # "under way"
  /\ Begin(c, "delete", CheckNotDeleting(state))
  /\ UNCHANGED <<config, state, vm, kube, launch>>

\* deleteVM returns; the launch it cleans up after has failed.
DeleteReturns(c) ==
  /\ Return(c)
  /\ launch' = IF call[c].op = "clean" THEN "failed" ELSE launch

InstanceCreated(c) ==
  /\ call[c].pc = "created"
  /\ \/ vm # "absent" /\ Goto(c, "getStatus")
     \/ (vm = "absent" \/ May("delete")) /\ Goto(c, "failed")
  /\ UNCHANGED <<config, state, vm, kube, launch>>

\* Another goroutine is launching the node.
LaunchUnderWay(c) == \E d \in Callers : d # c /\ PhaseOf(d) \in {"booting", "joined"}

InstanceStatusAlwaysOff(c) ==
  /\ call[c].pc = "getStatus"
  /\ \/ /\ vm # "absent" /\ state' = "Deleting"
        /\ call' = [call EXCEPT ![c].pc = "destroy",
                                ![c].at = IF LaunchUnderWay(c) THEN "racing" ELSE "deleting"]
     \/ (vm = "absent" \/ May("delete")) /\ UNCHANGED state /\ Goto(c, "failed")
  /\ UNCHANGED <<config, vm, kube, launch>>

\* UnregisterDNS and PrepareNodeDeletion, whose errors are only logged, follow.
InstanceStatus(c) ==
  /\ call[c].pc = "getStatus"
  /\ \/ /\ vm # "absent"
        /\ state' = "Deleting"
        /\ call' = [call EXCEPT ![c].pc = IF Powered THEN "getNode" ELSE "destroy",
                                ![c].at = IF LaunchUnderWay(c) THEN "racing" ELSE "deleting"]
     \/ (vm = "absent" \/ May("delete")) /\ UNCHANGED state /\ Goto(c, "failed")
  /\ UNCHANGED <<config, vm, kube, launch>>

GetNode(c) ==
  /\ call[c].pc = "getNode"
  /\ \/ kube # "absent" /\ Goto(c, "drain")
     \/ (kube = "absent" \/ May("kube")) /\ Goto(c, "powerOff")
  /\ UNCHANGED <<config, state, vm, kube, launch>>

\* MarkDrainNode and DrainNode; an error does not stop deleteVM.
DrainNode(c) ==
  /\ call[c].pc = "drain"
  /\ \/ kube' = IF kube = "absent" THEN "absent" ELSE "cordoned"
     \/ May("kube") /\ UNCHANGED kube
  /\ Goto(c, "deleteNode")
  /\ UNCHANGED <<config, state, vm, launch>>

DeleteNode(c) ==
  /\ call[c].pc = "deleteNode"
  /\ \/ kube' = "absent"
     \/ May("kube") /\ UNCHANGED kube
  /\ Goto(c, "powerOff")
  /\ UNCHANGED <<config, state, vm, launch>>

\* Whether a VM that is off can be powered off depends on the provider.  After an
\* error the state of the node remains Deleting.
InstancePowerOff(c) ==
  /\ call[c].op \in {"clean", "delete"} /\ call[c].pc = "powerOff"
  /\ \/ /\ vm # "absent"
        /\ vm' = "off" /\ state' = "Stopped"
        /\ Goto(c, "destroyStopped")
        /\ UNCHANGED launch
     \/ /\ ~Powered \/ May("delete")
        /\ DeleteReturns(c)
        /\ UNCHANGED <<vm, state>>
  /\ UNCHANGED <<config, kube>>

InstanceDeleteMisreported(c) ==
  /\ call[c].pc \in {"destroy", "destroyStopped"}
  /\ \/ vm # "absent" /\ vm' = "absent" /\ state' = "Deleted"
     \/ vm # "off" /\ state' = "Deleted" /\ UNCHANGED vm
  /\ DeleteReturns(c)
  /\ UNCHANGED <<config, kube>>

\* Whether a VM that is powered can be deleted depends on the provider, too.
InstanceDelete(c) ==
  /\ call[c].pc \in {"destroy", "destroyStopped"}
  /\ \/ vm # "absent" /\ vm' = "absent" /\ state' = "Deleted"
     \/ (vm # "off" \/ May("delete")) /\ UNCHANGED <<vm, state>>
  /\ DeleteReturns(c)
  /\ UNCHANGED <<config, kube>>

DeleteFails(c) ==
  /\ call[c].pc = "failed"
  /\ DeleteReturns(c)
  /\ UNCHANGED <<config, state, vm, kube>>

-----------------------------------------------------------------------------
(* startVM, stopVM *)

StartVM(c) ==
  /\ "power" \in requests /\ launch \in {"ok", "failed"} /\ Quiet
  /\ Begin(c, "start", "status")
  /\ UNCHANGED <<config, state, vm, kube, launch>>

\* An error, or nothing left to do for a VM that runs.
Start(c) ==
  /\ At(c, "start", "seen")
  /\ state' = StatusState(c)
  /\ IF call[c].seen = "off" THEN Goto(c, "powerOn") ELSE Return(c)
  /\ UNCHANGED <<config, vm, kube, launch>>

\* A VM that was a node of the cluster is one again.  When InstanceWaitForToolsRunning
\* or WaitForIP fails, the VM runs and the state of the node is Stopped.
StartPowerOn(c) ==
  /\ At(c, "start", "powerOn")
  /\ \/ /\ vm = "off" /\ vm' = IF kube = "absent" THEN "booting" ELSE "on"
        /\ \/ call' = [call EXCEPT ![c].op = "started", ![c].pc = "status"]
           \/ May("launch") /\ Return(c)
     \/ (vm # "off" \/ May("launch")) /\ UNCHANGED vm /\ Return(c)
  /\ UNCHANGED <<config, state, kube, launch>>

\* statusVM has answered: uncordon, whose error is only logged.
Started(c) ==
  /\ At(c, "started", "seen")
  /\ state' = StatusState(c)
  /\ \/ call[c].seen = "on" /\ kube' = IF kube = "cordoned" THEN "ready" ELSE kube
     \/ (call[c].seen # "on" \/ May("kube")) /\ UNCHANGED kube
  /\ Return(c)
  /\ UNCHANGED <<config, vm, launch>>

StopVM(c) ==
  /\ "power" \in requests /\ launch \in {"ok", "failed"} /\ Quiet
  /\ Begin(c, "stop", "status")
  /\ UNCHANGED <<config, state, vm, kube, launch>>

\* CordonNode, whose error is only logged.
Stop(c) ==
  /\ At(c, "stop", "seen")
  /\ state' = StatusState(c)
  /\ IF call[c].seen = "on"
     THEN /\ Goto(c, "powerOff")
          /\ \/ kube' = IF kube = "ready" THEN "cordoned" ELSE kube
             \/ May("kube") /\ UNCHANGED kube
     ELSE Return(c) /\ UNCHANGED kube
  /\ UNCHANGED <<config, vm, launch>>

StopPowerOff(c) ==
  /\ At(c, "stop", "powerOff")
  /\ \/ vm # "absent" /\ vm' = "off" /\ state' = "Stopped"
     \/ (~Powered \/ May("delete")) /\ UNCHANGED <<vm, state>>
  /\ Return(c)
  /\ UNCHANGED <<config, kube, launch>>

-----------------------------------------------------------------------------

Init ==
  /\ \E e \in Environments : requests = e.requests /\ faults = e.faults
  /\ cloudInit \in BOOLEAN
  /\ state = "NotCreated" /\ vm = "absent" /\ kube = "absent" /\ launch = "none"
  /\ call = [c \in Callers |-> Idle]

Step(c) ==
  \/ CheckNotCreated(c) \/ PrepareInstance(c) \/ InstanceCreate(c) \/ InstanceID(c)
  \/ InstancePowerOn(c) \/ InstanceAutoStart(c) \/ WaitJoined(c) \/ WaitTools(c)
  \/ LaunchStatus(c) \/ JoinCluster(c) \/ WaitNodeToBeReady(c) \/ Register(c)
  \/ StatusVM(c) \/ CleanOnLaunchError(c) \/ Refreshed(c)
  \/ InstanceCreated(c) \/ InstanceStatus(c) \/ GetNode(c) \/ DrainNode(c) \/ DeleteNode(c)
  \/ InstancePowerOff(c) \/ InstanceDelete(c) \/ DeleteFails(c)
  \/ Start(c) \/ StartPowerOn(c) \/ Started(c) \/ Stop(c) \/ StopPowerOff(c)

Next ==
  \/ \E c \in Callers : Launch(c) \/ DeleteVM(c) \/ Refresh(c) \/ StartVM(c) \/ StopVM(c) \/ Step(c)
  \/ VMJoins

Spec == Init /\ [][Next]_vars

-----------------------------------------------------------------------------
(* Properties *)

TypeOK ==
  /\ requests \subseteq RequestKinds /\ faults \subseteq FaultKinds
  /\ cloudInit \in BOOLEAN
  /\ state \in NodeState /\ vm \in VMState /\ kube \in KubeState
  /\ launch \in {"none", "under way", "ok", "failed"}
  /\ call \in [Callers -> Call]

\* A node that is Deleted has no VM: deleteVM reports no success for a VM that is
\* still there, and none comes back.
DeletedIsGone == state = "Deleted" => vm = "absent"

\* A launch that fails leaves no VM behind, however far it came and whoever else
\* deletes or refreshes the node meanwhile, if no deletion fails.
FailedLaunchLeavesNoVM ==
  "delete" \notin faults /\ Quiet /\ launch = "failed" => vm = "absent"

\* A VM that is left is not stuck: deleteVM will not refuse it as "already deleting".
CanBeDeleted == "delete" \notin faults /\ Quiet /\ vm # "absent" => state # "Deleting"

\* Nothing but a launch fails, and nobody deletes the node while it is launched.
Calm == "delete" \notin faults /\ "kube" \notin faults /\ "early" \notin requests

\* deleteVM takes a node that joined out of Kubernetes before it powers off the VM, and
\* stopVM cordons it.
DrainedBeforePowerOff ==
  [][launch = "ok" /\ Calm /\ Powered /\ ~Powered' => kube # "ready"]_vars

\* deleteVM refuses a node that is "already deleting": at most one goroutine is at it.
\* This does not hold: a refresh writes Running over Deleting.
OneDeletion ==
  \A c, d \in Callers :
    call[c].pc \in {"getNode", "drain", "deleteNode", "destroy", "destroyStopped"} /\
    call[d].pc \in {"getNode", "drain", "deleteNode", "destroy", "destroyStopped"} => c = d

-----------------------------------------------------------------------------
(* What the node group sees of this *)

Life == INSTANCE NodeLife
        WITH exists <- (vm # "absent"), phase <- [c \in Callers |-> PhaseOf(c)]

\* The steps inside launchVM, deleteVM and statusVM add up to the steps on a node
\* that module NodeGroup has.
ImplementsLife == Life!Spec
=============================================================================
