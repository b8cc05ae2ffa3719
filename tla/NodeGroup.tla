------------------------------ MODULE NodeGroup ------------------------------
(***************************************************************************)
(* The bookkeeping of one node group (server/nodegroup.go) under the        *)
(* requests of the two gRPC front ends (server/grpc.go and                  *)
(* server/externalgrpc.go) and of the ManagedNode controller.               *)
(*                                                                          *)
(* A caller is a goroutine: a gRPC request, the background work it spawns,  *)
(* or the controller.  A step is the code between two blocking or external  *)
(* calls (a lock, a WaitGroup, the cloud provider, Kubernetes).  A node is  *)
(* an object: the maps of the group, and the goroutines, hold references    *)
(* to it, and two objects may have the same name.  A name is a prefix and   *)
(* a number, <<"autoscaled", 1>> for "<group>-autoscaled-01".               *)
(*                                                                          *)
(* A definition that stands before another one and is named after it (Delta *)
(* and DeltaWithoutPending) is a faulty variant of it: no action uses it.   *)
(* Put in its place, it makes one of the properties fail.                   *)
(***************************************************************************)
EXTENDS Integers, FiniteSets

CONSTANTS
  Callers,                 \* goroutines that may be at work at the same time
  NoCaller,                \* nobody holds the lock
  Objects,                 \* bound: the node objects a behaviour may allocate
  MinNodeSize,             \* g.MinNodeSize
  MaxNodeSize,             \* g.MaxNodeSize
  MaxCreatedNodePerCycle,  \* configuration, <= 0 means all nodes at once
  FrontEnd,                \* "grpc" or "externalgrpc"
  Requests,                \* what the environment asks for, see RequestKinds
  Faults                   \* which external calls may fail, see FaultKinds

RequestKinds ==
  { "increase",   \* IncreaseSize
    "decrease",   \* DecreaseTargetSize
    "delete",     \* DeleteNodes
    "managed",    \* the controller creates and deletes managed nodes
    "cleanup",    \* Cleanup, deleteNodeGroup
    "refresh",    \* Refresh
    "overlap",    \* a size request may come while another one is unanswered
    "redelete" }  \* a node may be named by two DeleteNodes at a time

FaultKinds ==
  { "launch",     \* launchVM returns an error, no VM made (else it may time out anyway)
    "delete",     \* InstanceStatus, InstancePowerOff or InstanceDelete returns an error
    "create" }    \* CreateInstance returns an error

ASSUME NodeGroupAssumption ==
  /\ NoCaller \notin Callers
  /\ IsFiniteSet(Objects)
  /\ MinNodeSize \in Nat /\ MaxNodeSize \in Nat
  /\ MaxCreatedNodePerCycle \in Int
  /\ FrontEnd \in {"grpc", "externalgrpc"}
  /\ Requests \subseteq RequestKinds
  /\ Faults \subseteq FaultKinds

VARIABLES
  status,                \* g.Status
  nodes,                 \* g.Nodes, name -> object
  pendingNodes,          \* g.pendingNodes, name -> object
  runningNodes,          \* g.RunningNodes, index -> ServerNodeState
  lastCreatedNodeIndex,  \* g.LastCreatedNodeIndex
  numOf,                 \* g.numOfProvisionnedNodes, g.numOfManagedNodes, g.numOfControlPlanes
  pendingNodesWG,        \* the Done calls that g.pendingNodesWG still waits for
  waiters,               \* who is blocked in pendingNodesWG.Wait
  released,              \* who was, until the counter fell to 0, and has not run since
  lock,                  \* who holds g.Lock
  node,                  \* the node objects
  vms,                   \* names of the VMs the provider has
  call                   \* what each caller is doing

group == <<status, nodes, pendingNodes, runningNodes, lastCreatedNodeIndex, numOf>>
waitGroup == <<pendingNodesWG, waiters, released>>

vars == <<status, nodes, pendingNodes, runningNodes, lastCreatedNodeIndex, numOf,
          pendingNodesWG, waiters, released, lock, node, vms, call>>

-----------------------------------------------------------------------------
(* Types *)

Kinds == {"autoscaled", "worker", "master"}
Names == Kinds \X Int

NodeGroupState == {"NotCreated", "Creating", "Created", "Deleting", "Deleted"}

\* ServerNodeState, in the order of the constants (iota).
NotRunning == 0
Deleted == 1
Creating == 2
Running == 3
DeletingShifted == 5
Deleting == 4
ServerNodeState == 0 .. 4

NodeState == {"Unallocated", "NotCreated", "Creating", "Running", "Stopped", "Deleting", "Deleted"}

\* Where the goroutine of a node is: in createNode, or in deleteVM.
Phase == {"none", "start", "creating", "booting", "joined",
          "checked", "deleting", "racing", "stopped", "refused"}

Label == {"idle", "resize", "pick", "reserve", "create", "launch", "wait",
          "destroy", "delete", "drainWG", "cleanup", "dead"}

NoName == <<"autoscaled", 0>>

NoCall ==
  [pc |-> "idle", req |-> "none", size |-> 0, need |-> 0, name |-> NoName, index |-> 0,
   todo |-> {}, victims |-> {}, run |-> [o \in Objects |-> "none"]]

Call ==
  [pc : Label, req : RequestKinds \cup {"none"}, size : Int, need : Int, name : Names,
   index : Int, todo : SUBSET Objects, victims : SUBSET Names, run : [Objects -> Phase]]

NodeObject == [name : Names, index : Int, state : NodeState]

-----------------------------------------------------------------------------
(* Go maps *)

Put(f, k, v) == [x \in DOMAIN f \cup {k} |-> IF x = k THEN v ELSE f[x]]
Del(f, k) == [x \in DOMAIN f \ {k} |-> f[x]]
EmptyMap == [x \in {} |-> 0]
IsMap(f, K, V) ==
  /\ f \in [DOMAIN f -> V]
  /\ DOMAIN f \subseteq K /\ IsFiniteSet(DOMAIN f)

Least(S) == CHOOSE x \in S : \A y \in S : x <= y
SmallerOf(a, b) == IF a <= b THEN a ELSE b

-----------------------------------------------------------------------------
(* Helpers of the group *)

Tracked == DOMAIN nodes \cup DOMAIN pendingNodes

targetSize == Cardinality(DOMAIN pendingNodes) + Cardinality(DOMAIN nodes)

PendingObjects == {pendingNodes[n] : n \in DOMAIN pendingNodes}
AllNodes == {nodes[n] : n \in DOMAIN nodes} \cup PendingObjects

FreeIndexesOffByOne ==
  {i \in 0 .. MaxNodeSize - 1 : i \in DOMAIN runningNodes => runningNodes[i] <= Creating}

\* Indexes below MaxNodeSize that no node occupies.
FreeIndexes ==
  {i \in 0 .. MaxNodeSize - 1 : i \in DOMAIN runningNodes => runningNodes[i] < Creating}

findNextNodeIndex ==
  IF FreeIndexes # {} THEN Least(FreeIndexes) ELSE lastCreatedNodeIndex + 1

FirstNumber(kind) == IF kind = "master" THEN 2 ELSE 1

\* Numbers whose name no node of the group has.
UnusedNumbers(kind) ==
  {i \in FirstNumber(kind) .. MaxNodeSize : <<kind, i>> \notin Tracked}

\* Those among them for which the provider has no VM either.
FreeNumbers(kind) == {i \in UnusedNumbers(kind) : <<kind, i>> \notin vms}

\* The VMs nodeName meets on its way: each one costs an index.
SkippedNumbers(kind) ==
  {i \in UnusedNumbers(kind) \ FreeNumbers(kind) : \A j \in FreeNumbers(kind) : i < j}

\* nodeName's code after the loop, marked "Should never reach this code".
FallbackNumber(kind, index) ==
  CASE kind = "master" -> index - numOf.provisionned - numOf.managed + numOf.controlPlanes + 1
    [] kind = "worker" -> index - numOf.provisionned + 1
    [] OTHER -> index - numOf.managed + 1

nodeName(kind, index) ==
  <<kind, IF FreeNumbers(kind) # {} THEN Least(FreeNumbers(kind)) ELSE FallbackNumber(kind, index)>>

\* The selections prepareDeleteNodes(-k) may return: it walks the pending nodes,
\* in the order of a Go map, from the last one down to the second one.
prepareDeleteNodes(k) ==
  LET Candidates(first) == {o \in PendingObjects \ {first} : node[o].name[1] = "autoscaled"}
  IN  IF PendingObjects = {}
      THEN {{}}
      ELSE UNION {{S \in SUBSET Candidates(first) :
                     Cardinality(S) = SmallerOf(k, Cardinality(Candidates(first)))} :
                  first \in PendingObjects}

-----------------------------------------------------------------------------
(* Steps of a caller *)

Goto(c, label) == call' = [call EXCEPT ![c].pc = label]
Return(c) == call' = [call EXCEPT ![c] = NoCall]
SetPhase(c, o, p) == call' = [call EXCEPT ![c].run[o] = p]

Busy(c) == {o \in Objects : call[c].run[o] # "none"}

FreeObjects == {o \in Objects : node[o].state = "Unallocated"}

Unlocked(c) == IF lock = c THEN NoCaller ELSE lock

\* A panic in any goroutine ends the process.
crashed == \E c \in Callers : call[c].pc = "dead"
Crash ==
  /\ call' = [d \in Callers |-> [NoCall EXCEPT !.pc = "dead"]]
  /\ UNCHANGED <<group, waitGroup, lock, node, vms>>

SetState(o, s) == node' = [node EXCEPT ![o].state = s]

\* With "externalgrpc" the answer is sent before the nodes are launched or destroyed.
Answered(c) ==
  \/ call[c].pc = "idle"
  \/ /\ FrontEnd = "externalgrpc"
     /\ call[c].pc \notin {"resize", "pick", "reserve"}

SizeRequestAllowed ==
  \/ "overlap" \in Requests
  \/ \A c \in Callers : call[c].req \in {"increase", "decrease"} => Answered(c)

\* Bound: the objects left suffice for the size requests under way and for one that
\* may make n nodes, and the counter of indexes, which failed reservations push up,
\* is not too high.
Budget(n) ==
  /\ lastCreatedNodeIndex <= MaxNodeSize
  /\ Cardinality(FreeObjects) >=
    n + MaxNodeSize * Cardinality({c \in Callers : call[c].pc \in {"resize", "pick", "reserve"}})

\* A refused request (wrong sign, beyond MaxNodeSize) changes nothing.
IncreaseSize(c, delta) ==
  /\ "increase" \in Requests /\ SizeRequestAllowed /\ Budget(MaxNodeSize)
  /\ call[c].pc = "idle"
  /\ delta > 0
  /\ targetSize + delta <= MaxNodeSize
  /\ call' = [call EXCEPT ![c] = [NoCall EXCEPT !.pc = "resize", !.req = "increase",
                                                !.size = targetSize + delta]]
  /\ UNCHANGED <<group, waitGroup, lock, node, vms>>

DecreaseTargetSize(c, delta) ==
  /\ "decrease" \in Requests /\ SizeRequestAllowed /\ Budget(targetSize + delta)
  /\ call[c].pc = "idle"
  /\ delta < 0
  /\ targetSize + delta >= Cardinality(DOMAIN nodes)
  /\ call' = [call EXCEPT ![c] = [NoCall EXCEPT !.pc = "resize", !.req = "decrease",
                                                !.size = targetSize + delta]]
  /\ UNCHANGED <<group, waitGroup, lock, node, vms>>

\* The autoscaler names Kubernetes nodes whose creation has ended.
DeleteNodes(c, names) ==
  /\ "delete" \in Requests
  /\ call[c].pc = "idle"
  /\ names # {}
  /\ \A n \in names :
       /\ n[1] = "autoscaled"
       /\ n \notin DOMAIN pendingNodes
       /\ "redelete" \in Requests \/ \A d \in Callers :
            n \notin call[d].victims \cup {node[o].name : o \in Busy(d)}
  /\ targetSize - Cardinality(names) >= MinNodeSize
  /\ call' = [call EXCEPT ![c] = [NoCall EXCEPT !.pc = "delete", !.req = "delete",
                                                !.victims = names]]
  /\ UNCHANGED <<group, waitGroup, lock, node, vms>>

(* setNodeGroupSize: the delta is recomputed once the lock is held *)

DeltaWithoutPending(c) == call[c].size - Cardinality(DOMAIN nodes)

Delta(c) == call[c].size - targetSize

CanResizeUnlocked(c) == call[c].pc = "resize"

CanResize(c) == call[c].pc = "resize" /\ lock = NoCaller

\* prepareNodes refuses a group that is not created.
GrowRefused(c) ==
  /\ CanResize(c) /\ Delta(c) > 0
  /\ status # "Created"
  /\ Return(c)
  /\ UNCHANGED <<group, waitGroup, lock, node, vms>>

Grow(c) ==
  /\ CanResize(c) /\ Delta(c) > 0
  /\ status = "Created"
  /\ lock' = c
  /\ call' = [call EXCEPT ![c].pc = "pick", ![c].need = Delta(c)]
  /\ UNCHANGED <<group, waitGroup, node, vms>>

\* What the caller does with the nodes setNodeGroupSize returns, the lock released.
WorkOn(c, objects) ==
  call' = [call EXCEPT ![c].pc = IF call[c].req = "increase" THEN "create" ELSE "destroy",
                       ![c].todo = objects]

Keep(c) ==
  /\ CanResize(c) /\ Delta(c) = 0
  /\ IF FrontEnd = "grpc" THEN Return(c) ELSE WorkOn(c, {})
  /\ UNCHANGED <<group, waitGroup, lock, node, vms>>

Shrink(c) ==
  /\ CanResize(c) /\ Delta(c) < 0
  /\ FrontEnd = "externalgrpc"
  /\ \E S \in prepareDeleteNodes(-Delta(c)) : WorkOn(c, S)
  /\ UNCHANGED <<group, waitGroup, lock, node, vms>>

\* deleteNodes calls prepareDeleteNodes(-delta), which makes a slice of capacity delta.
ShrinkPanics(c) ==
  /\ CanResize(c) /\ Delta(c) < 0
  /\ FrontEnd = "grpc"
  /\ Crash

-----------------------------------------------------------------------------
(* prepareNodes and addManagedNode: pick an index and a name, then reserve them *)

KindOf(c) == call[c].name[1]

\* findNextNodeIndex, then nodeName.
PickNode(c) ==
  /\ call[c].pc = "pick"
  /\ LET kind    == KindOf(c)
         index   == findNextNodeIndex
         skipped == Cardinality(SkippedNumbers(kind))
         name    == nodeName(kind, index + skipped)
     IN  /\ lastCreatedNodeIndex' =
              IF FreeIndexes = {} THEN lastCreatedNodeIndex + 1 ELSE lastCreatedNodeIndex
         /\ runningNodes' =
              [i \in DOMAIN runningNodes \cup (index .. index + skipped - 1) |->
                 IF i \in index .. index + skipped - 1 THEN Running ELSE runningNodes[i]]
         /\ call' = [call EXCEPT ![c].pc = "reserve", ![c].name = name,
                                 ![c].index = index + skipped]
  /\ UNCHANGED <<status, nodes, pendingNodes, numOf, waitGroup, lock, node, vms>>

ReserveNodeUnlocks(c) ==
  /\ call[c].pc = "reserve"
  /\ call[c].name \notin vms
  /\ FreeObjects # {}
  /\ LET o    == CHOOSE x \in FreeObjects : TRUE
         name == call[c].name
         last == call[c].need = 1
         next == CASE ~last -> "pick"
                   [] last /\ call[c].req = "decrease" /\ FrontEnd = "externalgrpc" -> "destroy"
                   [] OTHER -> "create"
     IN  /\ runningNodes' = Put(runningNodes, call[c].index, Creating)
         /\ node' = [node EXCEPT ![o] = [name |-> name, index |-> call[c].index,
                                         state |-> "NotCreated"]]
         /\ pendingNodes' = Put(pendingNodes, name, o)
         /\ call' = [call EXCEPT ![c].pc = next, ![c].need = @ - 1,
                                 ![c].todo = @ \cup {o}]
         /\ lock' = IF last THEN Unlocked(c) ELSE lock
  /\ UNCHANGED <<status, nodes, lastCreatedNodeIndex, numOf, waitGroup, vms>>

\* CreateInstance succeeds; the last node of a batch ends setNodeGroupSize (only
\* the grpc front end keeps the lock, for the launch) or addManagedNode.
ReserveNode(c) ==
  /\ call[c].pc = "reserve"
  /\ call[c].name \notin vms
  /\ FreeObjects # {}
  /\ LET o    == CHOOSE x \in FreeObjects : TRUE
         name == call[c].name
         last == call[c].need = 1
         next == CASE ~last -> "pick"
                   [] last /\ call[c].req = "decrease" /\ FrontEnd = "externalgrpc" -> "destroy"
                   [] OTHER -> "create"
     IN  /\ runningNodes' = Put(runningNodes, call[c].index, Creating)
         /\ node' = [node EXCEPT ![o] = [name |-> name, index |-> call[c].index,
                                         state |-> "NotCreated"]]
         /\ pendingNodes' = Put(pendingNodes, name, o)
         /\ call' = [call EXCEPT ![c].pc = next, ![c].need = @ - 1,
                                 ![c].todo = @ \cup {o}]
         /\ lock' = IF last /\ FrontEnd = "externalgrpc" THEN Unlocked(c) ELSE lock
  /\ UNCHANGED <<status, nodes, lastCreatedNodeIndex, numOf, waitGroup, vms>>

\* CreateInstance fails: prepareNodes forgets every pending node of the group.
ReserveFails(c) ==
  /\ call[c].pc = "reserve"
  /\ call[c].name \in vms \/ "create" \in Faults
  /\ pendingNodes' = IF call[c].req = "managed" THEN pendingNodes ELSE EmptyMap
  /\ lock' = Unlocked(c)
  /\ Return(c)
  /\ UNCHANGED <<status, nodes, runningNodes, lastCreatedNodeIndex, numOf, waitGroup,
                 node, vms>>

\* The controller handles one ManagedNode at a time, and does not take the lock.
AddManagedNode(c, kind) ==
  /\ "managed" \in Requests /\ Budget(1)
  /\ call[c].pc = "idle"
  /\ \A d \in Callers : call[d].req = "managed" => call[d].pc \notin {"pick", "reserve"}
  /\ call' = [call EXCEPT ![c] = [NoCall EXCEPT !.pc = "pick", !.req = "managed", !.need = 1,
                                                !.name = <<kind, 0>>]]
  /\ UNCHANGED <<group, waitGroup, lock, node, vms>>

-----------------------------------------------------------------------------
(* createNodes *)

\* pendingNodesWG.Add
CreateNodes(c) ==
  /\ call[c].pc = "create"
  /\ call[c].todo # {} \/ MaxCreatedNodePerCycle > 0
  /\ pendingNodesWG' = pendingNodesWG \cup {<<c, o>> : o \in call[c].todo}
  /\ Goto(c, "launch")
  /\ UNCHANGED <<group, waiters, released, lock, node, vms>>

\* No node to create and no limit per cycle: the number of cycles is 0 / 0.
CreateNodesPanics(c) ==
  /\ call[c].pc = "create"
  /\ call[c].todo = {} /\ MaxCreatedNodePerCycle <= 0
  /\ Crash

NodesPerCycle(c) ==
  IF MaxCreatedNodePerCycle <= 0 THEN Cardinality(call[c].todo)
  ELSE SmallerOf(MaxCreatedNodePerCycle, Cardinality(call[c].todo))

\* The order of the nodes in a batch is left out: any of them may come first.
StartCycle(c) ==
  /\ call[c].pc = "launch" /\ Busy(c) = {} /\ call[c].todo # {}
  /\ \E cycle \in SUBSET call[c].todo :
       /\ Cardinality(cycle) = NodesPerCycle(c)
       /\ call' = [call EXCEPT ![c].todo = @ \ cycle,
                               ![c].run = [o \in Objects |-> IF o \in cycle THEN "start" ELSE "none"]]
  /\ UNCHANGED <<group, waitGroup, lock, node, vms>>

\* The last Done lets everyone who waits go.
Done(c, o) ==
  /\ pendingNodesWG' = pendingNodesWG \ {<<c, o>>}
  /\ IF pendingNodesWG' = {}
     THEN released' = released \cup waiters /\ waiters' = {}
     ELSE UNCHANGED <<waiters, released>>

AtWait(c) == call[c].pc \in {"wait", "drainWG"} /\ c \notin waiters

\* pendingNodesWG.Wait waits for the nodes of every caller.
Wait(c) ==
  /\ AtWait(c) /\ c \notin released
  /\ pendingNodesWG # {}
  /\ waiters' = waiters \cup {c}
  /\ UNCHANGED <<group, pendingNodesWG, released, lock, node, vms, call>>

Waited(c) ==
  /\ AtWait(c)
  /\ pendingNodesWG = {}
  /\ released' = released \ {c}
  /\ UNCHANGED <<pendingNodesWG, waiters>>

\* Go's WaitGroup panics if it is reused before a Wait that was let go has returned.
WaitPanics(c) ==
  /\ AtWait(c) /\ c \in released
  /\ pendingNodesWG # {}
  /\ Crash

CreateNodeRefusedNotDone(c, o) ==
  /\ call[c].run[o] = "start"
  /\ status # "Created"
  /\ runningNodes' = Put(runningNodes, node[o].index, NotRunning)
  /\ SetPhase(c, o, "none")
  /\ UNCHANGED <<status, nodes, pendingNodes, lastCreatedNodeIndex, numOf, waitGroup, lock, node, vms>>

\* createNode finds the group deleted.
CreateNodeRefused(c, o) ==
  /\ call[c].run[o] = "start"
  /\ status # "Created"
  /\ runningNodes' = Put(runningNodes, node[o].index, NotRunning)
  /\ SetPhase(c, o, "none") /\ Done(c, o)
  /\ UNCHANGED <<status, nodes, pendingNodes, lastCreatedNodeIndex, numOf, lock, node, vms>>

LaunchVMAnyStatus(c, o) ==
  /\ call[c].run[o] = "start"
  /\ node[o].state = "NotCreated"
  /\ SetState(o, "Creating") /\ SetPhase(c, o, "creating")
  /\ UNCHANGED <<group, waitGroup, lock, vms>>

LaunchVM(c, o) ==
  /\ call[c].run[o] = "start"
  /\ status = "Created"
  /\ node[o].state = "NotCreated"
  /\ SetState(o, "Creating") /\ SetPhase(c, o, "creating")
  /\ UNCHANGED <<group, waitGroup, lock, vms>>

CleanOnLaunchErrorKeepsVM(c, o) ==
  /\ UNCHANGED node /\ SetPhase(c, o, "refused")
  /\ UNCHANGED <<group, waitGroup, lock, vms>>

\* deleteVM refuses a node that is being deleted.
CheckNotDeleting(o) == IF node[o].state = "Deleting" THEN "refused" ELSE "checked"

\* cleanOnLaunchError: statusVM writes the power state of the VM (that may have gone
\* since it answered) over the state of the node, or finds no VM; deleteVM begins.
CleanOnLaunchError(c, o) ==
  /\ \/ /\ node[o].name \in vms \/ call[c].run[o] \in {"booting", "joined"}
        /\ \E s \in {"Running", "Stopped"} : SetState(o, s)
        /\ SetPhase(c, o, "checked")
     \/ /\ node[o].name \notin vms \/ "delete" \in Faults
        /\ UNCHANGED node
        /\ SetPhase(c, o, CheckNotDeleting(o))
  /\ UNCHANGED <<group, waitGroup, lock, vms>>

InstanceCreate(c, o) ==
  /\ call[c].run[o] = "creating"
  /\ node[o].name \notin vms
  /\ vms' = vms \cup {node[o].name}
  /\ SetPhase(c, o, "booting")
  /\ UNCHANGED <<group, waitGroup, lock, node>>

\* The VM is powered on and joins the cluster: waitReady (or, with SSH, statusVM)
\* writes Running, over whatever a deleteVM wrote meanwhile.
NodeJoins(c, o) ==
  /\ call[c].run[o] = "booting"
  /\ SetState(o, "Running") /\ SetPhase(c, o, "joined")
  /\ UNCHANGED <<group, waitGroup, lock, vms>>

\* launchVM returns an error: at once for a node that is not NotCreated
\* (ErrVMAlreadyCreated), before or in InstanceCreate, or because the time to wait
\* for the node is over, which nothing excludes.
LaunchFails(c, o) ==
  /\ \/ /\ call[c].run[o] = "start" /\ status = "Created"
        /\ "launch" \in Faults \/ node[o].state # "NotCreated"
     \/ call[c].run[o] = "creating" /\ ("launch" \in Faults \/ node[o].name \in vms)
     \/ call[c].run[o] \in {"booting", "joined"}
  /\ CleanOnLaunchError(c, o)

Counted(n, by) ==
  CASE n[1] = "autoscaled" -> [numOf EXCEPT !.provisionned = @ + by]
    [] n[1] = "worker" -> [numOf EXCEPT !.managed = @ + by]
    [] OTHER -> [numOf EXCEPT !.managed = @ + by, !.controlPlanes = @ + by]

LaunchSucceedsStaysPending(c, o) ==
  /\ call[c].run[o] = "joined"
  /\ nodes' = Put(nodes, node[o].name, o)
  /\ runningNodes' = Put(runningNodes, node[o].index, Running)
  /\ numOf' = Counted(node[o].name, 1)
  /\ SetPhase(c, o, "none") /\ Done(c, o)
  /\ UNCHANGED <<status, pendingNodes, lastCreatedNodeIndex, lock, node, vms>>

\* The node is ready: createNode moves it from the pending nodes to the nodes.
LaunchSucceeds(c, o) ==
  /\ call[c].run[o] = "joined"
  /\ nodes' = Put(nodes, node[o].name, o)
  /\ pendingNodes' = Del(pendingNodes, node[o].name)
  /\ runningNodes' = Put(runningNodes, node[o].index, Running)
  /\ numOf' = Counted(node[o].name, 1)
  /\ SetPhase(c, o, "none") /\ Done(c, o)
  /\ UNCHANGED <<status, lastCreatedNodeIndex, lock, node, vms>>

-----------------------------------------------------------------------------
(* deleteVM, as the group sees it: refused at once, or a VM that goes or stays *)

StartDeleteVM(c, o) ==
  call' = [call EXCEPT ![c].run[o] = CheckNotDeleting(o),
                       ![c].todo = @ \ {o}, ![c].victims = @ \ {node[o].name}]

\* Another goroutine is launching the node.
LaunchUnderWay(c, o) ==
  \E d \in Callers : d # c /\ call[d].run[o] \in {"booting", "joined"}

\* InstanceCreated and InstanceStatus: between the test of the state and the
\* assignment of Deleting, a second deleteVM passes the test too.
InstanceStatus(c, o) ==
  /\ call[c].run[o] = "checked"
  /\ \/ /\ node[o].name \in vms /\ SetState(o, "Deleting")
        /\ SetPhase(c, o, IF LaunchUnderWay(c, o) THEN "racing" ELSE "deleting")
     \/ /\ node[o].name \notin vms \/ "delete" \in Faults
        /\ UNCHANGED node /\ SetPhase(c, o, "refused")
  /\ UNCHANGED <<group, waitGroup, lock, vms>>

\* InstancePowerOff; a second deleteVM is not refused from here on.
InstancePowerOff(c, o) ==
  /\ call[c].run[o] \in {"deleting", "racing"}
  /\ node[o].name \in vms
  /\ SetState(o, "Stopped") /\ SetPhase(c, o, "stopped")
  /\ UNCHANGED <<group, waitGroup, lock, vms>>

\* InstanceDelete; a VM that was never powered on is deleted without InstancePowerOff.
VMDeleted(c, o) ==
  /\ call[c].run[o] \in {"deleting", "racing", "stopped"}
  /\ node[o].name \in vms
  /\ vms' = vms \ {node[o].name}
  /\ SetState(o, "Deleted")

\* Another goroutine has powered off the VM: InstancePowerOff fails.
PoweredOff(c, o) ==
  \E d \in Callers, p \in Objects :
    d # c /\ call[d].run[p] = "stopped" /\ node[p].name = node[o].name

\* A launch that was under way may have powered on the VM: InstanceDelete fails.
VMNotDeleted(c, o) ==
  /\ \/ /\ call[c].run[o] \in {"deleting", "stopped"}
        /\ "delete" \in Faults \/ node[o].name \notin vms \/ PoweredOff(c, o)
     \/ call[c].run[o] \in {"racing", "refused"}
  /\ UNCHANGED <<node, vms>>

LaunchCleanedKeepsIndex(c, o) ==
  /\ call[c].pc = "launch"
  /\ VMDeleted(c, o) \/ VMNotDeleted(c, o)
  /\ pendingNodes' = Del(pendingNodes, node[o].name)
  /\ SetPhase(c, o, "none") /\ Done(c, o)
  /\ UNCHANGED <<status, nodes, runningNodes, lastCreatedNodeIndex, numOf, lock>>

\* cleanOnLaunchError ends; createNode drops the node.
LaunchCleaned(c, o) ==
  /\ call[c].pc = "launch"
  /\ VMDeleted(c, o) \/ VMNotDeleted(c, o)
  /\ runningNodes' = Put(runningNodes, node[o].index, Deleted)
  /\ pendingNodes' = Del(pendingNodes, node[o].name)
  /\ SetPhase(c, o, "none") /\ Done(c, o)
  /\ UNCHANGED <<status, nodes, lastCreatedNodeIndex, numOf, lock>>

CreateNodesEnds(c) ==
  /\ call[c].pc = "launch" /\ Busy(c) = {} /\ call[c].todo = {}
  /\ Goto(c, "wait")
  /\ UNCHANGED <<group, waitGroup, lock, node, vms>>

CreateNodesReturnsLocked(c) ==
  /\ call[c].pc = "wait" /\ Waited(c)
  /\ Return(c)
  /\ UNCHANGED <<group, lock, node, vms>>

CreateNodesReturns(c) ==
  /\ call[c].pc = "wait" /\ Waited(c)
  /\ lock' = Unlocked(c)
  /\ Return(c)
  /\ UNCHANGED <<group, node, vms>>

-----------------------------------------------------------------------------
(* destroyNodes, deleteNode *)

\* The two of them mark the index, delete the VM and forget the node, VM or not.
StartDelete(c, o) ==
  /\ Busy(c) = {}
  /\ runningNodes' = Put(runningNodes, node[o].index, Deleting)
  /\ StartDeleteVM(c, o)
  /\ UNCHANGED <<status, nodes, pendingNodes, lastCreatedNodeIndex, numOf, waitGroup,
                 lock, node, vms>>

Forget(o) ==
  /\ runningNodes' = Put(runningNodes, node[o].index, Deleted)
  /\ nodes' = Del(nodes, node[o].name)
  /\ pendingNodes' = Del(pendingNodes, node[o].name)

DestroyNode(c, o) ==
  /\ call[c].pc = "destroy" /\ o \in call[c].todo
  /\ StartDelete(c, o)

NodeDestroyed(c, o) ==
  /\ call[c].pc = "destroy"
  /\ VMDeleted(c, o) \/ VMNotDeleted(c, o)
  /\ Forget(o)
  /\ SetPhase(c, o, "none")
  /\ UNCHANGED <<status, lastCreatedNodeIndex, numOf, waitGroup, lock>>

DestroyNodesReturns(c) ==
  /\ call[c].pc = "destroy" /\ call[c].todo = {} /\ Busy(c) = {}
  /\ Return(c)
  /\ UNCHANGED <<group, waitGroup, lock, node, vms>>

\* What DeleteNodes does after a node that could not be deleted: the grpc front end
\* answers with the error, the other one goes on with the next node.
DeleteError(c, n) ==
  IF FrontEnd = "grpc"
  THEN Return(c)
  ELSE call' = [call EXCEPT ![c].victims = @ \ {n}, ![c].run = NoCall.run]

\* findNamedNode
Named(n) == IF n \in DOMAIN nodes THEN nodes[n] ELSE pendingNodes[n]

DeleteNodeByName(c, n) ==
  /\ call[c].pc = "delete" /\ Busy(c) = {} /\ n \in call[c].victims
  /\ n \in Tracked /\ n[1] # "master"
  /\ StartDelete(c, Named(n))

\* The node is not in the group, or is a control plane.
DeleteNodeRefused(c, n) ==
  /\ call[c].pc = "delete" /\ Busy(c) = {} /\ n \in call[c].victims
  /\ n \notin Tracked \/ n[1] = "master"
  /\ DeleteError(c, n)
  /\ UNCHANGED <<group, waitGroup, lock, node, vms>>

NodeDeleted(c, o) ==
  /\ call[c].pc = "delete"
  /\ \/ VMDeleted(c, o) /\ SetPhase(c, o, "none")
     \/ VMNotDeleted(c, o) /\ DeleteError(c, node[o].name)
  /\ Forget(o)
  /\ numOf' = Counted(node[o].name, -1)
  /\ UNCHANGED <<status, lastCreatedNodeIndex, waitGroup, lock>>

DeleteNodesReturns(c) ==
  /\ call[c].pc = "delete" /\ call[c].victims = {} /\ Busy(c) = {}
  /\ Return(c)
  /\ UNCHANGED <<group, waitGroup, lock, node, vms>>

\* The controller deletes the node of a ManagedNode that is gone, also one that is
\* being launched (findNodeByCRDUID knows the pending nodes).
DeleteManagedNode(c, n) ==
  /\ "managed" \in Requests
  /\ call[c].pc = "idle"
  /\ n \in Tracked /\ n[1] # "autoscaled"
  /\ \A d \in Callers :
       call[d].pc = "delete" => n \notin call[d].victims \cup {node[o].name : o \in Busy(d)}
  /\ call' = [call EXCEPT ![c] = [NoCall EXCEPT !.pc = "delete", !.req = "managed",
                                                !.victims = {n}]]
  /\ UNCHANGED <<group, waitGroup, lock, node, vms>>

-----------------------------------------------------------------------------
(* cleanup, refresh *)

Cleanup(c) ==
  /\ "cleanup" \in Requests
  /\ call[c].pc = "idle" /\ status = "Created"
  /\ status' = "Deleting"
  /\ call' = [call EXCEPT ![c] = [NoCall EXCEPT !.pc = "drainWG", !.req = "cleanup"]]
  /\ UNCHANGED <<nodes, pendingNodes, runningNodes, lastCreatedNodeIndex, numOf,
                 waitGroup, lock, node, vms>>

CleanupDoesNotWait(c) ==
  /\ call[c].pc = "drainWG"
  /\ call' = [call EXCEPT ![c].pc = "cleanup",
                          ![c].todo = {o \in AllNodes : node[o].name[1] = "autoscaled"}]
  /\ UNCHANGED <<group, waitGroup, lock, node, vms>>

\* The nodes are listed once the creations under way have ended.
CleanupWaited(c) ==
  /\ call[c].pc = "drainWG" /\ Waited(c)
  /\ call' = [call EXCEPT ![c].pc = "cleanup",
                          ![c].todo = {o \in AllNodes : node[o].name[1] = "autoscaled"}]
  /\ UNCHANGED <<group, lock, node, vms>>

CleanupNode(c, o) ==
  /\ call[c].pc = "cleanup" /\ Busy(c) = {} /\ o \in call[c].todo
  /\ StartDeleteVM(c, o)
  /\ UNCHANGED <<group, waitGroup, lock, node, vms>>

CleanupNodeEnds(c, o) ==
  /\ call[c].pc = "cleanup"
  /\ VMDeleted(c, o) \/ VMNotDeleted(c, o)
  /\ SetPhase(c, o, "none")
  /\ UNCHANGED <<group, waitGroup, lock>>

CleanupReturns(c) ==
  /\ call[c].pc = "cleanup" /\ call[c].todo = {} /\ Busy(c) = {}
  /\ nodes' = EmptyMap /\ pendingNodes' = EmptyMap /\ runningNodes' = EmptyMap
  /\ numOf' = [provisionned |-> 0, managed |-> 0, controlPlanes |-> 0]
  /\ status' = "Deleted"
  /\ Return(c)
  /\ UNCHANGED <<lastCreatedNodeIndex, waitGroup, lock, node, vms>>

\* statusVM writes the power state of the VM over the state of the node, even if the
\* VM went while the answer of the provider was on its way.
Refresh(o) ==
  /\ "refresh" \in Requests /\ ~crashed
  /\ o \in AllNodes
  /\ node[o].state \notin {"Unallocated", "NotCreated", "Creating"}
  /\ \E s \in {"Running", "Stopped"} : SetState(o, s)
  /\ UNCHANGED <<group, waitGroup, lock, vms, call>>

-----------------------------------------------------------------------------

\* The group was created and its nodes discovered: there are none yet.
Init ==
  /\ status = "Created"
  /\ nodes = EmptyMap /\ pendingNodes = EmptyMap /\ runningNodes = EmptyMap
  /\ lastCreatedNodeIndex = 0
  /\ numOf = [provisionned |-> 0, managed |-> 0, controlPlanes |-> 0]
  /\ pendingNodesWG = {} /\ waiters = {} /\ released = {}
  /\ lock = NoCaller
  /\ node = [o \in Objects |-> [name |-> NoName, index |-> 0, state |-> "Unallocated"]]
  /\ vms = {}
  /\ call = [c \in Callers |-> NoCall]

\* Requests: nothing obliges the environment to make one.
Request(c) ==
  \/ \E delta \in 1 .. MaxNodeSize : IncreaseSize(c, delta)
  \/ \E delta \in 1 .. MaxNodeSize : DecreaseTargetSize(c, -delta)
  \/ \E names \in SUBSET DOMAIN nodes : DeleteNodes(c, names)
  \/ \E kind \in {"worker", "master"} : AddManagedNode(c, kind)
  \/ \E n \in Tracked : DeleteManagedNode(c, n)
  \/ Cleanup(c)

\* The steps of a goroutine that works on one node.
NodeStep(c, o) ==
  \/ CreateNodeRefused(c, o) \/ LaunchVM(c, o)
  \/ InstanceCreate(c, o) \/ NodeJoins(c, o)
  \/ LaunchFails(c, o) \/ LaunchSucceeds(c, o) \/ LaunchCleaned(c, o)
  \/ InstanceStatus(c, o) \/ InstancePowerOff(c, o) \/ DestroyNode(c, o) \/ NodeDestroyed(c, o) \/ NodeDeleted(c, o)
  \/ CleanupNode(c, o) \/ CleanupNodeEnds(c, o)

\* setNodeGroupSize gets the lock.
Resize(c) == GrowRefused(c) \/ Grow(c) \/ Keep(c) \/ Shrink(c) \/ ShrinkPanics(c)

Step(c) ==
  \/ Resize(c)
  \/ PickNode(c) \/ ReserveNode(c) \/ ReserveFails(c)
  \/ CreateNodes(c) \/ StartCycle(c) \/ CreateNodesEnds(c)
  \/ Wait(c) \/ CreateNodesReturns(c)
  \/ \E n \in call[c].victims : DeleteNodeByName(c, n) \/ DeleteNodeRefused(c, n)
  \/ DestroyNodesReturns(c) \/ DeleteNodesReturns(c)
  \/ CleanupWaited(c) \/ CleanupReturns(c)
  \/ \E o \in Objects : NodeStep(c, o)

Panic(c) == CreateNodesPanics(c) \/ WaitPanics(c)

Next ==
  \/ \E c \in Callers : Request(c) \/ Step(c) \/ Panic(c)
  \/ \E o \in Objects : Refresh(o)

Spec == Init /\ [][Next]_vars

\* Every goroutine of the program keeps running, and Go's mutex is handed to a
\* goroutine that has waited for it too long.  Requests are not fair.
Fairness ==
  \A c \in Callers : WF_vars(Step(c) \/ Panic(c)) /\ SF_vars(Resize(c))

FairSpec == Spec /\ Fairness

-----------------------------------------------------------------------------
(* Properties *)

TypeOK ==
  /\ status \in NodeGroupState
  /\ IsMap(nodes, Names, Objects) /\ IsMap(pendingNodes, Names, Objects)
  /\ IsMap(runningNodes, Int, ServerNodeState)
  /\ lastCreatedNodeIndex \in Nat
  /\ numOf \in [provisionned : Int, managed : Int, controlPlanes : Int]
  /\ pendingNodesWG \subseteq Callers \X Objects
  /\ waiters \subseteq Callers /\ released \subseteq Callers
  /\ lock \in Callers \cup {NoCaller}
  /\ node \in [Objects -> NodeObject]
  /\ vms \subseteq Names
  /\ call \in [Callers -> Call]

AutoscaledNames == {n \in Tracked : n[1] = "autoscaled"}

\* The group never has more autoscaled nodes than MaxNodeSize, however the
\* creations, the deletions and the launch failures interleave: IncreaseSize
\* checks the size before it waits for the lock.
AutoscaledBound == Cardinality(AutoscaledNames) <= MaxNodeSize

\* The group never loses a VM: as long as it is not cleaned up, every VM it made
\* has its node in the group.
NoVMLost == status = "Created" => vms \subseteq Tracked

\* No two nodes of the group share an index: the index gives the static address
\* of the VM (module Network).
DistinctIndexes ==
  status = "Created" =>
    \A p, q \in AllNodes : p # q => node[p].index # node[q].index

\* A cleaned up group has no autoscaled VM, but for the ones a DeleteNodes that
\* is still under way is deleting.
CleanupLeavesNothing ==
  status = "Deleted" /\ ~crashed =>
    \A n \in vms : n[1] = "autoscaled" =>
      \E c \in Callers, o \in Objects :
        call[c].run[o] \in {"checked", "deleting", "racing", "stopped"} /\ node[o].name = n

Quiescent == \A c \in Callers : call[c].pc = "idle"

\* When nothing is under way the books agree: no node is pending, an index is
\* taken iff a node has it, the counter of provisioned nodes is right, and the
\* VMs are those of the nodes.
QuiescentConsistent ==
  Quiescent /\ status = "Created" =>
    /\ pendingNodes = EmptyMap /\ pendingNodesWG = {} /\ lock = NoCaller
    /\ {i \in DOMAIN runningNodes : runningNodes[i] >= Creating} = {node[o].index : o \in AllNodes}
    /\ numOf.provisionned = Cardinality(AutoscaledNames)
    /\ vms = DOMAIN nodes

\* g.pendingNodesWG counts the nodes whose creation has not ended, so that
\* cleanup, which waits for it, neither runs ahead of a launch nor hangs.
WaitGroupBalanced ==
  ~crashed => pendingNodesWG = {p \in Callers \X Objects :
                call[p[1]].pc = "launch" /\ p[2] \in call[p[1]].todo \cup Busy(p[1])}

\* Once cleanup has ended no VM is being launched, whatever failed before: the
\* launches under way were waited for, those to come find the group deleted.
NoLaunchOnceDeleted ==
  status = "Deleted" =>
    \A c \in Callers, o \in Objects : call[c].run[o] \notin {"creating", "booting", "joined"}

\* nodeName finds a name in its loop: the code after it is marked "Should never
\* reach this code".
NameLoopFinds ==
  \A c \in Callers : call[c].pc = "pick" => FreeNumbers(KindOf(c)) # {}

\* No new creation starts between the end of the former ones and the return of
\* those who waited for them: Go's WaitGroup would panic.
WaitGroupNotReused == released # {} => pendingNodesWG = {}

\* "This function doesn't permit to delete any existing node": what a
\* DecreaseTargetSize deletes is no node that has joined the group.  This does not hold: the
\* nodes are picked under the lock and destroyed later.
DecreaseSparesNodes ==
  \A c \in Callers, o \in Objects :
    call[c].req = "decrease" /\ call[c].run[o] \in {"deleting", "racing", "stopped"} =>
      \A n \in DOMAIN nodes : nodes[n] # o

\* The process does not panic.  This does not hold for a DecreaseTargetSize of the grpc front
\* end while a managed node is pending.
NoCrash == ~crashed

\* Every request ends, and so does the background work it started, unless the
\* process dies.
CallsReturn ==
  \A c \in Callers : (call[c].pc # "idle") ~> (call[c].pc = "idle" \/ crashed)

=============================================================================
