---------------------------- MODULE ManagedNodes ----------------------------
(***************************************************************************)
(* The controller of the ManagedNode resources (server/controller.go): its  *)
(* worker, its event handlers, and the start of the server around it.       *)
(*                                                                          *)
(* A resource stands for its UID.  The API server has its status (crd), the *)
(* lister an older copy of it.  The worker takes the resources off the work *)
(* queue, reserves their nodes, launches them as one batch and reports.     *)
(* Meanwhile two event handlers, one for resources and one for Kubernetes   *)
(* nodes, delete nodes.  The process may die at any moment and start again: *)
(* the controller starts before the node group is discovered.               *)
(*                                                                          *)
(* A step is the code between two calls that take long (a launch, the       *)
(* deletion of a VM).  The node group is reduced to the node of each        *)
(* resource; module NodeGroup has the rest.                                 *)
(*                                                                          *)
(* A definition that stands before another one and is named after it is a   *)
(* faulty variant of it that no action uses.                                *)
(***************************************************************************)
EXTENDS Naturals, FiniteSets

CONSTANTS
  Resources,      \* the ManagedNodes, by UID
  NoResource,     \* a handler that has nothing to do
  MaxRestarts,    \* bound: how often the process dies
  Environments    \* what is asked for and what may happen

RequestKinds ==
  { "delete",    \* the user deletes a resource
    "remove",    \* somebody deletes the Kubernetes node of a resource
    "hasty",     \* ... both also before the node was reported as created
    "restart",   \* the process stops, when it has no work, and starts again
    "crash",     \* ... at any moment
    "lag" }      \* the watch may be slower than the boot of a VM

FaultKinds ==
  { "add",       \* addManagedNode fails
    "update",    \* an update of the status fails
    "delete",    \* deleteVM fails, after any of its steps
    "attach" }   \* AttachInstance fails although the VM is there

ASSUME ManagedNodesAssumption ==
  /\ NoResource \notin Resources /\ IsFiniteSet(Resources)
  /\ MaxRestarts \in Nat
  /\ Environments \subseteq [requests : SUBSET RequestKinds, faults : SUBSET FaultKinds,
                              unregistered : SUBSET Resources,
                              controlPlanes : SUBSET Resources, maxNodes : Nat]

VARIABLES
  env,        \* what may happen, does not change
  crd,        \* the status code of each resource, as the API server has it
  lister,     \* the copy of the controller
  queue,      \* c.workqueue
  deletions,  \* resources whose deletion is still to be told to deleteManagedNode
  nodeEvents, \* resources the deletion of whose Kubernetes node is to be told to handleNode
  deleting,   \* the resource whose node each event handler, or the worker, is deleting
  worker,     \* what runWorker is doing
  group,      \* the node group: absent, registered (not discovered yet), or ready
  node,       \* the node of a resource in the maps of the group
  launch,     \* how far the launch of the node is
  vm,         \* the resources that have a VM
  stray,      \* the resources for which a second VM was made
  undeleted,  \* the resources with a VM that deleteVM could not delete (a history variable)
  kube,       \* the Kubernetes node of a resource
  restarts    \* how often the process died

cluster == <<crd, vm, stray, undeleted, kube>>
vars == <<env, crd, lister, queue, deletions, nodeEvents, deleting, worker, group, node, launch,
          vm, stray, undeleted, kube, restarts>>

-----------------------------------------------------------------------------
(* Types *)

Code ==
  {"NeedToCreated", "Creation", "Created", "CreationFailed", "Deleted",
   "GroupNotFound", "NiceLimitReached", "InstanceTypeNotRegistred"}

\* Who deletes nodes: deleteManagedNode, handleNode, findManagedNodeDeleted.
Deleters == {"resource", "node", "scan"}

Down == [pc |-> "down", todo |-> {}, batch |-> {}]

Up == worker.pc # "down"
May(fault) == fault \in env.faults
Asked(request) == request \in env.requests

\* The resources whose instance type is unknown, those that ask for a control plane, and
\* the limit on the nodes of the cluster, those of other groups apart.
Unregistered == env.unregistered
ControlPlanes == env.controlPlanes
MaxNodes == env.maxNodes

Present(copy) == {u \in Resources : copy[u] \in Code}
Deleting(u) == \E d \in Deleters : deleting[d] = u

-----------------------------------------------------------------------------
(* Steps shared by the worker and the handlers *)

\* updateManagedNodeStatus: an error (the resource may be gone) is only logged.
UpdateStatus(u, code) ==
  \/ crd' = IF crd[u] \in Code THEN [crd EXCEPT ![u] = code] ELSE crd
  \/ May("update") /\ UNCHANGED crd

\* deleteManagedNode and findManagedNodeDeleted: findNodeByCRDUID finds the node, pending
\* or not, and deleteNode begins.
Begins(d, u) ==
  deleting' = IF group # "absent" /\ node[u] # "none"
              THEN [deleting EXCEPT ![d] = u] ELSE deleting

\* The Kubernetes node of u goes: if it has an owner, handleNode is to be told.
NodeEvent(u) ==
  nodeEvents' = IF kube[u] = "owned" /\ kube'[u] = "absent" /\ Up
                THEN nodeEvents \cup {u} ELSE nodeEvents

-----------------------------------------------------------------------------
(* The user, the API server, and the informers *)

CreateResource(u) ==
  /\ crd[u] = "none"
  /\ crd' = [crd EXCEPT ![u] = "NeedToCreated"]
  /\ UNCHANGED <<env, lister, queue, deletions, nodeEvents, deleting, worker, group, node,
                 launch, vm, stray, undeleted, kube, restarts>>

DeleteResource(u) ==
  /\ Asked("delete")
  /\ crd[u] = "Created" \/ (Asked("hasty") /\ crd[u] \in Code)
  /\ crd' = [crd EXCEPT ![u] = "gone"]
  /\ UNCHANGED <<env, lister, queue, deletions, nodeEvents, deleting, worker, group, node,
                 launch, vm, stray, undeleted, kube, restarts>>

RemoveNode(u) ==
  /\ Asked("remove")
  /\ kube[u] = "owned" \/ (Asked("hasty") /\ kube[u] = "joined")
  /\ kube' = [kube EXCEPT ![u] = "absent"]
  /\ NodeEvent(u)
  /\ UNCHANGED <<env, crd, lister, queue, deletions, deleting, worker, group, node, launch,
                 vm, stray, undeleted, restarts>>

\* The watch brings a change: enqueueManagedNode, or deleteManagedNode is to be called.
Watch(u) ==
  /\ Up /\ lister[u] # crd[u]
  /\ lister' = [lister EXCEPT ![u] = crd[u]]
  /\ IF crd[u] \in Code
     THEN queue' = queue \cup {u} /\ UNCHANGED deletions
     ELSE deletions' = (IF lister[u] \in Code THEN deletions \cup {u} ELSE deletions)
          /\ UNCHANGED queue
  /\ UNCHANGED <<env, cluster, nodeEvents, deleting, worker, group, node, launch, restarts>>

\* The informer tells every resource again, each 30 seconds.  Left out: the resources for
\* which handleManagedNode has nothing to do, and the time when the worker has a batch
\* (the queue waits for its end).
Resync(u) ==
  /\ Up /\ worker.batch = {} /\ u \in Present(lister) \ queue
  /\ lister[u] \in {"NeedToCreated", "GroupNotFound", "NiceLimitReached", "Created"}
  /\ node[u] = "none"
  /\ queue' = queue \cup {u}
  /\ UNCHANGED <<env, lister, cluster, deletions, nodeEvents, deleting, worker, group, node,
                 launch, restarts>>

-----------------------------------------------------------------------------
(* The event handlers: deleteManagedNode, handleNode *)

HandleDeletion(u) ==
  /\ deleting["resource"] = NoResource /\ u \in deletions
  /\ deletions' = deletions \ {u}
  /\ Begins("resource", u)
  /\ UNCHANGED <<env, cluster, lister, queue, nodeEvents, worker, group, node, launch, restarts>>

NamedOnceCreated(u) == lister[u] = "Created"

\* The status holds the name of the node, from Creation on; a later code than these may
\* have replaced the one it came with.
Named(u) == lister[u] \in {"Creation", "Created", "CreationFailed", "Deleted"}
MaybeNamed(u) == lister[u] \in {"GroupNotFound", "NiceLimitReached", "InstanceTypeNotRegistred"}

\* handleNode has nothing to do: the lister does not have the resource, or its node is there.
HandleNodeIgnored(u) ==
  /\ deleting["node"] = NoResource /\ u \in nodeEvents
  /\ ~Named(u) \/ kube[u] # "absent"
  /\ nodeEvents' = nodeEvents \ {u}
  /\ UNCHANGED <<env, cluster, lister, queue, deletions, deleting, worker, group, node, launch,
                 restarts>>

\* deleteOwnerRef: the node is deleted, if the group has it, and then the resource.
HandleNodeGone(u) ==
  /\ deleting["node"] = NoResource /\ u \in nodeEvents
  /\ Named(u) \/ MaybeNamed(u)
  /\ kube[u] = "absent"
  /\ nodeEvents' = nodeEvents \ {u}
  /\ Begins("node", u)
  /\ crd' = IF deleting' = deleting /\ crd[u] \in Code THEN [crd EXCEPT ![u] = "gone"] ELSE crd
  /\ UNCHANGED <<env, lister, queue, deletions, worker, group, node, launch, vm, stray,
                 undeleted, kube, restarts>>

\* deleteVM removes the Kubernetes node, then the VM; an error leaves the VM, and maybe both.
DeleteVM(u) ==
  \/ vm' = vm \ {u} /\ kube' = [kube EXCEPT ![u] = "absent"] /\ UNCHANGED undeleted
  \/ /\ May("delete") /\ undeleted' = undeleted \cup ({u} \cap vm)
     /\ UNCHANGED vm /\ kube' \in {kube, [kube EXCEPT ![u] = "absent"]}

DeleteNodeKeepsVM(d) ==
  /\ deleting[d] # NoResource
  /\ LET u == deleting[d]
     IN  /\ node' = [node EXCEPT ![u] = "none"] /\ UNCHANGED <<vm, undeleted, kube>>
         /\ NodeEvent(u)
         /\ crd' = IF d = "node" /\ crd[u] \in Code THEN [crd EXCEPT ![u] = "gone"] ELSE crd
  /\ deleting' = [deleting EXCEPT ![d] = NoResource]
  /\ UNCHANGED <<env, lister, queue, deletions, worker, group, launch, stray, restarts>>

\* deleteNode ends: a control plane is refused, else the group forgets the node, whether its
\* VM is gone or not.  Another deleteVM that is at work refuses this one.  After handleNode
\* the resource is deleted, too.
DeleteNode(d) ==
  /\ deleting[d] # NoResource
  /\ LET u == deleting[d]
         refused == \E e \in Deleters \ {d} : deleting[e] = u
     IN  /\ node' = IF u \in ControlPlanes THEN node ELSE [node EXCEPT ![u] = "none"]
         /\ IF u \in ControlPlanes \/ refused \/ u \notin vm
            THEN UNCHANGED <<vm, undeleted, kube>>
            ELSE DeleteVM(u)
         /\ NodeEvent(u)
         /\ crd' = IF d = "node" /\ crd[u] \in Code THEN [crd EXCEPT ![u] = "gone"] ELSE crd
  /\ deleting' = [deleting EXCEPT ![d] = NoResource]
  /\ UNCHANGED <<env, lister, queue, deletions, worker, group, launch, stray, restarts>>

-----------------------------------------------------------------------------
(* The worker: findManagedNodeDeleted, once *)

\* A node whose resource is gone, or a resource reported as created whose node is gone.
\* The status Deleted that the code puts together is not written.
Scan(u) ==
  /\ worker.pc = "scan" /\ u \in worker.todo /\ deleting["scan"] = NoResource
  /\ worker' = [worker EXCEPT !.todo = @ \ {u}]
  /\ IF \/ kube[u] = "owned" /\ u \notin Present(lister)
        \/ kube[u] = "absent" /\ lister[u] = "Created"
     THEN Begins("scan", u)
     ELSE UNCHANGED deleting
  /\ UNCHANGED <<env, cluster, lister, queue, deletions, nodeEvents, group, node, launch,
                 restarts>>

ScanEnds ==
  /\ worker.pc = "scan" /\ worker.todo = {} /\ deleting["scan"] = NoResource
  /\ worker' = [worker EXCEPT !.pc = "items"]
  /\ UNCHANGED <<env, cluster, lister, queue, deletions, nodeEvents, deleting, group, node,
                 launch, restarts>>

-----------------------------------------------------------------------------
(* The worker: processAllItems, handleManagedNode *)

Take(u) ==
  /\ worker.pc = "items" /\ u \in queue
  /\ queue' = queue \ {u}

\* handleManagedNode sets another status, or leaves it.
Report(u, code) == IF lister[u] = code THEN UNCHANGED crd ELSE UpdateStatus(u, code)

ToCreateAtFirst(u) ==
  /\ group # "absent" /\ node[u] = "none"
  /\ lister[u] \in {"NeedToCreated", "NiceLimitReached"}

\* The status codes that ask for a node.
ToCreate(u) ==
  /\ group # "absent" /\ node[u] = "none"
  /\ lister[u] \in {"NeedToCreated", "GroupNotFound", "NiceLimitReached"}

\* checkRessourceLimits; the nodes of the batch do not count, they have not joined.
LimitReached == MaxNodes < Cardinality({u \in Resources : kube[u] # "absent"}) + 1

\* The resource is gone, its node is known, or its status asks for nothing.
NothingToHandle(u) ==
  /\ Take(u)
  /\ \/ u \notin Present(lister)
     \/ group # "absent" /\ (node[u] # "none" \/ (~ToCreate(u) /\ lister[u] # "Created"))
  /\ UNCHANGED <<env, cluster, lister, deletions, nodeEvents, deleting, worker, group, node,
                 launch, restarts>>

\* No group is discovered yet: the status is overwritten, the item goes back to the queue.
GroupNotFound(u) ==
  /\ worker.pc = "items" /\ u \in queue /\ u \in Present(lister)
  /\ group = "absent"
  /\ Report(u, "GroupNotFound")
  /\ UNCHANGED <<env, lister, queue, deletions, nodeEvents, deleting, worker, group, node,
                 launch, vm, stray, undeleted, kube, restarts>>

\* Unknown instance type, limit, failure of addManagedNode, or a node that was deleted.
HandleWithoutNode(u) ==
  /\ Take(u)
  /\ \/ ToCreate(u) /\ u \in Unregistered /\ Report(u, "InstanceTypeNotRegistred")
     \/ ToCreate(u) /\ u \notin Unregistered /\ LimitReached /\ Report(u, "NiceLimitReached")
     \/ /\ ToCreate(u) /\ u \notin Unregistered /\ ~LimitReached
        /\ May("add") /\ Report(u, "CreationFailed")
     \/ /\ group # "absent" /\ node[u] = "none" /\ lister[u] = "Created"
        /\ Report(u, "Deleted")
  /\ UNCHANGED <<env, lister, deletions, nodeEvents, deleting, worker, group, node, launch,
                 vm, stray, undeleted, kube, restarts>>

AddManagedNode(u) ==
  /\ Take(u)
  /\ group = "ready" /\ ToCreate(u) /\ u \notin Unregistered /\ ~LimitReached
  /\ node' = [node EXCEPT ![u] = "pending"]
  /\ launch' = [launch EXCEPT ![u] = "start"]
  /\ worker' = [worker EXCEPT !.batch = @ \cup {u}]
  /\ Report(u, "Creation")
  /\ UNCHANGED <<env, lister, deletions, nodeEvents, deleting, group, vm, stray,
                 undeleted, kube, restarts>>

\* The queue is empty: startManagedNodes, createNodes.
StartBatch ==
  /\ worker.pc = "items" /\ worker.batch # {} /\ queue = {}
  /\ worker' = [worker EXCEPT !.pc = "launch"]
  /\ UNCHANGED <<env, cluster, lister, queue, deletions, nodeEvents, deleting, group, node,
                 launch, restarts>>

-----------------------------------------------------------------------------
(* The worker: createNodes and the report of startManagedNodes *)

Launching(u) == worker.pc = "launch" /\ u \in worker.batch

\* The VM is made.  The pending nodes may have lost the node since: nobody looks.
InstanceCreate(u) ==
  /\ Launching(u) /\ launch[u] = "start"
  /\ launch' = [launch EXCEPT ![u] = "booting"]
  /\ vm' = vm \cup {u}
  /\ stray' = IF u \in vm THEN stray \cup {u} ELSE stray
  /\ UNCHANGED <<env, crd, lister, queue, deletions, nodeEvents, deleting, worker, group, node,
                 undeleted, kube, restarts>>

Joins(u) ==
  /\ Launching(u) /\ launch[u] = "booting" /\ u \in vm
  /\ Asked("lag") \/ lister[u] = crd[u]
  /\ launch' = [launch EXCEPT ![u] = "joined"]
  /\ kube' = [kube EXCEPT ![u] = "joined"]
  /\ UNCHANGED <<env, crd, lister, queue, deletions, nodeEvents, deleting, worker, group, node,
                 vm, stray, undeleted, restarts>>

\* The group gets the node, also one that was deleted meanwhile.  The launch is done if the
\* State of the node is Running then: a deletion that failed may have left Deleting.
LaunchSucceeds(u) ==
  /\ Launching(u) /\ launch[u] = "joined"
  /\ \/ launch' = [launch EXCEPT ![u] = "done"]
     \/ May("delete") /\ node[u] = "none" /\ launch' = [launch EXCEPT ![u] = "failed"]
  /\ node' = [node EXCEPT ![u] = "running"]
  /\ UNCHANGED <<env, cluster, lister, queue, deletions, nodeEvents, deleting, worker, group,
                 restarts>>

\* An error or a timeout: the group forgets the node, and cleanOnLaunchError deletes the VM,
\* if there is one and no handler that is at it refuses.  statusVM has written Running before:
\* that stays when deleteVM gets no status, and is then reported.
LaunchFails(u) ==
  /\ Launching(u) /\ launch[u] \in {"start", "booting", "joined"}
  /\ node' = [node EXCEPT ![u] = "none"]
  /\ \/ /\ launch[u] = "start" \/ Deleting(u)
        /\ launch' = [launch EXCEPT ![u] = "failed"] /\ UNCHANGED <<vm, undeleted, kube>>
     \/ /\ launch[u] # "start"
        /\ launch' = [launch EXCEPT ![u] = "failed"] /\ DeleteVM(u)
     \/ /\ launch[u] # "start" /\ u \in vm /\ May("delete")
        /\ launch' = [launch EXCEPT ![u] = "done"]
        /\ undeleted' = undeleted \cup {u} /\ UNCHANGED <<vm, kube>>
  /\ UNCHANGED <<env, crd, lister, queue, deletions, nodeEvents, deleting, worker, group,
                 stray, restarts>>

BatchEnds ==
  /\ worker.pc = "launch" /\ \A u \in worker.batch : launch[u] \in {"done", "failed"}
  /\ worker' = [worker EXCEPT !.pc = "report"]
  /\ UNCHANGED <<env, cluster, lister, queue, deletions, nodeEvents, deleting, group, node,
                 launch, restarts>>

Reported(u) ==
  /\ worker.pc = "report" /\ u \in worker.batch
  /\ worker' = [worker EXCEPT !.batch = @ \ {u}, !.pc = IF worker.batch = {u} THEN "items" ELSE @]
  /\ launch' = [launch EXCEPT ![u] = "none"]
  /\ UNCHANGED <<env, lister, queue, deletions, nodeEvents, deleting, group, node, vm, stray,
                 undeleted, restarts>>

\* The node is Running: it gets its owner (if Kubernetes still has it), the resource its
\* status.  A deleteVM at work, or one that failed, has written Deleting, or waitReady has
\* written over it.
ReportCreated(u) ==
  /\ Reported(u)
  /\ u \in Present(lister) /\ launch[u] = "done" /\ u \in vm
  /\ kube' = IF kube[u] = "joined" THEN [kube EXCEPT ![u] = "owned"] ELSE kube
  /\ UpdateStatus(u, "Created")

ReportFailed(u) ==
  /\ Reported(u)
  /\ u \in Present(lister)
  /\ \/ launch[u] = "failed" \/ u \notin vm \/ Deleting(u)
     \/ May("delete") /\ node[u] = "none"
  /\ UpdateStatus(u, "CreationFailed")
  /\ UNCHANGED kube

\* The lister no longer has the resource: only logged.
ReportNothing(u) ==
  /\ Reported(u)
  /\ u \notin Present(lister)
  /\ UNCHANGED <<crd, kube>>

-----------------------------------------------------------------------------
(* The process: StartServer, doAutoProvision *)

\* startController: the caches are filled, each resource is told as new; what was deleted
\* while the process was down is not told.
Start ==
  /\ ~Up
  /\ worker' = [Down EXCEPT !.pc = "scan", !.todo = Resources]
  /\ lister' = crd /\ queue' = Present(crd)
  /\ UNCHANGED <<env, cluster, deletions, nodeEvents, deleting, group, node, launch, restarts>>

\* newNodeGroup: the group is known, its map of indexes is nil.
Register ==
  /\ Up /\ group = "absent"
  /\ group' = "registered"
  /\ UNCHANGED <<env, cluster, lister, queue, deletions, nodeEvents, deleting, worker, node,
                 launch, restarts>>

DiscoverNothing ==
  /\ group = "registered"
  /\ group' = "ready"
  /\ UNCHANGED <<env, cluster, lister, queue, deletions, nodeEvents, deleting, worker, node,
                 launch, restarts>>

DiscoverUnconverted ==
  /\ group = "registered"
  /\ group' = "ready"
  /\ node' = kube
  /\ UNCHANGED <<env, cluster, lister, queue, deletions, nodeEvents, deleting, worker, launch,
                 restarts>>

\* autoDiscoveryNodes, including the existing nodes: the owner tells the resource.  A node
\* that AttachInstance cannot attach is left out.
Discover ==
  /\ group = "registered"
  /\ group' = "ready"
  /\ \E missed \in SUBSET (IF May("attach") THEN Resources ELSE {}) :
       node' = [u \in Resources |->
                  IF kube[u] = "owned" /\ u \in vm \ missed THEN "running" ELSE "none"]
  /\ UNCHANGED <<env, cluster, lister, queue, deletions, nodeEvents, deleting, worker, launch,
                 restarts>>

\* The process dies: what it holds in memory is lost.
Dies ==
  /\ restarts < MaxRestarts /\ restarts' = restarts + 1
  /\ worker' = Down /\ group' = "absent"
  /\ queue' = {} /\ deletions' = {} /\ nodeEvents' = {}
  /\ deleting' = [d \in Deleters |-> NoResource]
  /\ node' = [u \in Resources |-> "none"] /\ launch' = [u \in Resources |-> "none"]
  /\ UNCHANGED <<env, cluster, lister>>

\* No event is left to handle, nothing is being made or deleted.
Calm ==
  /\ worker.pc = "items" /\ worker.batch = {} /\ deletions = {} /\ nodeEvents = {}
  /\ \A d \in Deleters : deleting[d] = NoResource
  /\ Present(lister) = Present(crd)

Stop ==
  /\ Up /\ (Asked("crash") \/ (Asked("restart") /\ Calm))
  /\ Dies

\* addManagedNode writes into the nil map of a group that is not discovered yet.
AddManagedNodePanics(u) ==
  /\ worker.pc = "items" /\ u \in queue
  /\ group = "registered" /\ ToCreate(u) /\ u \notin Unregistered /\ ~LimitReached
  /\ Dies

-----------------------------------------------------------------------------

Init ==
  /\ env \in Environments
  /\ crd = [u \in Resources |-> "none"] /\ lister = crd
  /\ queue = {} /\ deletions = {} /\ nodeEvents = {}
  /\ deleting = [d \in Deleters |-> NoResource]
  /\ worker = Down /\ group = "absent"
  /\ node = [u \in Resources |-> "none"] /\ launch = [u \in Resources |-> "none"]
  /\ vm = {} /\ stray = {} /\ undeleted = {} /\ kube = [u \in Resources |-> "absent"]
  /\ restarts = 0

User(u) == CreateResource(u) \/ DeleteResource(u) \/ RemoveNode(u)

Informer(u) ==
  Watch(u) \/ HandleDeletion(u) \/ HandleNodeIgnored(u) \/ HandleNodeGone(u)

HandleManagedNode(u) ==
  \/ NothingToHandle(u) \/ GroupNotFound(u) \/ HandleWithoutNode(u) \/ AddManagedNode(u)

Launch(u) == InstanceCreate(u) \/ Joins(u) \/ LaunchSucceeds(u) \/ LaunchFails(u)

StartManagedNodes(u) == ReportCreated(u) \/ ReportFailed(u) \/ ReportNothing(u)

Worker == ScanEnds \/ StartBatch \/ BatchEnds

Server == Start \/ Register \/ Discover

Next ==
  \/ \E u \in Resources :
       \/ User(u) \/ Informer(u) \/ Resync(u) \/ Scan(u) \/ HandleManagedNode(u) \/ Launch(u)
       \/ StartManagedNodes(u) \/ AddManagedNodePanics(u)
  \/ \E d \in Deleters : DeleteNode(d)
  \/ Worker \/ Server \/ Stop

Spec == Init /\ [][Next]_vars

\* The goroutines of the informers and of the worker run, the calls they make return; the
\* user, and whoever stops the process, need not act.
Fairness ==
  /\ \A u \in Resources :
       /\ WF_vars(Informer(u)) /\ WF_vars(Resync(u)) /\ WF_vars(Scan(u))
       /\ WF_vars(HandleManagedNode(u)) /\ WF_vars(Launch(u)) /\ WF_vars(StartManagedNodes(u))
  /\ \A d \in Deleters : WF_vars(DeleteNode(d))
  /\ WF_vars(Worker) /\ WF_vars(Server)

FairSpec == Spec /\ Fairness

-----------------------------------------------------------------------------
(* Properties *)

\* Every variable keeps its type; the map of the group holds pending and running nodes.
TypeOK ==
  /\ env \in Environments
  /\ crd \in [Resources -> Code \cup {"none", "gone"}]
  /\ lister \in [Resources -> Code \cup {"none", "gone"}]
  /\ queue \subseteq Resources /\ deletions \subseteq Resources /\ nodeEvents \subseteq Resources
  /\ deleting \in [Deleters -> Resources \cup {NoResource}]
  /\ worker \in [pc : {"down", "scan", "items", "launch", "report"},
                 todo : SUBSET Resources, batch : SUBSET Resources]
  /\ group \in {"absent", "registered", "ready"}
  /\ node \in [Resources -> {"none", "pending", "running"}]
  /\ launch \in [Resources -> {"none", "start", "booting", "joined", "done", "failed"}]
  /\ vm \subseteq Resources /\ stray \subseteq Resources /\ undeleted \subseteq Resources
  /\ kube \in [Resources -> {"absent", "joined", "owned"}]
  /\ restarts \in 0 .. MaxRestarts

\* Nothing is under way for u.
Settled(u) ==
  /\ group = "ready" /\ worker.pc \notin {"down", "scan"} /\ u \notin worker.batch
  /\ u \notin queue \cup deletions \cup nodeEvents /\ ~Deleting(u) /\ lister[u] = crd[u]

\* However stale the lister is, in whatever order the events come and the status updates
\* fail, and also when the process was restarted (the statuses then become GroupNotFound,
\* which asks for a node), handleManagedNode makes no second VM for a resource, but where
\* deleteVM could not delete the first: its error is only logged, and the resource may be
\* asked for again.  Not so after a crash in a launch, nor, after a restart, for a node that
\* was removed while the process was down or that the discovery could not attach.
OneVM ==
  ~Asked("crash") /\ ~(Asked("restart") /\ (Asked("remove") \/ May("attach")))
  => stray \subseteq undeleted

\* When nothing is under way for a resource that is gone, deleteManagedNode has deleted its
\* VM, as the comment in handleManagedNode says, but where deleteVM failed: the group then
\* forgets the node, the controller only warns, and nobody tries again.
GoneWithResource ==
  \A u \in Resources \ ControlPlanes :
    Settled(u) /\ crd[u] = "gone" => u \notin vm \/ u \in undeleted

\* That is so for the resources that are deleted once their node is reported as created, by
\* the user or by deleteOwnerRef, if the process is up.  Where Kubernetes nodes are removed
\* the lister must not lag, nor a status be lost: deleteOwnerRef deletes a resource for
\* which the lister may still ask for a node, and the worker makes one that nobody deletes.
GoneInOrder ==
  /\ ~Asked("hasty") /\ ~Asked("restart") /\ ~Asked("crash")
  /\ ~(Asked("remove") /\ (Asked("lag") \/ May("update")))
  => GoneWithResource

\* When nothing is under way for a resource with status Created and a node in the group, it
\* has its VM and a Kubernetes node that names it as its owner: neither the handlers, nor a
\* crash at any point, leave a Created that is a lie.  Not so for a node that is removed
\* before startManagedNodes gives it its owner, of which handleNode is not told, or before
\* the lister has the name of the node, without which handleNode ignores it: it lags, or the
\* update that would have told the name has failed.
CreatedIsTrue ==
  ~(Asked("remove") /\ (Asked("hasty") \/ Asked("lag") \/ May("update"))) =>
    \A u \in Resources :
      Settled(u) /\ crd[u] = "Created" /\ node[u] # "none" => u \in vm /\ kube[u] = "owned"

\* A new resource gets an answer from the worker: its node, or a reason why there is none,
\* also when the worker met it before the node group was discovered.
Settles ==
  \A u \in Resources :
    (~Asked("crash") /\ ~May("update") /\ crd[u] = "NeedToCreated")
      ~> crd[u] \notin {"NeedToCreated", "Creation", "GroupNotFound"}
=============================================================================
