------------------------- MODULE ManagedNodesInv --------------------------
(***************************************************************************)
(* The inductive invariants behind OneVM, CreatedIsTrue and GoneInOrder.    *)
(* TLC checks them, and ManagedNodesProofs proves them.                     *)
(***************************************************************************)
EXTENDS ManagedNodes

\* The environments in which OneVM holds.
Orderly == ~Asked("crash") /\ ~(Asked("restart") /\ (Asked("remove") \/ May("attach")))

\* The controller has seen that the resource is deleted.
Gone(u) == lister[u] = "gone"

\* The batch is what is being launched; it has not begun while items are handled.
BatchInv ==
  /\ \A u \in Resources : launch[u] # "none" <=> u \in worker.batch
  /\ worker.pc = "items" => \A u \in Resources : launch[u] \in {"none", "start"}
  /\ worker.pc = "report" => \A u \in Resources : launch[u] \in {"none", "done", "failed"}
  /\ worker.pc \in {"down", "scan"} => worker.batch = {}
  /\ group # "ready" => worker.batch = {} /\ \A u \in Resources : node[u] = "none"
  /\ worker.pc = "down" => group = "absent"

\* What the lister has, the API server has had: a resource that is gone stays so.
ListerInv(u) ==
  /\ Gone(u) => crd[u] = "gone"
  /\ lister[u] # "none" => crd[u] # "none"
  /\ u \in vm \/ kube[u] # "absent" \/ launch[u] # "none" => lister[u] # "none"

\* In any environment.
BaseInv == BatchInv /\ \A u \in Resources : ListerInv(u)

\* A node that is being launched is pending until it is done, unless deleteManagedNode,
\* told that the resource is gone, has taken it out of the group.
LaunchInv(u) ==
  /\ launch[u] = "start" => u \notin vm
  /\ launch[u] \in {"start", "booting", "joined"} => node[u] = "pending" \/ Gone(u)
  /\ launch[u] = "done" => node[u] = "running" \/ Gone(u)
  /\ launch[u] = "failed" => u \notin vm \/ Gone(u)
  /\ launch[u] \in {"joined", "done"} /\ u \in vm /\ ~Asked("remove") => kube[u] = "joined"

\* A VM belongs to a launch or to a node of the group.  Before the discovery its owner
\* reference tells; a resource that is gone is never looked at again.
VMInv(u) ==
  u \in vm =>
    \/ launch[u] \in {"booting", "joined", "done"}
    \/ node[u] = "running"
    \/ group # "ready" /\ kube[u] = "owned"
    \/ Gone(u)

\* A Kubernetes node has its VM, and its owner reference and the group agree.
OwnerInv(u) ==
  /\ kube[u] # "absent" => u \in vm
  /\ kube[u] = "owned" => launch[u] = "none" /\ (node[u] = "running" \/ group # "ready" \/ Gone(u))
  /\ node[u] = "running" /\ launch[u] = "none" /\ u \in vm /\ ~Asked("remove")
       => kube[u] = "owned" \/ Gone(u)

\* What deleteManagedNode is told, or is doing, is about a resource that is gone; handleNode
\* may also be at a node that somebody has removed, and that is not being launched.
HandlerInv(u) ==
  /\ u \in deletions \/ deleting["resource"] = u => Gone(u)
  /\ u \in nodeEvents \/ deleting["node"] = u =>
       \/ Gone(u)
       \/ /\ Asked("remove") /\ kube[u] = "absent"
          /\ node[u] = "running" /\ launch[u] = "none"
          /\ u \notin nodeEvents \/ deleting["node"] # u
  /\ deleting["scan"] = u => worker.pc = "scan" /\ (Gone(u) \/ u \notin vm)

\* Where nodes are removed, or may not be found, the process is not restarted once it has
\* made a node.
FreshInv ==
  (Asked("remove") \/ May("attach")) /\ (group # "ready" \/ worker.pc \in {"down", "scan"}) =>
    /\ vm = {} /\ nodeEvents = {}
    /\ \A u \in Resources : kube[u] = "absent" /\ node[u] = "none"
    /\ \A d \in Deleters : deleting[d] = NoResource

\* All that holds of a resource; where its VM could not be deleted only the status is known.
ResourceInv(u) ==
  /\ ListerInv(u)
  /\ u \notin undeleted => LaunchInv(u) /\ VMInv(u) /\ OwnerInv(u) /\ HandlerInv(u)

\* No second VM has been made, and none can be: startManagedNodes makes one only for a node
\* that addManagedNode has just reserved, when there was neither a VM nor a launch.
OneVMInv ==
  Orderly =>
    stray \subseteq undeleted /\ BatchInv /\ FreshInv /\ \A u \in Resources : ResourceInv(u)

-----------------------------------------------------------------------------
(* Why a status Created is true *)

\* The environments in which CreatedIsTrue holds.
Truthful == ~(Asked("remove") /\ (Asked("hasty") \/ Asked("lag") \/ May("update")))

\* The API server has the resource, or will have it.
Live(u) == crd[u] # "gone"

\* A launch for a resource that is not gone has its node, its VM and its Kubernetes node;
\* where its clean-up failed it may count as done without a node in the group.
LaunchTrue(u) ==
  /\ kube[u] # "absent" => u \in vm
  /\ Live(u) =>
       /\ launch[u] \in {"start", "booting", "joined"} => node[u] = "pending"
       /\ launch[u] = "failed" => node[u] = "none"
       /\ launch[u] \in {"booting", "joined", "done"} => u \in vm
       /\ launch[u] = "joined" \/ (launch[u] = "done" /\ node[u] # "none") => kube[u] = "joined"

\* What deletes the node of a resource that is not gone is told of a removed node, or is
\* the scan, at a node that Kubernetes does not have.
HandlerTrue(u) ==
  /\ u \in nodeEvents \/ Deleting(u) => crd[u] # "none"
  /\ u \in deletions \/ deleting["resource"] = u => Gone(u)
  /\ deleting["scan"] = u => worker.pc = "scan" /\ (Gone(u) \/ kube[u] = "absent")
  /\ u \in nodeEvents \/ deleting["node"] = u => ~Live(u) \/ Asked("remove")

\* Where nodes are removed the lister has the name of a node before Kubernetes has the node;
\* before the discovery it has the statuses the process was started with.
NameTrue(u) ==
  Asked("remove") =>
    /\ Live(u) /\ launch[u] # "none" => crd[u] = "Creation"
    /\ Live(u) /\ (launch[u] = "joined" \/ (launch[u] = "done" /\ node[u] # "none")) =>
         lister[u] = "Creation"
    /\ crd[u] = "Created" /\ node[u] # "none" => lister[u] \in {"Creation", "Created"}
    /\ crd[u] = "Created" /\ group # "ready" /\ Up => lister[u] = "Created"

\* A resource with status Created and a node in the group is in order, or handleNode is
\* about to be told, or at work.
StatusTrue(u) ==
  crd[u] = "Created" /\ launch[u] = "none" /\ node[u] # "none" =>
    \/ u \in vm /\ kube[u] = "owned"
    \/ Asked("remove") /\ kube[u] = "absent" /\ (u \in nodeEvents \/ deleting["node"] = u)

\* All that is true of a resource.
ResourceTrue(u) ==
  LaunchTrue(u) /\ HandlerTrue(u) /\ NameTrue(u) /\ StatusTrue(u)

\* startManagedNodes writes Created for a VM that is there and a node that it gives its
\* owner; whoever takes either away writes another status, or has handleNode told.
CreatedInv == Truthful => \A u \in Resources : ResourceTrue(u)

-----------------------------------------------------------------------------
(* Why the VM of a resource that is gone goes, too *)

\* The environments in which GoneInOrder holds.
InOrder ==
  /\ ~Asked("hasty") /\ ~Asked("restart") /\ ~Asked("crash")
  /\ ~(Asked("remove") /\ (Asked("lag") \/ May("update")))

\* The node of the resource was reported: its status has its last values.
Final(u) == crd[u] \in {"Created", "gone"}

\* The process only ever dies before it has made a node.
NewInv ==
  group # "ready" \/ worker.pc \in {"down", "scan"} =>
    /\ vm = {} /\ undeleted = {} /\ nodeEvents = {} /\ deletions = {}
    /\ \A d \in Deleters : deleting[d] = NoResource
    /\ \A u \in Resources : kube[u] = "absent" /\ node[u] = "none" /\ ~Final(u)

\* A resource whose node is being launched has not been reported.
LaunchOrder(u) ==
  /\ launch[u] # "none" => ~Final(u)
  /\ launch[u] \in {"start", "booting", "joined"} => node[u] = "pending"
  /\ launch[u] = "done" => node[u] = "running"
  /\ launch[u] = "start" \/ launch[u] = "failed" => node[u] # "running" /\ u \notin vm

\* A reported node stays in the group until somebody deletes it, and the lister does not ask
\* for it again.
StatusOrder(u) ==
  /\ crd[u] = "Created" => node[u] = "running"
  /\ ~Asked("remove") /\ Final(u) => node[u] = "running" \/ Gone(u)
  /\ Asked("remove") =>
       /\ launch[u] # "none" => crd[u] = "Creation"
       /\ launch[u] \in {"joined", "done"} => lister[u] = "Creation"
       /\ Final(u) => lister[u] \in {"Creation", "Created", "gone"}

\* The handlers are about resources whose node was reported.
HandlerOrder(u) ==
  /\ u \in deletions \/ deleting["resource"] = u => Gone(u)
  /\ deleting["scan"] # u
  /\ u \in nodeEvents => Final(u) /\ (Asked("remove") \/ Gone(u))
  /\ kube[u] = "owned" /\ Asked("remove") => Final(u)
  /\ deleting["node"] = u => Final(u) /\ Asked("remove")

\* A VM has a launch, a node in the group, or a handler that deletes it; one of a resource
\* that is gone a handler that deletes it or is about to be told.
VMOrder(u) ==
  u \in vm =>
    /\ launch[u] = "none" => node[u] = "running" \/ (u \notin ControlPlanes /\ Deleting(u))
    /\ Gone(u) /\ u \notin ControlPlanes => u \in deletions \/ Deleting(u)

\* All that is in order for a resource.
ResourceOrder(u) ==
  LaunchOrder(u) /\ StatusOrder(u) /\ HandlerOrder(u) /\ VMOrder(u)

\* Of two handlers at the same node one is refused by deleteVM and the other deletes the VM,
\* or fails.
GoneInv ==
  InOrder => NewInv /\ \A u \in Resources \ undeleted : ResourceOrder(u)
=============================================================================
