---------------------------- MODULE NodeGroupInv ----------------------------
(***************************************************************************)
(* The inductive invariants behind the safety properties of NodeGroup.      *)
(*                                                                          *)
(* CleanupInv, whatever is asked and whatever fails: why cleanup neither    *)
(* runs ahead of a launch nor is overtaken by one.                          *)
(*                                                                          *)
(* TurnInv, with the grpc front end: why the wait group is not reused while *)
(* somebody it let go has not returned.                                     *)
(*                                                                          *)
(* GroupInv: why the group keeps within MaxNodeSize, loses no VM, always    *)
(* finds a name, gives each node an index of its own and has its books      *)
(* right at rest, as long as nothing but a launch fails and nodes are added *)
(* and removed by size requests and DeleteNodes only.                       *)
(***************************************************************************)
EXTENDS NodeGroup

-----------------------------------------------------------------------------
(* Creations and cleanup *)

LaunchPhase == {"start", "creating", "booting", "joined"}

\* The goroutines of a node belong to a request that has such goroutines, those
\* that launch it to createNodes, which does not list it any more.
WorkInv ==
  \A c \in Callers, o \in Objects :
    /\ call[c].run[o] # "none" => call[c].pc \in {"launch", "destroy", "delete", "cleanup"}
    /\ call[c].run[o] \in LaunchPhase => call[c].pc = "launch"
    /\ call[c].pc = "launch" /\ call[c].run[o] # "none" => o \notin call[c].todo

\* A group that is being cleaned up is no longer Created.
StatusInv == \A c \in Callers : call[c].pc \in {"drainWG", "cleanup"} => status # "Created"

\* Once cleanup has waited, no VM is being launched.
NoLaunchInv ==
  status = "Deleted" \/ (\E d \in Callers : call[d].pc = "cleanup") =>
    \A c \in Callers, o \in Objects : call[c].run[o] \notin {"creating", "booting", "joined"}

\* A panic stops every goroutine.
DeadInv == crashed => \A c \in Callers : call[c].pc = "dead"

CleanupInv == DeadInv /\ WorkInv /\ WaitGroupBalanced /\ StatusInv /\ NoLaunchInv

-----------------------------------------------------------------------------
(* Creations one at a time *)

\* IncreaseSize of the grpc front end launches under the lock.
InTurn == FrontEnd = "grpc" /\ "managed" \notin Requests

HasTurn == {"pick", "reserve", "create", "launch", "wait"}

\* Whoever reserves or creates nodes holds the lock, and has it until everybody whom the
\* wait group let go, which is nobody but a cleanup, has returned.
TurnInv ==
  InTurn =>
    /\ \A c \in Callers : call[c].pc \in HasTurn => lock = c
    /\ \A c \in waiters \cup released : call[c].pc \in {"wait", "drainWG", "dead"}
    /\ released # {} =>
         /\ pendingNodesWG = {}
         /\ \A c \in Callers : call[c].pc \notin {"pick", "reserve", "create"}

-----------------------------------------------------------------------------
(* Reservations, creations and deletions *)

\* The conditions under which the rest holds.
Orderly ==
  /\ Requests \cap {"managed", "redelete"} = {}
  /\ Requests \cap {"decrease", "overlap"} # {} => FrontEnd = "grpc"
  /\ Faults \subseteq {"launch"}

Reserving(c) == call[c].pc \in {"pick", "reserve"}

\* The names that are taken.
Claimed == Tracked \cup vms

\* The nodes c has reserved, or is creating.
Live(c) ==
  {o \in Objects :
     \/ call[c].pc \in {"pick", "reserve", "create", "launch"} /\ o \in call[c].todo
     \/ call[c].pc = "launch" /\ call[c].run[o] # "none"}

\* The nodes c is deleting, and the names of those and of the ones that follow.
Dying(c) == {o \in Objects : call[c].pc = "delete" /\ call[c].run[o] # "none"}
Doomed(c) == {node[o].name : o \in Dying(c)} \cup call[c].victims

\* cleanup has not begun to delete the nodes.
Open == ~crashed /\ status # "Deleted" /\ \A c \in Callers : call[c].pc # "cleanup"

\* What a request is about: nobody destroys nodes, who deletes them does it one by
\* one, and who reserves nodes holds the lock and asks for autoscaled ones.
CallOK(c) ==
  /\ call[c].pc # "destroy" /\ call[c].req # "managed"
  /\ call[c].req = "decrease" => FrontEnd = "grpc"
  /\ Reserving(c) => lock = c /\ call[c].need >= 1
  /\ call[c].pc = "resize" => call[c].todo = {}
  /\ Reserving(c) \/ call[c].pc = "resize" =>
       call[c].req \in {"increase", "decrease"} /\ call[c].name[1] = "autoscaled"
  /\ call[c].victims # {} => call[c].pc = "delete"
  /\ \A o, p \in Dying(c) : o = p

CallInv == \A c \in Callers : CallOK(c)

\* The names that are taken, with those still to be reserved, are few enough.
SizeInv ==
  /\ IsFiniteSet(vms)
  /\ Cardinality(Claimed) <= MaxNodeSize
  /\ \A c \in Callers : Reserving(c) => Cardinality(Claimed) + call[c].need <= MaxNodeSize

\* A name that is picked and not yet reserved is free.
FreshInv == \A c \in Callers : call[c].pc = "reserve" => call[c].name \notin Claimed

\* A node object in use is not allocated again.
AllocInv ==
  /\ \A n \in DOMAIN nodes : node[nodes[n]].state # "Unallocated"
  /\ \A n \in DOMAIN pendingNodes : node[pendingNodes[n]].state # "Unallocated"
  /\ \A c \in Callers, o \in Objects :
       o \in call[c].todo \/ call[c].run[o] # "none" => node[o].state # "Unallocated"

(* What holds until cleanup deletes the nodes *)

\* A node has the name under which the group knows it, pending or registered, and is an
\* autoscaled one.
NameInv ==
  /\ DOMAIN nodes \cap DOMAIN pendingNodes = {}
  /\ \A n \in DOMAIN nodes : node[nodes[n]].name = n
  /\ \A n \in DOMAIN pendingNodes : node[pendingNodes[n]].name = n
  /\ \A n \in Tracked : n[1] = "autoscaled"

\* A node in creation is pending, and is the business of one request.
LiveInv ==
  \A c \in Callers : \A o \in Live(c) :
    /\ node[o].name \in DOMAIN pendingNodes /\ pendingNodes[node[o].name] = o
    /\ \A d \in Callers : o \in Live(d) => c = d
    /\ call[c].run[o] \in {"creating", "booting"} => node[o].state = "Creating"
    /\ call[c].run[o] = "joined" => node[o].state \in {"Running", "Stopped"}
    /\ call[c].run[o] \in {"booting", "joined"} => node[o].name \in vms
    /\ call[c].run[o] = "refused" => node[o].name \notin vms
    /\ call[c].run[o] # "racing"

\* A node to be deleted is registered, and no other request touches it.
DoomedInv ==
  \A c \in Callers :
    /\ Doomed(c) \subseteq DOMAIN nodes
    /\ \A d \in Callers : c # d => Doomed(c) \cap Doomed(d) = {}
    /\ \A o \in Dying(c) :
         /\ nodes[node[o].name] = o
         /\ node[o].name \notin call[c].victims
         /\ call[c].run[o] \notin {"refused", "racing"}

\* A registered node that nobody deletes can be deleted.
RunningInv ==
  \A n \in DOMAIN nodes :
    \/ node[nodes[n]].state \in {"Running", "Stopped"}
    \/ \E c \in Callers : nodes[n] \in Dying(c)

\* Every VM is the one of a node of the group, and every registered node has its VM, and
\* is counted.
VMInv ==
  /\ DOMAIN nodes \subseteq vms /\ vms \subseteq Tracked
  /\ numOf.provisionned = Cardinality(DOMAIN nodes)

\* A size request asks for no more than MaxNodeSize.  With externalgrpc it is answered once its
\* nodes are reserved, and the next one comes after that: the group does not grow in between.
StaleInv ==
  \A c \in Callers : call[c].pc = "resize" =>
    /\ call[c].size <= MaxNodeSize
    /\ FrontEnd = "externalgrpc" =>
         /\ call[c].size > targetSize
         /\ \A d \in Callers : call[d].pc = "resize" \/ Reserving(d) => d = c

\* The lock is held by somebody who will give it back.
LockInv == lock # NoCaller => call[lock].pc \in HasTurn

OpenInv ==
  NameInv /\ LiveInv /\ DoomedInv /\ RunningInv /\ VMInv /\ StaleInv /\ LockInv

(* What holds while the group is not being cleaned up at all *)

\* The index is taken: findNextNodeIndex passes it over.
Taken(i) == i \in DOMAIN runningNodes /\ runningNodes[i] >= Creating

\* An index is taken iff a node has it, and by one only; a pending node is in creation.
IndexInv ==
  /\ \A o \in AllNodes : Taken(node[o].index)
  /\ \A i \in DOMAIN runningNodes : Taken(i) => \E o \in AllNodes : node[o].index = i
  /\ \A o, p \in AllNodes : node[o].index = node[p].index => o = p
  /\ \A c \in Callers : call[c].pc = "reserve" => ~Taken(call[c].index)
  /\ \A n \in DOMAIN pendingNodes : \E c \in Callers : pendingNodes[n] \in Live(c)

(* What holds once cleanup deletes the nodes *)

\* Cleanups come one at a time.
CleanerInv ==
  \A c \in Callers : call[c].pc \in {"drainWG", "cleanup"} =>
    /\ status = "Deleting"
    /\ \A d \in Callers : call[d].pc \in {"drainWG", "cleanup"} => d = c

\* deleteVM is at work on a VM of that name, and will delete it.
Ending(n) ==
  \E c \in Callers, o \in Objects :
    call[c].run[o] \in {"checked", "deleting", "stopped"} /\ node[o].name = n

\* While cleanup has not begun: a node is marked Deleting only while deleteVM is at work on it.
MarkInv ==
  \A o \in AllNodes : node[o].state = "Deleting" /\ node[o].name \in vms => Ending(node[o].name)

\* cleanup deletes the nodes, or has done so.
Closing == ~crashed /\ (status = "Deleted" \/ \E c \in Callers : call[c].pc = "cleanup")

\* cleanup has the node still to delete.
ToClean(o) == \E c \in Callers : call[c].pc = "cleanup" /\ o \in call[c].todo

\* Each VM that is left is on its way out, or cleanup has come upon it not yet; and where it
\* will be refused the deletion somebody else is at it.
ClosedInv ==
  /\ \A n \in vms : n[1] = "autoscaled" =>
       Ending(n) \/ \E o \in Objects : ToClean(o) /\ node[o].name = n
  /\ \A o \in Objects :
       ToClean(o) /\ node[o].state = "Deleting" /\ node[o].name \in vms => Ending(node[o].name)

\* If the requests are orderly (size requests and deletions one at a time per node,
\* nothing fails but launches), the bookkeeping of the reservations, the creations
\* and the deletions under way stays coherent.
GroupInv ==
  Orderly =>
    /\ CallInv /\ SizeInv /\ FreshInv /\ AllocInv
    /\ Open => OpenInv
    /\ Open /\ status = "Created" => IndexInv
    /\ NoVMLost /\ DistinctIndexes
    /\ CleanerInv
    /\ Open => MarkInv
    /\ Closing => ClosedInv
=============================================================================
