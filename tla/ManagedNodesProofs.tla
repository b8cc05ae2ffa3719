------------------------ MODULE ManagedNodesProofs ------------------------
(***************************************************************************)
(* Proofs about the ManagedNode controller, for any number of resources,    *)
(* of restarts, and any set of environments.                                *)
(***************************************************************************)
EXTENDS ManagedNodesInv, TLAPS

\* The process starts with nothing, and keeps the types.
LEMMA InitType == Init => TypeOK
BY ManagedNodesAssumption DEF Init, TypeOK, Down, Code

\* An update of the status writes a code.
LEMMA UpdateType ==
  ASSUME TypeOK, NEW u \in Resources, NEW code \in Code, UpdateStatus(u, code)
  PROVE  crd' \in [Resources -> Code \cup {"none", "gone"}]
BY DEF TypeOK, UpdateStatus

\* A report of handleManagedNode writes a code, or nothing.
LEMMA ReportType ==
  ASSUME TypeOK, NEW u \in Resources, NEW code \in Code, Report(u, code)
  PROVE  crd' \in [Resources -> Code \cup {"none", "gone"}]
BY UpdateType DEF TypeOK, Report

\* deleteNode begins for a resource.
LEMMA BeginsType ==
  ASSUME TypeOK, NEW d \in Deleters, NEW u \in Resources, Begins(d, u)
  PROVE  deleting' \in [Deleters -> Resources \cup {NoResource}]
BY DEF TypeOK, Begins

\* handleNode is told of resources.
LEMMA NodeEventType ==
  ASSUME TypeOK, NEW u \in Resources, NodeEvent(u)
  PROVE  nodeEvents' \subseteq Resources
BY DEF TypeOK, NodeEvent

\* The steps of the user keep the types.
LEMMA UserType ==
  ASSUME TypeOK, NEW u \in Resources, User(u)
  PROVE  TypeOK'
<1>1. CASE CreateResource(u)
  BY <1>1 DEF CreateResource, TypeOK, Code
<1>2. CASE DeleteResource(u)
  BY <1>2 DEF DeleteResource, TypeOK
<1>3. CASE RemoveNode(u)
  BY <1>3, NodeEventType DEF RemoveNode, TypeOK
<1> QED
  BY <1>1, <1>2, <1>3 DEF User

\* The steps of the informers keep the types.
LEMMA InformerType ==
  ASSUME TypeOK, NEW u \in Resources, Informer(u) \/ Resync(u)
  PROVE  TypeOK'
<1> USE DEF cluster
<1>1. CASE Watch(u)
  BY <1>1 DEF Watch, TypeOK
<1>2. CASE HandleDeletion(u)
  BY <1>2, BeginsType DEF HandleDeletion, TypeOK, Deleters
<1>3. CASE HandleNodeIgnored(u)
  BY <1>3 DEF HandleNodeIgnored, TypeOK
<1>4. CASE HandleNodeGone(u)
  <2>1. crd' \in [Resources -> Code \cup {"none", "gone"}]
    BY <1>4 DEF HandleNodeGone, TypeOK
  <2> QED
    BY <1>4, <2>1, BeginsType DEF HandleNodeGone, TypeOK, Deleters
<1>5. CASE Resync(u)
  BY <1>5 DEF Resync, TypeOK
<1> QED
  BY <1>1, <1>2, <1>3, <1>4, <1>5 DEF Informer

\* The end of deleteNode keeps the types.
LEMMA DeleteNodeType ==
  ASSUME TypeOK, NEW d \in Deleters, DeleteNode(d)
  PROVE  TypeOK'
<1> DEFINE u == deleting[d]
<1>1. u \in Resources
  BY DEF DeleteNode, TypeOK
<1>2. crd' \in [Resources -> Code \cup {"none", "gone"}]
  BY <1>1 DEF DeleteNode, TypeOK
<1>3. /\ node' \in [Resources -> {"none", "pending", "running"}]
      /\ vm' \subseteq Resources /\ undeleted' \subseteq Resources
      /\ kube' \in [Resources -> {"absent", "joined", "owned"}]
  BY <1>1 DEF DeleteNode, DeleteVM, TypeOK
<1>4. nodeEvents' \subseteq Resources
  BY <1>1, NodeEventType DEF DeleteNode
<1> QED
  BY <1>2, <1>3, <1>4 DEF DeleteNode, TypeOK

\* findManagedNodeDeleted and handleManagedNode keep the types.
LEMMA HandleType ==
  ASSUME TypeOK, NEW u \in Resources,
         HandleManagedNode(u) \/ Scan(u)
  PROVE  TypeOK'
<1> USE DEF cluster
<1>1. CASE NothingToHandle(u)
  BY <1>1 DEF NothingToHandle, Take, TypeOK
<1>2. CASE GroupNotFound(u)
  <2>1. crd' \in [Resources -> Code \cup {"none", "gone"}]
    BY <1>2, ReportType DEF GroupNotFound, Code
  <2> QED
    BY <1>2, <2>1 DEF GroupNotFound, TypeOK
<1>3. CASE HandleWithoutNode(u)
  <2>1. crd' \in [Resources -> Code \cup {"none", "gone"}]
    BY <1>3, ReportType DEF HandleWithoutNode, Code
  <2> QED
    BY <1>3, <2>1 DEF HandleWithoutNode, Take, TypeOK
<1>4. CASE AddManagedNode(u)
  <2>1. crd' \in [Resources -> Code \cup {"none", "gone"}]
    BY <1>4, ReportType DEF AddManagedNode, Code
  <2> QED
    BY <1>4, <2>1 DEF AddManagedNode, Take, TypeOK
<1>5. CASE Scan(u)
  BY <1>5, BeginsType DEF Scan, TypeOK, Deleters
<1> QED
  BY <1>1, <1>2, <1>3, <1>4, <1>5 DEF HandleManagedNode

\* createNodes and the report of startManagedNodes keep the types.
LEMMA LaunchType ==
  ASSUME TypeOK, NEW u \in Resources, Launch(u) \/ StartManagedNodes(u)
  PROVE  TypeOK'
<1> USE DEF cluster
<1>1. CASE InstanceCreate(u)
  BY <1>1 DEF InstanceCreate, TypeOK
<1>2. CASE Joins(u)
  BY <1>2 DEF Joins, TypeOK
<1>3. CASE LaunchSucceeds(u)
  BY <1>3 DEF LaunchSucceeds, TypeOK
<1>4. CASE LaunchFails(u)
  BY <1>4 DEF LaunchFails, DeleteVM, TypeOK
<1>5. ASSUME Reported(u), crd' \in [Resources -> Code \cup {"none", "gone"}],
             kube' \in [Resources -> {"absent", "joined", "owned"}]
      PROVE  TypeOK'
  BY <1>5 DEF Reported, TypeOK
<1>6. CASE ReportCreated(u)
  <2>1. crd' \in [Resources -> Code \cup {"none", "gone"}]
    BY <1>6, UpdateType DEF ReportCreated, Code
  <2>2. kube' \in [Resources -> {"absent", "joined", "owned"}]
    BY <1>6 DEF ReportCreated, TypeOK
  <2> QED
    BY <1>5, <1>6, <2>1, <2>2 DEF ReportCreated
<1>7. CASE ReportFailed(u)
  <2>1. crd' \in [Resources -> Code \cup {"none", "gone"}]
    BY <1>7, UpdateType DEF ReportFailed, Code
  <2> QED
    BY <1>5, <1>7, <2>1 DEF ReportFailed, TypeOK
<1>8. CASE ReportNothing(u)
  BY <1>5, <1>8 DEF ReportNothing, TypeOK
<1> QED
  BY <1>1, <1>2, <1>3, <1>4, <1>6, <1>7, <1>8 DEF Launch, StartManagedNodes

\* The end of the process keeps the types.
LEMMA DiesType ==
  ASSUME TypeOK, Dies
  PROVE  TypeOK'
BY ManagedNodesAssumption DEF Dies, TypeOK, Down, cluster

\* StartServer and doAutoProvision keep the types.
LEMMA ServerType ==
  ASSUME TypeOK, Server
  PROVE  TypeOK'
<1> USE DEF cluster
<1>1. CASE Start
  <2>1. worker' \in [pc : {"down", "scan", "items", "launch", "report"},
                    todo : SUBSET Resources, batch : SUBSET Resources]
    BY <1>1 DEF Start, Down
  <2>2. Present(crd) \subseteq Resources
    BY DEF Present
  <2> QED
    BY <1>1, <2>1, <2>2 DEF Start, TypeOK
<1>2. CASE Register
  BY <1>2 DEF Register, TypeOK
<1>3. CASE Discover
  BY <1>3 DEF Discover, TypeOK
<1> QED
  BY <1>1, <1>2, <1>3 DEF Server

\* Whatever the user, the informers and the process do, the variables keep their types.
THEOREM TypeCorrect == Spec => []TypeOK
<1>1. TypeOK /\ [Next]_vars => TypeOK'
  <2>1. ASSUME TypeOK, UNCHANGED vars PROVE TypeOK'
    BY <2>1 DEF TypeOK, vars
  <2>2. ASSUME TypeOK, NEW u \in Resources, AddManagedNodePanics(u) PROVE TypeOK'
    BY <2>2, DiesType DEF AddManagedNodePanics
  <2>3. ASSUME TypeOK, Stop PROVE TypeOK'
    BY <2>3, DiesType DEF Stop
  <2>4. ASSUME TypeOK, Worker PROVE TypeOK'
    BY <2>4 DEF Worker, ScanEnds, StartBatch, BatchEnds, TypeOK, cluster
  <2> QED
    BY <2>1, <2>2, <2>3, <2>4, UserType, InformerType, DeleteNodeType, HandleType, LaunchType,
       ServerType DEF Next
<1> QED
  BY InitType, <1>1, PTL DEF Spec

-----------------------------------------------------------------------------
(* OneVMInv is inductive *)

\* A resource that is gone does not come back, and one that was made does not vanish.
StatusMoves ==
  \A v \in Resources :
    (crd[v] = "gone" => crd'[v] = "gone") /\ (crd[v] # "none" => crd'[v] # "none")

\* A status update moves statuses only so.
LEMMA UpdateMoves ==
  ASSUME TypeOK, NEW u \in Resources, NEW code \in Code,
         UpdateStatus(u, code) \/ Report(u, code)
  PROVE  StatusMoves
BY DEF TypeOK, StatusMoves, UpdateStatus, Report, Code

\* A report takes the resource out of the batch.
LEMMA ReportedEffect ==
  ASSUME TypeOK, NEW u \in Resources, Reported(u)
  PROVE  /\ UNCHANGED <<env, lister, deletions, nodeEvents, deleting, group, node, vm, stray,
                       undeleted>>
         /\ worker.pc = "report" /\ u \in worker.batch
         /\ worker'.batch = worker.batch \ {u}
         /\ worker'.pc = "report" \/ (worker'.pc = "items" /\ worker.batch = {u})
         /\ launch' = [launch EXCEPT ![u] = "none"]
<1> USE DEF Reported
<1>1. worker'.batch = worker.batch \ {u}
  BY DEF TypeOK
<1>2. worker'.pc = IF worker.batch = {u} THEN "items" ELSE "report"
  BY DEF TypeOK
<1> QED
  BY <1>1, <1>2

\* A step that changes nothing but statuses, the queue, and what is to be told, keeps the
\* invariant.
LEMMA StatusKeeps ==
  ASSUME OneVMInv, StatusMoves, nodeEvents' \subseteq nodeEvents,
         UNCHANGED <<env, lister, deletions, deleting, worker, group, node, launch, vm, stray,
                     undeleted, kube>>
  PROVE  OneVMInv'
<1> SUFFICES ASSUME Orderly' PROVE OneVMInv'
  BY DEF OneVMInv
<1>1. Orderly
  BY DEF Orderly, Asked, May
<1>2. BatchInv' /\ FreshInv'
  BY <1>1 DEF OneVMInv, BatchInv, FreshInv, May, Asked
<1>3. ASSUME NEW v \in Resources PROVE ResourceInv(v)'
  <2>1. ListerInv(v)'
    BY <1>1 DEF OneVMInv, ResourceInv, ListerInv, Gone, StatusMoves
  <2>2. v \notin undeleted' => LaunchInv(v)' /\ VMInv(v)' /\ OwnerInv(v)' /\ HandlerInv(v)'
    BY <1>1 DEF OneVMInv, ResourceInv, LaunchInv, VMInv, OwnerInv, HandlerInv, Gone, Asked
  <2> QED
    BY <2>1, <2>2 DEF ResourceInv
<1> QED
  BY <1>1, <1>2, <1>3 DEF OneVMInv

\* Only the launch of a resource that is gone meets a handler, or the worker, at its node.
LEMMA LaunchedDeleting ==
  ASSUME OneVMInv, Orderly, NEW u \in Resources, u \notin undeleted, launch[u] # "none",
         Deleting(u)
  PROVE  Gone(u)
BY DEF OneVMInv, ResourceInv, HandlerInv, BatchInv, Deleting, Deleters

\* What the invariant says of the next state, under the environments it is about.
LEMMA Assemble ==
  ASSUME OneVMInv, UNCHANGED env,
         Orderly => stray' \subseteq undeleted' /\ BatchInv' /\ FreshInv',
         \A v \in Resources : Orderly => ResourceInv(v)'
  PROVE  OneVMInv'
BY DEF OneVMInv, Orderly, Asked, May

\* The user deletes resources; a Kubernetes node is removed only if nothing launches it.
LEMMA UserKeeps ==
  ASSUME TypeOK, OneVMInv, NEW u \in Resources, User(u)
  PROVE  OneVMInv'
<1>1. CASE CreateResource(u)
  <2>1. StatusMoves
    BY <1>1 DEF CreateResource, StatusMoves, TypeOK
  <2> QED
    BY <1>1, <2>1, StatusKeeps DEF CreateResource
<1>2. CASE DeleteResource(u)
  <2>1. StatusMoves
    BY <1>2 DEF DeleteResource, StatusMoves, TypeOK
  <2> QED
    BY <1>2, <2>1, StatusKeeps DEF DeleteResource
<1>3. CASE RemoveNode(u)
  <2> USE <1>3 DEF RemoveNode
  <2>1. ASSUME Orderly PROVE stray' \subseteq undeleted' /\ BatchInv' /\ FreshInv'
    BY <2>1 DEF OneVMInv, BatchInv, FreshInv, May, NodeEvent, Asked, TypeOK
  <2>2. ASSUME Orderly, NEW v \in Resources PROVE ResourceInv(v)'
    <3>1. ResourceInv(u) /\ ResourceInv(v)
      BY <2>2 DEF OneVMInv
    <3>2. ListerInv(v)'
      BY <3>1 DEF ResourceInv, ListerInv, Gone, TypeOK
    <3>3. v \notin undeleted' => LaunchInv(v)' /\ VMInv(v)' /\ OwnerInv(v)'
      BY <2>2, <3>1
         DEF ResourceInv, LaunchInv, VMInv, OwnerInv, FreshInv, May, OneVMInv, Gone, Asked, TypeOK
    <3>4. v \notin undeleted' => HandlerInv(v)'
      BY <3>1, <2>2
         DEF ResourceInv, HandlerInv, VMInv, OwnerInv, FreshInv, May, OneVMInv, NodeEvent, Gone,
             Asked, TypeOK
    <3> QED
      BY <3>2, <3>3, <3>4 DEF ResourceInv
  <2> QED
    BY <2>1, <2>2, Assemble
<1> QED
  BY <1>1, <1>2, <1>3 DEF User

\* The watch brings what the API server had; the handlers begin with resources that are gone,
\* or with nodes that have been removed.
LEMMA InformerKeeps ==
  ASSUME TypeOK, OneVMInv, NEW u \in Resources, Informer(u) \/ Resync(u)
  PROVE  OneVMInv'
<1> USE DEF cluster
<1>1. CASE Watch(u)
  <2> USE <1>1 DEF Watch
  <2>1. ASSUME Orderly PROVE stray' \subseteq undeleted' /\ BatchInv' /\ FreshInv'
    BY <2>1 DEF OneVMInv, BatchInv, FreshInv, May, Asked
  <2>2. ASSUME Orderly, NEW v \in Resources PROVE ResourceInv(v)'
    <3>1. ResourceInv(v) /\ (Gone(v) => Gone(v)')
      BY <2>2 DEF OneVMInv, ResourceInv, ListerInv, Gone, TypeOK
    <3>2. ListerInv(v)'
      BY <3>1 DEF ResourceInv, ListerInv, Gone, TypeOK
    <3>3. v \notin undeleted' => LaunchInv(v)' /\ VMInv(v)' /\ OwnerInv(v)'
      BY <3>1 DEF ResourceInv, LaunchInv, VMInv, OwnerInv, Asked
    <3>4. v \notin undeleted' => HandlerInv(v)'
      BY <3>1 DEF ResourceInv, HandlerInv, ListerInv, Gone, Asked, TypeOK, Code
    <3> QED
      BY <3>2, <3>3, <3>4 DEF ResourceInv
  <2> QED
    BY <2>1, <2>2, Assemble
<1>2. CASE HandleDeletion(u)
  <2> USE <1>2 DEF HandleDeletion, Begins
  <2>1. ASSUME Orderly PROVE stray' \subseteq undeleted' /\ BatchInv' /\ FreshInv'
    BY <2>1 DEF OneVMInv, BatchInv, FreshInv, May, Asked
  <2>2. ASSUME Orderly, NEW v \in Resources PROVE ResourceInv(v)'
    <3>1. ResourceInv(u) /\ ResourceInv(v)
      BY <2>2 DEF OneVMInv
    <3>2. /\ ListerInv(v)'
          /\ v \notin undeleted' => LaunchInv(v)' /\ VMInv(v)' /\ OwnerInv(v)'
      BY <3>1 DEF ResourceInv, ListerInv, LaunchInv, VMInv, OwnerInv, Gone, Asked
    <3>3. v \notin undeleted' => HandlerInv(v)'
      BY <3>1 DEF ResourceInv, HandlerInv, Gone, Asked, TypeOK, Deleters
    <3> QED
      BY <3>2, <3>3 DEF ResourceInv
  <2> QED
    BY <2>1, <2>2, Assemble
<1>3. CASE HandleNodeIgnored(u)
  <2>1. StatusMoves
    BY <1>3 DEF HandleNodeIgnored, StatusMoves
  <2> QED
    BY <1>3, <2>1, StatusKeeps DEF HandleNodeIgnored
<1>4. CASE HandleNodeGone(u)
  <2> USE <1>4 DEF HandleNodeGone, Begins
  <2>1. ASSUME Orderly PROVE stray' \subseteq undeleted' /\ BatchInv' /\ FreshInv'
    BY <2>1 DEF OneVMInv, BatchInv, FreshInv, May, Asked
  <2>2. ASSUME Orderly, NEW v \in Resources PROVE ResourceInv(v)'
    <3>1. ResourceInv(u) /\ ResourceInv(v)
      BY <2>2 DEF OneVMInv
    <3>2. ListerInv(v)'
      BY <3>1 DEF ResourceInv, ListerInv, Gone, TypeOK
    <3>3. v \notin undeleted' => LaunchInv(v)' /\ VMInv(v)' /\ OwnerInv(v)'
      BY <3>1 DEF ResourceInv, LaunchInv, VMInv, OwnerInv, Gone, Asked
    <3>4. v \notin undeleted' => HandlerInv(v)'
      BY <3>1 DEF ResourceInv, HandlerInv, Gone, Asked, TypeOK, Deleters
    <3> QED
      BY <3>2, <3>3, <3>4 DEF ResourceInv
  <2> QED
    BY <2>1, <2>2, Assemble
<1>5. CASE Resync(u)
  <2>1. StatusMoves
    BY <1>5 DEF Resync, StatusMoves
  <2> QED
    BY <1>5, <2>1, StatusKeeps DEF Resync
<1> QED
  BY <1>1, <1>2, <1>3, <1>4, <1>5 DEF Informer

\* deleteVM is refused only where another one is at work for a resource that is gone, or
\* for one that has no VM: the group may forget the node.
LEMMA DeleteNodeKeeps ==
  ASSUME TypeOK, OneVMInv, NEW d \in Deleters, DeleteNode(d)
  PROVE  OneVMInv'
<1> DEFINE u == deleting[d]
<1> USE DEF DeleteNode, DeleteVM
<1>1. u \in Resources
  BY DEF TypeOK
<1>2. ASSUME Orderly PROVE stray' \subseteq undeleted' /\ BatchInv'
  BY <1>2 DEF OneVMInv, BatchInv, TypeOK
<1>3. ASSUME Orderly PROVE FreshInv'
  BY <1>1, <1>3 DEF OneVMInv, FreshInv, May, Asked
<1>4. ASSUME Orderly, NEW v \in Resources PROVE ResourceInv(v)'
  <2>1. ResourceInv(u) /\ ResourceInv(v)
    BY <1>1, <1>4 DEF OneVMInv
  <2>2. u \in undeleted \/ Gone(u) \/ launch[u] = "none"
    BY <1>1, <1>4, LaunchedDeleting DEF Deleting
  <2>3. ListerInv(v)'
    BY <1>1, <2>1 DEF ResourceInv, ListerInv, Gone, TypeOK
  <2>4. v \notin undeleted' => LaunchInv(v)'
    BY <1>1, <2>1, <2>2 DEF ResourceInv, LaunchInv, Gone, Asked, TypeOK
  <2>5. v \notin undeleted' => VMInv(v)' /\ OwnerInv(v)'
    BY <1>1, <1>4, <2>1, <2>2
       DEF ResourceInv, VMInv, OwnerInv, HandlerInv, FreshInv, May, OneVMInv, Gone, Asked, TypeOK,
           Deleters
  <2>6. v \notin undeleted' => HandlerInv(v)'
    <3>1. kube'[u] # kube[u] /\ kube[u] = "owned" => u \in undeleted \/ Gone(u)
      BY <1>1, <2>1 DEF ResourceInv, HandlerInv, Deleters
    <3>2. CASE v \in undeleted' \/ Gone(v)
      <4>1. \A e \in Deleters : deleting'[e] = v => deleting[e] = v
        BY ManagedNodesAssumption DEF TypeOK
      <4>2. Gone(v)' <=> Gone(v)
        BY DEF Gone
      <4>3. v \notin undeleted' => v \notin undeleted
        BY <1>1
      <4> QED
        BY <2>1, <3>2, <4>1, <4>2, <4>3 DEF ResourceInv, HandlerInv, Deleters
    <3>3. CASE v \notin undeleted' /\ ~Gone(v)
      <4>1. /\ v \notin deletions /\ deleting["resource"] # v
            /\ deleting["scan"] = v => v \notin vm
        BY <2>1, <3>3 DEF ResourceInv, HandlerInv
      <4>2. v \in nodeEvents' => v \in nodeEvents
        BY <1>1, <3>1, <3>3 DEF NodeEvent, Gone
      <4>3. v \in nodeEvents => v # u
        BY <1>4, <2>1, <3>3, <4>1 DEF ResourceInv, HandlerInv, FreshInv, May, OneVMInv, Deleters
      <4>4. deleting'["node"] = v => v # u
        BY <1>1, <1>4, <2>1, <3>3, <4>1, ManagedNodesAssumption
           DEF ResourceInv, HandlerInv, FreshInv, May, OneVMInv, Deleters, TypeOK
      <4>5. \A e \in Deleters : deleting'[e] = v => deleting[e] = v
        BY ManagedNodesAssumption DEF TypeOK
      <4>6. v # u => node'[v] = node[v] /\ kube'[v] = kube[v]
        BY DEF TypeOK
      <4> QED
        BY <2>1, <3>3, <4>1, <4>2, <4>3, <4>4, <4>5, <4>6
           DEF ResourceInv, HandlerInv, Gone, Asked, Deleters
    <3> QED
      BY <3>2, <3>3
  <2> QED
    BY <2>3, <2>4, <2>5, <2>6 DEF ResourceInv
<1> QED
  BY <1>2, <1>3, <1>4, Assemble

\* findManagedNodeDeleted begins only with a resource that is gone, or that has no VM.
LEMMA ScanKeeps ==
  ASSUME TypeOK, OneVMInv, NEW u \in Resources, Scan(u)
  PROVE  OneVMInv'
<1> USE DEF Scan, Begins, cluster
<1>1. ASSUME Orderly PROVE stray' \subseteq undeleted' /\ BatchInv'
  BY <1>1 DEF OneVMInv, BatchInv, TypeOK
<1>2. ASSUME Orderly PROVE FreshInv'
  BY <1>2 DEF OneVMInv, BatchInv, FreshInv, May, Asked, TypeOK
<1>3. ASSUME Orderly, NEW v \in Resources PROVE ResourceInv(v)'
  <2>1. ResourceInv(u) /\ ResourceInv(v)
    BY <1>3 DEF OneVMInv
  <2>2. /\ ListerInv(v)'
        /\ v \notin undeleted' => LaunchInv(v)' /\ VMInv(v)' /\ OwnerInv(v)'
    BY <2>1 DEF ResourceInv, ListerInv, LaunchInv, VMInv, OwnerInv, Gone, Asked
  <2>3. deleting' # deleting => u \in undeleted \/ Gone(u) \/ u \notin vm
    BY <1>3, <2>1
       DEF ResourceInv, ListerInv, VMInv, OwnerInv, BatchInv, FreshInv, May, OneVMInv, Present, Gone,
           TypeOK
  <2>4. v \notin undeleted' => HandlerInv(v)'
    BY <2>1, <2>3 DEF ResourceInv, HandlerInv, Gone, Asked, Deleters, TypeOK
  <2> QED
    BY <2>2, <2>4 DEF ResourceInv
<1> QED
  BY <1>1, <1>2, <1>3, Assemble

\* handleManagedNode adds a node only where there is no launch and no VM.
LEMMA HandleKeeps ==
  ASSUME TypeOK, OneVMInv, NEW u \in Resources, HandleManagedNode(u)
  PROVE  OneVMInv'
<1>1. CASE NothingToHandle(u)
  <2>1. StatusMoves
    BY <1>1 DEF NothingToHandle, cluster, StatusMoves
  <2> QED
    BY <1>1, <2>1, StatusKeeps DEF NothingToHandle, cluster
<1>2. CASE GroupNotFound(u)
  <2>1. StatusMoves
    BY <1>2, UpdateMoves DEF GroupNotFound, Code
  <2> QED
    BY <1>2, <2>1, StatusKeeps DEF GroupNotFound
<1>3. CASE HandleWithoutNode(u)
  <2>1. StatusMoves
    BY <1>3, UpdateMoves DEF HandleWithoutNode, Code
  <2> QED
    BY <1>3, <2>1, StatusKeeps DEF HandleWithoutNode
<1>4. CASE AddManagedNode(u)
  <2> USE <1>4 DEF AddManagedNode, Take, ToCreate
  <2>1. StatusMoves
    BY UpdateMoves DEF Code
  <2>2. ASSUME Orderly PROVE stray' \subseteq undeleted' /\ BatchInv' /\ FreshInv'
    BY <2>2 DEF OneVMInv, BatchInv, FreshInv, May, Asked, TypeOK
  <2>3. ASSUME Orderly, NEW v \in Resources PROVE ResourceInv(v)'
    <3>1. ResourceInv(u) /\ ResourceInv(v) /\ BatchInv
      BY <2>3 DEF OneVMInv
    <3>2. /\ ~Gone(u) /\ lister[u] # "none"
          /\ u \notin undeleted => launch[u] = "none" /\ u \notin vm
      BY <3>1 DEF ResourceInv, LaunchInv, VMInv, BatchInv, Gone
    <3>3. ListerInv(v)'
      BY <2>1, <3>1, <3>2 DEF ResourceInv, ListerInv, Gone, StatusMoves, TypeOK
    <3>4. v \notin undeleted' => LaunchInv(v)' /\ VMInv(v)' /\ OwnerInv(v)'
      BY <3>1, <3>2 DEF ResourceInv, LaunchInv, VMInv, OwnerInv, Gone, Asked, TypeOK
    <3>5. v \notin undeleted' => HandlerInv(v)'
      BY <3>1, <3>2 DEF ResourceInv, HandlerInv, Gone, Asked, TypeOK
    <3> QED
      BY <3>3, <3>4, <3>5 DEF ResourceInv
  <2> QED
    BY <2>2, <2>3, Assemble
<1> QED
  BY <1>1, <1>2, <1>3, <1>4 DEF HandleManagedNode

\* The worker goes on when the scan has deleted its nodes, and when the launches are over.
LEMMA WorkerKeeps ==
  ASSUME TypeOK, OneVMInv, Worker
  PROVE  OneVMInv'
<1> USE DEF Worker, ScanEnds, StartBatch, BatchEnds, cluster
<1>1. ASSUME Orderly PROVE stray' \subseteq undeleted' /\ BatchInv' /\ FreshInv'
  BY <1>1 DEF OneVMInv, BatchInv, FreshInv, May, Asked, TypeOK
<1>2. ASSUME Orderly, NEW v \in Resources PROVE ResourceInv(v)'
  <2>1. ResourceInv(v)
    BY <1>2 DEF OneVMInv
  <2>2. /\ ListerInv(v)'
        /\ v \notin undeleted' => LaunchInv(v)' /\ VMInv(v)' /\ OwnerInv(v)'
    BY <2>1 DEF ResourceInv, ListerInv, LaunchInv, VMInv, OwnerInv, Gone, Asked
  <2>3. v \notin undeleted' => HandlerInv(v)'
    BY <2>1, ManagedNodesAssumption DEF ResourceInv, HandlerInv, Gone, Asked, TypeOK
  <2> QED
    BY <2>2, <2>3 DEF ResourceInv
<1> QED
  BY <1>1, <1>2, Assemble

\* A VM is made for a node that has none; the failure of its launch deletes it, unless a
\* handler is at the node of a resource that is gone.
LEMMA LaunchKeeps ==
  ASSUME TypeOK, OneVMInv, NEW u \in Resources, Launch(u)
  PROVE  OneVMInv'
<1> USE DEF Launch, InstanceCreate, Joins, LaunchSucceeds, LaunchFails, DeleteVM, Launching,
        cluster
<1>1. ASSUME Orderly PROVE stray' \subseteq undeleted' /\ BatchInv' /\ FreshInv'
  <2>1. stray' \subseteq undeleted'
    BY <1>1 DEF OneVMInv, ResourceInv, LaunchInv, TypeOK
  <2>2. BatchInv' /\ FreshInv'
    BY <1>1 DEF OneVMInv, BatchInv, FreshInv, May, Asked, TypeOK
  <2> QED
    BY <2>1, <2>2
<1>2. ASSUME Orderly, NEW v \in Resources PROVE ResourceInv(v)'
  <2>1. ResourceInv(u) /\ ResourceInv(v) /\ BatchInv
    BY <1>2 DEF OneVMInv
  <2>2. launch[u] # "none" /\ (Deleting(u) /\ u \notin undeleted => Gone(u))
    BY <1>2, LaunchedDeleting
  <2>3. ListerInv(v)'
    BY <2>1, <2>2 DEF ResourceInv, ListerInv, Gone, TypeOK
  <2>4. v \notin undeleted' => LaunchInv(v)'
    BY <2>1, <2>2 DEF ResourceInv, LaunchInv, Gone, Asked, TypeOK
  <2>5. v \notin undeleted' => VMInv(v)' /\ OwnerInv(v)'
    BY <2>1, <2>2 DEF ResourceInv, VMInv, OwnerInv, LaunchInv, BatchInv, Gone, Asked, TypeOK
  <2>6. v \notin undeleted' => HandlerInv(v)'
    BY <2>1, <2>2 DEF ResourceInv, HandlerInv, Gone, Asked, TypeOK
  <2> QED
    BY <2>3, <2>4, <2>5, <2>6 DEF ResourceInv
<1> QED
  BY <1>1, <1>2, Assemble

\* The report of startManagedNodes leaves a VM to its node, or to a resource that is gone.
LEMMA ReportKeeps ==
  ASSUME TypeOK, OneVMInv, NEW u \in Resources, StartManagedNodes(u)
  PROVE  OneVMInv'
<1> USE DEF StartManagedNodes, ReportCreated, ReportFailed, ReportNothing
<1>1. /\ UNCHANGED <<env, lister, deletions, nodeEvents, deleting, group, node, vm, stray,
                       undeleted>>
      /\ worker.pc = "report" /\ u \in worker.batch
      /\ worker'.batch = worker.batch \ {u}
      /\ worker'.pc = "report" \/ (worker'.pc = "items" /\ worker.batch = {u})
      /\ launch' = [launch EXCEPT ![u] = "none"]
  BY ReportedEffect
<1>2. StatusMoves
  BY UpdateMoves DEF StatusMoves, Code
<1>3. ASSUME Orderly PROVE stray' \subseteq undeleted' /\ BatchInv' /\ FreshInv'
  BY <1>1, <1>3 DEF OneVMInv, BatchInv, FreshInv, May, TypeOK
<1>4. ASSUME Orderly, NEW v \in Resources PROVE ResourceInv(v)'
  <2>1. ResourceInv(u) /\ ResourceInv(v) /\ BatchInv
    BY <1>4 DEF OneVMInv
  <2>2. launch[u] # "none" /\ (Deleting(u) /\ u \notin undeleted => Gone(u))
    BY <1>1, <1>4, <2>1, LaunchedDeleting DEF BatchInv
  <2>3. u \in Present(lister) => ~Gone(u)
    BY DEF Present, Gone, Code
  <2>4. u \notin Present(lister) => Gone(u)
    BY <2>1, <2>2 DEF ResourceInv, ListerInv, Present, Gone, TypeOK
  <2>5. launch'[u] = "none" /\ (u \in vm \ undeleted => node[u] = "running" \/ Gone(u))
    BY <1>1, <2>1, <2>2, <2>3, <2>4 DEF ResourceInv, LaunchInv, TypeOK
  <2>6. ListerInv(v)'
    BY <1>1, <1>2, <2>1 DEF ResourceInv, ListerInv, StatusMoves, Gone, TypeOK
  <2>7. v \notin undeleted' => LaunchInv(v)' /\ VMInv(v)'
    BY <1>1, <2>1, <2>5 DEF ResourceInv, LaunchInv, VMInv, Gone, Asked, TypeOK
  <2>8. v \notin undeleted' => OwnerInv(v)'
    BY <1>1, <2>1, <2>2, <2>3, <2>4, <2>5
       DEF ResourceInv, LaunchInv, OwnerInv, Gone, Asked, TypeOK
  <2>9. v \notin undeleted' => HandlerInv(v)'
    BY <1>1, <2>1, <2>2 DEF ResourceInv, HandlerInv, Gone, Asked, TypeOK
  <2> QED
    BY <2>6, <2>7, <2>8, <2>9 DEF ResourceInv
<1> QED
  BY <1>1, <1>3, <1>4, Assemble

\* Before the discovery a VM has its owner reference, from which the group learns of it.
LEMMA ServerKeeps ==
  ASSUME TypeOK, OneVMInv, Server
  PROVE  OneVMInv'
<1> USE DEF Server, Start, Register, Discover, Down, Up, cluster
<1>1. ASSUME Orderly PROVE stray' \subseteq undeleted' /\ BatchInv' /\ FreshInv'
  <2>1. stray' \subseteq undeleted' /\ BatchInv'
    BY <1>1 DEF OneVMInv, BatchInv, TypeOK
  <2>2. FreshInv'
    BY <1>1 DEF OneVMInv, FreshInv, May, Asked, TypeOK
  <2> QED
    BY <2>1, <2>2
<1>2. ASSUME Orderly, NEW v \in Resources PROVE ResourceInv(v)'
  <2>1. ResourceInv(v) /\ BatchInv
    BY <1>2 DEF OneVMInv
  <2>2. ListerInv(v)' /\ (Gone(v) => Gone(v)')
    BY <2>1 DEF ResourceInv, ListerInv, Gone, TypeOK
  <2>3. v \notin undeleted' => LaunchInv(v)' /\ VMInv(v)' /\ OwnerInv(v)'
    <3>1. CASE ~Discover
      BY <2>1, <2>2, <3>1
         DEF ResourceInv, BatchInv, LaunchInv, VMInv, OwnerInv, Gone, Asked, TypeOK
    <3>2. CASE Discover
      <4>1. PICK missed \in SUBSET (IF May("attach") THEN Resources ELSE {}) :
              node'[v] = IF kube[v] = "owned" /\ v \in vm \ missed THEN "running" ELSE "none"
        BY <3>2
      <4>2. v \in vm => v \notin missed
        BY <1>2, <3>2, <4>1 DEF OneVMInv, FreshInv
      <4>3. launch[v] = "none" /\ node[v] = "none" /\ group # "ready"
        BY <2>1, <3>2 DEF BatchInv
      <4>4. group' = "ready" /\ UNCHANGED <<env, lister, launch, vm, kube, undeleted>>
        BY <3>2
      <4> QED
        BY <2>1, <4>1, <4>2, <4>3, <4>4 DEF ResourceInv, LaunchInv, VMInv, OwnerInv, Gone, Asked
    <3> QED
      BY <3>1, <3>2
  <2>4. v \notin undeleted' => HandlerInv(v)'
    BY <1>2, <2>1, <2>2
       DEF ResourceInv, HandlerInv, BatchInv, FreshInv, May, OneVMInv, Gone, Asked, TypeOK
  <2> QED
    BY <2>2, <2>3, <2>4 DEF ResourceInv
<1> QED
  BY <1>1, <1>2, Assemble

\* The process stops where nothing is being launched, or panics before the discovery.
LEMMA DiesKeeps ==
  ASSUME TypeOK, OneVMInv, Stop \/ \E u \in Resources : AddManagedNodePanics(u)
  PROVE  OneVMInv'
<1> USE DEF Stop, AddManagedNodePanics, Dies, Down, cluster
<1>1. ASSUME Orderly PROVE stray' \subseteq undeleted' /\ BatchInv' /\ FreshInv'
  <2>1. stray' \subseteq undeleted' /\ BatchInv'
    BY <1>1 DEF OneVMInv, BatchInv
  <2>2. Asked("remove") \/ May("attach") => group = "registered"
    BY <1>1 DEF Orderly
  <2>3. FreshInv'
    BY <1>1, <2>2 DEF OneVMInv, FreshInv, May, Asked
  <2> QED
    BY <2>1, <2>3
<1>2. ASSUME Orderly, NEW v \in Resources PROVE ResourceInv(v)'
  <2>1. ResourceInv(v) /\ BatchInv
    BY <1>2 DEF OneVMInv
  <2>2. worker.pc = "items" /\ launch[v] \in {"none", "start"}
    BY <1>2, <2>1 DEF Orderly, Calm, BatchInv
  <2>3. /\ ListerInv(v)'
        /\ v \notin undeleted' => LaunchInv(v)'
    BY <2>1 DEF ResourceInv, ListerInv, LaunchInv, Gone, TypeOK
  <2>4. v \notin undeleted' => VMInv(v)' /\ OwnerInv(v)'
    BY <1>2, <2>1, <2>2
       DEF ResourceInv, VMInv, OwnerInv, LaunchInv, BatchInv, Orderly, FreshInv, May, OneVMInv,
           Gone, Asked, TypeOK
  <2>5. v \notin undeleted' => HandlerInv(v)'
    BY ManagedNodesAssumption DEF HandlerInv, Deleters
  <2> QED
    BY <2>3, <2>4, <2>5 DEF ResourceInv
<1> QED
  BY <1>1, <1>2, Assemble

\* The process starts with nothing.
LEMMA InitKeeps == Init => OneVMInv
<1> SUFFICES ASSUME Init PROVE OneVMInv
  OBVIOUS
<1>1. BatchInv /\ FreshInv
  BY DEF Init, BatchInv, FreshInv, May, Down, Deleters
<1>2. ASSUME NEW u \in Resources PROVE ResourceInv(u)
  BY ManagedNodesAssumption
     DEF Init, ResourceInv, ListerInv, LaunchInv, VMInv, OwnerInv, HandlerInv, Gone, Deleters
<1> QED
  BY <1>1, <1>2 DEF Init, OneVMInv

\* No resource gets a second VM but where deleteVM has failed to delete the first, unless the
\* process crashes in a launch, or a node is removed while it is down or not found when it is
\* back: handleManagedNode, for which the status and the group are stale copies, adds a node
\* only where neither a launch nor the group nor an owner reference has one.
THEOREM OneVMCorrect == Spec => []OneVM
<1>1. TypeOK /\ OneVMInv /\ [Next]_vars => OneVMInv'
  <2>1. ASSUME OneVMInv, UNCHANGED vars PROVE OneVMInv'
    <3>1. StatusMoves
      BY <2>1 DEF vars, StatusMoves
    <3> QED
      BY <2>1, <3>1, StatusKeeps DEF vars
  <2> QED
    BY <2>1, UserKeeps, InformerKeeps, DeleteNodeKeeps, ScanKeeps, HandleKeeps, LaunchKeeps,
       ReportKeeps, WorkerKeeps, ServerKeeps, DiesKeeps DEF Next
<1>2. OneVMInv => OneVM
  BY DEF OneVMInv, OneVM, Orderly
<1> QED
  BY InitKeeps, TypeCorrect, <1>1, <1>2, PTL DEF Spec

-----------------------------------------------------------------------------
(* BaseInv is inductive *)

\* A step that changes nothing but statuses, the queue, and what is to be told, keeps it.
LEMMA StatusKeepsBase ==
  ASSUME BaseInv, StatusMoves, UNCHANGED <<lister, worker, group, node, launch, vm, kube>>
  PROVE  BaseInv'
BY DEF BaseInv, BatchInv, ListerInv, Gone, StatusMoves

\* The user and the informers keep the batch, and the lister has what the API server had.
LEMMA UserKeepsBase ==
  ASSUME TypeOK, BaseInv, NEW u \in Resources, User(u) \/ Informer(u) \/ Resync(u)
  PROVE  BaseInv'
<1> USE DEF cluster
<1>1. CASE CreateResource(u) \/ DeleteResource(u)
  <2>1. StatusMoves
    BY <1>1 DEF CreateResource, DeleteResource, StatusMoves, TypeOK
  <2> QED
    BY <1>1, <2>1, StatusKeepsBase DEF CreateResource, DeleteResource
<1>2. CASE RemoveNode(u)
  BY <1>2 DEF RemoveNode, BaseInv, BatchInv, ListerInv, Gone, TypeOK
<1>3. CASE Watch(u)
  BY <1>3 DEF Watch, BaseInv, BatchInv, ListerInv, Gone, TypeOK
<1>4. CASE HandleDeletion(u) \/ HandleNodeIgnored(u) \/ HandleNodeGone(u) \/ Resync(u)
  <2>1. StatusMoves
    BY <1>4
       DEF HandleDeletion, HandleNodeIgnored, HandleNodeGone, Resync, StatusMoves, TypeOK
  <2> QED
    BY <1>4, <2>1, StatusKeepsBase DEF HandleDeletion, HandleNodeIgnored, HandleNodeGone, Resync
<1> QED
  BY <1>1, <1>2, <1>3, <1>4 DEF User, Informer

\* deleteNode and handleManagedNode keep both.
LEMMA HandleKeepsBase ==
  ASSUME TypeOK, BaseInv,
         (\E d \in Deleters : DeleteNode(d)) \/ \E u \in Resources : HandleManagedNode(u)
  PROVE  BaseInv'
<1>1. ASSUME NEW d \in Deleters, DeleteNode(d) PROVE BaseInv'
  <2>1. \A v \in Resources : kube'[v] # "absent" => kube[v] # "absent"
    BY <1>1 DEF DeleteNode, DeleteVM, TypeOK
  <2>2. BatchInv'
    BY <1>1 DEF DeleteNode, DeleteVM, BaseInv, BatchInv, TypeOK
  <2>3. \A v \in Resources : ListerInv(v)'
    BY <1>1, <2>1 DEF DeleteNode, DeleteVM, BaseInv, ListerInv, Gone, TypeOK, Code
  <2> QED
    BY <2>2, <2>3 DEF BaseInv
<1>2. ASSUME NEW u \in Resources, HandleManagedNode(u) PROVE BaseInv'
  <2>1. StatusMoves
    BY <1>2, UpdateMoves
       DEF HandleManagedNode, NothingToHandle, GroupNotFound, HandleWithoutNode, AddManagedNode,
           StatusMoves, cluster, Code
  <2>2. CASE NothingToHandle(u) \/ GroupNotFound(u) \/ HandleWithoutNode(u)
    BY <2>1, <2>2, StatusKeepsBase
       DEF NothingToHandle, GroupNotFound, HandleWithoutNode, cluster
  <2>3. CASE AddManagedNode(u)
    <3>1. BatchInv'
      BY <2>3 DEF AddManagedNode, Take, BaseInv, BatchInv, TypeOK
    <3>2. \A v \in Resources : ListerInv(v)'
      BY <2>1, <2>3
         DEF AddManagedNode, ToCreate, BaseInv, ListerInv, Gone, StatusMoves, TypeOK
    <3> QED
      BY <3>1, <3>2 DEF BaseInv
  <2> QED
    BY <1>2, <2>2, <2>3 DEF HandleManagedNode
<1> QED
  BY <1>1, <1>2

\* The worker keeps both: what it launches is in the batch.
LEMMA WorkerKeepsBase ==
  ASSUME TypeOK, BaseInv,
         Worker \/ \E u \in Resources : Scan(u) \/ Launch(u) \/ StartManagedNodes(u)
  PROVE  BaseInv'
<1> USE DEF cluster
<1>1. CASE Worker
  BY <1>1 DEF Worker, ScanEnds, StartBatch, BatchEnds, BaseInv, BatchInv, ListerInv, Gone, TypeOK
<1>2. ASSUME NEW u \in Resources, Scan(u) PROVE BaseInv'
  BY <1>2 DEF Scan, BaseInv, BatchInv, ListerInv, Gone, TypeOK
<1>3. ASSUME NEW u \in Resources, Launch(u) PROVE BaseInv'
  <2> USE <1>3 DEF Launch, InstanceCreate, Joins, LaunchSucceeds, LaunchFails, DeleteVM, Launching
  <2>1. BatchInv'
    BY DEF BaseInv, BatchInv, TypeOK
  <2>2. \A v \in Resources : ListerInv(v)'
    BY DEF BaseInv, BatchInv, ListerInv, Gone, TypeOK
  <2> QED
    BY <2>1, <2>2 DEF BaseInv
<1>4. ASSUME NEW u \in Resources, StartManagedNodes(u) PROVE BaseInv'
  <2> USE <1>4 DEF StartManagedNodes, ReportCreated, ReportFailed, ReportNothing
  <2>1. /\ UNCHANGED <<lister, group, node, vm>>
        /\ worker.pc = "report" /\ u \in worker.batch
        /\ worker'.batch = worker.batch \ {u}
        /\ worker'.pc = "report" \/ (worker'.pc = "items" /\ worker.batch = {u})
        /\ launch' = [launch EXCEPT ![u] = "none"]
    BY ReportedEffect
  <2>2. StatusMoves
    BY UpdateMoves DEF StatusMoves, Code
  <2>3. BatchInv'
    BY <2>1 DEF BaseInv, BatchInv, TypeOK
  <2>4. \A v \in Resources : ListerInv(v)'
    BY <2>1, <2>2 DEF BaseInv, ListerInv, Gone, StatusMoves, TypeOK
  <2> QED
    BY <2>3, <2>4 DEF BaseInv
<1> QED
  BY <1>1, <1>2, <1>3, <1>4

\* The start fills the lister, the end of the process empties the batch.
LEMMA ServerKeepsBase ==
  ASSUME TypeOK, BaseInv, Server \/ Dies
  PROVE  BaseInv'
<1> USE DEF cluster, Down
<1>1. CASE Start
  BY <1>1 DEF Start, Up, BaseInv, BatchInv, ListerInv, Gone, TypeOK
<1>2. CASE Register
  BY <1>2 DEF Register, Up, BaseInv, BatchInv, ListerInv, Gone
<1>3. CASE Discover
  BY <1>3 DEF Discover, BaseInv, BatchInv, ListerInv, Gone
<1>4. CASE Dies
  BY <1>4 DEF Dies, BaseInv, BatchInv, ListerInv, Gone
<1> QED
  BY <1>1, <1>2, <1>3, <1>4 DEF Server

\* What the worker launches is its batch, and the lister only ever has an older copy.
LEMMA BaseCorrect == Spec => []BaseInv
<1>1. Init => BaseInv
  BY DEF Init, BaseInv, BatchInv, ListerInv, Gone, Down
<1>2. TypeOK /\ BaseInv /\ [Next]_vars => BaseInv'
  <2>1. ASSUME BaseInv, UNCHANGED vars PROVE BaseInv'
    BY <2>1 DEF vars, BaseInv, BatchInv, ListerInv, Gone
  <2> QED
    BY <2>1, UserKeepsBase, HandleKeepsBase, WorkerKeepsBase, ServerKeepsBase
       DEF Next, Stop, AddManagedNodePanics
<1> QED
  BY TypeCorrect, <1>1, <1>2, PTL DEF Spec

-----------------------------------------------------------------------------
(* CreatedInv is inductive *)

\* An update writes its code, or nothing where updates may fail; a resource that is gone, or
\* that was not made, stays so.
LEMMA UpdateEffect ==
  ASSUME TypeOK, NEW u \in Resources, NEW code \in Code, UpdateStatus(u, code)
  PROVE  /\ \A v \in Resources \ {u} : crd'[v] = crd[v]
         /\ crd'[u] \in {crd[u], code}
         /\ crd[u] \notin Code => crd'[u] = crd[u]
         /\ ~May("update") /\ crd[u] \in Code => crd'[u] = code
BY DEF TypeOK, UpdateStatus

\* The user deletes resources, and removes Kubernetes nodes that have their owner.
LEMMA UserTrue ==
  ASSUME TypeOK, BaseInv, CreatedInv, Truthful, NEW u \in Resources, User(u),
         NEW v \in Resources
  PROVE  ResourceTrue(v)'
<1>1. ResourceTrue(v)
  BY DEF CreatedInv
<1>2. CASE CreateResource(u) \/ DeleteResource(u)
  <2> USE <1>2 DEF CreateResource, DeleteResource
  <2>1. crd[u] = "none" => launch[u] = "none"
    BY DEF BaseInv, ListerInv
  <2>2. LaunchTrue(v)' /\ HandlerTrue(v)'
    BY <1>1 DEF ResourceTrue, LaunchTrue, HandlerTrue, Deleting, Live, Gone, Asked, TypeOK
  <2>3. NameTrue(v)' /\ StatusTrue(v)'
    BY <1>1, <2>1 DEF ResourceTrue, NameTrue, Up, StatusTrue, Live, Asked, TypeOK
  <2> QED
    BY <2>2, <2>3 DEF ResourceTrue
<1>3. CASE RemoveNode(u)
  <2> USE <1>3 DEF RemoveNode
  <2>1. kube[u] = "owned" /\ Asked("remove")
    BY DEF Truthful
  <2>2. LaunchTrue(v)'
    BY <1>1, <2>1 DEF ResourceTrue, LaunchTrue, Live, TypeOK
  <2>3. HandlerTrue(v)' /\ NameTrue(v)'
    BY <1>1, <2>1
       DEF ResourceTrue, HandlerTrue, NameTrue, Up, NodeEvent, BaseInv, ListerInv, Deleting, Live,
           Gone, Asked, TypeOK
  <2>4. StatusTrue(v)'
    <3>1. node[u] # "none" => Up
      BY DEF BaseInv, BatchInv, Up
    <3> QED
      BY <1>1, <2>1, <3>1 DEF ResourceTrue, StatusTrue, NodeEvent, Asked, TypeOK
  <2> QED
    BY <2>2, <2>3, <2>4 DEF ResourceTrue
<1> QED
  BY <1>2, <1>3 DEF User

\* The lister gets what the API server has; handleNode deletes the node, or the resource.
LEMMA InformerTrue ==
  ASSUME TypeOK, BaseInv, CreatedInv, Truthful, NEW u \in Resources,
         Informer(u) \/ Resync(u), NEW v \in Resources
  PROVE  ResourceTrue(v)'
<1> USE DEF cluster
<1>1. ResourceTrue(u) /\ ResourceTrue(v)
  BY DEF CreatedInv
<1>2. CASE Watch(u)
  <2> USE <1>2 DEF Watch
  <2>1. LaunchTrue(v)' /\ StatusTrue(v)'
    BY <1>1 DEF ResourceTrue, LaunchTrue, StatusTrue, Live, Asked, TypeOK
  <2>2. HandlerTrue(v)'
    BY <1>1
       DEF ResourceTrue, HandlerTrue, BaseInv, ListerInv, Deleting, Live, Gone, Asked, TypeOK,
           Code
  <2>3. NameTrue(v)'
    BY <1>1 DEF ResourceTrue, NameTrue, Up, Live, Asked, TypeOK
  <2> QED
    BY <2>1, <2>2, <2>3 DEF ResourceTrue
<1>3. CASE HandleDeletion(u)
  <2> USE <1>3 DEF HandleDeletion, Begins
  <2>1. LaunchTrue(v)' /\ NameTrue(v)'
    BY <1>1 DEF ResourceTrue, LaunchTrue, NameTrue, Up, Live, Asked
  <2>2. HandlerTrue(v)' /\ StatusTrue(v)'
    BY <1>1
       DEF ResourceTrue, HandlerTrue, StatusTrue, BaseInv, ListerInv, Deleting, Live, Gone, Asked,
           TypeOK, Deleters
  <2> QED
    BY <2>1, <2>2 DEF ResourceTrue
<1>4. CASE HandleNodeIgnored(u)
  <2> USE <1>4 DEF HandleNodeIgnored
  <2>1. LaunchTrue(v)' /\ NameTrue(v)' /\ HandlerTrue(v)'
    BY <1>1 DEF ResourceTrue, LaunchTrue, NameTrue, Up, HandlerTrue, Deleting, Live, Gone, Asked
  <2>2. StatusTrue(v)'
    BY <1>1 DEF ResourceTrue, NameTrue, Up, StatusTrue, Named, Asked
  <2> QED
    BY <2>1, <2>2 DEF ResourceTrue
<1>5. CASE HandleNodeGone(u)
  <2> USE <1>5 DEF HandleNodeGone, Begins
  <2>1. LaunchTrue(v)' /\ NameTrue(v)'
    BY <1>1 DEF ResourceTrue, LaunchTrue, NameTrue, Up, Live, Asked, TypeOK
  <2>2. HandlerTrue(v)'
    BY <1>1 DEF ResourceTrue, HandlerTrue, Deleting, Live, Gone, Asked, TypeOK, Deleters
  <2>3. StatusTrue(v)'
    BY <1>1, ManagedNodesAssumption
       DEF ResourceTrue, StatusTrue, Asked, TypeOK, Deleters, Code
  <2> QED
    BY <2>1, <2>2, <2>3 DEF ResourceTrue
<1>6. CASE Resync(u)
  BY <1>1, <1>6
     DEF Resync, ResourceTrue, LaunchTrue, HandlerTrue, NameTrue, Up, StatusTrue, Deleting, Live,
         Gone, Asked
<1> QED
  BY <1>2, <1>3, <1>4, <1>5, <1>6 DEF Informer

\* Who deletes the node of a resource that is not gone is handleNode, which deletes the
\* resource then, or the scan, while nothing is launched.
LEMMA DeleteNodeTrue ==
  ASSUME TypeOK, BaseInv, CreatedInv, Truthful, NEW d \in Deleters, DeleteNode(d),
         NEW v \in Resources
  PROVE  ResourceTrue(v)'
<1> USE DEF DeleteNode, DeleteVM
<1>1. PICK u \in Resources : u = deleting[d]
  BY DEF TypeOK
<1>2. ResourceTrue(u) /\ ResourceTrue(v)
  BY <1>1 DEF CreatedInv
<1>3. ~Live(u)' \/ (worker.pc = "scan" /\ kube[u] = "absent" /\ launch[u] = "none")
  BY <1>1, <1>2
     DEF ResourceTrue, HandlerTrue, BaseInv, BatchInv, ListerInv, Deleting, Live, Gone, Deleters,
         TypeOK, Code
<1>4. \A w \in Resources : Live(w)' => Live(w) /\ crd'[w] = crd[w]
  BY <1>1 DEF Live, TypeOK, Code
<1>5. \A w \in Resources \ {u} :
        node'[w] = node[w] /\ kube'[w] = kube[w] /\ (w \in vm' <=> w \in vm)
  BY <1>1 DEF TypeOK
<1>6. LaunchTrue(v)'
  <2>1. CASE v = u
    BY <1>1, <1>2, <1>3, <1>4, <2>1 DEF ResourceTrue, LaunchTrue, TypeOK
  <2>2. CASE v # u
    BY <1>2, <1>4, <1>5, <2>2 DEF ResourceTrue, LaunchTrue
  <2> QED
    BY <2>1, <2>2
<1>7. HandlerTrue(v)'
  <2>1. \A e \in Deleters : deleting'[e] = v => deleting[e] = v
    BY ManagedNodesAssumption DEF TypeOK
  <2>2. v \in nodeEvents' => v \in nodeEvents \/ v = u
    BY <1>1 DEF NodeEvent
  <2>3. u \in nodeEvents' => u \in nodeEvents \/ ~Live(u)'
    BY <1>1, <1>3 DEF NodeEvent
  <2>4. kube[v] = "absent" => kube'[v] = "absent"
    BY DEF TypeOK
  <2>5. (~Live(v) => ~Live(v)') /\ (crd[v] # "none" => crd'[v] # "none")
    BY <1>1, <1>4 DEF TypeOK
  <2>6. Deleting(u)
    BY <1>1 DEF Deleting
  <2> QED
    BY <1>2, <2>1, <2>2, <2>3, <2>4, <2>5, <2>6
       DEF ResourceTrue, HandlerTrue, Deleting, Gone, Asked, Deleters
<1>8. NameTrue(v)'
  BY <1>1, <1>2, <1>4 DEF ResourceTrue, NameTrue, Up, Live, Asked, TypeOK
<1>9. StatusTrue(v)'
  <2>1. CASE v = u
    <3> SUFFICES ASSUME crd'[v] = "Created", launch'[v] = "none", node'[v] # "none"
                 PROVE  StatusTrue(v)'
      BY DEF StatusTrue
    <3>1. Live(u)' /\ d # "node"
      BY <1>1, <2>1 DEF Live, TypeOK, Code
    <3>2. u \in ControlPlanes
      BY <1>1, <2>1 DEF TypeOK
    <3>3. u \in nodeEvents => u \in nodeEvents'
      BY <1>1 DEF NodeEvent
    <3> QED
      BY <1>1, <1>2, <1>4, <2>1, <3>1, <3>2, <3>3
         DEF ResourceTrue, StatusTrue, Asked, TypeOK, Deleters
  <2>2. CASE v # u
    <3>1. v \in nodeEvents => v \in nodeEvents'
      BY DEF NodeEvent
    <3>2. deleting["node"] = v => deleting'["node"] = v
      BY <1>1, <2>2 DEF TypeOK, Deleters
    <3>3. crd'[v] = "Created" => crd[v] = "Created"
      BY <1>4 DEF Live
    <3> QED
      BY <1>2, <1>5, <2>2, <3>1, <3>2, <3>3 DEF ResourceTrue, StatusTrue, Asked
  <2> QED
    BY <2>1, <2>2
<1> QED
  BY <1>6, <1>7, <1>8, <1>9 DEF ResourceTrue

\* The scan begins with a resource that is gone, or with a node that Kubernetes does not have.
LEMMA ScanTrue ==
  ASSUME TypeOK, BaseInv, CreatedInv, Truthful, NEW u \in Resources, Scan(u) \/ Worker,
         NEW v \in Resources
  PROVE  ResourceTrue(v)'
<1> USE DEF cluster
<1>1. ResourceTrue(u) /\ ResourceTrue(v) /\ ListerInv(u)
  BY DEF CreatedInv, BaseInv
<1>2. CASE Scan(u)
  <2> USE <1>2 DEF Scan, Begins
  <2>1. LaunchTrue(v)' /\ NameTrue(v)' /\ StatusTrue(v)'
    BY <1>1 DEF ResourceTrue, LaunchTrue, NameTrue, Up, StatusTrue, Live, Asked, Deleters, TypeOK
  <2>2. deleting' # deleting => crd[u] # "none" /\ (Gone(u) \/ kube[u] = "absent")
    BY <1>1 DEF ListerInv, Present, Gone, TypeOK
  <2>3. HandlerTrue(v)'
    BY <1>1, <2>2 DEF ResourceTrue, HandlerTrue, Deleting, Live, Gone, Asked, TypeOK, Deleters
  <2> QED
    BY <2>1, <2>3 DEF ResourceTrue
<1>3. CASE Worker
  <2> USE <1>3 DEF Worker, ScanEnds, StartBatch, BatchEnds
  <2>1. LaunchTrue(v)' /\ NameTrue(v)' /\ StatusTrue(v)'
    BY <1>1 DEF ResourceTrue, LaunchTrue, NameTrue, Up, StatusTrue, Live, Asked
  <2>2. HandlerTrue(v)'
    BY <1>1, ManagedNodesAssumption
       DEF ResourceTrue, HandlerTrue, Deleting, Live, Gone, Asked, TypeOK
  <2> QED
    BY <2>1, <2>2 DEF ResourceTrue
<1> QED
  BY <1>2, <1>3

\* A step that only reports keeps what is true, if the resource is not being launched and is
\* not reported as created.
LEMMA ReportTrue ==
  ASSUME TypeOK, CreatedInv, Truthful, NEW u \in Resources,
         NEW code \in Code \ {"Creation", "Created"}, Report(u, code),
         launch[u] = "none" \/ ~Live(u),
         UNCHANGED <<env, lister, deletions, nodeEvents, deleting, worker, group, node, launch,
                     vm, kube>>,
         NEW v \in Resources
  PROVE  ResourceTrue(v)'
<1> USE DEF Report
<1>1. ResourceTrue(v)
  BY DEF CreatedInv
<1>2. /\ crd'[v] = crd[v] \/ (v = u /\ crd'[v] = code)
      /\ crd[v] \notin Code => crd'[v] = crd[v]
  BY UpdateEffect
<1>3. (~Live(v) <=> ~Live(v)') /\ (crd[v] # "none" => crd'[v] # "none")
  BY <1>2 DEF Live, TypeOK, Code
<1>4. LaunchTrue(v)' /\ HandlerTrue(v)'
  BY <1>1, <1>3 DEF ResourceTrue, LaunchTrue, HandlerTrue, Deleting, Gone, Asked
<1>5. NameTrue(v)' /\ StatusTrue(v)'
  BY <1>1, <1>2, <1>3 DEF ResourceTrue, NameTrue, Up, StatusTrue, Asked
<1> QED
  BY <1>4, <1>5 DEF ResourceTrue

\* handleManagedNode reports on resources that are not being launched; the status it writes
\* for a new node is Creation, where updates do not fail.
LEMMA HandleTrue ==
  ASSUME TypeOK, BaseInv, CreatedInv, Truthful, NEW u \in Resources, HandleManagedNode(u),
         NEW v \in Resources
  PROVE  ResourceTrue(v)'
<1> USE DEF cluster
<1>1. ResourceTrue(u) /\ ResourceTrue(v) /\ ListerInv(u)
  BY DEF CreatedInv, BaseInv
<1>2. CASE NothingToHandle(u)
  BY <1>1, <1>2
     DEF NothingToHandle, ResourceTrue, LaunchTrue, HandlerTrue, NameTrue, Up, StatusTrue, Deleting,
         Live, Gone, Asked
<1>3. CASE GroupNotFound(u)
  <2>1. launch[u] = "none"
    BY <1>3 DEF GroupNotFound, BaseInv, BatchInv
  <2> QED
    BY <1>3, <2>1, ReportTrue DEF GroupNotFound, Code
<1>4. CASE HandleWithoutNode(u)
  <2>1. launch[u] = "none" \/ ~Live(u)
    BY <1>1, <1>4
       DEF HandleWithoutNode, Take, ToCreate, BaseInv, BatchInv, ResourceTrue, LaunchTrue
  <2> QED
    BY <1>4, <2>1, ReportTrue DEF HandleWithoutNode, Code
<1>5. CASE AddManagedNode(u)
  <2> USE <1>5 DEF AddManagedNode, Take, ToCreate
  <2>1. UpdateStatus(u, "Creation")
    BY DEF Report
  <2>2. /\ \A w \in Resources \ {u} : crd'[w] = crd[w]
        /\ crd'[u] \in {crd[u], "Creation"}
        /\ crd[u] \notin Code => crd'[u] = crd[u]
        /\ ~May("update") /\ crd[u] \in Code => crd'[u] = "Creation"
    BY <2>1, UpdateEffect DEF Code
  <2>3. (~Live(v) <=> ~Live(v)') /\ (crd[v] # "none" => crd'[v] # "none") /\ crd[u] # "none"
    BY <1>1, <2>2 DEF Live, ListerInv, TypeOK, Code
  <2>4. LaunchTrue(v)' /\ HandlerTrue(v)'
    BY <1>1, <2>3
       DEF ResourceTrue, LaunchTrue, HandlerTrue, Deleting, Gone, Asked, TypeOK
  <2>5. Asked("remove") /\ Live(u) => crd'[u] = "Creation"
    BY <2>2, <2>3 DEF Truthful, Live, TypeOK
  <2>6. NameTrue(v)'
    BY <1>1, <2>2, <2>3, <2>5 DEF ResourceTrue, NameTrue, Up, Asked, TypeOK, Live
  <2>7. StatusTrue(v)'
    BY <1>1, <2>2 DEF ResourceTrue, StatusTrue, Asked, TypeOK
  <2> QED
    BY <2>4, <2>6, <2>7 DEF ResourceTrue
<1> QED
  BY <1>2, <1>3, <1>4, <1>5 DEF HandleManagedNode

\* A Kubernetes node joins when the lister has seen the status that names it, where nodes are
\* removed; a failed launch leaves neither node nor VM.
LEMMA LaunchTrueStep ==
  ASSUME TypeOK, BaseInv, CreatedInv, Truthful, NEW u \in Resources, Launch(u),
         NEW v \in Resources
  PROVE  ResourceTrue(v)'
<1> USE DEF Launch, InstanceCreate, Joins, LaunchSucceeds, LaunchFails, DeleteVM, Launching,
        cluster
<1>1. ResourceTrue(u) /\ ResourceTrue(v) /\ BatchInv
  BY DEF CreatedInv, BaseInv
<1>2. Deleting(u) => ~Live(u) \/ Asked("remove")
  BY <1>1 DEF ResourceTrue, HandlerTrue, Deleting, Deleters, BaseInv, ListerInv, Live, Gone
<1>3. LaunchTrue(v)'
  BY <1>1 DEF ResourceTrue, LaunchTrue, Live, TypeOK
<1>4. HandlerTrue(v)'
  BY <1>1 DEF ResourceTrue, HandlerTrue, Deleting, Live, Gone, Asked, TypeOK
<1>5. NameTrue(v)'
  BY <1>1 DEF ResourceTrue, NameTrue, Up, Truthful, Live, Asked, TypeOK
<1>6. StatusTrue(v)'
  BY <1>1 DEF ResourceTrue, StatusTrue, BatchInv, Asked, TypeOK
<1> QED
  BY <1>3, <1>4, <1>5, <1>6 DEF ResourceTrue

\* Created is written for a VM whose node then has its owner; what is not reported so has no
\* status Created, or no node.
LEMMA StartManagedNodesTrue ==
  ASSUME TypeOK, BaseInv, CreatedInv, Truthful, NEW u \in Resources, StartManagedNodes(u),
         NEW v \in Resources
  PROVE  ResourceTrue(v)'
<1> USE DEF StartManagedNodes, ReportCreated, ReportFailed, ReportNothing
<1>1. /\ UNCHANGED <<env, lister, deletions, nodeEvents, deleting, group, node, vm>>
      /\ worker.pc = "report" /\ u \in worker.batch
      /\ launch' = [launch EXCEPT ![u] = "none"]
  BY ReportedEffect
<1>2. ResourceTrue(u) /\ ResourceTrue(v) /\ BatchInv /\ ListerInv(u)
  BY DEF CreatedInv, BaseInv
<1>3. launch[u] # "none"
  BY <1>1, <1>2 DEF BatchInv
<1>4. /\ \A w \in Resources \ {u} : crd'[w] = crd[w]
      /\ crd[u] \notin Code => crd'[u] = crd[u]
      /\ crd'[u] = crd[u] \/ crd'[u] = "CreationFailed" \/ (ReportCreated(u) /\ crd'[u] = "Created")
      /\ ReportNothing(u) \/ May("update") \/ crd[u] \notin Code \/ crd'[u] # crd[u]
         \/ crd[u] \in {"Created", "CreationFailed"}
  BY UpdateEffect DEF Code
<1>5. (~Live(v) <=> ~Live(v)') /\ (crd[v] # "none" => crd'[v] # "none")
  BY <1>4 DEF Live, TypeOK, Code
<1>6. \A w \in Resources : kube'[w] # "absent" <=> kube[w] # "absent"
  BY DEF TypeOK
<1>7. LaunchTrue(v)'
  BY <1>1, <1>2, <1>5, <1>6 DEF ResourceTrue, LaunchTrue, TypeOK
<1>8. HandlerTrue(v)'
  BY <1>1, <1>2, <1>5, <1>6 DEF ResourceTrue, HandlerTrue, Deleting, Gone, Asked, TypeOK
<1>9. NameTrue(v)'
  <2>1. group' = "ready"
    BY <1>1, <1>2 DEF BatchInv
  <2> QED
    BY <1>1, <1>2, <1>3, <1>4, <1>5, <2>1
       DEF ResourceTrue, NameTrue, Live, Present, Asked, TypeOK, Code
<1>10. StatusTrue(v)'
  <2>1. CASE v # u
    BY <1>1, <1>2, <1>4, <2>1 DEF ResourceTrue, StatusTrue, Asked, TypeOK
  <2>2. CASE v = u
    <3> SUFFICES ASSUME crd'[u] = "Created", node[u] # "none" PROVE u \in vm /\ kube'[u] = "owned"
      BY <1>1, <2>2 DEF StatusTrue
    <3>1. Live(u)
      BY <1>5, <2>2 DEF Live
    <3>2. u \in Present(lister)
      BY <1>2, <1>3, <3>1 DEF ListerInv, Present, Live, Gone, TypeOK
    <3>3. CASE ReportCreated(u)
      BY <1>2, <3>1, <3>3 DEF ResourceTrue, LaunchTrue, TypeOK
    <3>4. CASE ReportFailed(u)
      <4>1. crd[u] = "Created" /\ May("update")
        BY <1>4, <3>4, UpdateEffect DEF Code
      <4>2. ~Asked("remove")
        BY <4>1 DEF Truthful
      <4>3. ~Deleting(u)
        BY <1>1, <1>2, <3>1, <4>2
           DEF ResourceTrue, HandlerTrue, Deleting, Deleters, BaseInv, ListerInv, Live, Gone
      <4> QED
        BY <1>1, <1>2, <1>3, <3>1, <3>4, <4>3 DEF ResourceTrue, LaunchTrue, BatchInv
    <3> QED
      BY <3>2, <3>3, <3>4
  <2> QED
    BY <2>1, <2>2
<1> QED
  BY <1>7, <1>8, <1>9, <1>10 DEF ResourceTrue

\* The discovery puts into the group the nodes that have an owner.
LEMMA ServerTrue ==
  ASSUME TypeOK, BaseInv, CreatedInv, Truthful, Server \/ Dies, NEW v \in Resources
  PROVE  ResourceTrue(v)'
<1> USE DEF cluster, Down
<1>1. ResourceTrue(v) /\ BatchInv /\ BatchInv'
  BY ServerKeepsBase DEF CreatedInv, BaseInv
<1>2. CASE Start
  <2> USE <1>2 DEF Start, Up
  <2>1. LaunchTrue(v)' /\ StatusTrue(v)' /\ NameTrue(v)'
    BY <1>1
       DEF ResourceTrue, LaunchTrue, NameTrue, Up, StatusTrue, BatchInv, Live, Asked, TypeOK
  <2>2. HandlerTrue(v)'
    BY <1>1, ServerKeepsBase
       DEF ResourceTrue, HandlerTrue, BaseInv, ListerInv, Deleting, Live, Gone, Asked, TypeOK
  <2> QED
    BY <2>1, <2>2 DEF ResourceTrue
<1>3. CASE Register
  BY <1>1, <1>3
     DEF Register, ResourceTrue, LaunchTrue, HandlerTrue, NameTrue, Up, StatusTrue, Deleting, Live,
         Gone, Asked
<1>4. CASE Discover
  <2> USE <1>4 DEF Discover
  <2>1. launch[v] = "none"
    BY <1>1 DEF BatchInv
  <2>2. LaunchTrue(v)'
    BY <1>1, <2>1 DEF ResourceTrue, LaunchTrue, Live
  <2>3. NameTrue(v)'
    BY <1>1, <2>1 DEF ResourceTrue, NameTrue, BatchInv, Up, Live, Asked
  <2>4. node'[v] # "none" => kube[v] = "owned" /\ v \in vm
    BY <1>4
  <2>5. StatusTrue(v)'
    BY <2>4 DEF StatusTrue
  <2>6. HandlerTrue(v)'
    BY <1>1 DEF ResourceTrue, HandlerTrue, Deleting, Live, Gone, Asked
  <2> QED
    BY <2>2, <2>3, <2>5, <2>6 DEF ResourceTrue
<1>5. CASE Dies
  <2> USE <1>5 DEF Dies
  <2>1. LaunchTrue(v)' /\ NameTrue(v)' /\ StatusTrue(v)'
    BY <1>1 DEF ResourceTrue, LaunchTrue, NameTrue, Up, StatusTrue, Live, Asked
  <2>2. HandlerTrue(v)'
    BY ManagedNodesAssumption DEF HandlerTrue, Deleting, Deleters
  <2> QED
    BY <2>1, <2>2 DEF ResourceTrue
<1> QED
  BY <1>2, <1>3, <1>4, <1>5 DEF Server

\* What is asked for and what may happen does not change.
LEMMA EnvironmentStays ==
  ASSUME [Next]_vars
  PROVE  UNCHANGED env
<1>1. ASSUME NEW u \in Resources, User(u) \/ Informer(u) \/ Resync(u) PROVE UNCHANGED env
  BY <1>1 DEF User, CreateResource, DeleteResource, RemoveNode, Informer, Watch, HandleDeletion,
              HandleNodeIgnored, HandleNodeGone, Resync
<1>2. ASSUME NEW u \in Resources, Scan(u) \/ HandleManagedNode(u) PROVE UNCHANGED env
  BY <1>2 DEF Scan, HandleManagedNode, NothingToHandle, GroupNotFound, HandleWithoutNode,
              AddManagedNode
<1>3. ASSUME NEW u \in Resources, Launch(u) PROVE UNCHANGED env
  BY <1>3 DEF Launch, InstanceCreate, Joins, LaunchSucceeds, LaunchFails
<1>4. ASSUME NEW u \in Resources, StartManagedNodes(u) PROVE UNCHANGED env
  BY <1>4 DEF StartManagedNodes, ReportCreated, ReportFailed, ReportNothing, Reported
<1>5. ASSUME NEW d \in Deleters, DeleteNode(d) PROVE UNCHANGED env
  BY <1>5 DEF DeleteNode
<1>6. CASE Worker \/ Server
  BY <1>6 DEF Worker, ScanEnds, StartBatch, BatchEnds, Server, Start, Register, Discover
<1>7. CASE Stop \/ \E u \in Resources : AddManagedNodePanics(u)
  BY <1>7 DEF Stop, AddManagedNodePanics, Dies
<1>8. CASE UNCHANGED vars
  BY <1>8 DEF vars
<1> QED
  BY <1>1, <1>2, <1>3, <1>4, <1>5, <1>6, <1>7, <1>8 DEF Next

\* The process starts with nothing.
LEMMA InitTrue == Init => CreatedInv
BY ManagedNodesAssumption
   DEF Init, CreatedInv, ResourceTrue, LaunchTrue, HandlerTrue, NameTrue, Up, StatusTrue, Live, Gone,
       Deleting, Deleters

\* A status Created is true once nothing is under way for its resource, however late the
\* lister is and whatever statuses are lost, and after a crash at any point; where Kubernetes
\* nodes are removed, if that is after they were reported and the lister is not behind.
THEOREM CreatedCorrect == Spec => []CreatedIsTrue
<1>1. TypeOK /\ BaseInv /\ CreatedInv /\ [Next]_vars => CreatedInv'
  <2> SUFFICES ASSUME TypeOK, BaseInv, CreatedInv, [Next]_vars, Truthful, NEW v \in Resources
               PROVE  ResourceTrue(v)'
    BY EnvironmentStays DEF CreatedInv, Truthful, Asked, May
  <2>1. CASE UNCHANGED vars
    BY <2>1
       DEF vars, CreatedInv, ResourceTrue, LaunchTrue, HandlerTrue, NameTrue, Up, StatusTrue,
           Deleting, Live, Gone, Asked
  <2> QED
    BY <2>1, UserTrue, InformerTrue, DeleteNodeTrue, ScanTrue, HandleTrue, LaunchTrueStep,
       StartManagedNodesTrue, ServerTrue DEF Next, Stop, AddManagedNodePanics
<1>2. TypeOK /\ BaseInv /\ CreatedInv => CreatedIsTrue
  <2> SUFFICES ASSUME BaseInv, CreatedInv, Truthful, NEW u \in Resources, Settled(u),
                      crd[u] = "Created", node[u] # "none"
               PROVE  u \in vm /\ kube[u] = "owned"
    BY DEF CreatedIsTrue, Truthful
  <2> QED
    BY DEF CreatedInv, ResourceTrue, StatusTrue, BaseInv, BatchInv, Settled, Deleting, Deleters
<1> QED
  BY InitTrue, TypeCorrect, BaseCorrect, <1>1, <1>2, PTL DEF Spec

-----------------------------------------------------------------------------
(* GoneInv is inductive *)

\* Where nodes are removed, updates succeed, and the lister is not behind the launches.
LEMMA PromptOrder ==
  ASSUME InOrder, Asked("remove")
  PROVE  ~May("update") /\ ~Asked("lag")
BY DEF InOrder

\* The user deletes resources, and removes Kubernetes nodes, that were reported.
LEMMA UserOrder ==
  ASSUME TypeOK, BaseInv, GoneInv, InOrder, NEW u \in Resources, User(u)
  PROVE  NewInv' /\ \A v \in Resources \ undeleted' : ResourceOrder(v)'
<1>1. NewInv /\ (\A v \in Resources \ undeleted : ResourceOrder(v)) /\ BaseInv
  BY DEF GoneInv, BaseInv
<1>2. CASE CreateResource(u) \/ DeleteResource(u)
  <2> USE <1>2 DEF CreateResource, DeleteResource
  <2>1. crd[u] \in {"none", "Created"} /\ (crd[u] = "Created" => crd'[u] = "gone")
    BY DEF InOrder, TypeOK
  <2>2. crd[u] = "none" => crd'[u] = "NeedToCreated" /\ launch[u] = "none"
    BY <1>1 DEF BaseInv, ListerInv, TypeOK, Code
  <2>3. NewInv'
    BY <1>1, <2>1, <2>2 DEF NewInv, Final, TypeOK
  <2>4. \A v \in Resources : Final(v)' <=> Final(v)
    BY <2>1, <2>2 DEF Final, TypeOK
  <2>5. ASSUME NEW v \in Resources \ undeleted' PROVE ResourceOrder(v)'
    <3>1. ResourceOrder(v)
      BY <1>1
    <3>2. LaunchOrder(v)' /\ HandlerOrder(v)' /\ VMOrder(v)'
      BY <2>4, <3>1
         DEF ResourceOrder, LaunchOrder, HandlerOrder, VMOrder, Deleting, Gone, Asked,
             ControlPlanes
    <3>3. StatusOrder(v)'
      BY <2>1, <2>2, <2>4, <3>1
         DEF ResourceOrder, LaunchOrder, StatusOrder, Final, Gone, Asked, TypeOK
    <3> QED
      BY <3>2, <3>3 DEF ResourceOrder
  <2> QED
    BY <2>3, <2>5
<1>3. CASE RemoveNode(u)
  <2> USE <1>3 DEF RemoveNode
  <2>1. kube[u] = "owned" /\ Asked("remove") /\ (u \notin undeleted => Final(u))
    BY <1>1 DEF InOrder, ResourceOrder, HandlerOrder
  <2>2. NewInv'
    BY <1>1, <2>1 DEF NewInv, Final, TypeOK
  <2>3. ASSUME NEW v \in Resources \ undeleted' PROVE ResourceOrder(v)'
    <3>1. ResourceOrder(v)
      BY <1>1
    <3>2. LaunchOrder(v)' /\ StatusOrder(v)' /\ VMOrder(v)'
      BY <3>1
         DEF ResourceOrder, LaunchOrder, StatusOrder, VMOrder, Final, Deleting, Gone, Asked,
             ControlPlanes
    <3>3. HandlerOrder(v)'
      BY <2>1, <3>1 DEF ResourceOrder, HandlerOrder, NodeEvent, Final, Gone, Asked, TypeOK
    <3> QED
      BY <3>2, <3>3 DEF ResourceOrder
  <2> QED
    BY <2>2, <2>3
<1> QED
  BY <1>2, <1>3 DEF User

\* The watch has deleteManagedNode told; a handler that does not begin, because the group no
\* longer has the node, finds another one at work.
LEMMA InformerOrder ==
  ASSUME TypeOK, BaseInv, GoneInv, InOrder, NEW u \in Resources, Informer(u) \/ Resync(u)
  PROVE  NewInv' /\ \A v \in Resources \ undeleted' : ResourceOrder(v)'
<1> USE DEF cluster
<1>1. NewInv /\ (\A v \in Resources \ undeleted : ResourceOrder(v)) /\ BaseInv
  BY DEF GoneInv, BaseInv
<1>2. CASE Watch(u)
  <2> USE <1>2 DEF Watch
  <2>1. /\ lister'[u] = crd[u] /\ ~Gone(u)
        /\ \A w \in Resources \ {u} : lister'[w] = lister[w]
    BY <1>1 DEF BaseInv, ListerInv, Gone, TypeOK
  <2>2. deletions' \ {u} = deletions \ {u} /\ deletions \subseteq deletions'
    OBVIOUS
  <2>3. u \in deletions' => u \in deletions \/ crd[u] = "gone"
    BY <1>1 DEF BaseInv, ListerInv, TypeOK, Code
  <2>4. lister[u] # "none" /\ crd[u] = "gone" => u \in deletions'
    BY <2>1 DEF Gone, TypeOK, Code
  <2>5. NewInv'
    BY <1>1, <2>2, <2>3 DEF NewInv, Final
  <2>6. ASSUME NEW v \in Resources \ undeleted' PROVE ResourceOrder(v)'
    <3>1. ResourceOrder(v) /\ ListerInv(v)
      BY <1>1 DEF BaseInv
    <3>2. LaunchOrder(v)'
      BY <3>1 DEF ResourceOrder, LaunchOrder, Final
    <3>3. StatusOrder(v)'
      BY <2>1, <3>1 DEF ResourceOrder, StatusOrder, Final, Gone, Asked
    <3>4. HandlerOrder(v)'
      BY <2>1, <2>2, <2>3, <3>1
         DEF ResourceOrder, HandlerOrder, Final, Gone, Asked
    <3>5. VMOrder(v)'
      BY <2>1, <2>2, <2>4, <3>1 DEF ResourceOrder, ListerInv, VMOrder, Deleting, Gone, ControlPlanes
    <3> QED
      BY <3>2, <3>3, <3>4, <3>5 DEF ResourceOrder
  <2> QED
    BY <2>5, <2>6
<1>3. CASE HandleDeletion(u)
  <2> USE <1>3 DEF HandleDeletion, Begins
  <2>1. /\ group = "ready" /\ worker.pc \notin {"down", "scan"}
        /\ u \notin undeleted => Gone(u)
    BY <1>1 DEF NewInv, ResourceOrder, HandlerOrder
  <2>2. NewInv'
    BY <2>1 DEF NewInv
  <2>3. /\ \A e \in Deleters : deleting'[e] = deleting[e] \/ (e = "resource" /\ deleting'[e] = u)
        /\ node[u] # "none" => deleting'["resource"] = u
        /\ deleting["resource"] = NoResource
    BY <2>1 DEF TypeOK, Deleters
  <2>4. ASSUME NEW v \in Resources \ undeleted' PROVE ResourceOrder(v)'
    <3>1. ResourceOrder(v) /\ (u \notin undeleted => ResourceOrder(u)) /\ ListerInv(u)
      BY <1>1 DEF BaseInv
    <3>2. Deleting(v) => Deleting(v)'
      BY <2>3, ManagedNodesAssumption DEF Deleting, Deleters
    <3>3. u \in vm /\ u \notin undeleted => Deleting(u)'
      <4> SUFFICES ASSUME u \notin undeleted PROVE u \in vm => Deleting(u)'
        OBVIOUS
      <4>1. launch[u] = "none"
        BY <2>1, <3>1 DEF ResourceOrder, LaunchOrder, ListerInv, Final, Gone
      <4>2. u \in vm => node[u] = "running" \/ Deleting(u)
        BY <3>1, <4>1 DEF ResourceOrder, VMOrder
      <4>3. node[u] = "running" => Deleting(u)'
        BY <2>3 DEF Deleting, Deleters
      <4>4. Deleting(u) => Deleting(u)'
        BY <2>3, ManagedNodesAssumption DEF Deleting, Deleters
      <4> QED
        BY <4>2, <4>3, <4>4
    <3>4. LaunchOrder(v)' /\ StatusOrder(v)'
      BY <3>1 DEF ResourceOrder, LaunchOrder, StatusOrder, Final, Gone, Asked
    <3>5. HandlerOrder(v)'
      BY <2>1, <2>3, <3>1 DEF ResourceOrder, HandlerOrder, Final, Gone, Asked, Deleters
    <3>6. VMOrder(v)'
      <4>1. v # u /\ v \in deletions => v \in deletions'
        OBVIOUS
      <4> QED
        BY <3>1, <3>2, <3>3, <4>1 DEF ResourceOrder, VMOrder, Gone, ControlPlanes
    <3> QED
      BY <3>4, <3>5, <3>6 DEF ResourceOrder
  <2> QED
    BY <2>2, <2>4
<1>4. CASE HandleNodeIgnored(u) \/ Resync(u)
  <2> USE <1>4 DEF HandleNodeIgnored, Resync
  <2>1. NewInv'
    BY <1>1 DEF NewInv, Final
  <2>2. ASSUME NEW v \in Resources \ undeleted' PROVE ResourceOrder(v)'
    <3>1. ResourceOrder(v)
      BY <1>1
    <3> QED
      BY <3>1
         DEF ResourceOrder, LaunchOrder, StatusOrder, HandlerOrder, VMOrder, Final, Deleting,
             Gone, Asked, ControlPlanes
  <2> QED
    BY <2>1, <2>2
<1>5. CASE HandleNodeGone(u)
  <2> USE <1>5 DEF HandleNodeGone, Begins
  <2>1. /\ group = "ready" /\ worker.pc \notin {"down", "scan"} /\ ~Gone(u)
        /\ u \notin undeleted => Final(u)
    BY <1>1 DEF NewInv, ResourceOrder, HandlerOrder, Named, MaybeNamed, Gone
  <2>2. NewInv'
    BY <2>1 DEF NewInv
  <2>3. /\ \A e \in Deleters : deleting'[e] = deleting[e] \/ (e = "node" /\ deleting'[e] = u)
        /\ deleting["node"] = NoResource
        /\ deleting'["node"] = u => node[u] # "none"
    BY ManagedNodesAssumption DEF TypeOK, Deleters
  <2>4. /\ \A w \in Resources \ {u} : crd'[w] = crd[w]
        /\ crd'[u] \in {crd[u], "gone"}
        /\ u \notin undeleted => Final(u)'
    BY <2>1 DEF TypeOK, Final
  <2>5. u \notin undeleted => Asked("remove")
    BY <1>1, <2>1 DEF ResourceOrder, HandlerOrder
  <2>6. ASSUME NEW v \in Resources \ undeleted' PROVE ResourceOrder(v)'
    <3>1. ResourceOrder(v) /\ (u \notin undeleted => ResourceOrder(u))
      BY <1>1
    <3>2. u \notin undeleted => launch[u] = "none" /\ (crd'[u] = "Created" => crd[u] = "Created")
      BY <2>1, <2>4, <3>1 DEF ResourceOrder, LaunchOrder
    <3>3. Final(v)' <=> Final(v)
      BY <2>1, <2>4 DEF Final
    <3>4. Deleting(v) => Deleting(v)'
      BY <2>3, ManagedNodesAssumption DEF Deleting, Deleters
    <3>5. LaunchOrder(v)' /\ StatusOrder(v)'
      BY <2>4, <3>1, <3>2, <3>3 DEF ResourceOrder, LaunchOrder, StatusOrder, Final, Gone, Asked
    <3>6. HandlerOrder(v)' /\ VMOrder(v)'
      BY <2>1, <2>3, <2>5, <3>1, <3>3, <3>4
         DEF ResourceOrder, HandlerOrder, VMOrder, Gone, Asked, ControlPlanes, Deleters
    <3> QED
      BY <3>5, <3>6 DEF ResourceOrder
  <2> QED
    BY <2>2, <2>6
<1> QED
  BY <1>2, <1>3, <1>4, <1>5 DEF Informer

\* deleteNode ends for a reported resource: what it leaves of the VM another one deletes.
LEMMA DeleteNodeOrder ==
  ASSUME TypeOK, BaseInv, GoneInv, InOrder, NEW d \in Deleters, DeleteNode(d)
  PROVE  NewInv' /\ \A v \in Resources \ undeleted' : ResourceOrder(v)'
<1> USE DEF DeleteNode, DeleteVM
<1>1. PICK u \in Resources : u = deleting[d]
  BY DEF TypeOK
<1>2. NewInv /\ (\A v \in Resources \ undeleted : ResourceOrder(v)) /\ BaseInv
  BY DEF GoneInv, BaseInv
<1>3. group = "ready" /\ worker.pc \notin {"down", "scan"}
  BY <1>2 DEF NewInv
<1>4. NewInv'
  BY <1>3 DEF NewInv
<1>5. ASSUME u \notin undeleted
      PROVE  \/ d = "resource" /\ Gone(u)
             \/ d = "node" /\ Asked("remove")
  BY <1>1, <1>2, <1>5 DEF ResourceOrder, HandlerOrder, Deleters
<1>6. ASSUME u \notin undeleted
      PROVE  Final(u) /\ launch[u] = "none" /\ crd'[u] = "gone"
  <2> USE <1>6
  <2>1. Final(u)
    BY <1>1, <1>2, <1>5 DEF BaseInv, ResourceOrder, HandlerOrder, ListerInv, Final
  <2>2. launch[u] = "none"
    BY <1>2, <2>1 DEF ResourceOrder, LaunchOrder
  <2>3. crd'[u] = "gone"
    BY <1>1, <1>2, <1>5, <2>1 DEF BaseInv, ListerInv, Final, TypeOK, Code
  <2> QED
    BY <2>1, <2>2, <2>3
<1>7. \A w \in Resources \ {u} :
        /\ crd'[w] = crd[w] /\ node'[w] = node[w] /\ kube'[w] = kube[w] /\ (w \in vm' <=> w \in vm)
        /\ w \in nodeEvents' <=> w \in nodeEvents
  BY <1>1 DEF TypeOK, NodeEvent
<1>8. /\ \A e \in Deleters \ {d} : deleting'[e] = deleting[e]
      /\ deleting'[d] = NoResource
  BY DEF TypeOK
<1>9. ASSUME NEW v \in Resources \ undeleted', v # u PROVE ResourceOrder(v)'
  <2>1. ResourceOrder(v) /\ (Deleting(v) <=> Deleting(v)')
    BY <1>1, <1>2, <1>8, <1>9, ManagedNodesAssumption DEF Deleting
  <2>2. LaunchOrder(v)' /\ StatusOrder(v)'
    BY <1>7, <1>9, <2>1 DEF ResourceOrder, LaunchOrder, StatusOrder, Final, Gone, Asked
  <2>3. HandlerOrder(v)'
    BY <1>7, <1>8, <1>9, <2>1, ManagedNodesAssumption
       DEF ResourceOrder, HandlerOrder, Final, Gone, Asked, Deleters
  <2>4. VMOrder(v)'
    BY <1>7, <1>9, <2>1 DEF ResourceOrder, VMOrder, Gone, ControlPlanes
  <2> QED
    BY <2>2, <2>3, <2>4 DEF ResourceOrder
<1>10. ASSUME u \notin undeleted' PROVE ResourceOrder(u)'
  <2>1. u \notin undeleted /\ ResourceOrder(u) /\ ListerInv(u)
    BY <1>2, <1>10 DEF BaseInv
  <2>2. LaunchOrder(u)' /\ StatusOrder(u)'
    BY <1>5, <1>6, <2>1 DEF ResourceOrder, LaunchOrder, StatusOrder, Final, Gone, Asked
  <2>3. HandlerOrder(u)'
    <3>1. deleting'["scan"] # u /\ Final(u)'
      BY <1>1, <1>5, <1>6, <1>8, <2>1 DEF ResourceOrder, HandlerOrder, Final, Deleters
    <3>2. deleting'["resource"] = u => Gone(u)
      BY <1>8, <2>1, ManagedNodesAssumption DEF ResourceOrder, HandlerOrder, Deleters
    <3>3. deleting'["node"] = u => Asked("remove")
      BY <1>8, <2>1, ManagedNodesAssumption DEF ResourceOrder, HandlerOrder, Deleters
    <3> QED
      BY <1>5, <2>1, <3>1, <3>2, <3>3 DEF ResourceOrder, HandlerOrder, Gone, Asked
  <2>4. VMOrder(u)'
    <3>1. CASE u \in ControlPlanes
      BY <1>1, <1>6, <2>1, <3>1 DEF ResourceOrder, VMOrder, Gone, ControlPlanes
    <3>2. CASE u \notin ControlPlanes
      <4>1. u \in vm' => \E e \in Deleters \ {d} : deleting[e] = u
        BY <1>1, <1>10, <3>2
      <4>2. u \in vm' => Deleting(u)'
        BY <1>8, <4>1 DEF Deleting
      <4> QED
        BY <3>2, <4>2 DEF VMOrder, ControlPlanes
    <3> QED
      BY <3>1, <3>2
  <2> QED
    BY <2>2, <2>3, <2>4 DEF ResourceOrder
<1> QED
  BY <1>4, <1>9, <1>10

\* The scan is over before the first node is made; it finds nothing.
LEMMA ScanOrder ==
  ASSUME TypeOK, BaseInv, GoneInv, InOrder, Worker \/ \E u \in Resources : Scan(u)
  PROVE  NewInv' /\ \A v \in Resources \ undeleted' : ResourceOrder(v)'
<1> USE DEF cluster
<1>1. /\ NewInv
      /\ \A v \in Resources \ undeleted : ResourceOrder(v)
  BY DEF GoneInv
<1>2. UNCHANGED <<env, crd, lister, deletions, nodeEvents, deleting, group, node, launch, vm,
                 undeleted, kube>>
  <2>1. ASSUME NEW u \in Resources, Scan(u) PROVE UNCHANGED deleting
    BY <1>1, <2>1 DEF Scan, Begins, NewInv
  <2> QED
    BY <2>1 DEF Scan, Worker, ScanEnds, StartBatch, BatchEnds
<1>3. worker'.pc \in {"down", "scan"} => worker.pc \in {"down", "scan"}
  BY DEF Scan, Worker, ScanEnds, StartBatch, BatchEnds, TypeOK
<1>4. NewInv'
  BY <1>1, <1>2, <1>3 DEF NewInv, Final
<1>5. ASSUME NEW v \in Resources \ undeleted' PROVE ResourceOrder(v)'
  <2>1. ResourceOrder(v)
    BY <1>1, <1>2
  <2> QED
    BY <1>2, <2>1
       DEF ResourceOrder, LaunchOrder, StatusOrder, HandlerOrder, VMOrder, Final, Deleting, Gone,
           Asked, ControlPlanes
<1> QED
  BY <1>4, <1>5

\* A step that only writes a status, other than Created, of a resource that was not reported
\* and is not being launched, or is gone.
LEMMA ReportOrder ==
  ASSUME TypeOK, NewInv, \A v \in Resources \ undeleted : ResourceOrder(v), NEW u \in Resources,
         NEW code \in Code \ {"Created"}, UpdateStatus(u, code),
         u \in undeleted \/ (launch[u] = "none" /\ crd[u] # "Created"),
         UNCHANGED <<env, lister, deletions, nodeEvents, deleting, worker, group, node, launch,
                     vm, undeleted, kube>>
  PROVE  NewInv' /\ \A v \in Resources \ undeleted' : ResourceOrder(v)'
<1>1. \A w \in Resources \ undeleted :
        (Final(w)' <=> Final(w)) /\ (w # u => crd'[w] = crd[w]) /\ (w = u => crd'[w] # "Created")
  BY UpdateEffect DEF Final, TypeOK, Code
<1>2. NewInv'
  BY <1>1 DEF NewInv
<1>3. ASSUME NEW v \in Resources \ undeleted' PROVE ResourceOrder(v)'
  <2>1. ResourceOrder(v)
    OBVIOUS
  <2>2. LaunchOrder(v)' /\ HandlerOrder(v)' /\ VMOrder(v)'
    BY <1>1, <2>1
       DEF ResourceOrder, LaunchOrder, HandlerOrder, VMOrder, Deleting, Gone, Asked, ControlPlanes
  <2>3. StatusOrder(v)'
    BY <1>1, <2>1 DEF ResourceOrder, StatusOrder, Gone, Asked
  <2> QED
    BY <2>2, <2>3 DEF ResourceOrder
<1> QED
  BY <1>2, <1>3

\* A step that changes nothing the invariant looks at keeps it.
LEMMA SameOrder ==
  ASSUME NewInv, \A v \in Resources \ undeleted : ResourceOrder(v),
         UNCHANGED <<env, crd, lister, deletions, nodeEvents, deleting, worker, group, node,
                     launch, vm,
                 undeleted, kube>>
  PROVE  NewInv' /\ \A v \in Resources \ undeleted' : ResourceOrder(v)'
<1>1. NewInv'
  BY DEF NewInv, Final
<1>2. ASSUME NEW v \in Resources \ undeleted' PROVE ResourceOrder(v)'
  <2>1. ResourceOrder(v)
    OBVIOUS
  <2> QED
    BY <2>1
       DEF ResourceOrder, LaunchOrder, StatusOrder, HandlerOrder, VMOrder, Final, Deleting, Gone,
           Asked, ControlPlanes
<1> QED
  BY <1>1, <1>2

\* handleManagedNode adds a node only for a resource that was not reported: the status it goes
\* by may be old, but not so old.
LEMMA HandleOrder ==
  ASSUME TypeOK, BaseInv, GoneInv, InOrder, NEW u \in Resources, HandleManagedNode(u)
  PROVE  NewInv' /\ \A v \in Resources \ undeleted' : ResourceOrder(v)'
<1> USE DEF cluster
<1>1. /\ NewInv /\ (\A v \in Resources \ undeleted : ResourceOrder(v))
      /\ u \notin undeleted => ResourceOrder(u)
      /\ ListerInv(u) /\ BatchInv
  BY DEF GoneInv, BaseInv
<1>2. CASE NothingToHandle(u)
  BY <1>1, <1>2, SameOrder DEF NothingToHandle
<1>3. CASE GroupNotFound(u)
  <2>1. launch[u] = "none" /\ crd[u] # "Created"
    BY <1>1, <1>3 DEF GroupNotFound, BatchInv, NewInv, Final
  <2> QED
    BY <1>1, <1>3, <2>1, ReportOrder, SameOrder DEF GroupNotFound, Report, Code
<1>4. CASE HandleWithoutNode(u)
  <2> USE DEF HandleWithoutNode, Take, ToCreate
  <2>1. u \in undeleted \/ (launch[u] = "none" /\ crd[u] # "Created")
    BY <1>1, <1>4 DEF BatchInv, ResourceOrder, LaunchOrder, StatusOrder
  <2>2. PICK code \in Code \ {"Created"} : Report(u, code)
    BY <1>4 DEF Code
  <2>3. UNCHANGED <<env, lister, deletions, nodeEvents, deleting, worker, group, node, launch,
                    vm, undeleted, kube>>
    BY <1>4
  <2> QED
    BY <1>1, <2>1, <2>2, <2>3, ReportOrder, SameOrder DEF Report
<1>5. CASE AddManagedNode(u)
  <2> USE <1>5 DEF AddManagedNode, Take, ToCreate
  <2>1. u \notin undeleted => launch[u] = "none" /\ ~Final(u)
    BY <1>1 DEF BatchInv, ResourceOrder, LaunchOrder, StatusOrder, Final, Gone
  <2>2. u \notin undeleted => ~Deleting(u) /\ u \notin vm
    BY <1>1, <2>1
       DEF ResourceOrder, HandlerOrder, VMOrder, ListerInv, Final, Deleting, Deleters
  <2>3. UpdateStatus(u, "Creation")
    BY DEF Report
  <2>4. /\ \A w \in Resources \ {u} : crd'[w] = crd[w]
        /\ crd'[u] \in {crd[u], "Creation"}
        /\ ~May("update") /\ crd[u] \in Code => crd'[u] = "Creation"
    BY <2>3, UpdateEffect DEF Code
  <2>5. Asked("remove") /\ u \notin undeleted => crd'[u] = "Creation"
    BY <1>1, <2>1, <2>4, PromptOrder DEF ListerInv, Final, TypeOK
  <2>6. \A w \in Resources \ undeleted : Final(w)' <=> Final(w)
    BY <2>1, <2>4 DEF Final
  <2>7. NewInv'
    BY <1>1 DEF NewInv, TypeOK
  <2>8. ASSUME NEW v \in Resources \ undeleted' PROVE ResourceOrder(v)'
    <3>1. ResourceOrder(v)
      BY <1>1
    <3>2. LaunchOrder(v)'
      BY <2>1, <2>2, <2>6, <3>1 DEF ResourceOrder, LaunchOrder, TypeOK
    <3>3. StatusOrder(v)'
      BY <2>1, <2>4, <2>5, <2>6, <3>1 DEF ResourceOrder, StatusOrder, Final, Gone, Asked, TypeOK
    <3>4. HandlerOrder(v)' /\ VMOrder(v)'
      BY <2>2, <2>6, <3>1
         DEF ResourceOrder, HandlerOrder, VMOrder, Deleting, Gone, Asked, ControlPlanes, TypeOK
    <3> QED
      BY <3>2, <3>3, <3>4 DEF ResourceOrder
  <2> QED
    BY <2>7, <2>8
<1> QED
  BY <1>2, <1>3, <1>4, <1>5 DEF HandleManagedNode

\* What is launched was not reported, so nobody is deleting it.
LEMMA LaunchOrderStep ==
  ASSUME TypeOK, BaseInv, GoneInv, InOrder, NEW u \in Resources, Launch(u)
  PROVE  NewInv' /\ \A v \in Resources \ undeleted' : ResourceOrder(v)'
<1> USE DEF Launch, InstanceCreate, Joins, LaunchSucceeds, LaunchFails, DeleteVM, Launching,
        cluster
<1>1. /\ \A v \in Resources \ undeleted : ResourceOrder(v)
      /\ u \notin undeleted => ResourceOrder(u)
      /\ ListerInv(u) /\ BatchInv
  BY DEF GoneInv, BaseInv
<1>2. /\ group = "ready" /\ worker.pc = "launch" /\ launch[u] # "none"
      /\ u \notin undeleted => ~Final(u)
  BY <1>1 DEF BatchInv, ResourceOrder, LaunchOrder
<1>3. NewInv'
  BY <1>2 DEF NewInv
<1>4. u \notin undeleted => ~Deleting(u) /\ ~Gone(u)
  BY <1>1, <1>2 DEF ResourceOrder, HandlerOrder, ListerInv, Final, Deleting, Deleters
<1>5. launch'[u] \in {"joined", "done"} /\ Asked("remove") /\ u \notin undeleted' =>
        lister[u] = "Creation"
  BY <1>1, PromptOrder DEF ResourceOrder, StatusOrder, TypeOK
<1>6. ASSUME NEW v \in Resources \ undeleted' PROVE ResourceOrder(v)'
  <2>1. ResourceOrder(v)
    BY <1>1
  <2>2. LaunchOrder(v)'
    BY <1>2, <1>4, <2>1 DEF ResourceOrder, LaunchOrder, Final, TypeOK
  <2>3. StatusOrder(v)'
    BY <1>2, <1>5, <2>1 DEF ResourceOrder, StatusOrder, Final, Gone, Asked, TypeOK
  <2>4. HandlerOrder(v)'
    BY <1>2, <2>1 DEF ResourceOrder, HandlerOrder, Final, Gone, Asked, TypeOK
  <2>5. VMOrder(v)'
    BY <1>2, <1>4, <2>1 DEF ResourceOrder, VMOrder, Deleting, Gone, ControlPlanes, TypeOK
  <2> QED
    BY <2>2, <2>3, <2>4, <2>5 DEF ResourceOrder
<1> QED
  BY <1>3, <1>6

\* The report makes the status final for a node that runs in the group.
LEMMA StartManagedNodesOrder ==
  ASSUME TypeOK, BaseInv, GoneInv, InOrder, NEW u \in Resources, StartManagedNodes(u)
  PROVE  NewInv' /\ \A v \in Resources \ undeleted' : ResourceOrder(v)'
<1> USE DEF StartManagedNodes, ReportCreated, ReportFailed, ReportNothing
<1>1. /\ UNCHANGED <<env, lister, deletions, nodeEvents, deleting, group, node, vm,
                       undeleted>>
      /\ worker.pc = "report" /\ u \in worker.batch
      /\ worker'.pc \in {"report", "items"}
      /\ launch' = [launch EXCEPT ![u] = "none"]
  BY ReportedEffect
<1>2. /\ \A v \in Resources \ undeleted : ResourceOrder(v)
      /\ u \notin undeleted => ResourceOrder(u)
      /\ ListerInv(u) /\ BatchInv
  BY DEF GoneInv, BaseInv
<1>3. /\ launch[u] \in {"done", "failed"} /\ group = "ready"
      /\ u \notin undeleted => ~Final(u)
  BY <1>1, <1>2 DEF BatchInv, ResourceOrder, LaunchOrder
<1>4. NewInv'
  BY <1>1, <1>3 DEF NewInv
<1>5. /\ \A w \in Resources \ {u} : crd'[w] = crd[w] /\ kube'[w] = kube[w]
      /\ crd'[u] \in {crd[u], "CreationFailed"} \/ (ReportCreated(u) /\ crd'[u] = "Created")
  BY UpdateEffect DEF Code, TypeOK
<1>6. ReportCreated(u) /\ u \notin undeleted => launch[u] = "done" /\ node[u] = "running"
  BY <1>2 DEF ResourceOrder, LaunchOrder
<1>7. Asked("remove") /\ ReportCreated(u) /\ u \notin undeleted => crd'[u] = "Created"
  BY <1>2, <1>3, PromptOrder, UpdateEffect DEF ResourceOrder, StatusOrder, Code
<1>8. kube'[u] = "owned" => kube[u] = "owned" \/ ReportCreated(u)
  BY DEF TypeOK
<1>9. u \notin undeleted => crd'[u] # "gone" /\ ~Gone(u) /\ ~Deleting(u)
  BY <1>2, <1>3, <1>5
     DEF Final, ResourceOrder, HandlerOrder, ListerInv, Gone, Deleting, Deleters
<1>10. ASSUME NEW v \in Resources \ undeleted', v # u PROVE ResourceOrder(v)'
  <2>1. ResourceOrder(v) /\ launch'[v] = launch[v] /\ crd'[v] = crd[v] /\ kube'[v] = kube[v]
    BY <1>1, <1>2, <1>5, <1>10 DEF TypeOK
  <2> QED
    BY <1>1, <2>1
       DEF ResourceOrder, LaunchOrder, StatusOrder, HandlerOrder, VMOrder, Final, Deleting, Gone,
           Asked, ControlPlanes
<1>11. ASSUME u \notin undeleted PROVE ResourceOrder(u)'
  <2> USE <1>11
  <2>1. launch'[u] = "none"
    BY <1>1 DEF TypeOK
  <2>2. LaunchOrder(u)'
    BY <2>1 DEF LaunchOrder
  <2>3. StatusOrder(u)'
    <3>1. crd'[u] = "Created" => ReportCreated(u)
      BY <1>3, <1>5 DEF Final
    <3>2. Final(u)' => ReportCreated(u)
      BY <1>9, <3>1 DEF Final
    <3>3. Asked("remove") /\ ReportCreated(u) => lister[u] = "Creation"
      BY <1>2, <1>6 DEF ResourceOrder, StatusOrder
    <3> QED
      BY <1>1, <1>6, <2>1, <3>1, <3>2, <3>3 DEF StatusOrder, Gone, Asked
  <2>4. HandlerOrder(u)'
    <3>1. ~Deleting(u)' /\ u \notin deletions /\ u \notin nodeEvents
      BY <1>1, <1>2, <1>3, <1>9 DEF ResourceOrder, HandlerOrder, Deleting
    <3>2. kube'[u] = "owned" /\ Asked("remove") => Final(u)'
      BY <1>2, <1>3, <1>7, <1>8 DEF ResourceOrder, HandlerOrder, Final
    <3> QED
      BY <1>1, <3>1, <3>2 DEF HandlerOrder, Deleting, Deleters, Asked
  <2>5. VMOrder(u)'
    BY <1>1, <1>2, <1>3, <1>9 DEF ResourceOrder, LaunchOrder, VMOrder, Gone
  <2> QED
    BY <2>2, <2>3, <2>4, <2>5 DEF ResourceOrder
<1> QED
  BY <1>1, <1>4, <1>10, <1>11

\* The process starts, and dies, only before it has made a node.
LEMMA ServerOrder ==
  ASSUME TypeOK, BaseInv, GoneInv, InOrder, Server \/ (Dies /\ group # "ready")
  PROVE  NewInv' /\ \A v \in Resources \ undeleted' : ResourceOrder(v)'
<1> USE DEF cluster, Down
<1>1. NewInv /\ (\A v \in Resources \ undeleted : ResourceOrder(v)) /\ BatchInv
  BY DEF GoneInv, BaseInv
<1>2. group # "ready" \/ worker.pc = "down"
  BY DEF Server, Start, Register, Discover, Up
<1>3. /\ vm = {} /\ undeleted = {} /\ nodeEvents = {} /\ deletions = {}
      /\ \A d \in Deleters : deleting[d] = NoResource
      /\ \A u \in Resources :
           kube[u] = "absent" /\ node[u] = "none" /\ ~Final(u) /\ launch[u] = "none"
  BY <1>1, <1>2 DEF NewInv, BatchInv
<1>4. /\ vm' = {} /\ undeleted' = {} /\ nodeEvents' = {} /\ deletions' = {}
      /\ \A d \in Deleters : deleting'[d] = NoResource
      /\ \A u \in Resources :
           kube'[u] = "absent" /\ node'[u] = "none" /\ ~Final(u)' /\ launch'[u] = "none"
  BY <1>3 DEF Server, Start, Register, Discover, Dies, Final
<1>5. NewInv'
  BY <1>4 DEF NewInv
<1>6. ASSUME NEW v \in Resources \ undeleted' PROVE ResourceOrder(v)'
  BY <1>4, ManagedNodesAssumption
     DEF ResourceOrder, LaunchOrder, StatusOrder, HandlerOrder, VMOrder, Final, Deleters
<1> QED
  BY <1>5, <1>6

\* The process starts with nothing.
LEMMA InitOrder == Init => GoneInv
BY ManagedNodesAssumption
   DEF Init, GoneInv, NewInv, ResourceOrder, LaunchOrder, StatusOrder, HandlerOrder, VMOrder,
       Final, Gone, Down, Deleters

\* When nothing is under way for a resource that is gone, its VM is gone, too, but where
\* deleteVM failed: of the handlers that meet at one node, each of which takes the node away
\* from the others and of which deleteVM refuses all but the last, that one deletes the VM, or
\* fails to.
THEOREM GoneCorrect == Spec => []GoneInOrder
<1>1. TypeOK /\ BaseInv /\ GoneInv /\ [Next]_vars => GoneInv'
  <2> SUFFICES ASSUME TypeOK, BaseInv, GoneInv, [Next]_vars, InOrder
               PROVE  NewInv' /\ \A v \in Resources \ undeleted' : ResourceOrder(v)'
    BY EnvironmentStays DEF GoneInv, InOrder, Asked, May
  <2>1. CASE UNCHANGED vars
    BY <2>1, SameOrder DEF vars, GoneInv
  <2>2. CASE Stop
    BY <2>2 DEF Stop, InOrder
  <2>3. ASSUME NEW u \in Resources, AddManagedNodePanics(u)
        PROVE  NewInv' /\ \A v \in Resources \ undeleted' : ResourceOrder(v)'
    BY <2>3, ServerOrder DEF AddManagedNodePanics
  <2> QED
    BY <2>1, <2>2, <2>3, UserOrder, InformerOrder, DeleteNodeOrder, ScanOrder, HandleOrder,
       LaunchOrderStep, StartManagedNodesOrder, ServerOrder DEF Next
<1>2. TypeOK /\ BaseInv /\ GoneInv => GoneInOrder
  <2> SUFFICES ASSUME BaseInv, GoneInv, InOrder, NEW u \in Resources \ ControlPlanes, Settled(u),
                      crd[u] = "gone", u \notin undeleted
               PROVE  u \notin vm
    BY DEF GoneInOrder, GoneWithResource, InOrder
  <2> QED
    BY DEF GoneInv, ResourceOrder, VMOrder, Settled, Gone
<1> QED
  BY InitOrder, TypeCorrect, BaseCorrect, <1>1, <1>2, PTL DEF Spec
=============================================================================
