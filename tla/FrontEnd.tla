------------------------------ MODULE FrontEnd ------------------------------
(***************************************************************************)
(* The two front ends, request by request (grpc.go, externalgrpc.go): who is *)
(* refused, what is answered in which message, what becomes of the groups,   *)
(* and which work goes on after the answer.                                  *)
(*                                                                           *)
(* A request that changes nothing is an operator that gives its answer in    *)
(* the current state, whichever front end is configured.  A request that     *)
(* changes the groups is an action, or several when it waits for the cloud.  *)
(* Launches and deletions are one step here; indexes, the lock and the wait  *)
(* group are in module NodeGroup, and so is DecreaseTargetSize.              *)
(*                                                                           *)
(* A caller is a handler.  A client whose deadline has passed may send again *)
(* while the handler, which never looks at its context, goes on: this is a   *)
(* second caller.                                                            *)
(*                                                                           *)
(* A definition that stands before another one and is named after it is a    *)
(* faulty variant of it that no action uses.                                 *)
(***************************************************************************)
EXTENDS Integers, Sequences, FiniteSets
LOCAL INSTANCE SequencesExt
LOCAL INSTANCE TLC

CONSTANTS
  Nil,            \* the nil pointer
  Callers,        \* the handlers that run at a time
  GroupIds,       \* the names of groups
  Nodes,          \* the names of nodes
  Owner,          \* the group that gives a name
  MaxNodeSize,    \* MaxNodeSize of every group
  Leading,        \* the nodes that DeleteNodes may name first of two, or without annotation
  Configurations  \* the configurations of the server and what may happen

OptionalMethods ==
  {"Pricing", "GetAvailableMachineTypes", "NewNodeGroup", "TemplateNodeInfo", "Create", "Delete"}

ASSUME FrontEndAssumption ==
  /\ GroupIds \subseteq STRING /\ Nodes \subseteq STRING /\ "" \notin GroupIds \cup Nodes
  /\ IsFiniteSet(GroupIds) /\ IsFiniteSet(Nodes)
  /\ Owner \in [Nodes -> GroupIds]
  /\ MaxNodeSize \in Nat
  /\ Configurations \subseteq
       [front : {"grpc", "externalgrpc"}, optionals : SUBSET OptionalMethods,
        ids : {"provider", "k3s", "none"},  \* where generateProviderID takes the id from
        options : BOOLEAN,                  \* it has AutoScalingOptions, and they can be parsed
        mins : SUBSET {0, 1},               \* MinNodeSize of the groups that clients ask for
        overlap : BOOLEAN,                  \* handlers run at the same time
        faults : SUBSET {"launch", "delete", "status"}]

\* A Kubernetes node as a client sends it: JSON that may be unreadable, with or without the
\* annotation that names the group.
Annotated == GroupIds \cup {"unknown", ""}
Documents == [readable : BOOLEAN, name : STRING, group : Annotated]

Resources == {"cpu", "gpu"}
G == INSTANCE GrpcMessages WITH Keys <- Resources, Amounts <- 0 .. 3
X == INSTANCE ExternalMessages WITH Keys <- Resources, Amounts <- 0 .. 3, Annotations <- Annotated

VARIABLES
  conf,     \* the configuration, does not change
  groups,   \* s.Groups
  state,    \* State of a node
  phase,    \* how far the creation of a node is
  vm,       \* the nodes that have a VM
  call,     \* the handlers
  down      \* the process died of a panic

vars == <<conf, groups, state, phase, vm, call, down>>

Group ==
  [status : {"absent", "NotCreated", "Created", "Deleting", "Deleted"}, min : {0, 1},
   auto : BOOLEAN, nodes : SUBSET Nodes, pending : SUBSET Nodes]
Absent == [status |-> "absent", min |-> 0, auto |-> FALSE, nodes |-> {}, pending |-> {}]

Exists(id) == id \in GroupIds /\ groups[id].status # "absent"
TargetSize(g) == Cardinality(g.nodes) + Cardinality(g.pending)
AllNodes(g) == SetToSeq(g.nodes) \o SetToSeq(g.pending)
FindNamedNode(g, n) == n \in g.nodes \cup g.pending

-----------------------------------------------------------------------------
(* Answers of the grpc front end *)

Fail == [failed |-> TRUE]  \* an error of the call instead of a reply
Err == [Code |-> "cloudProviderError", Reason |-> "reason"]

ServiceIdentifier == "me"
IsCallDenied(request) == request.ProviderID # ServiceIdentifier

Checked(request, reply) == IF IsCallDenied(request) THEN Fail ELSE reply
Optional(method, reply) == IF method \in conf.optionals THEN Fail ELSE reply
ForGroup(request, reply, unknown) ==
  Checked(request, IF Exists(request.NodeGroupID) THEN reply ELSE unknown)

\* The annotation of a node names a group: what to answer when it does, when there is no such
\* group, and when there is no annotation.
ForNode(request, found, unannotated) ==
  Checked(request, CASE ~request.Node.readable -> [Error |-> Err]
                     [] request.Node.readable /\ request.Node.group = "" -> unannotated
                     [] request.Node.readable /\ Exists(request.Node.group) -> found
                     [] OTHER -> [Error |-> Err])

Only(key, value) == [k \in Resources |-> IF k = key THEN value ELSE Nil]

GName(r) == Checked(r, [Name |-> "grpc"])
GNodeGroups(r) ==
  Checked(r, [NodeGroups |-> SetToSeq({[Id |-> id] : id \in {i \in GroupIds : groups[i].status = "Created"}})])
GNodeGroupForNodeNil(r) == ForNode(r, [NodeGroup |-> [Id |-> r.Node.group]], [NodeGroup |-> Nil])
GNodeGroupForNode(r) ==
  ForNode(r, [NodeGroup |-> [Id |-> r.Node.group]], [NodeGroup |-> [Id |-> ""]])
GPricing(r) == Optional("Pricing", Checked(r, [PriceModel |-> [Id |-> ServiceIdentifier]]))
GMachineTypes(r) ==
  Optional("GetAvailableMachineTypes",
           Checked(r, [AvailableMachineTypes |-> [MachineType |-> <<"small">>]]))
GResourceLimiter(r) ==
  Checked(r, [ResourceLimiter |-> [MinLimits |-> Only("cpu", 1), MaxLimits |-> Only("cpu", 3)]])
GGPULabel(r) == Checked(r, [Gpulabel |-> ""])
GGPUTypes(r) == Checked(r, [AvailableGpuTypes |-> Only("gpu", "type")])

\* MaxSize, MinSize, Exist and Autoprovisioned have no error: an unknown group gives zero.
GMaxSize(r) == ForGroup(r, [MaxSize |-> MaxNodeSize], [MaxSize |-> 0])
GMinSize(r) == ForGroup(r, [MinSize |-> groups[r.NodeGroupID].min], [MinSize |-> 0])
GExist(r) == ForGroup(r, [Exists |-> TRUE], [Exists |-> FALSE])
GAutoprovisioned(r) ==
  ForGroup(r, [Autoprovisioned |-> groups[r.NodeGroupID].auto], [Autoprovisioned |-> FALSE])
GTargetSize(r) ==
  ForGroup(r, [TargetSize |-> TargetSize(groups[r.NodeGroupID])], [Error |-> Err])
GId(r) == ForGroup(r, [Response |-> r.NodeGroupID], Fail)
GDebug(r) == ForGroup(r, [Response |-> "id"], Fail)

\* generateProviderID: the provider's, once there is a VM, that of the distribution, or none.
GenerateProviderID(n) ==
  CASE conf.ids = "provider" -> IF n \in vm THEN n ELSE ""
    [] conf.ids = "k3s" -> n
    [] OTHER -> ""

InstanceState(s) ==
  CASE s = "Running" -> "STATE_RUNNING"
    [] s = "Creating" -> "STATE_BEING_CREATED"
    [] s = "Deleted" -> "STATE_BEING_DELETED"
    [] OTHER -> "STATE_UNDEFINED"
GInstance(n) ==
  [Id |-> GenerateProviderID(n), Status |-> [State |-> InstanceState(state[n]), ErrorInfo |-> Nil]]
Mapped(names, Instance(_)) == [i \in DOMAIN names |-> Instance(names[i])]
GNodes(r) ==
  ForGroup(r, [Instances |-> [Items |-> Mapped(AllNodes(groups[r.NodeGroupID]), GInstance)]], [Error |-> Err])

Template(id) == [readable |-> TRUE, name |-> "", group |-> id]
GTemplateNodeInfo(r) ==
  Optional("TemplateNodeInfo",
    ForGroup(r, [NodeInfo |-> [Node |-> Template(r.NodeGroupID), Pods |-> <<>>, UsedPorts |-> Nil,
                               RequestedResource |-> Nil, NonzeroRequest |-> Nil,
                               ImageStates |-> [k \in Resources |-> Nil], TransientInfo |-> Nil, Generation |-> 0]],
             [Error |-> Err]))

GBelongs(r) ==
  ForNode(r, [Belongs |-> FindNamedNode(groups[r.Node.group], r.Node.name)], [Error |-> Err])

\* GetOptions of the group: those of the configuration, or the client's defaults.
Configured ==
  [ScaleDownUtilizationThreshold |-> 0, ScaleDownGpuUtilizationThreshold |-> 1,
   ScaleDownUnneededTime |-> 2, ScaleDownUnreadyTime |-> 2, MaxNodeProvisionTime |-> 3,
   ZeroOrMaxNodeScaling |-> TRUE, IgnoreDaemonSetsUtilization |-> FALSE]
GroupOptions(defaults) == IF conf.options THEN Configured ELSE defaults

\* Two of the fields of the defaults are mixed up on the way.
GGetOptions(r) ==
  LET d == r.Defaults IN
  Checked(r, IF d = Nil \/ ~Exists(r.NodeGroupID) THEN [Error |-> Err]
             ELSE [NodeGroupAutoscalingOptions |->
                     GroupOptions([d EXCEPT !.ScaleDownUtilizationThreshold = d.ScaleDownGpuUtilizationThreshold,
                                            !.ScaleDownUnreadyTime = d.ScaleDownUnneededTime])])
GNodePrice(r) == Checked(r, [Price |-> 1])
GPodPrice(r) == Checked(r, [Price |-> 2])

GrpcAnswer(m, r) ==
  CASE m = "Name" -> GName(r)                     [] m = "NodeGroups" -> GNodeGroups(r)
    [] m = "NodeGroupForNode" -> GNodeGroupForNode(r) [] m = "Pricing" -> GPricing(r)
    [] m = "GetAvailableMachineTypes" -> GMachineTypes(r)
    [] m = "GetResourceLimiter" -> GResourceLimiter(r) [] m = "GPULabel" -> GGPULabel(r)
    [] m = "GetAvailableGPUTypes" -> GGPUTypes(r) [] m = "MaxSize" -> GMaxSize(r)
    [] m = "MinSize" -> GMinSize(r)               [] m = "TargetSize" -> GTargetSize(r)
    [] m = "Id" -> GId(r)                         [] m = "Debug" -> GDebug(r)
    [] m = "Nodes" -> GNodes(r)                   [] m = "TemplateNodeInfo" -> GTemplateNodeInfo(r)
    [] m = "Exist" -> GExist(r)                   [] m = "Autoprovisioned" -> GAutoprovisioned(r)
    [] m = "Belongs" -> GBelongs(r)               [] m = "GetOptions" -> GGetOptions(r)
    [] m = "NodePrice" -> GNodePrice(r)           [] m = "PodPrice" -> GPodPrice(r)

-----------------------------------------------------------------------------
(* Answers of the externalgrpc front end: there is no provider id to check *)

XGroup(id) == [Id |-> id, MinSize |-> groups[id].min, MaxSize |-> MaxNodeSize]
XForGroup(request, reply) == IF Exists(request.Id) THEN reply ELSE Fail

XNodeGroups(r) ==
  [NodeGroups |-> SetToSeq({XGroup(id) : id \in {i \in GroupIds : groups[i].status = "Created"}})]
XNodeGroupForNode(r) ==
  CASE r.Node.Annotations = "" -> [NodeGroup |-> Nil]
    [] Exists(r.Node.Annotations) -> [NodeGroup |-> XGroup(r.Node.Annotations)]
    [] OTHER -> Fail
XNodePrice(r) == [Price |-> 1]
XPodPrice(r) == [Price |-> 2]
XGPULabel(r) == [Label |-> ""]
XGPUTypes(r) == [GpuTypes |-> Only("gpu", "type")]
XTargetSize(r) == XForGroup(r, [TargetSize |-> TargetSize(groups[r.Id])])

XInstanceState(s) ==
  CASE s = "Running" -> "instanceRunning"
    [] s = "Creating" -> "instanceCreating"
    [] s = "Deleted" -> "instanceDeleting"
    [] OTHER -> "unspecified"
XInstance(n) ==
  [Id |-> GenerateProviderID(n), Status |-> [InstanceState |-> XInstanceState(state[n]), ErrorInfo |-> Nil]]
XNodes(r) == XForGroup(r, [Instances |-> Mapped(AllNodes(groups[r.Id]), XInstance)])
XTemplateNodeInfo(r) == XForGroup(r, [NodeInfo |-> r.Id])
XGetOptions(r) ==
  XForGroup(r, IF r.Defaults = Nil THEN Fail
               ELSE [NodeGroupAutoscalingOptions |-> [f \in DOMAIN r.Defaults |-> GroupOptions(r.Defaults)[f]]])

ExternalAnswer(m, r) ==
  CASE m = "NodeGroups" -> XNodeGroups(r)
    [] m = "NodeGroupForNode" -> XNodeGroupForNode(r)
    [] m = "PricingNodePrice" -> XNodePrice(r)  [] m = "PricingPodPrice" -> XPodPrice(r)
    [] m = "GPULabel" -> XGPULabel(r)           [] m = "GetAvailableGPUTypes" -> XGPUTypes(r)
    [] m = "NodeGroupTargetSize" -> XTargetSize(r)
    [] m = "NodeGroupNodes" -> XNodes(r)        [] m = "NodeGroupTemplateNodeInfo" -> XTemplateNodeInfo(r)
    [] m = "NodeGroupGetOptions" -> XGetOptions(r)

-----------------------------------------------------------------------------
(* The handlers that change something *)

Call ==
  [pc : {"idle", "launch", "delete", "deleting", "cleanup", "waiting"},
   method : {"none", "IncreaseSize", "DeleteNodes", "Delete", "Cleanup"}, group : GroupIds \cup {""},
   todo : SUBSET Nodes,        \* the nodes this call launches
   docs : Seq(Documents),      \* the nodes it still has to delete
   groups : SUBSET GroupIds,   \* the groups it still has to clean up
   ok : BOOLEAN]               \* a launch was successful; no deletion has failed
NoCall == [pc |-> "idle", method |-> "none", group |-> "", todo |-> {}, docs |-> <<>>,
           groups |-> {}, ok |-> FALSE]

Provisioned == [Absent EXCEPT !.status = "Created", !.auto = TRUE]

\* externalgrpc provisions its group before it serves (module ServerApp).
Init ==
  /\ conf \in Configurations
  /\ groups \in IF conf.front = "grpc" THEN {[id \in GroupIds |-> Absent]}
                ELSE {[id \in GroupIds |-> IF id = one THEN Provisioned ELSE Absent] : one \in GroupIds}
  /\ state = [n \in Nodes |-> "NotCreated"] /\ phase = [n \in Nodes |-> "no"]
  /\ vm = {} /\ call = [c \in Callers |-> NoCall] /\ down = FALSE

\* With externalgrpc the deletions go on in a goroutine, the client has its answer.
Answered(c) == call[c].pc = "idle" \/ (conf.front = "externalgrpc" /\ call[c].method = "DeleteNodes")
MaySend == conf.overlap \/ \A c \in Callers : Answered(c)
Sends(c) == call[c].pc = "idle" /\ MaySend
Grpc == conf.front = "grpc"

\* Nodes of a group that are being launched: cleanup waits for them, the lock is held for them.
Launching(id) == {n \in Nodes : Owner[n] = id /\ phase[n] \in {"launching", "registered"}}

\* createNodeGroup: a group with a minimum cannot be created, its nodes are refused while it is
\* Creating; a group that is not NotCreated is answered as if it had been created.
CreateNodeGroup(g) ==
  IF g.status = "NotCreated" /\ g.min = 0 THEN [g EXCEPT !.status = "Created"] ELSE g
CreateFails(g) == g.status = "absent" \/ (g.status = "NotCreated" /\ g.min > 0)
GCreate(r) ==
  Optional("Create", ForGroup(r, IF CreateFails(groups[r.NodeGroupID]) THEN [Error |-> Err]
                                 ELSE [NodeGroup |-> [Id |-> r.NodeGroupID]], [Error |-> Err]))

\* Connect of a client that provisions a group; what discovery does is in module ServerApp.
Connect(id, min) ==
  /\ Grpc /\ MaySend /\ ~Exists(id)
  /\ groups' = [groups EXCEPT ![id] =
                  CreateNodeGroup([Absent EXCEPT !.status = "NotCreated", !.min = min, !.auto = TRUE])]
  /\ UNCHANGED <<conf, down, state, phase, vm, call>>

\* An empty NodeGroupID is replaced by a name made of the time: id, in either case.
GNewNodeGroup(r, id) ==
  Optional("NewNodeGroup", Checked(r, IF r.MachineType = "small" /\ ~Exists(id)
                                      THEN [NodeGroup |-> [Id |-> id]] ELSE [Error |-> Err]))
NewNodeGroup(id, min) ==
  /\ Grpc /\ MaySend /\ "NewNodeGroup" \notin conf.optionals /\ ~Exists(id)
  /\ groups' = [groups EXCEPT ![id] = [Absent EXCEPT !.status = "NotCreated", !.min = min]]
  /\ UNCHANGED <<conf, down, state, phase, vm, call>>

Create(id) ==
  /\ Grpc /\ MaySend /\ "Create" \notin conf.optionals /\ Exists(id)
  /\ CreateNodeGroup(groups[id]) # groups[id]
  /\ groups' = [groups EXCEPT ![id] = CreateNodeGroup(groups[id])]
  /\ UNCHANGED <<conf, down, state, phase, vm, call>>

\* IncreaseSize: the nodes get their names; grpc then launches them before it answers, with
\* the lock, externalgrpc in a goroutine.
IncreaseRefused(id, delta) ==
  ~Exists(id) \/ delta <= 0 \/ TargetSize(groups[id]) + delta > MaxNodeSize \/ groups[id].status # "Created"
Unused(id) == {n \in Nodes : Owner[n] = id /\ ~FindNamedNode(groups[id], n) /\ n \notin vm /\ phase[n] = "no"}
Locked(id) == Grpc /\ \E c \in Callers : call[c].pc = "launch" /\ call[c].group = id

IncreaseSize(c, id, delta) ==
  /\ Sends(c) /\ ~IncreaseRefused(id, delta) /\ ~Locked(id)
  /\ \E new \in SUBSET Unused(id) :
       /\ Cardinality(new) = delta
       /\ groups' = [groups EXCEPT ![id].pending = @ \cup new]
       /\ phase' = [n \in Nodes |-> IF n \in new THEN "reserved" ELSE phase[n]]
       /\ state' = [n \in Nodes |-> IF n \in new THEN "NotCreated" ELSE state[n]]
       /\ call' = IF Grpc THEN [call EXCEPT ![c] = [NoCall EXCEPT !.pc = "launch", !.method = "IncreaseSize",
                                                                !.group = id, !.todo = new]]
                  ELSE call
  /\ UNCHANGED <<conf, down, vm>>

\* createNode: refused, and left pending, when the group is not Created any more.
LaunchStarts(n) ==
  /\ phase[n] = "reserved"
  /\ IF groups[Owner[n]].status = "Created"
     THEN /\ phase' = [phase EXCEPT ![n] = "launching"]
          /\ state' = [state EXCEPT ![n] = "Creating"] /\ vm' = vm \cup {n}
     ELSE phase' = [phase EXCEPT ![n] = "no"] /\ UNCHANGED <<state, vm>>
  /\ UNCHANGED <<conf, down, groups, call>>

\* The node is Running and in Nodes; it leaves pendingNodes a moment later.
LaunchRegisters(n) ==
  /\ phase[n] = "launching"
  /\ phase' = [phase EXCEPT ![n] = "registered"] /\ state' = [state EXCEPT ![n] = "Running"]
  /\ groups' = [groups EXCEPT ![Owner[n]].nodes = @ \cup {n}]
  /\ call' = [c \in Callers |-> IF n \in call[c].todo THEN [call[c] EXCEPT !.ok = TRUE] ELSE call[c]]
  /\ UNCHANGED <<conf, down, vm>>

LaunchEndsPending(n) ==
  /\ phase[n] = "registered"
  /\ phase' = [phase EXCEPT ![n] = "no"] /\ UNCHANGED <<conf, down, groups, state, vm, call>>
LaunchEnds(n) ==
  /\ phase[n] = "registered"
  /\ phase' = [phase EXCEPT ![n] = "no"]
  /\ groups' = [groups EXCEPT ![Owner[n]].pending = @ \ {n}]
  /\ UNCHANGED <<conf, down, state, vm, call>>

\* The node that leaves its group is an object nobody reads any more, whatever its State.
Dropped(left) == [n \in Nodes |-> IF n \in left THEN "NotCreated" ELSE state[n]]
LaunchFails(n) ==
  /\ phase[n] = "launching" /\ "launch" \in conf.faults
  /\ phase' = [phase EXCEPT ![n] = "no"] /\ state' = Dropped({n})
  /\ vm' = vm \ {n}
  /\ groups' = [groups EXCEPT ![Owner[n]].pending = @ \ {n}]
  /\ UNCHANGED <<conf, down, call>>

IncreaseReply(c) ==
  [Error |-> IF groups[call[c].group].status = "Created" /\ call[c].ok THEN Nil ELSE Err]
IncreaseEnds(c) ==
  /\ call[c].pc = "launch" /\ \A n \in call[c].todo : phase[n] = "no"
  /\ call' = [call EXCEPT ![c] = NoCall]
  /\ UNCHANGED <<conf, down, groups, state, phase, vm>>

\* DeleteNodes: the nodes are looked up and deleted one by one.  The size is checked first.
DeleteRefused(id, docs) == ~Exists(id) \/ TargetSize(groups[id]) - Len(docs) < groups[id].min
DeleteNodes(c, id, docs) ==
  /\ Sends(c) /\ ~DeleteRefused(id, docs)
  /\ call' = [call EXCEPT ![c] = [NoCall EXCEPT !.pc = "delete", !.method = "DeleteNodes",
                                               !.group = id, !.docs = docs, !.ok = TRUE]]
  /\ UNCHANGED <<conf, down, groups, state, phase, vm>>

\* Nodes a client asks to delete: one of any group, one without annotation, or two of the group,
\* the same one twice too.
Document(n, id) == [readable |-> TRUE, name |-> n, group |-> id]
Settled(ids) == {n \in Nodes : phase[n] = "no" /\ Owner[n] \in ids}
TwoDocuments(id) == {<<Document(n, id), Document(k, id)>> : n \in Settled({id}) \cap Leading, k \in Settled({id})}
SomeDeletions(id) ==
  {<<Document(n, Owner[n])>> : n \in Settled(GroupIds)}
    \cup {<<Document(n, "")>> : n \in Settled(GroupIds) \cap Leading} \cup TwoDocuments(id)

Known(doc) == doc.readable /\ Exists(doc.group) /\ FindNamedNode(groups[doc.group], doc.name)

\* A node that cannot be found ends a DeleteNodes of grpc; externalgrpc logs it and goes on.
Skipped(c) ==
  IF Grpc THEN NoCall ELSE [call[c] EXCEPT !.docs = Tail(@)]
DeleteSkips(c) ==
  /\ call[c].pc = "delete" /\ call[c].docs # <<>> /\ ~Known(Head(call[c].docs))
  /\ Grpc \/ Head(call[c].docs).group = "" \/ Exists(Head(call[c].docs).group)
  /\ call' = [call EXCEPT ![c] = Skipped(c)]
  /\ UNCHANGED <<conf, down, groups, state, phase, vm>>

\* ... but then it uses the group that it did not find.
DeletePanics(c) ==
  /\ call[c].pc = "delete" /\ call[c].docs # <<>> /\ ~Grpc
  /\ Head(call[c].docs).group # "" /\ ~Exists(Head(call[c].docs).group)
  /\ down' = TRUE /\ UNCHANGED <<conf, groups, state, phase, vm, call>>

\* deleteVM refuses a node that has no VM or is being deleted already ...
Deletable(n) == n \in vm /\ state[n] # "Deleting"
DeleteStarts(c) ==
  /\ call[c].pc = "delete" /\ call[c].docs # <<>> /\ Known(Head(call[c].docs))
  /\ Deletable(Head(call[c].docs).name)
  /\ state' = [state EXCEPT ![Head(call[c].docs).name] = "Deleting"]
  /\ call' = [call EXCEPT ![c].pc = "deleting"]
  /\ UNCHANGED <<conf, down, groups, phase, vm>>

\* ... but the node leaves the group, whether its VM could be deleted or not.
Forgotten(g, n) == [g EXCEPT !.nodes = @ \ {n}, !.pending = @ \ {n}]
NextDocument(c) == [call[c] EXCEPT !.pc = "delete", !.docs = Tail(@)]
Failed(c) == IF Grpc THEN NoCall ELSE [NextDocument(c) EXCEPT !.ok = FALSE]
DeleteFails(c) ==
  /\ \/ /\ call[c].pc = "delete" /\ call[c].docs # <<>> /\ Known(Head(call[c].docs))
        /\ ~Deletable(Head(call[c].docs).name)
     \/ call[c].pc = "deleting" /\ "delete" \in conf.faults
  /\ LET doc == Head(call[c].docs) IN
     groups' = [groups EXCEPT ![doc.group] = Forgotten(@, doc.name)] /\ state' = Dropped({doc.name})
  /\ call' = [call EXCEPT ![c] = Failed(c)]
  /\ UNCHANGED <<conf, down, phase, vm>>

DeleteDone(c) ==
  /\ call[c].pc = "deleting"
  /\ LET doc == Head(call[c].docs) IN
     /\ groups' = [groups EXCEPT ![doc.group] = Forgotten(@, doc.name)]
     /\ vm' = vm \ {doc.name} /\ state' = Dropped({doc.name})
  /\ call' = [call EXCEPT ![c] = NextDocument(c)]
  /\ UNCHANGED <<conf, down, phase>>

DeleteEnds(c) ==
  /\ call[c].pc = "delete" /\ call[c].docs = <<>>
  /\ call' = [call EXCEPT ![c] = NoCall]
  /\ UNCHANGED <<conf, down, groups, state, phase, vm>>

\* Delete of one group, Cleanup of all there are: cleanup refuses launches from now on, ...
CleaningUp == \E c \in Callers : call[c].method \in {"Delete", "Cleanup"}
Delete(c, id) ==
  /\ Grpc /\ Sends(c) /\ ~CleaningUp /\ "Delete" \notin conf.optionals /\ Exists(id)
  /\ call' = [call EXCEPT ![c] = [NoCall EXCEPT !.pc = "cleanup", !.method = "Delete", !.group = id,
                                               !.groups = {id}, !.ok = TRUE]]
  /\ UNCHANGED <<conf, down, groups, state, phase, vm>>

Cleanup(c) ==
  /\ Sends(c) /\ ~CleaningUp
  /\ call' = [call EXCEPT ![c] = [NoCall EXCEPT !.pc = "cleanup", !.method = "Cleanup", !.ok = TRUE,
                                               !.groups = {id \in GroupIds : Exists(id)}]]
  /\ UNCHANGED <<conf, down, groups, state, phase, vm>>

CleanupStarts(c, id) ==
  /\ call[c].pc = "cleanup" /\ id \in call[c].groups
  /\ groups' = [groups EXCEPT ![id].status = "Deleting"]
  /\ call' = [call EXCEPT ![c].pc = "waiting", ![c].group = id]
  /\ UNCHANGED <<conf, down, state, phase, vm>>

\* ... waits for those under way, deletes the VMs, and empties the group.  An error is kept
\* only if no later deletion succeeds.
WaitedNever(id) == TRUE
Waited(id) == Launching(id) = {}
Emptied(g) == [g EXCEPT !.status = "Deleted", !.nodes = {}, !.pending = {}]
CleanupGroup(c) ==
  /\ call[c].pc = "waiting" /\ Waited(call[c].group)
  /\ LET id == call[c].group
         mine == groups[id].nodes \cup groups[id].pending
         refused == {n \in mine \cap vm : state[n] = "Deleting"} IN
     \E failed \in SUBSET (mine \cap vm), last \in BOOLEAN :
       /\ refused \subseteq failed /\ (failed = refused \/ "delete" \in conf.faults)
       /\ last => failed # {}                   \* the last of all deletions was one that failed
       /\ failed = mine /\ failed # {} => last
       /\ vm' = vm \ (mine \ failed)
       /\ state' = Dropped(mine)
       /\ groups' = [groups EXCEPT ![id] = Emptied(@)]
       /\ call' = [call EXCEPT ![c].pc = "cleanup", ![c].groups = @ \ {id},
                               ![c].ok = IF call[c].method = "Delete" THEN ~last ELSE @ /\ ~last]
       /\ phase' = [n \in Nodes |-> IF Owner[n] = id /\ phase[n] # "stray" THEN "no" ELSE phase[n]]
  /\ UNCHANGED <<conf, down>>

\* Delete forgets the group unless cleanup failed; Cleanup replaces the whole map.
KeptOnceDeleted(c) == [id \in GroupIds |-> IF call[c].method = "Delete" THEN groups[id] ELSE Absent]
Kept(c) ==
  [id \in GroupIds |-> IF call[c].method = "Delete" /\ (id # call[c].group \/ ~call[c].ok)
                       THEN groups[id] ELSE Absent]
CleanupReply(c) == [Error |-> IF call[c].ok THEN Nil ELSE Err]
CleanupEnds(c) ==
  /\ call[c].pc = "cleanup" /\ call[c].groups = {}
  /\ groups' = Kept(c)
  /\ call' = [call EXCEPT ![c] = NoCall]
  /\ phase' = [n \in Nodes |-> IF phase[n] # "no" /\ Kept(c)[Owner[n]] = Absent THEN "stray" ELSE phase[n]]
  /\ UNCHANGED <<conf, down, state, vm>>

\* The launches of a group that came during a Cleanup, which forgets it all the same, go on in a
\* group that nobody finds.
StrayEnds(n) ==
  /\ phase[n] = "stray"
  /\ phase' = [phase EXCEPT ![n] = "no"]
  /\ vm' \in {vm \cup {n}} \cup (IF "launch" \in conf.faults THEN {vm \ {n}} ELSE {})
  /\ UNCHANGED <<conf, down, groups, state, call>>

\* statusVM writes what the provider says: HasInstance of a node of a group, or Refresh of
\* every node that is past Creating.
StatusVM(n) == IF n \in vm /\ "status" \notin conf.faults THEN "Running" ELSE state[n]
GHasInstance(r) ==
  ForNode(r, IF FindNamedNode(groups[r.Node.group], r.Node.name) /\ r.Node.name \in vm
             THEN [HasInstance |-> TRUE] ELSE [Error |-> Err], [Error |-> Err])
HasInstance(n) ==
  /\ Grpc /\ MaySend /\ FindNamedNode(groups[Owner[n]], n)
  /\ state' = [state EXCEPT ![n] = StatusVM(n)]
  /\ UNCHANGED <<conf, down, groups, phase, vm, call>>
Refresh ==
  /\ MaySend
  /\ state' = [n \in Nodes |-> IF FindNamedNode(groups[Owner[n]], n) /\ state[n] \notin {"NotCreated", "Creating"}
                               THEN StatusVM(n) ELSE state[n]]
  /\ UNCHANGED <<conf, down, groups, phase, vm, call>>

Work ==
  \/ \E id \in GroupIds, min \in conf.mins : Connect(id, min) \/ NewNodeGroup(id, min)
  \/ \E id \in GroupIds : Create(id)
  \/ \E c \in Callers, id \in GroupIds :
       \/ \E delta \in 1 .. MaxNodeSize : IncreaseSize(c, id, delta)
       \/ \E docs \in SomeDeletions(id) : DeleteNodes(c, id, docs)
       \/ Delete(c, id) \/ CleanupStarts(c, id)
  \/ \E c \in Callers :
       \/ IncreaseEnds(c) \/ DeleteSkips(c) \/ DeletePanics(c) \/ DeleteStarts(c) \/ DeleteFails(c) \/ DeleteDone(c)
       \/ DeleteEnds(c) \/ Cleanup(c) \/ CleanupGroup(c) \/ CleanupEnds(c)
  \/ \E n \in Nodes :
       \/ LaunchStarts(n) \/ LaunchRegisters(n) \/ LaunchEnds(n) \/ LaunchFails(n) \/ StrayEnds(n)
       \/ HasInstance(n)
  \/ Refresh
Next == ~down /\ Work

Spec == Init /\ [][Next]_vars

-----------------------------------------------------------------------------
(* Properties *)

Providers == {ServiceIdentifier, "other"}
SomeIds == GroupIds \cup {"unknown"}
SomeDocuments ==
  [readable : {TRUE}, name : {CHOOSE n \in Nodes : TRUE}, group : Annotated] \cup [readable : {FALSE}, name : {""}, group : {""}]
Defaults ==
  [ScaleDownUtilizationThreshold |-> 0, ScaleDownGpuUtilizationThreshold |-> 1,
   ScaleDownUnneededTime |-> 2, ScaleDownUnreadyTime |-> 3, MaxNodeProvisionTime |-> Nil,
   ZeroOrMaxNodeScaling |-> FALSE, IgnoreDaemonSetsUtilization |-> TRUE]
XDefaults ==
  [ScaleDownUtilizationThreshold |-> 0, ScaleDownGpuUtilizationThreshold |-> 1,
   ScaleDownUnneededTime |-> 2, ScaleDownUnreadyTime |-> 3, MaxNodeProvisionTime |-> Nil]

\* Requests a client may send, by the message they are.
AboutServer == [ProviderID : Providers]
AboutGroup ==
  [ProviderID : {ServiceIdentifier}, NodeGroupID : SomeIds] \cup [ProviderID : {"other"}, NodeGroupID : {"unknown"}]
AboutNode == [ProviderID : {ServiceIdentifier}, Node : SomeDocuments]
GrpcRequests ==
  [m \in {"Name", "NodeGroups", "Pricing", "GetAvailableMachineTypes", "GetResourceLimiter",
          "GPULabel", "GetAvailableGPUTypes"} |-> AboutServer]
  @@ [m \in {"MaxSize", "MinSize", "TargetSize", "Id", "Debug", "Nodes", "TemplateNodeInfo", "Exist",
             "Autoprovisioned"} |-> AboutGroup]
  @@ [m \in {"NodeGroupForNode"} |-> AboutNode]
  @@ [m \in {"Belongs"} |-> [ProviderID : {ServiceIdentifier}, NodeGroupID : {"unknown"}, Node : SomeDocuments]]
  @@ [m \in {"GetOptions"} |-> [ProviderID : {ServiceIdentifier}, NodeGroupID : SomeIds, Defaults : {Nil, Defaults}]]
  @@ [m \in {"NodePrice"} |-> [ProviderID : Providers, Node : {Template("")}, StartTime : {0}, EndTime : {1}]]
  @@ [m \in {"PodPrice"} |-> [ProviderID : Providers, Pod : {Template("")}, StartTime : {0}, EndTime : {1}]]
SomeExternalNodes == [Name : {CHOOSE n \in Nodes : TRUE}, Annotations : Annotated]
ExternalRequests ==
  [m \in {"NodeGroups", "GPULabel", "GetAvailableGPUTypes"} |-> X!Nothing]
  @@ [m \in {"NodeGroupForNode"} |-> [Node : SomeExternalNodes]]
  @@ [m \in {"PricingNodePrice"} |-> [Node : SomeExternalNodes, StartTime : {0}, EndTime : {1}]]
  @@ [m \in {"PricingPodPrice"} |-> [StartTime : {0}, EndTime : {1}]]
  @@ [m \in {"NodeGroupTargetSize", "NodeGroupNodes", "NodeGroupTemplateNodeInfo"} |-> [Id : SomeIds]]
  @@ [m \in {"NodeGroupGetOptions"} |-> [Id : SomeIds, Defaults : {Nil, XDefaults}]]

GrpcServices == G!CloudProviderService @@ G!NodeGroupService @@ G!PricingModelService
ExternalService == X!CloudProvider

\* The sample requests are messages of their methods.
ASSUME RequestsTyped ==
  /\ \A m \in DOMAIN GrpcRequests : \A r \in GrpcRequests[m] : r \in GrpcServices[m].request
  /\ \A m \in DOMAIN ExternalRequests : \A r \in ExternalRequests[m] : r \in ExternalService[m].request

GroupRequest(id) == [ProviderID |-> ServiceIdentifier, NodeGroupID |-> id]

\* The state is well formed, and in every state every request a client may send is a message of
\* its method and gets a reply that is one too, or an error of the call.
TypeOK ==
  /\ conf \in Configurations /\ groups \in [GroupIds -> Group]
  /\ state \in [Nodes -> {"NotCreated", "Creating", "Running", "Deleting", "Deleted"}]
  /\ phase \in [Nodes -> {"no", "reserved", "launching", "registered", "stray"}]
  /\ vm \subseteq Nodes /\ call \in [Callers -> Call] /\ down \in BOOLEAN
  /\ Grpc => \A m \in DOMAIN GrpcRequests : \A r \in GrpcRequests[m] :
       LET answer == GrpcAnswer(m, r) IN answer = Fail \/ answer \in GrpcServices[m].reply
  /\ ~Grpc => \A m \in DOMAIN ExternalRequests : \A r \in ExternalRequests[m] :
       LET answer == ExternalAnswer(m, r) IN answer = Fail \/ answer \in ExternalService[m].reply
  /\ \A r \in AboutGroup : GCreate(r) = Fail \/ GCreate(r) \in G!CreateReply
  /\ \A r \in AboutNode : GHasInstance(r) \in G!HasInstanceReply
  /\ \A c \in Callers : call[c].method = "IncreaseSize" => IncreaseReply(c) \in G!IncreaseSizeReply
  /\ \A c \in Callers : call[c].method = "Cleanup" => CleanupReply(c) \in G!CleanupReply

\* What the autoscaler counts: a group lists its own nodes, its target size is the number of the
\* instances it lists, and it lists a node twice only between the moment the node is registered
\* and the moment it leaves the pending nodes (createNodes, AllNodes, targetSize).  Counted once,
\* its nodes are never more than its maximum, where a request waits for the one before: the
\* launch of a node that DeleteNodes took from its group meanwhile brings it back.
InstancesCounted ==
  \A id \in GroupIds : Exists(id) =>
    LET g == groups[id] IN
    /\ \A n \in g.nodes \cup g.pending : Owner[n] = id
    /\ g.nodes \cap g.pending \subseteq {n \in Nodes : phase[n] = "registered"}
    /\ GTargetSize(GroupRequest(id)).TargetSize
         = Cardinality(g.nodes \cup g.pending) + Cardinality(g.nodes \cap g.pending)
    /\ Grpc /\ ~conf.overlap => Cardinality(g.nodes \cup g.pending) <= MaxNodeSize

\* Unless a VM cannot be deleted, because of a failure or because another handler is deleting it
\* when Delete comes to it, a group that a client finds when nothing is being cleaned up can be
\* used: it is Created, or NotCreated and Create makes it so if it has no minimum.  In
\* particular the name of a deleted group can be given again (deleteNodeGroup, Cleanup).
GroupsUsable ==
  /\ ~CleaningUp /\ "delete" \notin conf.faults
  /\ Grpc /\ conf.overlap => "Delete" \in conf.optionals
  =>
    \A id \in GroupIds : Exists(id) =>
      \/ groups[id].status = "Created"
      \/ groups[id].status = "NotCreated" /\ groups[id].nodes \cup groups[id].pending = {}

\* With one request at a time and no VM that cannot be deleted, a VM is always that of a node
\* which its group knows, or which is being launched or deleted: none is left behind by a
\* launch that goes on after its answer, by Delete or by Cleanup.
NoVMForgotten ==
  ~conf.overlap /\ "delete" \notin conf.faults /\ ~down =>
    \A n \in vm :
      \/ Exists(Owner[n]) /\ FindNamedNode(groups[Owner[n]], n)
      \/ phase[n] = "launching"
      \/ \E c \in Callers : call[c].pc = "deleting" /\ Head(call[c].docs).name = n
=============================================================================
