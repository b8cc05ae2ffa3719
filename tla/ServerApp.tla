----------------------------- MODULE ServerApp -----------------------------
(***************************************************************************)
(* The life of the server process around one node group (server.go, Connect *)
(* of grpc.go, doAutoProvision of externalgrpc.go, autoDiscoveryNodes of     *)
(* nodegroup.go): its start, fresh or from a saved state, the discovery of   *)
(* the nodes that exist already, the requests on the group, the state it     *)
(* saves, and the crashes in between.                                        *)
(*                                                                           *)
(* The process serves one of two front ends.  With externalgrpc it discovers *)
(* the group of its configuration before it serves; with grpc the client     *)
(* sends the definition of the group in a Connect, as often as it likes.     *)
(* Discovery lists the Kubernetes nodes, empties the maps of the group,      *)
(* attaches the nodes of the list one by one, and drops the VM of every      *)
(* former node that it did not find again.  Launches and deletions go on     *)
(* meanwhile; module NodeGroup has their details.                            *)
(*                                                                           *)
(* A node is a number, the one in its name.  A step is the code between two  *)
(* calls of Kubernetes, of the cloud or of the file system.                  *)
(*                                                                           *)
(* A definition that stands before another one and is named after it is a    *)
(* faulty variant of it that no action uses.                                 *)
(***************************************************************************)
EXTENDS Naturals, FiniteSets, Network

CONSTANTS
  AutoNames,     \* the names nodeName can give to autoscaled nodes
  ManagedNames,  \* ... and to the nodes of ManagedNode resources
  MaxNodeSize,   \* the maximum size of the group
  Interfaces,    \* the interfaces of the configuration
  Networking,    \* Spec.Networking of the ManagedNode resources
  MaxCrashes,    \* bound: how often the process dies
  MaxConnects,   \* bound: how often a client sends Connect
  Environments   \* the configurations, what is asked for and what may happen

Nodes == AutoNames \cup ManagedNames

RequestKinds ==
  { "delete",     \* DeleteNodes
    "cleanup",    \* Cleanup, or Delete of the group
    "newgroup",   \* NewNodeGroup and Create
    "managed",    \* the controller asks for a node for a ManagedNode
    "refresh",    \* Refresh
    "busy",       \* a Connect while nodes are being launched or deleted
    "kubectl" }   \* somebody deletes a Kubernetes node

FaultKinds ==
  { "list",       \* NodeList fails
    "launch",     \* a launch fails
    "delete",     \* a VM cannot be deleted, or statusVM has no answer
    "attach",     \* AttachInstance fails although the VM is there
    "crash",      \* the process dies, but not while it saves its state
    "savecrash" } \* ... while it saves its state

ASSUME ServerAppAssumption ==
  /\ AutoNames \subseteq Nat /\ ManagedNames \subseteq Nat
  /\ AutoNames \cap ManagedNames = {}
  /\ IsFiniteSet(AutoNames) /\ IsFiniteSet(ManagedNames)
  /\ Interfaces \in Seq(NetworkInterface) /\ Networking \in Seq(ManagedNetworkInterface)
  /\ MaxNodeSize \in Nat /\ MaxCrashes \in Nat /\ MaxConnects \in Nat
  /\ Environments \subseteq
       [front : {"grpc", "externalgrpc"},  \* GrpcProvider
        save : BOOLEAN,                    \* there is a save location
        attach : {"checks", "blind"},      \* whether AttachInstance needs the VM
        include : BOOLEAN,                 \* IncludeExistingNode sent by Connect
        min : {0, 1},                      \* MinSize of the definition, or MinNode
        requests : SUBSET RequestKinds, faults : SUBSET FaultKinds]

VARIABLES
  env,       \* does not change
  main,      \* what the process is doing
  group,     \* s.Groups[the group]
  defs,      \* s.NodesDefinition: none, or what it says of existing nodes
  auto,      \* s.AutoProvision
  limits,    \* s.ResourceLimiter: that of the configuration, or merged with the client's
  disc,      \* the doAutoProvision under way
  file,      \* the saved state
  vm,        \* the nodes that have a VM
  kube,      \* the nodes that are Kubernetes nodes with the annotations of the group
  index,     \* NodeIndex of a node, also in its annotations
  launch,    \* how far the launch of a node is
  delete,    \* how far the deletion of a node is
  cleaning,  \* a Cleanup, or a Delete of the group, is under way
  connected, \* the discovery asked for last has succeeded, and the group was not removed since
  panicked,  \* the process died of a panic
  crashes, connects

memory == <<group, defs, auto, limits, connected>>
cloud == <<vm, kube, index>>
bounds == <<crashes, connects>>
vars == <<env, main, group, defs, auto, limits, disc, file, vm, kube, index, launch, delete,
          cleaning, connected, panicked, crashes, connects>>

Asked(request) == request \in env.requests
May(fault) == fault \in env.faults

-----------------------------------------------------------------------------
(* Types *)

Indexes == 0 .. (MaxNodeSize + Cardinality(Nodes))

\* AutoScalerServerNodeGroup.  A map that was never made is nil: writing to it panics.
Group ==
  [status : {"absent", "NotCreated", "Created", "Deleting", "Deleted"}, min : {0, 1},
   nodes : SUBSET Nodes, pending : SUBSET Nodes, running : SUBSET Indexes,
   nilRunning : BOOLEAN, nilPending : BOOLEAN, autoProvision : BOOLEAN]

Absent ==
  [status |-> "absent", min |-> 0, nodes |-> {}, pending |-> {}, running |-> {},
   nilRunning |-> TRUE, nilPending |-> TRUE, autoProvision |-> FALSE]

\* The file, and what Save encodes.  pendingNodes and the wait group are not exported.
Saved ==
  [is : {"none", "truncated", "whole"}, group : Group, defs : {"none", "include", "ignore"},
   auto : BOOLEAN, limits : {"config", "merged"}]

NoFile(is) ==
  [is |-> is, group |-> Absent, defs |-> "none", auto |-> FALSE, limits |-> "config"]

Discovery ==
  [pc : {"idle", "list", "reset", "attach", "drop"},
   by : {"none", "load", "external", "connect"},
   list : SUBSET Nodes, former : SUBSET Nodes,
   fresh : SUBSET Nodes,  \* annotated since the list was read
   unattached : SUBSET Nodes,  \* with a VM that AttachInstance failed for, and not dropped
   known : BOOLEAN]       \* a former client knows the group

Idle == [pc |-> "idle", by |-> "none", list |-> {}, former |-> {}, fresh |-> {},
         unattached |-> {}, known |-> FALSE]

TypeOK ==
  /\ env \in Environments
  /\ main \in {"down", "firstSave", "encode", "listen", "provision", "sync", "syncEncode",
               "serving", "refreshEncode"}
  /\ group \in Group
  /\ defs \in {"none", "include", "ignore"} /\ auto \in BOOLEAN
  /\ limits \in {"config", "merged"}
  /\ disc \in Discovery
  /\ file \in Saved
  /\ vm \in SUBSET Nodes /\ kube \in SUBSET Nodes
  /\ index \in [Nodes -> Indexes]
  /\ launch \in [Nodes -> {"no", "reserved", "created", "annotated", "registered"}]
  /\ delete \in [Nodes -> {"no", "asked", "gone"}]
  /\ cleaning \in BOOLEAN /\ connected \in BOOLEAN /\ panicked \in BOOLEAN
  /\ crashes \in 0 .. MaxCrashes /\ connects \in 0 .. MaxConnects

-----------------------------------------------------------------------------
(* The process *)

Serving == main \in {"serving", "refreshEncode"}

\* startController comes after Load and before the front end.
ControllerRuns ==
  \/ main \in {"listen", "sync", "syncEncode", "serving", "refreshEncode"}
  \/ main = "provision" /\ disc.by = "external"

Init ==
  /\ env \in Environments
  /\ main = "down" /\ group = Absent /\ defs = "none" /\ auto = FALSE /\ limits = "config"
  /\ disc = Idle /\ file = NoFile("none") /\ vm = {} /\ kube = {}
  /\ index = [n \in Nodes |-> 0]
  /\ launch = [n \in Nodes |-> "no"] /\ delete = [n \in Nodes |-> "no"]
  /\ cleaning = FALSE /\ connected = FALSE /\ panicked = FALSE /\ crashes = 0 /\ connects = 0

\* The process ends: what it had in memory is gone, VMs that were being launched stay.
Dies ==
  /\ main' = "down" /\ group' = Absent /\ defs' = "none" /\ auto' = FALSE
  /\ limits' = "config" /\ cleaning' = FALSE /\ connected' = FALSE /\ disc' = Idle
  /\ launch' = [n \in Nodes |-> "no"] /\ delete' = [n \in Nodes |-> "no"]
  /\ UNCHANGED <<env, file, cloud, connects>>

Panic == Dies /\ panicked' = TRUE /\ UNCHANGED crashes

Crash ==
  /\ main # "down" /\ crashes < MaxCrashes
  /\ IF main \in {"encode", "syncEncode", "refreshEncode"} THEN May("savecrash")
     ELSE May("crash")
  /\ Dies /\ crashes' = crashes + 1 /\ UNCHANGED panicked

-----------------------------------------------------------------------------
(* Saving and loading *)

Snapshot == [is |-> "whole", group |-> [group EXCEPT !.pending = {}, !.nilPending = TRUE],
             defs |-> defs, auto |-> auto, limits |-> limits]

\* Save opens the file with os.Create, which empties it, ...
SaveOpens(next) ==
  /\ file' = NoFile("truncated") /\ main' = next
  /\ UNCHANGED <<env, memory, disc, cloud, launch, delete, panicked, bounds, cleaning>>

\* ... and encodes the state into it.
SaveEncodes(next) ==
  /\ file' = Snapshot /\ main' = next
  /\ UNCHANGED <<env, memory, disc, cloud, launch, delete, panicked, bounds, cleaning>>

\* StartServer without a saved state.
StartFresh ==
  /\ main = "down" /\ file.is = "none"
  /\ main' = IF env.save THEN "firstSave" ELSE "listen"
  /\ UNCHANGED <<env, memory, disc, file, cloud, launch, delete, panicked, bounds, cleaning>>

FirstSave == main = "firstSave" /\ SaveOpens("encode")
FirstSaveEncodes == main = "encode" /\ SaveEncodes("listen")

\* setServerConfiguration of a saved node: an error of AttachInstance ends the process.
SetServerConfigurationChecks(n) == n \in vm
SetServerConfiguration(n) == env.attach = "blind" \/ n \in vm

-----------------------------------------------------------------------------
(* Node groups *)

\* newNodeGroup: RunningNodes is not made here.
NewGroup(min, autoProvision) ==
  [Absent EXCEPT !.status = "NotCreated", !.min = min, !.nilPending = FALSE,
                 !.autoProvision = autoProvision]

\* createNodeGroup launches the minimum while the status is Creating; prepareNodes refuses
\* any status but Created, and the status goes back to NotCreated.
CreateFails(g) == g.status = "NotCreated" /\ g.min > Cardinality(g.nodes)
CreateNodeGroupStops(g) ==
  IF g.status = "NotCreated" THEN [g EXCEPT !.status = "Creating"] ELSE g
CreateNodeGroup(g) ==
  IF g.status = "NotCreated" /\ ~CreateFails(g) THEN [g EXCEPT !.status = "Created"] ELSE g

\* doAutoProvision of group g up to the discovery: an unknown group is made and created.
Provisioned(g) ==
  IF g.status = "absent" THEN CreateNodeGroup(NewGroup(env.min, TRUE)) ELSE g
ProvisionRefused(g) == g.status = "absent" /\ CreateFails(Provisioned(g))

Discover(by) == disc' = [Idle EXCEPT !.pc = "list", !.by = by, !.known = connected]

\* Load.  A file that cannot be decoded, a node that cannot be attached (its VM is gone, or the
\* provider does not answer), or a group that cannot be provisioned, is fatal: the process goes
\* down again and nothing has changed.
Load ==
  /\ main = "down" /\ file.is = "whole"
  /\ \A n \in file.group.nodes : SetServerConfiguration(n)
  /\ defs' = file.defs /\ auto' = file.auto /\ limits' = file.limits
  /\ IF file.auto
     THEN /\ ~ProvisionRefused(file.group)
          /\ group' = Provisioned(file.group)
          /\ main' = "provision" /\ disc' = [Idle EXCEPT !.pc = "list", !.by = "load"]
     ELSE group' = file.group /\ main' = "listen" /\ UNCHANGED disc
  /\ UNCHANGED <<env, file, cloud, launch, delete, connected, panicked, bounds, cleaning>>

\* createGrpListener: NewGrpcServerApp has nothing to do ...
ListenGrpc ==
  /\ main = "listen" /\ env.front = "grpc"
  /\ main' = "serving"
  /\ UNCHANGED <<env, memory, disc, file, cloud, launch, delete, panicked, bounds, cleaning>>

\* ... and NewExternalgrpcServerApp provisions the group of the configuration, with the
\* nodes that exist.  An error is fatal.
ListenExternal ==
  /\ main = "listen" /\ env.front = "externalgrpc" /\ ~auto
  /\ IF ProvisionRefused(group)
     THEN Dies /\ UNCHANGED <<panicked, crashes>>
     ELSE /\ main' = "provision" /\ defs' = "include" /\ group' = Provisioned(group)
          /\ Discover("external")
          /\ UNCHANGED <<env, auto, limits, connected, file, cloud, launch, delete, panicked,
                         bounds, cleaning>>

\* syncState, once the discovery of externalgrpc has ended: refresh, and Save.
Sync == main = "sync" /\ SaveOpens("syncEncode")
SyncEncodes == main = "syncEncode" /\ SaveEncodes("serving")

-----------------------------------------------------------------------------
(* Discovery: autoDiscoveryNodes and findManagedNodeDeleted *)

\* An error of NodeList ends doAutoProvision: fatal at the start, the answer of a Connect.
ListFails ==
  /\ disc.pc = "list" /\ May("list")
  /\ IF disc.by = "connect"
     THEN /\ disc' = Idle /\ connected' = FALSE
          /\ UNCHANGED <<env, main, group, defs, auto, limits, file, cloud, launch, delete,
                         panicked, bounds, cleaning>>
     ELSE Dies /\ UNCHANGED <<panicked, crashes>>

\* Which Kubernetes nodes of the group are taken: those that were not autoscaled only if the
\* definition includes existing nodes.
Handled == {n \in kube : n \in AutoNames \/ defs = "include"}

ListNodes ==
  /\ disc.pc = "list"
  /\ disc' = [disc EXCEPT !.pc = "reset", !.list = Handled]
  /\ UNCHANGED <<env, main, memory, file, cloud, launch, delete, panicked, bounds, cleaning>>

\* formerNodes := g.Nodes, and the maps are made anew.
ResetMapsKeepsRunning(g) == [g EXCEPT !.nodes = {}, !.pending = {}, !.nilPending = FALSE]
ResetMaps(g) ==
  [g EXCEPT !.nodes = {}, !.pending = {}, !.running = {}, !.nilRunning = FALSE,
            !.nilPending = FALSE]

Reset ==
  /\ disc.pc = "reset"
  /\ disc' = [disc EXCEPT !.pc = "attach", !.former = group.nodes]
  /\ group' = ResetMaps(group)
  /\ UNCHANGED <<env, main, defs, auto, limits, connected, file, cloud, launch, delete,
                 panicked, bounds, cleaning>>

\* One turn of the loop over the nodes of the list; a node for which AttachInstance returns an
\* error, because its VM is gone or the provider does not answer, is left out.
AttachedForgetsIndex(g, n) == [g EXCEPT !.nodes = @ \cup {n}]
Attached(g, n) == [g EXCEPT !.nodes = @ \cup {n}, !.running = @ \cup {index[n]}]

Attach(n) ==
  /\ disc.pc = "attach" /\ n \in disc.list
  /\ \/ /\ SetServerConfiguration(n)
        /\ group' = Attached(group, n)
        /\ disc' = [disc EXCEPT !.list = @ \ {n}]
     \/ /\ ~SetServerConfiguration(n) \/ May("attach")
        /\ disc' = [disc EXCEPT !.list = @ \ {n}, !.unattached = @ \cup ({n} \cap vm)]
        /\ UNCHANGED group
  /\ UNCHANGED <<env, main, defs, auto, limits, connected, file, cloud, launch, delete,
                 panicked, bounds, cleaning>>

AttachEnds ==
  /\ disc.pc = "attach" /\ disc.list = {}
  /\ disc' = [disc EXCEPT !.pc = "drop"]
  /\ UNCHANGED <<env, main, memory, file, cloud, launch, delete, panicked, bounds, cleaning>>

\* findManagedNodeDeleted: a former node that was not found again, or not attached, and has a VM.
GoneUnchecked(n) == n \in disc.former /\ n \in vm
Gone(n) == n \in disc.former /\ n \notin group.nodes \cup group.pending /\ n \in vm

\* deleteVM removes the Kubernetes node and the VM; an error may leave either.
DeleteVM(n) ==
  \/ vm' = vm \ {n} /\ kube' = kube \ {n}
  \/ May("delete") /\ vm' = vm /\ kube' \in {kube, kube \ {n}}

Drop(n) ==
  /\ disc.pc = "drop" /\ n \in disc.former
  /\ disc' = [disc EXCEPT !.former = @ \ {n}, !.unattached = @ \ {n}]
  /\ IF Gone(n) THEN DeleteVM(n) ELSE UNCHANGED <<vm, kube>>
  /\ UNCHANGED <<env, main, memory, index, file, launch, delete, panicked, bounds, cleaning>>

DiscoveryEnds ==
  /\ disc.pc = "drop" /\ disc.former = {}
  /\ disc' = [Idle EXCEPT !.unattached = disc.unattached] /\ connected' = TRUE
  /\ main' = CASE disc.by = "load" -> "listen"
               [] disc.by = "external" -> IF env.save THEN "sync" ELSE "serving"
               [] OTHER -> main
  /\ UNCHANGED <<env, group, defs, auto, limits, file, cloud, launch, delete, panicked, bounds,
                 cleaning>>

-----------------------------------------------------------------------------
(* Requests on the process and on its group *)

Calm == \A n \in Nodes : launch[n] = "no" /\ delete[n] = "no"
\* A client sends its requests once its Connect has been answered.  With "busy", requests of
\* a former client may still arrive, or be under way, when a new one connects.
\* Nobody connects before a Cleanup has been answered.
MayConnect ==
  disc.pc = "idle" /\ ~cleaning /\ (Asked("busy") \/ Calm)
MayRequest == disc.pc = "idle" \/ (Asked("busy") /\ disc.known)

\* Connect takes over the definition and, with AutoProvisionned, provisions; the client's
\* limits are merged into those of the configuration.
Connect ==
  /\ Serving /\ env.front = "grpc" /\ connects < MaxConnects /\ MayConnect
  /\ defs' = IF env.include THEN "include" ELSE "ignore"
  /\ limits' \in {limits, "merged"} /\ auto' \in BOOLEAN
  /\ connects' = connects + 1
  /\ IF ~auto' THEN UNCHANGED <<group, disc, connected>>
     ELSE /\ group' = Provisioned(group)
          /\ IF ProvisionRefused(group) THEN UNCHANGED disc ELSE Discover("connect")
          /\ connected' = FALSE
  /\ UNCHANGED <<env, main, file, cloud, launch, delete, cleaning, panicked, crashes>>

\* NewNodeGroup, and Create, of the grpc front end.
NewNodeGroup(min) ==
  /\ Serving /\ env.front = "grpc" /\ Asked("newgroup") /\ disc.pc = "idle"
  /\ group.status = "absent"
  /\ group' = NewGroup(min, FALSE)
  /\ UNCHANGED <<env, main, defs, auto, limits, connected, disc, file, cloud, launch, delete,
                 panicked, bounds, cleaning>>

Create ==
  /\ Serving /\ env.front = "grpc" /\ Asked("newgroup") /\ disc.pc = "idle"
  /\ group.status = "NotCreated" /\ ~CreateFails(group)
  /\ group' = CreateNodeGroup(group)
  /\ UNCHANGED <<env, main, defs, auto, limits, connected, disc, file, cloud, launch, delete,
                 panicked, bounds, cleaning>>

\* findNextNodeIndex and nodeName: a name whose VM exists, and which no node of the group has,
\* is skipped and costs an index.  (Once every index below MaxNodeSize is taken the code goes
\* on with other numbers; module NodeGroup has that.)
Free(names) == {n \in names : n \notin group.nodes \cup group.pending}
IsLeast(x, S) == x \in S /\ \A y \in S : x <= y
FreeIndexes == (0 .. MaxNodeSize - 1) \ group.running
Skipped(names, n) == {m \in Free(names) : m < n}

\* prepareNodes and addManagedNode: a node with a name and an index becomes pending.
ReservedKeepsIndex(g, n, base, skipped) ==
  [g EXCEPT !.pending = @ \cup {n}, !.running = @ \cup (base .. base + skipped - 1)]
Reserved(g, n, base, skipped) ==
  [g EXCEPT !.pending = @ \cup {n}, !.running = @ \cup (base .. base + skipped)]

NilMaps(g) == g.nilRunning \/ g.nilPending

Reserve(names) ==
  IF NilMaps(group) THEN Panic
  ELSE /\ \E n \in Nodes, base \in Indexes :
            /\ IsLeast(n, Free(names) \ vm) /\ IsLeast(base, FreeIndexes)
            /\ LET skipped == Cardinality(Skipped(names, n)) IN
               /\ group' = Reserved(group, n, base, skipped)
               /\ index' = [index EXCEPT ![n] = base + skipped]
               /\ launch' = [launch EXCEPT ![n] = "reserved"]
       /\ UNCHANGED <<env, main, defs, auto, limits, connected, disc, file, vm, kube, delete,
                      panicked, bounds, cleaning>>

\* The address that the node got with its provider handler, when it was reserved.
AddressOf(n) ==
  LET vnet == Clone(ConfigurationDidLoad(Interfaces), FALSE, index[n])
  IN  PrimaryAddressIP(IF n \in ManagedNames THEN ConfigureManagedNetwork(vnet, Networking)
                       ELSE vnet)

TargetSize(g) == Cardinality(g.nodes) + Cardinality(g.pending)

IncreaseSize ==
  /\ Serving /\ MayRequest /\ group.status = "Created"
  /\ TargetSize(group) < MaxNodeSize
  /\ Reserve(AutoNames)

\* The controller asks as soon as it runs and knows the group.
AddManagedNode ==
  /\ ControllerRuns /\ Asked("managed") /\ group.status # "absent"
  /\ MayRequest \/ disc.by = "external"
  /\ Reserve(ManagedNames)

\* createNode: a group that is not Created refuses, and the node stays pending.
LaunchRefused(n) ==
  /\ launch[n] = "reserved" /\ group.status # "Created"
  /\ group' = [group EXCEPT !.running = @ \ {index[n]}]
  /\ launch' = [launch EXCEPT ![n] = "no"]
  /\ UNCHANGED <<env, main, defs, auto, limits, connected, disc, file, cloud, delete, panicked,
                 bounds, cleaning>>

LaunchVM(n) ==
  /\ launch[n] = "reserved" /\ group.status = "Created"
  /\ vm' = vm \cup {n}
  /\ launch' = [launch EXCEPT ![n] = "created"]
  /\ UNCHANGED <<env, main, memory, disc, file, kube, index, delete, panicked, bounds,
                 cleaning>>

\* The end of launchVM: the node has joined, and gets its annotations.
AnnoteNode(n) ==
  /\ launch[n] = "created"
  /\ kube' = kube \cup {n}
  /\ disc' = IF disc.pc \in {"reset", "attach", "drop"} THEN [disc EXCEPT !.fresh = @ \cup {n}]
              ELSE disc
  /\ launch' = [launch EXCEPT ![n] = "annotated"]
  /\ UNCHANGED <<env, main, memory, file, vm, index, delete, panicked, bounds, cleaning>>

RegisterNode(n) ==
  /\ launch[n] = "annotated"
  /\ group' = Attached(group, n)
  /\ launch' = [launch EXCEPT ![n] = "registered"]
  /\ UNCHANGED <<env, main, defs, auto, limits, connected, disc, file, cloud, delete, panicked,
                 bounds, cleaning>>

LaunchEnds(n) ==
  /\ launch[n] = "registered"
  /\ group' = [group EXCEPT !.pending = @ \ {n}]
  /\ launch' = [launch EXCEPT ![n] = "no"]
  /\ UNCHANGED <<env, main, defs, auto, limits, connected, disc, file, cloud, delete, panicked,
                 bounds, cleaning>>

\* launchVM fails, and cleanOnLaunchError removes what there is, or fails to.
LaunchFails(n) ==
  /\ launch[n] = "created" /\ May("launch")
  /\ DeleteVM(n)
  /\ group' = [group EXCEPT !.pending = @ \ {n}, !.running = @ \ {index[n]}]
  /\ launch' = [launch EXCEPT ![n] = "no"]
  /\ UNCHANGED <<env, main, defs, auto, limits, connected, disc, file, index, delete, panicked,
                 bounds, cleaning>>

\* DeleteNodes, for a node whose launch has ended.
DeleteNodes(n) ==
  /\ Serving /\ Asked("delete") /\ MayRequest
  /\ n \in group.nodes /\ launch[n] = "no" /\ delete[n] = "no"
  /\ TargetSize(group) - 1 >= group.min
  /\ delete' = [delete EXCEPT ![n] = "asked"]
  /\ UNCHANGED <<env, main, memory, disc, file, cloud, launch, panicked, bounds, cleaning>>

\* The group, or the node, is not there any more: an error, but in the goroutine of
\* externalgrpc the error about the group is only logged and nil is dereferenced.
DeleteMisses(n) ==
  /\ delete[n] = "asked" /\ n \notin group.nodes \cup group.pending
  /\ IF env.front = "externalgrpc" /\ group.status = "absent" THEN Panic
     ELSE /\ delete' = [delete EXCEPT ![n] = "no"]
          /\ UNCHANGED <<env, main, memory, disc, file, cloud, launch, panicked, bounds,
                         cleaning>>

DeletesVM(n) ==
  /\ delete[n] = "asked" /\ n \in group.nodes \cup group.pending
  /\ DeleteVM(n)
  /\ delete' = [delete EXCEPT ![n] = "gone"]
  /\ UNCHANGED <<env, main, memory, disc, file, index, launch, panicked, bounds, cleaning>>

\* The end of deleteNode: the node leaves the group, whether its VM is gone or not.
RemovedKeepsNode(g, n) == [g EXCEPT !.pending = @ \ {n}, !.running = @ \ {index[n]}]
Removed(g, n) ==
  [g EXCEPT !.nodes = @ \ {n}, !.pending = @ \ {n}, !.running = @ \ {index[n]}]

DeleteEnds(n) ==
  /\ delete[n] = "gone"
  /\ group' = Removed(group, n)
  /\ delete' = [delete EXCEPT ![n] = "no"]
  /\ UNCHANGED <<env, main, defs, auto, limits, connected, disc, file, cloud, launch, panicked,
                 bounds, cleaning>>

\* Cleanup of all groups, or Delete of this one: new launches are refused, those under way
\* are waited for, ...
CleanupBegins ==
  /\ Serving /\ Asked("cleanup") /\ disc.pc = "idle"
  /\ group.status # "absent" /\ ~cleaning
  /\ group' = [group EXCEPT !.status = "Deleting"] /\ connected' = FALSE
  /\ cleaning' = TRUE
  /\ UNCHANGED <<env, main, defs, auto, limits, disc, file, cloud, launch, delete, panicked,
                 bounds>>

\* ... the autoscaled nodes are deleted, and the group is forgotten; Delete keeps it, empty,
\* when a VM could not be deleted.  Nothing is saved.
CleanupEnds ==
  /\ cleaning /\ \A n \in Nodes : launch[n] = "no"
  /\ LET mine == AutoNames \cap (group.nodes \cup group.pending) IN
     \/ /\ vm' = vm \ mine /\ kube' = kube \ mine /\ group' = Absent
     \/ /\ May("delete") /\ vm' = vm /\ kube' = kube /\ mine \cap vm # {}
        /\ group' \in {Absent, [ResetMaps(group) EXCEPT !.status = "Deleted"]}
  /\ cleaning' = FALSE
  /\ UNCHANGED <<env, main, defs, auto, limits, connected, disc, file, index, launch, delete,
                 panicked, bounds>>

Refresh == main = "serving" /\ env.save /\ Asked("refresh") /\ SaveOpens("refreshEncode")
RefreshEncodes == main = "refreshEncode" /\ SaveEncodes("serving")

\* The Kubernetes node of an autoscaled node is deleted by hand, the VM stays.
KubectlDelete(n) ==
  /\ Asked("kubectl") /\ n \in kube \cap AutoNames /\ launch[n] = "no"
  /\ kube' = kube \ {n}
  /\ UNCHANGED <<env, main, memory, disc, file, vm, index, launch, delete, panicked, bounds,
                 cleaning>>

-----------------------------------------------------------------------------
(* The specification *)

Starts ==
  \/ StartFresh \/ FirstSave \/ FirstSaveEncodes \/ Load \/ ListenGrpc \/ ListenExternal
  \/ Sync \/ SyncEncodes
Discovers ==
  \/ ListNodes \/ Reset \/ AttachEnds \/ DiscoveryEnds
  \/ \E n \in Nodes : Attach(n) \/ Drop(n)
Runs(n) ==
  \/ LaunchRefused(n) \/ LaunchVM(n) \/ AnnoteNode(n) \/ RegisterNode(n) \/ LaunchEnds(n)
  \/ DeleteMisses(n) \/ DeletesVM(n) \/ DeleteEnds(n)
Requests ==
  \/ Connect \/ (\E min \in {0, 1} : NewNodeGroup(min)) \/ Create
  \/ IncreaseSize \/ AddManagedNode \/ CleanupBegins \/ Refresh
  \/ \E n \in Nodes : DeleteNodes(n) \/ KubectlDelete(n)
Fails == ListFails \/ Crash \/ \E n \in Nodes : LaunchFails(n)

Next ==
  \/ Starts \/ Discovers \/ (\E n \in Nodes : Runs(n)) \/ CleanupEnds \/ RefreshEncodes
  \/ Requests \/ Fails

Spec == Init /\ [][Next]_vars

\* Kubernetes starts the process again when it has ended, and the process goes on.
FairSpec == Spec /\ WF_vars(Starts) /\ WF_vars(Discovers)

-----------------------------------------------------------------------------
(* Properties *)

\* Connect does not come during a deletion, nor, where AttachInstance may fail, in a launch.
Unmixed == ~(Asked("busy") /\ (Asked("delete") \/ May("attach")))

\* doAutoProvision announces to "Drop VM if kubernetes nodes removed" (server.go:226).
\* findManagedNodeDeleted drops the VM of a node with a live Kubernetes node only if the
\* definition makes it ignore the node, or if the node got its annotations after NodeList
\* answered, or if AttachInstance has just failed for it: an error of the provider makes a
\* listed node a lost one, and the next request deletes its VM.  A deletion that was under way
\* when Connect came takes its node out of the group, whether the VM is gone or not; a launch
\* that was under way may register a node that the discovery has dropped.
DropsOnlyUnlisted ==
  disc.pc = "drop" /\ Unmixed => \A n \in Nodes : Gone(n) =>
    \/ n \notin kube \/ (n \in ManagedNames /\ defs = "ignore")
    \/ n \in disc.fresh \/ n \in disc.unattached

\* After any sequence of starts, crashes, connections and requests, the group knows exactly
\* the nodes that are there: autoDiscoveryNodes finds again what a former process launched,
\* and takes over nothing that was deleted meanwhile.  Not so for a node that AttachInstance
\* failed for, which the group does not know until the next discovery, nor for a VM whose
\* deletion failed, nor when a Connect comes during a deletion: the name may be given to a new
\* node, which the end of the deletion then removes from the group.
DiscoveryFinds ==
  /\ Serving /\ connected /\ disc.pc = "idle"
  /\ ~May("delete") /\ Unmixed
  =>
    \A n \in Nodes : (launch[n] = "no" /\ delete[n] = "no") =>
      /\ n \in (Handled \cap vm) \ disc.unattached => n \in group.nodes
      /\ n \in group.nodes /\ env.attach = "checks" => n \in vm

\* Nothing hides a node from the discovery: no crash in a launch, no panic, no failed deletion
\* or attachment, no definition that ignores managed nodes, and no Connect during launches.
Undisturbed ==
  /\ crashes = 0 /\ ~panicked /\ ~Asked("busy") /\ ~May("delete") /\ ~May("attach")
  /\ Asked("managed") => env.include

\* Two nodes with VMs never have one index, nor one static address: the indexes that
\* discovery rebuilds from the annotations are those the launches took, and Clone makes
\* different addresses of them, but for 0 and 1.  Not so when discovery does not see all
\* nodes: a crash in a launch, an error of AttachInstance, a definition that ignores managed
\* nodes, or a Connect during launches makes indexes free that are taken.
AddressesDistinct ==
  Undisturbed => \A n, m \in vm : n # m =>
      /\ index[n] # index[m]
      /\ AddressOf(n).is = "ipv4" /\ {index[n], index[m]} # {0, 1} =>
           AddressOf(n) # AddressOf(m)

\* The process does not die of a nil map or a nil group, whatever order launches, deletions,
\* restarts and connections come in.  The exceptions are real: a group made by NewNodeGroup,
\* or left by a Connect that failed, has no maps; the controller may ask before the discovery;
\* Cleanup may remove the group a deletion is about to look up; the saved state has no pending
\* nodes, so that a group loaded by grpc whose last Connect did not provision cannot grow.
NoPanic ==
  panicked => \/ Asked("newgroup") \/ Asked("managed") \/ May("list")
              \/ Asked("cleanup") /\ Asked("delete")
              \/ env.front = "grpc" /\ Asked("refresh") /\ May("crash")

\* The process comes up again after every crash.  Not so once a crash interrupted Save (the
\* file is empty), or when AttachInstance fails for a VM of the saved state, because the VM is
\* gone or the provider does not answer, or when the group has a minimum size, Kubernetes does
\* not answer, or the controller, which starts before the discovery, has a ManagedNode to serve
\* and writes to a nil map.
StartsAgain ==
  (/\ env.min = 0 /\ ~May("savecrash") /\ ~May("list") /\ ~Asked("managed")
   /\ \/ ~env.save
      \/ /\ ~May("attach")
         /\ env.attach = "blind" \/ env.requests \cap {"delete", "cleanup", "kubectl"} = {})
  => (main = "down" ~> Serving)

=============================================================================
