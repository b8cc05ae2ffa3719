# A verification project for kubernetes-cloud-autoscaler

TLA+ modules that model the autoscaler server of this repository, TLC
configurations that check them on small instances, and TLAPS proofs. Paths and
line numbers below are relative to the repository; `PROJECT.json` maps every
definition to the lines it stands for.

## 1. The system

The program is a gRPC cloud provider for the Kubernetes cluster-autoscaler. It
also runs a controller for a custom resource, `ManagedNode`, through which a
user asks for single nodes. It makes virtual machines on one of several clouds
(vSphere, AWS, OpenStack, CloudStack, LXD, Multipass, VMware desktop), has them
join the cluster, and drains and deletes them.

| Component | State it keeps | Operations | What is hard |
|---|---|---|---|
| Node group (`server/nodegroup.go`) | `Status`, `Nodes`, `pendingNodes`, `RunningNodes` (index -> state), the counters, `pendingNodesWG`, the mutex | `setNodeGroupSize`, `prepareNodes`, `createNodes`, `addManagedNode`, `deleteNodes`, `destroyNodes`, `deleteNode`, `refresh`, `cleanup`, `autoDiscoveryNodes` | most operations run without the mutex; launches go on in goroutines while nodes are deleted; the wait group is shared by all creations; launches and deletions fail half way |
| Node (`server/node.go`) | `State`, address, provider handler | `launchVM`, `startVM`, `stopVM`, `deleteVM`, `statusVM`, `cleanOnLaunchError` | the state is tested, then calls of the cloud last for minutes, then it is written; `statusVM` overwrites it at any time |
| Front ends (`server/grpc.go`, `server/externalgrpc.go`, the messages in `grpc/`, `externalgrpc/`) | the groups of the server | one handler per request of the autoscaler | `externalgrpc` answers before the work is done; sizes are read before the lock is held; a handler goes on when its client has given up and sends again |
| ManagedNode controller (`server/controller.go`) | work queue, lister cache, status code of each resource | `handleManagedNode`, deletion of nodes whose resource is gone, resource limits | stale cache, failed status updates, restarts while a node is being created |
| Server (`server/server.go`) | groups, configuration, the saved state | `newNodeGroup`, `createNodeGroup`, `deleteNodeGroup`, `doAutoProvision`, `Save`, `Load`, `syncState` | what a restart loses; a group whose creation failed |
| Kubernetes client (`client/client.go`, `client/podfilters.go`) | none | cordon, drain with one goroutine per pod, labels, waits | deadline against evictions that still run |
| Provider handlers (`providers/`) | the id of the VM, its public address and DNS record; the interfaces (`providers/network.go`) | create, power on and off, wait, delete, status, attach | lost answers, waits that are too short, questions that fail, a launch of the same name again; addresses computed from the node's index |
| Distributions (`kubernetes/`), cloud-init, DNS, configuration | files and command lines | text | - |

How they interact: the two front ends and the controller call the node group,
each in its own goroutine. The node group calls the node, the node its provider
handler and the Kubernetes client. The group's maps and the node objects in them
are shared by all these goroutines; only `setNodeGroupSize` takes the group's
mutex, and with the `grpc` front end `IncreaseSize` keeps the mutex until the
nodes are launched.

What makes the components correct:

* node group: no more nodes than `MaxNodeSize`; no VM without its node; no two
  nodes with one name or one index; after `cleanup` no VM is left and none is
  launched; a creation that fails gives everything back; every request ends;
* node: a launch that fails leaves no VM; `Deleted` means that the VM is gone;
* controller: one node per resource, none after the resource is gone, a status
  that is not stuck;
* server: a group that was made can be used, a restart finds the nodes again;
* Kubernetes client: a drain returns, and does not report success while a pod is
  left; what others write to a node is not undone; waits last as long as
  configured;
* provider handlers: a failed launch leaves no VM, a name has one VM, a deleted
  node leaves neither address nor record;
* front ends: every answer is a message of its method, the sizes and the
  instances that the autoscaler compares agree, a group that a client finds can
  be used.

## 2. The plan

In the order of importance; all of it is done. Section 5 says what is left to prove.

1. `NodeGroup`: the books of one group under concurrent requests, with its
   inductive invariants and proofs.
2. `Node`: the calls inside `launchVM`, `deleteVM` and `statusVM`, shown to
   implement `NodeLife`, which is what `NodeGroup` takes a node to be.
3. The first theorems: types, the wait group, cleanup, one VM for a resource.
4. `ManagedNodes`: the controller, with the status codes of a `ManagedNode`, the
   work queue, the stale cache of the lister, restarts and crashes.
5. `ServerApp`: the start of the server, fresh or from a saved state, discovery,
   `Connect`, and crashes, also while the state is saved; with `Network`, the
   static addresses that the indexes of the nodes give.
6. `KubeClient`: the drain with its evictions, error channel and deadline, the
   calls that read and write a node, the waits and the pod filters.
7. `FrontEnd`: every request of the two protocols, with the messages of
   `GrpcMessages` and `ExternalMessages`.
8. `Provider`: the life of a VM under each of the seven providers.
9. The inductive invariants and theorems of `Node`, with the refinement of
   `NodeLife`, of `KubeClient`, `Provider` and `ServerApp`.
10. `GroupInv` of the node group, with its size, names, indexes, VMs and cleanup.
11. `CreatedInv` and `GoneInv` of the controller, and `FrontInv` of the front ends.

## 3. Modules

| Module | What it is |
|---|---|
| `NodeGroup` | the node group, the size requests of both front ends, what the controller asks of a group |
| `NodeGroupInv` | `CleanupInv`, `TurnInv` and `GroupInv`, the inductive invariants of the group |
| `NodeGroupProofs` | types, the wait group, cleanup against launches: what holds whatever is asked and fails |
| `NodeGroupBooksProofs` | the books of the group: `GroupInv`, and the properties that follow from it |
| `MCNodeGroup` | symmetry for the runs |
| `NodeLife` | one node, as the group sees it: abstract specification |
| `Node` | one node, call by call |
| `NodeInv`, `NodeProofs` | `NodeInv`, the inductive invariant of `Node`; its theorems, the refinement of `NodeLife` among them |
| `MCNode` | the environments for the run |
| `ManagedNodes` | the ManagedNode controller and the start of the server around it |
| `ManagedNodesInv` | `OneVMInv`, `CreatedInv`, `GoneInv`, the inductive invariants of the controller |
| `ManagedNodesProofs` | `TypeCorrect`, `OneVMCorrect`, `CreatedCorrect`, `GoneCorrect` for the controller |
| `MCManagedNodes` | the environments for its runs |
| `ServerApp` | the process around one group: start, discovery, requests, saved state, crashes |
| `ServerAppInv`, `ServerAppProofs` | `ServerInv`, its inductive invariant, and its theorems; those about the addresses of `Network` |
| `MCServerApp` | its environments and the interfaces of the configuration |
| `Network` | the interfaces of a VM and their addresses, as operators; `ServerApp` extends it |
| `GrpcMessages`, `ExternalMessages` | the messages and methods of the two protocols |
| `FrontEnd` | the requests on the groups; instantiates the two |
| `FrontEndInv`, `FrontEndProofs` | `FrontInv`, its inductive invariant, and its theorems |
| `MCFrontEnd` | its configurations |
| `KubeClient` | the calls of the Kubernetes client |
| `KubeClientInv`, `KubeClientProofs` | `KubeInv`, its inductive invariant, and its theorems |
| `MCKubeClient` | pods and timeouts |
| `Provider` | a node name and its VMs at a cloud provider |
| `ProviderInv`, `ProviderProofs` | `ProviderInv`, its inductive invariant, and its theorems |
| `MCProvider` | the providers and the combinations of faults |

### NodeGroup

A caller is a goroutine: a request, the background work it spawned, or the
controller. One step is the code between two blocking or external calls. The
data race that Go would report on the maps is below that granularity and is not
modelled.

A node is an *object* (`Objects`), because the maps and the goroutines hold
pointers: a node can be forgotten by the maps while a goroutine still works on
it, and two objects can have the same name. Names are pairs of a prefix and a
number.

| Variable | Code |
|---|---|
| `status`, `nodes`, `pendingNodes`, `runningNodes`, `lastCreatedNodeIndex`, `numOf` | fields of `AutoScalerServerNodeGroup` |
| `pendingNodesWG`, `waiters`, `released` | `pendingNodesWG`: the `Done` calls it waits for, who is in `Wait`, and who was let go and has not run yet. Go panics when `Add` is called in that moment, and so does the model |
| `lock` | the mutex embedded in the group |
| `node` | the objects: name, index, `State` |
| `vms` | what the provider has |
| `call` | per goroutine: where it is (`pc`), what it was asked, the nodes it has to do (`todo`, `victims`), and for each node the phase of the goroutine that launches or deletes it (`run`) |

The phases of `run`: `start`, `creating`, `booting`, `joined` are `launchVM`;
`checked`, `deleting`, `racing`, `stopped`, `refused` are `deleteVM`. `racing` is
a deletion that found the node being launched: its `InstanceDelete` may fail
because the VM was powered on meanwhile. A panic ends the process: every caller
is `dead` from then on.

The constants `Requests` and `Faults` choose what may be asked and what may fail:
a property that an environment cannot keep is checked in the others, and the
theorems hold in all.

The environment is the cluster-autoscaler and the controller, and the model asks
of it what their code does: size requests come one at a time (the main loop of
the autoscaler) unless `overlap` is in `Requests`; `DeleteNodes` names
autoscaled nodes whose creation has ended, and not twice at a time unless
`redelete` is there; the controller reserves one node at a time (it has one
worker), and its event handlers may delete a node that is still pending; a group is cleaned up when it is `Created`. Debug mode, which keeps VMs
whose launch failed, is not modelled.

### Node and NodeLife

`Node` has the same calls one by one: a step is one call of the provider or of
Kubernetes and the code up to the next. `statusVM` is two steps, answer and
write, so that the answer can be old. `launchVM` is there in both variants
(`cloudInit`): with cloud-init the VM joins by itself (`VMJoins`, also after the
launch was given up), with SSH the program runs the join command. Whether a VM
that is off can be powered off, or one that runs deleted, depends on the
provider, and the model lets both happen.

`NodeLife` is the projection of `NodeGroup` on one object: the phases, the state
and the existence of the VM. `Node!ImplementsLife` maps each goroutine to its
phase (`PhaseOf`) and shows that every step of `Node` is a step of `NodeLife` or
none. It is what entitles `NodeGroup` to its coarse steps.

Simplifications: the answer of `InstanceStatus` and the write of `Deleting` are
one step; a node is launched once; `startVM` and `stopVM`, which only tests call,
run alone; nodes of type external are refused by all of them and left out.

### ManagedNodes

A resource stands for its UID, its node and its VM. A step is the code between
two calls that last (a launch, the deletion of a VM); the calls of the API
server are short and belong to the step they are in.

| Variable | Code |
|---|---|
| `crd`, `lister` | `Status.Code` of a ManagedNode as the API server and as `managedNodeLister` have it |
| `queue` | `workqueue` |
| `deletions`, `nodeEvents` | what the two informers still have to tell `deleteManagedNode` and `handleNode` |
| `deleting` | the calls of `deleteNode` under way: one per informer (their handlers run one after the other), one of `findManagedNodeDeleted` |
| `worker` | where `runWorker` is, and the nodes in creation |
| `group`, `node`, `launch` | what `getNodeGroup` and `findNodeByCRDUID` find, and how far the launch of the node is |
| `vm`, `stray`, `kube` | VMs, second VMs of a resource, Kubernetes nodes (`owned`: with the owner reference that `startManagedNodes` adds) |
| `undeleted` | for the properties: the resources with a VM that `deleteVM` could not delete |

Of the node group only this is there: a node is pending, running or unknown,
and a launch registers its node when it ends, whatever happened to it meanwhile.
`NodeGroup` and `Node` have the rest. The environments (`env`) say what the user
does (`delete`, `remove` a Kubernetes node, `hasty`: also before the node is
reported), what happens to the process (`restart` when it is idle, `crash`), and
whether the watch may be slower than the boot of a VM (`lag`), and what fails: the
update of a status, `addManagedNode`, `deleteVM` after any of its steps (in a
`deleteNode` and in the clean-up of a launch, where the node may also stay
`Running`), and `AttachInstance` in the discovery. Existing nodes
are discovered, as the `externalgrpc` front end always has it, and there is no
saved state.

Simplifications: the limit is on the number of nodes only; a failed update of
the owner reference is not modelled; a VM that boots while the process is down
does not join; the node cache that the limit is checked against is not stale. An
error of Kubernetes' own `DeleteNode` inside `deleteVM` is only logged there, and the
VM goes: the model lets the Kubernetes node go too. A VM that debug mode keeps is
like one whose deletion failed.

### ServerApp and Network

One process, down or up, and one group. A step is the code between two calls of
Kubernetes, of the cloud or of the file system. A node is the number in its
name.

| Variable | Code |
|---|---|
| `main` | where `StartServer` is, or that it serves |
| `group`, `defs`, `auto`, `limits` | `Groups`, `NodesDefinition`, `AutoProvision`, `ResourceLimiter` of `AutoScalerServerApp`; a map that was never made is nil, and writing to it panics |
| `disc` | the `doAutoProvision` under way: the list it works on, and, for the properties, what it could not attach (`unattached`) |
| `file` | the saved state: none, truncated (a crash after `Create` of the file and before the end of the encoder), or whole |
| `vm`, `kube`, `index` | what the cloud and Kubernetes have of the nodes; the index is in the annotations and survives the process |
| `launch`, `delete` | how far the work on a node is |
| `cleaning` | a goroutine is in `cleanup`; a group that was loaded can be `Deleting` without one |
| `connected` | for the properties: the last discovery has succeeded |

The environments choose the front end, whether there is a save location, whether
`AttachInstance` looks for the VM (multipass does not), what the definition sent
by `Connect` says of existing nodes, the requests and the faults. `attach` is an
error of the provider in `AttachInstance` for a VM that is there, in the discovery
and in `Load`; `delete` is one in `deleteVM`, or an answer that `statusVM` does not
get. The details of
launches and deletions are those of `NodeGroup`, to which this module adds what a
start and a `Connect` do to them. The save at an orderly stop
(`server.go:417-431`) is left out: a stop between two requests is a crash.

`Network` has the interfaces as a sequence of records: what
`ConfigurationDidLoad` makes of the words `dhcp` and `none`, what `Clone` makes of
the address for a node's index, in 32 bits (`AddressSpace`), what
`ConfigureManagedNetwork` changes, and which address `PrimaryAddressIP` reports.
`ServerApp!AddressOf` puts them together as `prepareNodes` and `addManagedNode` do.
Netmasks, routes, adapters and the table of MAC addresses are left out.

### FrontEnd and the messages

`GrpcMessages` and `ExternalMessages` have, from the generated code, each message
as a set of records (optional parts with `Nil`, one-ofs as unions) and each
service as a function from methods to request and reply. `FrontEnd` has the
handlers: a request that changes nothing is an operator from the state to the
answer (`GrpcAnswer`, `ExternalAnswer`), and `TypeOK` asks all of them in every
state; a request that changes the groups is one or several actions.

| Variable | Code |
|---|---|
| `groups` | `Groups`: status, minimum, nodes and pending nodes |
| `state`, `phase`, `vm` | the nodes: `State`, how far the launch is, whether there is a VM; a `stray` is a launch that goes on in a group that `Cleanup` has forgotten |
| `call` | the handlers, and the goroutines they leave behind |
| `down` | a panic ended the process |

Launches and deletions are one step each; indexes, the lock, the wait group and
`DecreaseTargetSize` are in `NodeGroup`, `Connect` in `ServerApp`. Prices,
templates, labels and texts are opaque.

### KubeClient

The caller makes one call at a time on one node. A step is the code between two
requests to the API server. Timers count down in minutes, and a minute may pass
between any two steps.

| Variable | Code |
|---|---|
| `node` | the node in Kubernetes, with a version that others advance (`others`) |
| `call` | the call, what it has read, its timers, its result |
| `pod`, `evict` | the pods and the goroutine of `evictPod` for each; a pod may be made again elsewhere under its name |
| `errs` | the channel of `DrainNode`: one slot, and no reader after the deadline |

The multiplication of a `time.Duration` by `time.Second` (`client.go:329`) is
modelled with its overflow (`TimesSecond`).

### Provider

One node name. The VMs are external: what a provider does with a request is a
function from the state of the VM to done, wait or error, one per provider and
request (`AwsPowerOn`, `CloudstackDelete`, ...), and `VMChanges` lets the VM go on
by itself, also when the handler has given up.

| Variable | Code |
|---|---|
| `vms`, `addresses`, `record` | the VMs that bear the name, their public addresses, the DNS record |
| `handler` | `runningInstance`, its id and the public address it knows |
| `fate` | what the node group was told |
| `call` | where a goroutine is in `launchVM` or `deleteVM` |

`Node` has the same calls in more detail on the side of the program and with one
VM; here the cloud has the detail. Requests that put together disks, networks
and cloud-init are one request that may be refused.

### Faulty variants

A definition such as `DeltaWithoutPending`, before `Delta`, is what `Delta` would
be with a plausible mistake. No action uses it. `PROJECT.json` pairs each checked
property with such a variant, under which TLC finds the property violated.

## 4. Runs

| Run | Instance | States | Shows |
|---|---|---|---|
| `group_external` | 3 goroutines, 3 objects, `MaxNodeSize` 2, 2 nodes per cycle, refreshes, launches fail | 240,000 | types, `GroupInv`, names and indexes, no VM lost, cleanup leaves nothing, the books agree when nothing is under way |
| `group_grpc` | 3 goroutines, 4 objects, one node per cycle, `DecreaseTargetSize`, overlapping requests | 400,000 | the size bound in spite of stale sizes, the wait group is not reused too early |
| `group_live` | 2 goroutines, 2 objects, managed nodes, fair | 85,000 | every request ends |
| `group_faults` | externalgrpc, `MaxCreatedNodePerCycle` 0, `CreateInstance` and launches fail, pending nodes are destroyed while being launched | 390,000 | the wait group counts the creations, nothing is launched after cleanup |
| `node` | 3 goroutines on one node, three environments, both variants of the launch | 405,000 | see below |
| `managed` | 2 resources, one restart, 13 environments, fair | 255,000 | see below |
| `server` | 2 autoscaled nodes and a managed one, 2 crashes, 2 connections, 16 environments, fair | 632,000 | see below |
| `frontend` | 2 handlers, 2 groups, 3 nodes of one of them, `MaxNodeSize` 2, 4 configurations | 326,000 | see below |
| `kube` | 4 pods of three kinds, timeouts of 0 to 2 minutes, 9 environments, fair | 519,000 | see below |
| `provider` | 2 goroutines, 2 VMs, 7 providers, every combination of up to three faults, and all | 2,030,000 | see below |
| `managed_leak`, `provider_dns` | the smallest that show it | - | expected to fail, section 6 |

`node` shows that `Deleted` means the VM is gone, that a failed launch leaves no
VM however it interleaves with deletions and refreshes, that no VM is left that
`deleteVM` would refuse, that a node which joined is out of Kubernetes, or cordoned, before its VM is
powered off (`DrainedBeforePowerOff`; not so when Kubernetes or the deletion
fails, or the node is deleted while it is launched, which `Calm` excludes), and
`ImplementsLife`. The three environments are: everything the program does while
launches and Kubernetes fail; power requests with deletions and refreshes while
launches fail; and a calm one.

`managed` shows that a resource gets no second VM however stale the lister is
and also after a restart (`OneVM`), that the VM goes with its resource
(`GoneInOrder`), both but for a resource whose VM `deleteVM` could not delete
(`undeleted`), that a status `Created` is true whatever handlers interleave
and wherever the process dies (`CreatedIsTrue`), and that a new resource gets an
answer (`Settles`). Each of them names the environments in which the code does
not keep it. Deletions fail in four of them, by themselves or with a restart, in
which one resource gets a node: what a failed deletion leaves is about one VM. Two
resources are the least for a batch, for a limit that one
resource reaches for the other, and for handlers at work on different nodes; a
second restart meets nothing that the first did not leave.

`server` shows that the discovery after any sequence of starts, crashes and
connections finds the nodes that are there and that it can attach
(`DiscoveryFinds`; where deletions do not fail) and drops only VMs of nodes that are
not listed, that it may ignore, or that it could not attach (`DropsOnlyUnlisted`;
both not so when a `Connect` comes during a deletion, or during a launch while
attachments may fail, `Unmixed`), that no two VMs have one index or,
but for the indexes 0 and 1, one static address (`AddressesDistinct`; the
addresses wrap around in the instance; both where nothing hid a node from the
discovery, `Undisturbed`), that no nil map or group ends the
process (`NoPanic`), and that it comes up again (`StartsAgain`). Each names the
environments in which the code does not keep it; the run has them all, so that
the exceptions are states that are reached. A second crash is needed to meet what
the first start after a crash has saved; a second `Connect` empties a group that
is in use.

`frontend` shows that every answer in every state is a message of its method
(`TypeOK`), that target size and instances agree but for the moment in which a
node is registered and still pending, and that a group does not exceed its maximum
(`InstancesCounted`), that a group a client
finds can be used (`GroupsUsable`), and that no VM is forgotten (`NoVMForgotten`).
Three nodes where the maximum is two are the least that can exceed it. `Leading`
bounds the pairs of nodes that a `DeleteNodes` may name, which
are all alike for the code. Deletions fail behind `grpc` only; for the
other front end, see the proofs.

`kube` shows that a drain which reports success has drained and reaches no pod
it should not (`DrainedIsGone`), that a call does not give up before its time, and
never with a timeout of 0, but where the product of the timeout is negative and in
`DrainNode`, for which 0 is over at once (`GivesUpInTime`), that no update of
others is lost (`NoLostUpdate`), and that the calls return (`CallsReturn`).

`provider` shows for each provider under which faults a failed launch is cleaned
up (`LaunchFailureCleaned`), a name has one VM (`OneVMPerName`), and a deleted node
leaves nothing (`DeletedLeavesNothing`). Two VMs are the least for a second one.

Bounds. Two nodes are the least for which an index or a name can be taken by
another node, a cycle can be full, and `prepareDeleteNodes` (which never picks
the first pending node) can pick one. Three goroutines are a creation, a deletion
and a cleanup or a refresh at a time. `Objects` bounds the nodes a behaviour can
make: three let a name, an index and a number be used again by a second node.
`Budget` keeps a request from starting when the objects might not suffice, so
that the bound never stops one half way, and bounds `lastCreatedNodeIndex`.
`CHECK_DEADLOCK FALSE`: the server may be idle for ever, here when the objects
are used up, after a cleanup or after a crash, and likewise in the other runs.
`MaxCrashes`, `MaxConnects`, `MaxWrites`, `MaxMinutes` and `MaxVMs` bound what the
world does, and no step of the program.

Fairness. `FairSpec` has weak fairness on the steps of each goroutine: the Go
scheduler runs every runnable goroutine, and every external call has a timeout.
The goroutines of the informers and the worker of the controller are treated
alike; whoever stops the process, and the user, need not act.
Getting the mutex has strong fairness: Go hands it to a goroutine that has
waited for more than a millisecond. Requests are not fair.
In `ServerApp` the start of the process is fair (it runs in a pod that Kubernetes
starts again), and so are the steps of the start and of the discovery; in
`KubeClient` the steps of the call and the passing of time are, and neither the
pods nor the API server owe anything.

## 5. Proofs

Each theorem is about every value of the constants: any number of goroutines,
nodes, pods, VMs or restarts, every environment. The argument is the same
everywhere: a property says too little of the next step, so that a module named
`...Inv` states an inductive invariant, of which the property is a part or a
consequence; one lemma per action shows that the action keeps it. Each inductive
invariant was checked with TLC before it was proved.

**Node group**, whatever is asked and whatever fails. Both front ends, every set of
requests and of faults.

* `TypeCorrect`: `TypeOK`. One lemma per group of actions.
* `CreationsCounted`: `WaitGroupBalanced`. The wait group holds exactly the pairs
  of a goroutine and a node that it still has to launch or is launching.
* `CleanupIsFinal`: `NoLaunchOnceDeleted`. `WaitGroupBalanced` alone is not enough:
  `CleanupInv` adds that goroutines of nodes belong to requests that have such
  (`WorkInv`: a launch only to a `createNodes`, where the wait group counts it),
  that a group in cleanup is not `Created` (`StatusInv`: a launch that starts
  after `Wait` is refused), that no VM is being launched once `cleanup` has
  waited (`NoLaunchInv`), and that a panic stops everybody (`DeadInv`).

**The books of the node group.** `NodeGroupBooks` proves `GroupInv`, and from it
`NodeGroupBounded`, `NodeGroupNameFound`, `NodeGroupIndexesDistinct`,
`NodeGroupLosesNoVM`, `NodeGroupConsistentAtRest` and `NodeGroupCleanupComplete`, the
properties `AutoscaledBound`, `NameLoopFinds`, `DistinctIndexes`, `NoVMLost`,
`QuiescentConsistent` and `CleanupLeavesNothing`. They hold where requests are
`Orderly`: nothing fails but launches, the controller asks nothing of the
group, no node is deleted twice at a time, and with externalgrpc size requests come one at a
time and only up. These hypotheses are not there for the prover's sake: section 6 says
what happens when deletions fail, when the controller takes part and when size
requests overlap. The invariant has to say why steps that nothing keeps apart do
not meet:

* the size: the names that are taken, with those a request still has to reserve,
  are at most `MaxNodeSize` (`SizeInv`); only one request reserves at a time,
  because it holds the lock (`CallOK`, `LockInv`), and `Delta` counts every name,
  because each VM is the one of a node (`VMInv`). Hence a free number is left for
  `nodeName`, and with `IndexInv` a free index for `findNextNodeIndex`, since nodes have
  different names and indexes;
* the maps: a node in creation is pending and is the business of one request
  (`LiveInv`), a node in deletion is registered and is the business of one
  `DeleteNodes` (`DoomedInv`), no node object is used twice (`AllocInv`), and a
  name stands for one node (`NameInv`, `FreshInv`). So neither `LaunchSucceeds` nor
  `NodeDeleted` takes away what another goroutine relies on, and a deletion
  is never refused (`RunningInv`);
* with externalgrpc, where nothing holds the lock while nodes are launched, the
  size that was asked for is still greater than what there is when the lock
  is got (`StaleInv`);
* cleanup: until it deletes the nodes, a node marked `Deleting` whose VM is there
  has a deletion at work on it (`MarkInv`), so that whatever `cleanup` is refused
  somebody else ends; from then on every VM is still on the list of the one
  cleanup (`CleanerInv`) or on its way out (`ClosedInv`), where a deletion is lost
  to another one only (`PoweredOff`).

`OpenInv` holds until a cleanup starts to delete, which does not take nodes
out of the maps as it goes, and `IndexInv` until a cleanup begins: a node whose
creation is refused then stays pending.

`NodeGroupWaitGroupNotReused`: with grpc and without the controller, whatever else
is asked and whatever fails, `TurnInv`: whoever reserves or creates nodes holds
the lock until it has returned from `Wait`, so that only cleanups can be among those
that are let go, and after these the group is no longer `Created`.

**Node.** `NodeInvariance` proves `NodeInv`; `NodeTypeCorrect`,
`NodeDeletedIsGone`, `NodeFailedLaunchLeavesNoVM`, `NodeCanBeDeleted`,
`NodeDrainedBeforePowerOff` and `NodeImplementsLife` follow. `DeletedIsGone` needs to
know that a VM which a deletion found off, or stopped, stays off (`NotRacing`), and
that nobody powers on a VM late (`NoLateStart`). That a failed launch leaves no VM
(`FailedEnds`), and that no VM is left `Deleting` (`DeletingEnds`), are promises
while goroutines are at work: some goroutine is at a point from which it will
delete the VM (`Ending`) or write the state that it finds (`Rescuing`); a goroutine
that stops because another one was faster must leave such a one behind
(`Overtaken`). `NodeImplementsLife` shows that each step is a step of `NodeLife` or
none, provided that a VM is not both started by request and its deletion may
fail (`Orderly`): `startVM` writes over the `Creating` of a node whose failed
launch could not be cleaned up, which no step of `NodeLife` does. Only tests call
`startVM`.

**Kubernetes client.** `KubeInvariance` proves `KubeInv`; `KubeDrainedIsGone`,
`KubeGivesUpInTime` and `KubeNoLostUpdate` follow, and `KubeTypeCorrect` (`TypeOK`,
which no run lists). The drain is right because `DrainNode` counts: what it waits
for is what its goroutines have not sent, and the one result in the channel
(`DrainInv`); the waits, because each timer and the minutes that have passed make
up its timeout (`TimerInv`); a timer that was set to 0 is found with `DrainNode` only.

**Provider handlers.** `ProviderInvariance` proves `ProviderInv`;
`ProviderOneVMPerName`, `ProviderLaunchFailureCleaned` and
`ProviderDeletedLeavesNothing` follow, and `ProviderTypeCorrect`, for all seven
providers at once. Two VMs of a name are avoided because a VM is on its way only
while the launch waits for it (`NameFree`); a failed launch is cleaned up because
the state of the VM at each step of the clean-up is one that the provider stops,
or deletes (`LaunchState`, `CleanState`); and a record is gone because the providers
that remove it by the address find the VM on (`RecordInv`). Each part names the
environments in which it holds, those of the property.

**Server application.** `ServerInvariance` proves `ServerInv`, for any number of
nodes, managed nodes and crashes; `ServerTypeCorrect`, `ServerDropsOnlyUnlisted`,
`ServerDiscoveryFinds`, `ServerNoPanic` and `ServerIndexesDistinct` follow. The
discovery works on a list that grows old: what must be in it, and what the
annotations written meanwhile change, is `ListedInv`; a node that is there is in
the list, then in what the group had before, then in the group (`FoundInv`), and
the group has no others (`BackedInv`); a launch under way keeps its place
(`LaunchInv`, `CalmInv`), and a deletion does not meet it (`TidyInv`, under `Unmixed`:
also where deletions and attachments fail, but for the name of a node that a failed
`Cleanup` left behind); nil maps are met before the first discovery
only, or where one of the named exceptions was asked for (`PanicInv`); and the
index of a node is taken at every moment of a discovery that empties and refills
the table (`IndexInv`). `ServerIndexesDistinct` is the first part of
`AddressesDistinct`; that different indexes give different addresses is
`WorkersDiffer`.

Two of the proof attempts failed because the model was wrong. A group that was
loaded with the status `Deleting` is not being cleaned up, and `Delete` of it starts
a cleanup: hence the variable `cleaning`. And `Load` of a state without the group,
but with `AutoProvision`, makes the group.

**Front ends.** `FrontEndInvariant` proves `FrontInv`, for any number of handlers,
groups and nodes and every configuration; `FrontEndCounted`, `FrontEndUsable` and
`FrontEndNoVMForgotten` follow: `InstancesCounted`, `GroupsUsable`, `NoVMForgotten`.

* The books (`ListedOnce`, `OthersEmpty`): a group that is not `Created` or in a
  clean-up has no nodes and no launches, which is why a group can be given its name again.
* The handlers: a clean-up has its groups left to do, there is one at a time
  (`CleanerTrue`), and what a `Delete` no longer has to do is `Deleted`
  (`DeleteTrue`).
* `UsableTrue`: who finds a group `Deleting` or `Deleted` finds the handler that will
  forget it, since its `Delete` has not failed: what the clean-up was refused
  would be in the hands of another handler (`DeletingTrue`), and with one request at
  a time there is none (`OneHandler`).
* The maximum (`SizeBounded`): what a launch registers is still pending, because nobody but
  the handler that waits for the launch is at work (`OneHandler`).
* `NoVMForgotten` is inductive with `DeletingTrue` and `CleanupTrue`: what `Cleanup` forgets it
  has cleaned up, and is empty, where no request comes in between.

That the answers are messages of their methods (the last part of `TypeOK`) is
left to TLC; `Types` is the rest of it.

**ManagedNode controller.** Any finite number of resources, any number of
restarts and any set of environments.

* `TypeCorrect`: `TypeOK`.
* `OneVMCorrect`: `OneVM`. That `stray` is empty says nothing of the next step;
  `OneVMInv` says why a VM is made only for a resource without one. A VM belongs
  to a launch, to a node of the group, before the discovery to an owner
  reference, or to a resource that is gone and never looked at again (`VMInv`).
  So where the group has no node, nothing is launched and the lister has the
  resource, there is no VM, and `addManagedNode` may reserve a node. The VM and
  the books part only when a node is deleted: the two event handlers and the scan
  are at nodes of resources that are gone, at removed nodes, or at nodes without
  VM (`HandlerInv`), and a node that is being launched is theirs only in the
  first case (`LaunchedDeleting`). A restart loses the maps, and finds each VM by
  its owner reference (`OwnerInv`). With a crash in a launch, or a node that is
  removed while the process is down, there is no such reference: those
  environments are excluded (`Orderly`), as in `OneVM`, and restarts with
  attachments that fail, which lose a node in the same way. Of a resource that is
  `undeleted` the invariant keeps only the status (`ResourceInv`): its VM is nobody's.
* `CreatedCorrect`: `CreatedIsTrue`, also when the process crashes at any point.
  `CreatedInv` is about the resources that are not gone. A launch of one has its
  VM and then its Kubernetes node (`LaunchTrue`), since nobody deletes the node of
  such a resource but the scan, while nothing is launched, and `handleNode`, whose
  last act is to delete the resource (`HandlerTrue`). So what `startManagedNodes`
  reports as `Created` is there. When the Kubernetes node goes later, `handleNode`
  is to be told (`StatusTrue`), and it goes by the name in the status, which the
  lister has by then (`NameTrue`).
* `GoneCorrect`: `GoneInOrder`. `GoneInv` says that a VM has a launch, a node in the
  group, or a handler that deletes it, and, once the resource is gone, that one is at
  it or about to be told (`VMOrder`). Of two handlers at one node each forgets it
  and `deleteVM` refuses the one: the other is the one that `Deleting` names. Such a
  handler meets no launch, because a launched resource has not been reported and a
  reported one is not launched again (`LaunchOrder`, `StatusOrder`); the process
  dies, in these environments, only before the first node (`NewInv`). All this is
  about resources that are not `undeleted`: one failed deletion does not disturb the
  others.

`GoneInOrder` and `CreatedIsTrue` were too strong when the proofs began: the
combinations of requests and failures that no proof step could exclude turned
out, in TLC, to be counterexamples, and both properties now name them (section
6). With the corrected ones TLC finds `CreatedInv` and `GoneInv` to hold in every one of the 64
sets of requests, with and without failing updates.

**Static addresses.** For every configured interface and any number of IPv4
addresses: `WorkersDiffer`, all workers with indexes from 1 on get different ones
(the sum wraps around at most once, `WrapAround`); and `FirstTwoShare`, its limit:
the indexes 0 and 1 share one, and so do all control planes.

The only assumptions are the `...Assumption` of each module, the types of its
constants.

Only model-checked: liveness (`CallsReturn`, `Settles`, `StartsAgain`), which is
outside of what the prover does, like any fact about fair scheduling; the
addresses in `AddressesDistinct`, which are folds over the interfaces, as an
induction over data is; and that the answers of the front ends are messages of
their methods (`FrontEnd!TypeOK`).

## 6. What does not hold

With a run that TLC refutes:

* `managed_leak`: a ManagedNode deleted while its node is pending leaves a VM
  and a node without owner; the comment in `handleManagedNode` promises the
  deletion of the node of a resource that no longer exists, and the code there
  cannot do it.
* `provider_dns`: on aws, a launch that fails before the DNS record is made ends
  the process: `UnRegisterDNS` loses the error "not found" in an inner scope and
  dereferences the address.

With a definition that says so and no run (add it to the cfg named to see the
counterexample):

* `NodeGroup!DecreaseSparesNodes` (`NodeGroupFaults.cfg`): `DecreaseTargetSize` with
  externalgrpc picks pending nodes and destroys them later, when they may have
  joined; the comment on it says that it deletes no existing node.
* `NodeGroup!NoCrash`: with grpc (`NodeGroupGrpc.cfg`) a `DecreaseTargetSize` that has
  something to do panics: `deleteNodes` negates the delta that `prepareDeleteNodes`
  negates again. With `MaxCreatedNodePerCycle` 0 (`NodeGroupFaults.cfg`) a size request
  that finds nothing left to create panics in `createNodes`, which divides 0 by 0
  nodes (`nodegroup.go:517`). The checked properties hold up to such a panic and say
  nothing of what comes after it.
* `NodeGroup!NameLoopFinds` with `"delete"` in `Faults` (`NodeGroupExternal.cfg`, alone): a
  VM whose deletion failed is forgotten and keeps its name; `nodeName` can reach
  the code marked "Should never reach this code".
* `Node!OneDeletion` (`Node.cfg`): a refresh writes over `Deleting`, and the node is
  deleted by two goroutines at a time in spite of the guard "already deleting".

Seen on the way, each an exception that a property names or a case that a model
reaches:

* Deletions that fail: `deleteVM` returns errors of the provider, the group forgets
  the node all the same (`nodegroup.go:814-819`), the controller only warns
  (`controller.go:720`, `762`, `1114`) and nobody tries again. So the resource goes and
  its VM stays (`GoneInOrder`), and a resource that was not deleted gets a second
  VM: its launch fails, and so does the clean-up; after a restart `CreationFailed`
  becomes `GroupNotFound` (`controller.go:949-956`), which asks for a node (`OneVM`).
* Attachments that fail: an error of the provider in `AttachInstance` leaves a node
  that Kubernetes lists out of the group (`nodegroup.go:717`, `793-795`);
  `findManagedNodeDeleted` (`nodegroup.go:622-632`) takes it for a deleted one, asks for
  its status, and when the provider answers again deletes the VM (`DropsOnlyUnlisted`,
  `DiscoveryFinds`); if the process had just started, the node is unknown, and a
  ManagedNode gets a second VM (`OneVM`). In `Load` it ends the process (`StartsAgain`).
* Controller: a batch of two resources exceeds a limit of one node; a node
  removed while the process is down gets its resource a second VM, and so does a
  crash during a launch; a resource can be marked `Deleted` while its node runs,
  between `newNodeGroup` and `autoDiscoveryNodes`; after a restart the status of a
  resource whose node runs stays `GroupNotFound`. `deleteOwnerRef` deletes a
  resource whose status the lister may still have as `GroupNotFound`, because it
  lags or the update to `Creation` was lost: the worker, with the resource still in its
  queue, makes a VM for it that nobody deletes (`GoneInOrder`). The removal of
  a node is also lost on `handleNode` while the group is not known yet: the resource
  goes and the VM stays, after a restart. A lost update to `Creation` hides the
  name of the node from `handleNode` until `Created` arrives (`CreatedIsTrue`).
* Node group: two increases at a time with externalgrpc can panic in the wait
  group; with overlapping requests and externalgrpc, a stale increase can make
  `createNodes` launch pending nodes a second time (the second launch fails with
  `ErrVMAlreadyCreated`, and its clean-up deletes the VM of the first); with
  failing deletions `AutoscaledBound` and `NameLoopFinds` fail. With
  `"managed"` among the requests (`Orderly` excludes it) TLC finds four more:
  `addManagedNode` does not take the lock, so it picks the index that a running
  `IncreaseSize` has picked and not yet reserved (`DistinctIndexes`); managed nodes
  are not held to `MaxNodeSize`, whose numbers are all that `nodeName` tries for
  masters and workers (`NameLoopFinds`); and the handler that deletes a managed node
  while its launch runs forgets it without its VM (`NoVMLost`, `QuiescentConsistent`).
* Server: when the definition ignores managed nodes, discovery drops the VMs of
  managed nodes that run; a crash inside `Save` leaves an empty file, and every
  later start is fatal, as it is when a saved node has lost its VM; groups made by
  `NewNodeGroup`, and groups loaded without discovery, have nil maps; a group with
  a minimum size never becomes `Created`; a `Connect` during launches frees the
  indexes they have.
* Addresses: `findNextNodeIndex` starts at 0 and `Clone` adds index - 1 from index 1
  on, so the first two nodes of a group get one static address (`FirstTwoShare`);
  the address is not checked against the netmask; `GetNetmask` of
  `CommonManagedNodeNetwork` returns the address (`v1alpha2/types.go:215`); the table
  of MAC addresses goes by interface and index, so that nodes of two groups get
  one generated MAC address (`network.go:386`).
* Front ends: a `DeleteNodes` that comes to a name which has been given out again
  meanwhile forgets the new node, and its launch puts it back into the group, which may have other nodes by
  then and so exceeds its maximum: with externalgrpc, whose launches go on after
  the answer, and with grpc handlers at a time (`InstancesCounted`). A `Delete`
  that comes to a VM which another handler is deleting is refused it and fails; the
  group stays, `Deleted`, and refuses every launch
  (`GroupsUsable`). A group that is made while `Cleanup` runs is forgotten with its
  launches (`StrayEnds`). `Create` answers success for a group that is being deleted;
  `cleanup` keeps only the error of the last node; `NodeGroupDeleteNodes` of
  externalgrpc dereferences a group that was removed after its answer
  (`externalgrpc.go:277`); `GetOptions` fills one field from another
  (`grpc.go:1165`).
* Kubernetes client: a `RequestTimeout` of 0, for which the flag (`types.go:655`) and
  the comment on `NewContext` (`context.go:24`) say no timeout, ends a drain at once
  (`client.go:494`, an exception of `GivesUpInTime`); 120 s times `time.Second` is
  negative and the retry loops try once (`client.go:329`); evictions go on after
  the deadline, and their goroutines stay in the full channel; a drain does not
  cordon the node first.
* Providers: a lost answer to a creation leaves a VM where handlers go by an id;
  `InstanceExists` takes an error for a free name; NAT that fails on cloudstack
  leaves a public address (`cloudstack/vm.go:296`), and a restart forgets it;
  RFC 2136 records outlive VMs that are off; a power off of a VM that is off
  already is an error for some providers and leaves the node `Deleting`; multipass
  attaches VMs that do not exist.

## 7. What is not modelled

* The Kubernetes distributions: command lines and files for kubeadm, k3s, rke2,
  microk8s and external, without state of their own.
* Cloud-init text, SSH, and the parsing of flags, JSON and machine files.
* What the clouds do behind the requests of `providers/`: VMs are external, and
  requests that put together disks, networks and cloud-init may only be refused.
  Netmasks, routes and MAC addresses.
* TLS, listeners and the registration of the services.
* Generated code other than the two protocols: the client of the desktop service
  (`api/`), clients and informers of the custom resource (`pkg/generated`), and the
  reflection code of all messages.
* Debug mode, which keeps VMs whose launch failed; nodes the program did not make,
  which it refuses to touch.
* The save at an orderly stop of the server; CPU and memory limits of managed
  nodes.
