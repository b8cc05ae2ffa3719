------------------------------ MODULE Provider ------------------------------
(***************************************************************************)
(* The handler of one node name in a cloud provider (providers/): making,   *)
(* powering, deleting and finding its VM, in the order in which launchVM    *)
(* and deleteVM call it, for each of the seven providers.                   *)
(*                                                                          *)
(* A request that changes a VM and the waiting for its effect are two       *)
(* steps: the VM goes on when the handler has given up.  What a provider    *)
(* does with a request is a function from the state of the VM to one of     *)
(* Answers.  The VMs themselves are external.                               *)
(*                                                                          *)
(* A definition that stands before another one and is named after it is a   *)
(* faulty variant of it that no action uses.                                *)
(***************************************************************************)
EXTENDS Integers, FiniteSets

CONSTANTS
  Nil,
  Callers,      \* goroutines that work on the node
  MaxVMs,       \* how many VMs are ever made under the name: a bound
  Environments  \* providers, what is configured, what may go wrong

Kinds == {"aws", "cloudstack", "desktop", "lxd", "multipass", "openstack", "vsphere"}

FaultKinds ==
  { "refused",  \* a request of the launch has an error, and no effect
    "lost",     \* the VM is made, or deleted, and the answer is an error
    "late",     \* a handler gives up before the VM is where it waits for it
    "unseen",   \* a question about the VM has an error
    "address",  \* a public address cannot be had, bound or given back
    "boot",     \* the VM does not boot
    "halt",     \* the VM is shut down
    "stop",     \* a request of the deletion has an error, and no effect
    "early",    \* the node is deleted before its launch has ended
    "crash" }   \* the process ends, once, and is started again

ASSUME ProviderAssumption ==
  /\ MaxVMs \in Nat \ {0} /\ Nil \notin 1..MaxVMs
  /\ Environments \subseteq [kind : Kinds, faults : SUBSET FaultKinds, public : BOOLEAN, dns : BOOLEAN]

VARIABLES
  env,       \* an element of Environments, does not change
  vms,       \* the VMs that bear the name, as the provider has them
  addresses, \* the VMs a public address is allocated for
  record,    \* whether the DNS server has a record of the name
  handler,   \* the handler of the node, Nil when there is no such node
  fate,      \* what became of the node
  call,      \* what each goroutine is doing
  crashed,   \* whether the process was started again
  panicked   \* whether the process ended with a panic

vars == <<env, vms, addresses, record, handler, fate, call, crashed, panicked>>

-----------------------------------------------------------------------------
(* Types *)

Ids == 1..MaxVMs

VMState == {"none", "requested", "off", "starting", "on", "stopping", "terminating", "gone"}

Alive(s) == s \in {"off", "starting", "on", "stopping"}

\* What a request is answered with: it has taken effect or there was nothing to do
\* ("done"), it has begun to, and the handler waits ("wait"), it has an error.
Answers == {"done", "wait", "error"}

\* runningInstance is not nil, its InstanceID, and the public address it knows of.
Handler == [instance : BOOLEAN, id : Ids \cup {Nil}, address : Ids \cup {Nil}]

ASSUME NilAssumption == Nil \notin Handler

Label == {"idle", "create", "creating", "built", "configure", "address", "powerOn", "poweringOn",
          "ready", "registerDNS", "created", "status", "unregisterDNS", "powerOff", "poweringOff",
          "destroy", "release"}

Op == {"none", "launch", "clean", "delete"}

Call == [op : Op, pc : Label, vm : Ids \cup {Nil}, powered : BOOLEAN]

Idle == [op |-> "none", pc |-> "idle", vm |-> Nil, powered |-> FALSE]

kind == env.kind

May(fault) == fault \in env.faults

Quiet == \A c \in Callers : call[c] = Idle

-----------------------------------------------------------------------------
(* aws: the instance runs as soon as it is made and is deleted by its id. *)

\* Create looks for an instance of the same name once more.
AwsCreate(found) == IF found = {} \/ May("unseen") THEN "wait" ELSE "error"

AwsPowerOn(s) == IF s \in {"off", "starting", "on"} THEN "wait" ELSE "error"

AwsPowerOff(s) == IF Alive(s) THEN "wait" ELSE "error"

\* delete(false): nobody waits until the instance is terminated.
AwsDelete(s) == IF Alive(s) \/ s = "terminating" THEN "wait" ELSE "error"

AwsStatus(s) ==
  CASE s = "gone" -> "error" [] s \in {"starting", "on"} -> "on" [] OTHER -> "off"

-----------------------------------------------------------------------------
(* cloudstack: the VM is made, and not started. *)

CloudstackPowerOn(s) ==
  CASE s \in {"starting", "on"} -> "done" [] s = "off" -> "wait" [] OTHER -> "error"

CloudstackPowerOff(s) ==
  CASE s \in {"starting", "on"} -> "wait" [] s \in {"off", "stopping"} -> "done" [] OTHER -> "error"

CloudstackDelete(s) == IF Alive(s) THEN "done" ELSE "error"

CloudstackStatus(s) == CASE s = "gone" -> "error" [] s = "on" -> "on" [] OTHER -> "off"

-----------------------------------------------------------------------------
(* openstack: Create waits until the server is ACTIVE, which it still is while it *)
(* stops, and while it is deleted.                                                *)

OpenstackPowerOn(s) ==
  CASE s \in {"starting", "on", "stopping"} -> "done" [] s = "off" -> "wait" [] OTHER -> "error"

OpenstackPowerOff(s) ==
  CASE s \in {"starting", "on", "stopping"} -> "wait" [] s = "off" -> "done" [] OTHER -> "error"

OpenstackDelete(s) == IF Alive(s) THEN "wait" ELSE "error"

OpenstackStatus(s) ==
  CASE s = "gone" -> "error" [] s \in {"on", "stopping", "terminating"} -> "on" [] OTHER -> "off"

-----------------------------------------------------------------------------
(* lxd: the instance is made, and not started; everything goes by its name. *)

LxdPowerOn(s) ==
  CASE s \in {"on", "stopping"} -> "done" [] s \in {"off", "starting"} -> "wait" [] OTHER -> "error"

LxdPowerOff(s) ==
  CASE s \in {"on", "stopping"} -> "wait" [] s \in {"off", "starting"} -> "done" [] OTHER -> "error"

\* Not forced: an instance that runs is not deleted.
LxdDelete(s) == IF s = "off" THEN "done" ELSE "error"

LxdStatus(s) ==
  CASE s \in {"on", "stopping"} -> "on" [] s \in {"off", "starting"} -> "off" [] OTHER -> "error"

-----------------------------------------------------------------------------
(* vsphere: the VM is cloned, and not started; everything goes by its name. *)

VspherePowerOn(s) == IF s = "off" THEN "wait" ELSE "error"

VspherePowerOff(s) == IF s \in {"on", "stopping"} THEN "wait" ELSE "error"

VsphereDelete(s) == IF s = "off" THEN "done" ELSE "error"

VsphereStatus(s) ==
  CASE s \in {"on", "stopping"} -> "on" [] s \in {"off", "starting"} -> "off" [] OTHER -> "error"

-----------------------------------------------------------------------------
(* desktop: requests to a service on the host, by the UUID of the VM. *)

\* The answer does not wait until the system of the VM runs.
DesktopPowerOn(s) == IF Alive(s) THEN "done" ELSE "error"

\* The service answers when the VM is off; that it refuses a VM that is off is assumed.
DesktopPowerOff(s) == IF s \in {"starting", "on", "stopping"} THEN "wait" ELSE "error"

DesktopDelete(s) == IF s = "off" THEN "done" ELSE "error"

DesktopStatus(s) ==
  CASE s \in {"starting", "on", "stopping"} -> "on" [] s = "off" -> "off" [] OTHER -> "error"

-----------------------------------------------------------------------------
(* multipass: commands, or requests to a service; the VM runs as soon as it is made. *)

MultipassPowerOn(s) == IF Alive(s) THEN "wait" ELSE "error"

MultipassPowerOff(s) == IF Alive(s) THEN "wait" ELSE "error"

\* delete -p also stops the VM.
MultipassDelete(s) == IF Alive(s) THEN "done" ELSE "error"

MultipassStatus(s) ==
  CASE s = "on" -> "on" [] s \in {"off", "starting", "stopping"} -> "off" [] OTHER -> "error"

-----------------------------------------------------------------------------
(* The interface ProviderHandler *)

\* These address the VM by its name, the others by the id they have learned.
ByName == {"lxd", "multipass", "vsphere"}

PowerOn(s) ==
  CASE kind = "aws" -> AwsPowerOn(s) [] kind = "cloudstack" -> CloudstackPowerOn(s)
    [] kind = "openstack" -> OpenstackPowerOn(s) [] kind = "lxd" -> LxdPowerOn(s)
    [] kind = "vsphere" -> VspherePowerOn(s) [] kind = "desktop" -> DesktopPowerOn(s)
    [] kind = "multipass" -> MultipassPowerOn(s)

PowerOff(s) ==
  CASE kind = "aws" -> AwsPowerOff(s) [] kind = "cloudstack" -> CloudstackPowerOff(s)
    [] kind = "openstack" -> OpenstackPowerOff(s) [] kind = "lxd" -> LxdPowerOff(s)
    [] kind = "vsphere" -> VspherePowerOff(s) [] kind = "desktop" -> DesktopPowerOff(s)
    [] kind = "multipass" -> MultipassPowerOff(s)

Destroy(s) ==
  CASE kind = "aws" -> AwsDelete(s) [] kind = "cloudstack" -> CloudstackDelete(s)
    [] kind = "openstack" -> OpenstackDelete(s) [] kind = "lxd" -> LxdDelete(s)
    [] kind = "vsphere" -> VsphereDelete(s) [] kind = "desktop" -> DesktopDelete(s)
    [] kind = "multipass" -> MultipassDelete(s)

Status(s) ==
  CASE kind = "aws" -> AwsStatus(s) [] kind = "cloudstack" -> CloudstackStatus(s)
    [] kind = "openstack" -> OpenstackStatus(s) [] kind = "lxd" -> LxdStatus(s)
    [] kind = "vsphere" -> VsphereStatus(s) [] kind = "desktop" -> DesktopStatus(s)
    [] kind = "multipass" -> MultipassStatus(s)

\* The VMs that bear the name, for the provider: an openstack server is still listed
\* while it is deleted.
Found == {v \in Ids : Alive(vms[v]) \/ (kind = "openstack" /\ vms[v] = "terminating")}

\* The state of the VM that the handler addresses.
Addressed ==
  IF kind \in ByName THEN {v \in Ids : Alive(vms[v])} ELSE {handler.id} \ {Nil}

\* The handler has an instance, or believes to have one.
Attached ==
  CASE kind \in {"vsphere", "multipass"} -> TRUE
    [] kind = "desktop" -> handler.id # Nil
    [] OTHER -> handler.instance

\* desktop, lxd, multipass and vsphere have one VM of a name, be it under way.
Create == CASE kind = "aws" -> AwsCreate(Found)
            [] kind \in {"cloudstack", "openstack"} -> "wait"
            [] OTHER -> IF \E v \in Ids : Alive(vms[v]) \/ vms[v] = "requested" THEN "error" ELSE "wait"

-----------------------------------------------------------------------------
(* Steps of a goroutine *)

At(c, pc) == ~panicked /\ call[c].pc = pc
Goto(c, pc) == call' = [call EXCEPT ![c].pc = pc]
Begin(c, op, pc) == ~panicked /\ call[c] = Idle /\ call' = [call EXCEPT ![c] = [Idle EXCEPT !.op = op, !.pc = pc]]

Launching == \E c \in Callers : call[c].op = "launch"

\* The State of the node is Deleting: deleteVM is refused.  It stays so when the VM
\* cannot be powered off, or was off and cannot be deleted.
Deleting ==
  \/ fate = "stuck"
  \/ \E c \in Callers :
       \/ call[c].pc \in {"unregisterDNS", "powerOff", "poweringOff"}
       \/ (call[c].pc \in {"destroy", "release"} /\ ~call[c].powered)

\* launchVM has an error: cleanOnLaunchError calls deleteVM.
LaunchError(c) == call' = [call EXCEPT ![c] = [Idle EXCEPT !.op = "clean", !.pc = "created"]]

\* deleteVM returns; whatever it returns, a launch that failed has failed.
DeleteReturns(c, outcome) ==
  /\ call' = [call EXCEPT ![c] = Idle]
  /\ fate' = CASE call[c].op = "clean" -> "failed" [] outcome = "error" -> fate [] OTHER -> outcome

Panic == panicked' = TRUE /\ UNCHANGED <<env, vms, addresses, record, handler, fate, call, crashed>>

-----------------------------------------------------------------------------
(* The VMs, at the provider *)

Running == {"aws", "multipass", "openstack"}

\* A VM that does not boot is off again; in desktop it stays powered, without a system.
VMChanges(v) ==
  /\ \/ vms[v] = "requested" /\ vms' = [vms EXCEPT ![v] = IF kind \in Running THEN "starting" ELSE "off"]
     \/ vms[v] = "starting" /\ vms' = [vms EXCEPT ![v] = "on"]
     \/ vms[v] = "starting" /\ May("boot") /\ kind # "desktop" /\ vms' = [vms EXCEPT ![v] = "off"]
     \/ vms[v] = "on" /\ May("halt") /\ vms' = [vms EXCEPT ![v] = "off"]
     \/ vms[v] = "stopping" /\ vms' = [vms EXCEPT ![v] = "off"]
     \/ vms[v] = "terminating" /\ vms' = [vms EXCEPT ![v] = "gone"]
  /\ UNCHANGED <<env, addresses, record, handler, fate, call, crashed, panicked>>

-----------------------------------------------------------------------------
(* launchVM *)

CreateInstanceUnchecked(c) ==
  /\ Quiet /\ Begin(c, "launch", "create")
  /\ handler = Nil \/ fate \in {"failed", "deleted"}
  /\ \E v \in Ids : vms[v] = "none"
  /\ handler' = [instance |-> FALSE, id |-> Nil, address |-> Nil]
  /\ fate' = "none"
  /\ UNCHANGED <<env, vms, addresses, record, crashed, panicked>>

\* A name that is in use is refused, but by multipass; an error looks like a free name.
CreateInstance(c) ==
  /\ Quiet /\ Begin(c, "launch", "create")
  /\ handler = Nil \/ fate \in {"failed", "deleted"}
  /\ \E v \in Ids : vms[v] = "none"
  /\ Found = {} \/ kind = "multipass" \/ May("unseen")
  /\ handler' = [instance |-> FALSE, id |-> Nil, address |-> Nil]
  /\ fate' = "none"
  /\ UNCHANGED <<env, vms, addresses, record, crashed, panicked>>

\* The next VM to be made.
Fresh(v) == vms[v] = "none" /\ \A w \in Ids : vms[w] = "none" => v <= w

\* The request for a VM is on its way, or it was refused.
InstanceCreate(c) ==
  /\ At(c, "create")
  /\ handler' = [handler EXCEPT !.instance = TRUE]
  /\ \/ /\ Create = "wait"
        /\ \E v \in Ids :
             /\ Fresh(v)
             /\ vms' = [vms EXCEPT ![v] = "requested"]
             /\ call' = [call EXCEPT ![c].pc = "creating", ![c].vm = v]
     \/ (May("refused") \/ Create = "error") /\ LaunchError(c) /\ UNCHANGED vms
  /\ UNCHANGED <<env, addresses, record, fate, crashed, panicked>>

AfterCreate ==
  CASE kind = "openstack" -> "built" [] kind = "cloudstack" -> "address"
    [] kind = "vsphere" -> "configure" [] OTHER -> "powerOn"

CreatedForgetsId(c) ==
  /\ At(c, "creating")
  /\ \/ /\ vms[call[c].vm] # "requested"
        /\ handler' = [handler EXCEPT !.id = IF kind = "cloudstack" THEN Nil ELSE call[c].vm]
        /\ Goto(c, AfterCreate)
        /\ UNCHANGED vms
     \/ /\ vms[call[c].vm] = "requested" /\ May("refused")
        /\ vms' = [vms EXCEPT ![call[c].vm] = "gone"]
        /\ LaunchError(c) /\ UNCHANGED handler
     \/ /\ IF vms[call[c].vm] = "requested" THEN May("late") ELSE May("lost")
        /\ LaunchError(c) /\ UNCHANGED <<vms, handler>>
  /\ UNCHANGED <<env, addresses, record, fate, crashed, panicked>>

\* The VM is made and the handler learns its id; or it cannot be made; or the handler
\* has an error while the VM is being made, or although it was.
Created(c) ==
  /\ At(c, "creating")
  /\ \/ /\ vms[call[c].vm] # "requested"
        /\ handler' = [handler EXCEPT !.id = call[c].vm]
        /\ Goto(c, AfterCreate)
        /\ UNCHANGED vms
     \/ /\ vms[call[c].vm] = "requested" /\ May("refused")
        /\ vms' = [vms EXCEPT ![call[c].vm] = "gone"]
        /\ LaunchError(c) /\ UNCHANGED handler
     \/ /\ IF vms[call[c].vm] = "requested" THEN May("late") ELSE May("lost")
        /\ LaunchError(c) /\ UNCHANGED <<vms, handler>>
  /\ UNCHANGED <<env, addresses, record, fate, crashed, panicked>>

\* vsphere: a clone that cannot be configured is deleted at once, with the context
\* whose time may be over.
Configure(c) ==
  /\ At(c, "configure")
  /\ \/ Goto(c, "powerOn") /\ UNCHANGED vms
     \/ /\ May("refused") /\ LaunchError(c)
        /\ \/ vms' = [v \in Ids |-> IF v \in Addressed /\ VsphereDelete(vms[v]) = "done" THEN "gone" ELSE vms[v]]
           \/ May("late") /\ UNCHANGED vms
  /\ UNCHANGED <<env, addresses, record, handler, fate, crashed, panicked>>

\* openstack: Create waits until the server is ACTIVE, then learns its address.
WaitForPowered(c) ==
  /\ At(c, "built")
  /\ LET s == vms[handler.id]
     IN \/ s \in {"on", "stopping", "terminating"} /\ Goto(c, "address")
        \/ (s \in {"off", "gone"} \/ May("late") \/ May("refused")) /\ LaunchError(c)
  /\ UNCHANGED <<env, vms, addresses, record, handler, fate, crashed, panicked>>

\* cloudstack and openstack: a public address.  The id of the address of cloudstack is
\* kept only once the NAT of the address is enabled.
Associate(c) ==
  /\ At(c, "address")
  /\ \/ /\ env.public
        /\ addresses' = addresses \cup {handler.id}
        /\ handler' = [handler EXCEPT !.address = handler.id]
        /\ Goto(c, "powerOn")
     \/ ~env.public /\ Goto(c, "powerOn") /\ UNCHANGED <<addresses, handler>>
     \/ /\ env.public /\ May("address") /\ LaunchError(c) /\ UNCHANGED handler
        /\ \/ UNCHANGED addresses
           \/ kind = "cloudstack" /\ addresses' = addresses \cup {handler.id}
  /\ UNCHANGED <<env, vms, record, fate, crashed, panicked>>

\* A request that could not be sent leaves lxd without an operation to wait for.
InstancePowerOn(c) ==
  /\ At(c, "powerOn")
  /\ \/ \E v \in Addressed :
          /\ PowerOn(vms[v]) # "error"
          /\ vms' = [vms EXCEPT ![v] = IF @ = "off" THEN "starting" ELSE @]
          /\ Goto(c, IF PowerOn(vms[v]) = "done" THEN "ready" ELSE "poweringOn")
          /\ UNCHANGED <<env, addresses, record, handler, fate, crashed, panicked>>
     \/ /\ May("refused") \/ \A v \in Addressed : PowerOn(vms[v]) = "error"
        /\ IF kind = "lxd" /\ \E v \in Addressed : PowerOn(vms[v]) = "wait"
           THEN Panic
           ELSE LaunchError(c) /\ UNCHANGED <<env, vms, addresses, record, handler, fate, crashed, panicked>>

WaitOn(c) ==
  /\ At(c, "poweringOn")
  /\ LET s == {vms[v] : v \in Addressed}
     IN \/ "on" \in s /\ Goto(c, "ready")
        \/ s \cap {"starting", "on"} = {} /\ LaunchError(c)
        \/ May("late") /\ LaunchError(c)
  /\ UNCHANGED <<env, vms, addresses, record, handler, fate, crashed, panicked>>

\* InstanceAutoStart, InstanceWaitForToolsRunning and InstanceWaitReady: desktop asks
\* the service to wait no time at all.
InstanceWaitReady(c) ==
  /\ At(c, "ready")
  /\ LET s == {vms[v] : v \in Addressed}
     IN \/ "on" \in s /\ Goto(c, "registerDNS")
        \/ s \cap {"starting", "on"} = {} /\ LaunchError(c)
        \/ (May("refused") \/ May("late") \/ (kind = "desktop" /\ "on" \notin s)) /\ LaunchError(c)
  /\ UNCHANGED <<env, vms, addresses, record, handler, fate, crashed, panicked>>

\* The launch ends.
RegisterDNS(c) ==
  /\ At(c, "registerDNS")
  /\ \/ /\ record' = (record \/ env.dns)
        /\ call' = [call EXCEPT ![c] = Idle]
        /\ fate' = "ok"
     \/ env.dns /\ May("refused") /\ LaunchError(c) /\ UNCHANGED <<record, fate>>
  /\ UNCHANGED <<env, vms, addresses, handler, crashed, panicked>>

-----------------------------------------------------------------------------
(* deleteVM *)

Delete(c) ==
  /\ Begin(c, "delete", "created")
  /\ fate = "ok" \/ (Launching /\ May("early"))
  /\ UNCHANGED <<env, vms, addresses, record, handler, fate, crashed, panicked>>

\* It looks for the name, whatever the id that the handler knows.
InstanceCreated(c) ==
  /\ At(c, "created")
  /\ \/ ~Deleting /\ Attached /\ Found # {} /\ Goto(c, "status") /\ UNCHANGED fate
     \/ (Deleting \/ ~Attached \/ Found = {} \/ May("unseen")) /\ DeleteReturns(c, "error")
  /\ UNCHANGED <<env, vms, addresses, record, handler, crashed, panicked>>

InstanceStatus(c) ==
  /\ At(c, "status")
  /\ \/ \E v \in Addressed :
          /\ Status(vms[v]) # "error"
          /\ call' = [call EXCEPT ![c].pc = "unregisterDNS", ![c].powered = Status(vms[v]) = "on"]
          /\ UNCHANGED fate
     \/ /\ May("unseen") \/ \A v \in Addressed : Status(vms[v]) = "error"
        /\ DeleteReturns(c, "error")
  /\ UNCHANGED <<env, vms, addresses, record, handler, crashed, panicked>>

\* These remove the record that has the address of the VM, which is not known of a VM
\* that is off.
RecordByAddress == {"desktop", "lxd", "multipass", "vsphere"}

\* An error is only logged.  aws reads the record before it removes it: when there is
\* none it has no address to remove, or the one of the record that comes next.
UnregisterDNS(c) ==
  /\ At(c, "unregisterDNS")
  /\ \/ /\ IF kind \in RecordByAddress /\ ~call[c].powered
           THEN UNCHANGED record
           ELSE record' = FALSE \/ (May("stop") /\ UNCHANGED record)
        /\ Goto(c, IF call[c].powered THEN "powerOff" ELSE "destroy")
        /\ UNCHANGED <<env, vms, addresses, handler, fate, crashed, panicked>>
     \/ kind = "aws" /\ env.dns /\ ~record /\ Panic

InstancePowerOff(c) ==
  /\ At(c, "powerOff")
  /\ \/ \E v \in Addressed :
          /\ PowerOff(vms[v]) # "error"
          /\ vms' = [vms EXCEPT ![v] = IF PowerOff(@) = "wait" /\ @ # "off" THEN "stopping" ELSE @]
          /\ Goto(c, IF PowerOff(vms[v]) = "done" THEN "destroy" ELSE "poweringOff")
          /\ UNCHANGED <<env, addresses, record, handler, fate, crashed, panicked>>
     \/ /\ May("stop") \/ \A v \in Addressed : PowerOff(vms[v]) = "error"
        /\ IF kind = "lxd" /\ \E v \in Addressed : PowerOff(vms[v]) = "wait"
           THEN Panic
           ELSE DeleteReturns(c, "stuck") /\ UNCHANGED <<env, vms, addresses, record, handler, crashed, panicked>>

WaitOff(c) ==
  /\ At(c, "poweringOff")
  /\ LET s == {vms[v] : v \in Addressed}
     IN \/ "off" \in s /\ Goto(c, "destroy") /\ UNCHANGED fate
        \/ (s \cap {"stopping", "off"} = {} \/ May("late")) /\ DeleteReturns(c, "stuck")
  /\ UNCHANGED <<env, vms, addresses, record, handler, crashed, panicked>>

DestroyedBy == IF kind \in {"aws", "openstack"} THEN "terminating" ELSE "gone"

InstanceDeleteKeepsAddress(c) ==
  /\ At(c, "destroy")
  /\ \/ \E v \in Addressed :
          /\ Destroy(vms[v]) # "error"
          /\ vms' = [vms EXCEPT ![v] = DestroyedBy]
          /\ \/ DeleteReturns(c, "deleted")
             \/ May("lost") /\ DeleteReturns(c, IF call[c].powered THEN "error" ELSE "stuck")
     \/ /\ May("stop") \/ \A v \in Addressed : Destroy(vms[v]) = "error"
        /\ DeleteReturns(c, IF call[c].powered THEN "error" ELSE "stuck") /\ UNCHANGED vms
  /\ UNCHANGED <<env, addresses, record, handler, crashed, panicked>>

\* The State is Stopped once the VM was powered off, and then the node can be deleted
\* again.
InstanceDelete(c) ==
  /\ At(c, "destroy")
  /\ \/ \E v \in Addressed :
          /\ Destroy(vms[v]) # "error"
          /\ vms' = [vms EXCEPT ![v] = DestroyedBy]
          /\ \/ handler.address # Nil /\ Goto(c, "release") /\ UNCHANGED fate
             \/ handler.address = Nil /\ DeleteReturns(c, "deleted")
             \/ May("lost") /\ DeleteReturns(c, IF call[c].powered THEN "error" ELSE "stuck")
     \/ /\ May("stop") \/ \A v \in Addressed : Destroy(vms[v]) = "error"
        /\ DeleteReturns(c, IF call[c].powered THEN "error" ELSE "stuck") /\ UNCHANGED vms
  /\ UNCHANGED <<env, addresses, record, handler, crashed, panicked>>

\* The public address is given back.
Release(c) ==
  /\ At(c, "release")
  /\ \/ addresses' = addresses \ {handler.address} /\ DeleteReturns(c, "deleted")
     \/ /\ May("address") /\ UNCHANGED addresses
        /\ DeleteReturns(c, IF call[c].powered THEN "error" ELSE "stuck")
  /\ UNCHANGED <<env, vms, record, handler, crashed, panicked>>

-----------------------------------------------------------------------------
(* The process *)

Crash ==
  /\ May("crash") /\ ~crashed /\ ~panicked
  /\ crashed' = TRUE
  /\ handler' = Nil
  /\ fate' = "none"
  /\ call' = [c \in Callers |-> Idle]
  /\ UNCHANGED <<env, vms, addresses, record, panicked>>

\* The discovery of the nodes: the handler does not learn the public address.  multipass
\* does not look for the VM.
AttachInstance ==
  /\ crashed /\ ~panicked /\ handler = Nil /\ Quiet
  /\ Found # {} \/ kind = "multipass"
  /\ handler' \in [instance : {TRUE}, id : IF Found = {} THEN {Nil} ELSE Found, address : {Nil}]
  /\ fate' = "ok"
  /\ UNCHANGED <<env, vms, addresses, record, call, crashed, panicked>>

-----------------------------------------------------------------------------
Init ==
  /\ env \in Environments
  /\ vms = [v \in Ids |-> "none"]
  /\ addresses = {}
  /\ record = FALSE
  /\ handler = Nil
  /\ fate = "none"
  /\ call = [c \in Callers |-> Idle]
  /\ crashed = FALSE
  /\ panicked = FALSE

Launch(c) ==
  \/ CreateInstance(c) \/ InstanceCreate(c) \/ Created(c) \/ Configure(c) \/ WaitForPowered(c)
  \/ Associate(c) \/ InstancePowerOn(c) \/ WaitOn(c) \/ InstanceWaitReady(c) \/ RegisterDNS(c)

DeleteVM(c) ==
  \/ Delete(c) \/ InstanceCreated(c) \/ InstanceStatus(c) \/ UnregisterDNS(c)
  \/ InstancePowerOff(c) \/ WaitOff(c) \/ InstanceDelete(c) \/ Release(c)

Next ==
  \/ \E c \in Callers : Launch(c) \/ DeleteVM(c)
  \/ \E v \in Ids : VMChanges(v)
  \/ Crash
  \/ AttachInstance

Spec == Init /\ [][Next]_vars

-----------------------------------------------------------------------------
(* Properties *)

\* Every variable has its type.
TypeOK ==
  /\ env \in Environments
  /\ vms \in [Ids -> VMState]
  /\ addresses \subseteq Ids
  /\ record \in BOOLEAN
  /\ handler \in Handler \cup {Nil}
  /\ fate \in {"none", "ok", "failed", "deleted", "stuck"}
  /\ call \in [Callers -> Call]
  /\ crashed \in BOOLEAN /\ panicked \in BOOLEAN

\* Whatever request of a launch is refused and however the VM fails to boot, the deleteVM
\* that follows the failed launch finds the VM and removes it: no VM of the name is left.
\* So that it holds every question must be answered, every wait must be long enough,
\* for a provider that deletes by id the answer to the creation must arrive, and a VM
\* that shuts down by itself must not be refused as already off.
LaunchFailureCleaned ==
  ( /\ Quiet /\ fate = "failed"
    /\ env.faults \cap {"late", "unseen", "stop", "early", "crash"} = {}
    /\ May("lost") => kind \in ByName
    /\ May("halt") => PowerOff("off") # "error" )
  => \A v \in Ids : ~Alive(vms[v])

\* At no time two VMs bear the name, although a failed launch may leave one behind and
\* the name is launched again: CreateInstance, or the provider, refuses the name.  A
\* question without answer, a VM that is made late or a restart can make a second one.
OneVMPerName ==
  env.faults \cap {"unseen", "late", "crash"} = {} => Cardinality({v \in Ids : Alive(vms[v])}) <= 1

\* A node that was deleted leaves neither a public address nor a record in the DNS,
\* whether its VM was on, off, deleted at the first or at a later attempt.  A record that
\* goes by the address outlives a VM that was shut down.
DeletedLeavesNothing ==
  Quiet /\ fate = "deleted" =>
    /\ ~crashed /\ ~May("early") /\ ~May("address") => handler.id \notin addresses
    /\ ~May("stop") /\ ~May("early") /\ (kind \in RecordByAddress => ~May("halt")) => ~record

\* deleteVM does not end the process: UnRegisterDNS of aws goes on without an error when
\* there is no record of the name.
NoPanic == ~panicked
=============================================================================
