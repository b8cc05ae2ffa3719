---------------------------- MODULE ProviderInv ----------------------------
(***************************************************************************)
(* The inductive invariant of module Provider: what makes OneVMPerName,     *)
(* LaunchFailureCleaned and DeletedLeavesNothing true in every state.       *)
(***************************************************************************)
EXTENDS Provider

\* A VM that is there, or on its way.
Present(v) == vms[v] = "requested" \/ Alive(vms[v])

\* The goroutine of the launch, which cleans up when the launch fails.
Launcher(c) == call[c].op \in {"launch", "clean"}

Without(faults) == env.faults \cap faults = {}

LaunchLabels == {"create", "creating", "built", "configure", "address", "powerOn", "poweringOn",
                 "ready", "registerDNS"}
DeleteLabels == {"created", "status", "unregisterDNS", "powerOff", "poweringOff", "destroy", "release"}

-----------------------------------------------------------------------------
(* The goroutines and the handler *)

CallInv ==
  /\ \A c \in Callers :
       /\ call[c].op = "none" => call[c] = Idle
       /\ call[c].op = "launch" => call[c].pc \in LaunchLabels
       /\ call[c].op \in {"clean", "delete"} => call[c].pc \in DeleteLabels
       /\ call[c].op # "none" => handler \in Handler
  /\ fate # "none" => handler \in Handler
  /\ crashed => May("crash")

OneLauncher == \A c, d \in Callers : Launcher(c) /\ Launcher(d) => c = d

\* Nobody deletes a node that is being launched.
Alone ==
  ~May("early") =>
    \A c \in Callers : Launcher(c) =>
      fate = "none" /\ \A d \in Callers \ {c} : call[d].op = "none"

\* The VMs that the launch and the handler know were asked for.
VMKnown ==
  /\ handler \in Handler /\ handler.id # Nil => vms[handler.id] # "none"
  /\ \A c \in Callers : call[c].op = "launch" =>
       /\ call[c].pc = "creating" => call[c].vm # Nil /\ vms[call[c].vm] # "none"
       /\ call[c].pc \notin {"create", "creating"} => handler.id # Nil

-----------------------------------------------------------------------------
(* One VM *)

\* Questions are answered, nobody gives up too early and the process goes on.
Steady == Without({"unseen", "late", "crash"})

SingleVM ==
  Steady \/ kind \in RecordByAddress => \A v, w \in Ids : Present(v) /\ Present(w) => v = w

\* A VM is on its way only while the launch waits for it, and the launch asks for one when the
\* name is free.
NameFree ==
  Steady =>
    /\ \A v \in Ids : vms[v] = "requested" =>
         \E c \in Callers : call[c].op = "launch" /\ call[c].pc = "creating" /\ call[c].vm = v
    /\ \A c \in Callers : call[c].pc = "create" /\ kind # "multipass" => \A v \in Ids : ~Present(v)

-----------------------------------------------------------------------------
(* What a deletion leaves *)

AddressEnvironment == ~crashed /\ ~May("early") /\ ~May("address")

\* The handler knows the public address that its VM has.
AddressInv ==
  AddressEnvironment =>
    /\ \A v \in addresses : vms[v] # "none"
    /\ \A c \in Callers : call[c].pc \in {"create", "creating"} => handler.id = Nil /\ handler.address = Nil
    /\ \A c \in Callers : call[c].pc = "creating" => call[c].vm \notin addresses
    /\ handler \in Handler /\ handler.id \in addresses => handler.address = handler.id
    /\ fate = "deleted" => handler \in Handler /\ handler.id \notin addresses

RecordEnvironment ==
  ~May("stop") /\ ~May("early") /\ (kind \in RecordByAddress => ~May("halt"))

\* A provider that removes the record by the address of the VM finds the VM on if there is a
\* record.
RecordInv ==
  RecordEnvironment =>
    /\ fate = "deleted" => ~record
    /\ \A c \in Callers : call[c].pc \in {"powerOff", "poweringOff", "destroy", "release"} => ~record
    /\ kind \in RecordByAddress =>
         /\ record => \E v \in Ids : vms[v] = "on"
         /\ \A c \in Callers : call[c].pc = "registerDNS" => \E v \in Ids : vms[v] = "on"
         /\ \A c \in Callers : call[c].pc = "unregisterDNS" /\ ~call[c].powered => ~record

-----------------------------------------------------------------------------
(* A launch that fails *)

CleanEnvironment ==
  /\ Without({"late", "unseen", "stop", "early", "crash"})
  /\ May("lost") => kind \in ByName
  /\ May("halt") => PowerOff("off") # "error"

\* These delete a VM that is off, and no other.
DeletesOff == {"lxd", "vsphere", "desktop"}

\* The state of the VM, as far as the launch has come.
LaunchState(pc, s) ==
  kind \in DeletesOff =>
    /\ pc = "creating" => s \in {"requested", "off"}
    /\ pc \in {"built", "configure", "address", "powerOn"} => s = "off"
    /\ pc = "poweringOn" => s \in {"off", "starting", "on"}
    /\ pc \in {"ready", "registerDNS"} => s \in {"off", "on"} \/ (kind = "desktop" /\ s = "starting")

\* What deleteVM will be able to stop, and what it will be able to delete.
Stoppable(s) ==
  Alive(s) /\ CASE kind = "lxd" -> s \in {"on", "off"}
                [] kind = "vsphere" -> s = "on"
                [] kind = "desktop" -> s \in {"starting", "on"}
                [] OTHER -> TRUE
Deletable(s) == Alive(s) /\ (kind \in DeletesOff => s = "off")

\* The state of the VM, as far as the clean-up has come.
CleanState(pc, powered, s) ==
  /\ Alive(s)
  /\ pc \in {"created", "status"} /\ kind \in DeletesOff =>
       s \in {"off", "on"} \/ (kind = "desktop" /\ s = "starting")
  /\ pc = "unregisterDNS" => IF powered THEN Stoppable(s) ELSE Deletable(s)
  /\ pc = "powerOff" => Stoppable(s)
  /\ pc = "poweringOff" => s \in {"stopping", "off"}
  /\ pc = "destroy" => Deletable(s)
  /\ pc # "release"

CleanInv ==
  CleanEnvironment =>
    /\ fate = "failed" => \A v \in Ids : ~Present(v)
    /\ \A c \in Callers : Launcher(c) /\ call[c].pc # "create" => handler.instance
    /\ \A c \in Callers, v \in Ids : call[c].op = "launch" /\ Present(v) =>
         /\ call[c].pc = "creating" => call[c].vm = v
         /\ call[c].pc \notin {"create", "creating"} => kind \in ByName \/ handler.id = v
         /\ call[c].pc # "create" => LaunchState(call[c].pc, vms[v])
    /\ \A c \in Callers, v \in Ids : call[c].op = "clean" /\ Present(v) =>
         CleanState(call[c].pc, call[c].powered, vms[v]) /\ (kind \in ByName \/ handler.id = v)

ProviderInv ==
  /\ TypeOK /\ CallInv /\ OneLauncher /\ Alone /\ VMKnown /\ SingleVM /\ NameFree
  /\ AddressInv /\ RecordInv /\ CleanInv
=============================================================================
