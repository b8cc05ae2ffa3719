--------------------------- MODULE ProviderProofs ---------------------------
(***************************************************************************)
(* Proofs about the handler of a provider, for any number of goroutines and *)
(* of VMs, for every provider and whatever may go wrong.                    *)
(***************************************************************************)
EXTENDS ProviderInv, FiniteSetTheorems, TLAPS

-----------------------------------------------------------------------------
(* How a step of goroutine c changes call *)

TypeCall == call \in [Callers -> Call]

\* The other goroutines stay where they are, and where goroutine c is then.
Moves(c, op, pc, vm, powered) ==
  /\ TypeCall'
  /\ \A d \in Callers \ {c} : call'[d] = call[d]
  /\ call'[c].op = op /\ call'[c].pc = pc /\ call'[c].vm = vm /\ call'[c].powered = powered

LEMMA UpdateCall ==
  ASSUME TypeCall, NEW c \in Callers, NEW r \in Call, call' = [call EXCEPT ![c] = r]
  PROVE  Moves(c, r.op, r.pc, r.vm, r.powered) /\ call'[c] = r
BY DEF TypeCall, Moves

LEMMA IdleCall ==
  Idle \in Call /\ Idle.op = "none" /\ Idle.pc = "idle" /\ Idle.vm = Nil /\ Idle.powered = FALSE
BY DEF Idle, Call, Op, Label

LEMMA GotoCall ==
  ASSUME TypeCall, NEW c \in Callers, NEW pc \in Label, Goto(c, pc)
  PROVE  Moves(c, call[c].op, pc, call[c].vm, call[c].powered)
<1> DEFINE r == [call[c] EXCEPT !.pc = pc]
<1>1. call' = [call EXCEPT ![c] = r]
  BY Zenon DEF TypeCall, Goto
<1>2. call[c] \in Call
  BY DEF TypeCall
<1>3. r \in Call /\ r.op = call[c].op /\ r.pc = pc /\ r.vm = call[c].vm /\ r.powered = call[c].powered
  BY <1>2 DEF Call
<1> HIDE DEF r
<1> QED
  BY <1>1, <1>3, UpdateCall

LEMMA CreatingCall ==
  ASSUME TypeCall, NEW c \in Callers, NEW v \in Ids,
         call' = [call EXCEPT ![c].pc = "creating", ![c].vm = v]
  PROVE  Moves(c, call[c].op, "creating", v, call[c].powered)
<1> DEFINE r == [call[c] EXCEPT !.pc = "creating", !.vm = v]
<1>1. call' = [call EXCEPT ![c] = r]
  BY Zenon DEF TypeCall
<1>2. call[c] \in Call
  BY DEF TypeCall
<1>3. r \in Call /\ r.op = call[c].op /\ r.pc = "creating" /\ r.vm = v /\ r.powered = call[c].powered
  BY <1>2 DEF Call, Label
<1> HIDE DEF r
<1> QED
  BY <1>1, <1>3, UpdateCall

LEMMA StatusCall ==
  ASSUME TypeCall, NEW c \in Callers, NEW on \in BOOLEAN,
         call' = [call EXCEPT ![c].pc = "unregisterDNS", ![c].powered = on]
  PROVE  Moves(c, call[c].op, "unregisterDNS", call[c].vm, on)
<1> DEFINE r == [call[c] EXCEPT !.pc = "unregisterDNS", !.powered = on]
<1>1. call' = [call EXCEPT ![c] = r]
  BY Zenon DEF TypeCall
<1>2. call[c] \in Call
  BY DEF TypeCall
<1>3. r \in Call /\ r.op = call[c].op /\ r.pc = "unregisterDNS" /\ r.vm = call[c].vm /\ r.powered = on
  BY <1>2 DEF Call, Label
<1> HIDE DEF r
<1> QED
  BY <1>1, <1>3, UpdateCall

LEMMA BeginCall ==
  ASSUME TypeCall, NEW c \in Callers, NEW op \in Op, NEW pc \in Label, Begin(c, op, pc)
  PROVE  Moves(c, op, pc, Nil, FALSE) /\ call[c] = Idle
<1> DEFINE r == [Idle EXCEPT !.op = op, !.pc = pc]
<1>1. call[c] = Idle /\ call' = [call EXCEPT ![c] = r]
  BY DEF Begin
<1>2. r \in Call /\ r.op = op /\ r.pc = pc /\ r.vm = Nil /\ r.powered = FALSE
  BY DEF Idle, Call, Label, Op
<1> HIDE DEF r
<1> QED
  BY <1>1, <1>2, UpdateCall

LEMMA LaunchErrorCall ==
  ASSUME TypeCall, NEW c \in Callers, LaunchError(c)
  PROVE  Moves(c, "clean", "created", Nil, FALSE)
<1> DEFINE r == [Idle EXCEPT !.op = "clean", !.pc = "created"]
<1>1. call' = [call EXCEPT ![c] = r]
  BY DEF LaunchError
<1>2. r \in Call /\ r.op = "clean" /\ r.pc = "created" /\ r.vm = Nil /\ r.powered = FALSE
  BY DEF Idle, Call, Label, Op
<1> HIDE DEF r
<1> QED
  BY <1>1, <1>2, UpdateCall DEF Moves

LEMMA DeleteReturnsCall ==
  ASSUME TypeCall, NEW c \in Callers, NEW outcome, DeleteReturns(c, outcome)
  PROVE  Moves(c, "none", "idle", Nil, FALSE) /\ call'[c] = Idle
<1>1. call' = [call EXCEPT ![c] = Idle]
  BY DEF DeleteReturns
<1> QED
  BY <1>1, IdleCall, UpdateCall DEF Moves

-----------------------------------------------------------------------------
(* What the providers answer *)

USE DEF Present, Alive, May, Launcher, kind, VMState

LEMMA StatusTable ==
  ASSUME kind \in Kinds, NEW s \in VMState
  PROVE  /\ Alive(s) => Status(s) # "error"
         /\ kind \in RecordByAddress /\ Status(s) # "error" => Alive(s)
         /\ kind \in RecordByAddress /\ s = "on" => Status(s) = "on"
         /\ CleanState("status", FALSE, s) /\ Status(s) = "on" => Stoppable(s)
         /\ CleanState("status", FALSE, s) /\ Status(s) \notin {"on", "error"} => Deletable(s)
BY DEF Kinds, Status, AwsStatus, CloudstackStatus, OpenstackStatus, LxdStatus, VsphereStatus, DesktopStatus,
       MultipassStatus, RecordByAddress, CleanState, Stoppable, Deletable, DeletesOff

LEMMA PowerOffTable ==
  ASSUME kind \in Kinds, NEW s \in VMState
  PROVE  /\ PowerOff(s) # "error" => Alive(s) /\ PowerOff(s) \in {"wait", "done"}
         /\ Stoppable(s) => PowerOff(s) # "error"
         /\ Stoppable(s) /\ PowerOff(s) = "done" => Deletable(s)
BY DEF Kinds, PowerOff, AwsPowerOff, CloudstackPowerOff, OpenstackPowerOff, LxdPowerOff, VspherePowerOff,
       DesktopPowerOff, MultipassPowerOff, Stoppable, Deletable, DeletesOff

LEMMA DestroyTable ==
  ASSUME kind \in Kinds, NEW s \in VMState
  PROVE  /\ Destroy(s) # "error" => Alive(s) \/ s = "terminating"
         /\ Deletable(s) => Destroy(s) # "error"
BY DEF Kinds, Destroy, AwsDelete, CloudstackDelete, OpenstackDelete, LxdDelete, VsphereDelete,
       DesktopDelete, MultipassDelete, Deletable, DeletesOff

LEMMA PowerOnTable ==
  ASSUME kind \in Kinds, NEW s \in VMState
  PROVE  /\ PowerOn(s) # "error" => Alive(s) /\ PowerOn(s) \in {"wait", "done"}
         /\ kind \in {"lxd", "vsphere"} => PowerOn("off") = "wait"
BY DEF Kinds, PowerOn, AwsPowerOn, CloudstackPowerOn, OpenstackPowerOn, LxdPowerOn, VspherePowerOn,
       DesktopPowerOn, MultipassPowerOn

LEMMA EnvironmentKnown ==
  ASSUME TypeOK
  PROVE  kind \in Kinds /\ Nil \notin Ids /\ env.public \in BOOLEAN /\ env.dns \in BOOLEAN
BY ProviderAssumption DEF TypeOK, Ids

LEMMA CleanIsSteady ==
  /\ Steady => ~May("unseen") /\ ~May("late") /\ ~May("crash")
  /\ CleanEnvironment =>
       /\ Steady /\ ~May("unseen") /\ ~May("late") /\ ~May("stop") /\ ~May("early") /\ ~May("crash")
       /\ May("lost") => kind \in ByName
       /\ May("halt") => PowerOff("off") # "error"
BY DEF Steady, CleanEnvironment, Without

LEMMA SameEnvironment ==
  ASSUME UNCHANGED env
  PROVE  /\ Steady' <=> Steady
         /\ CleanEnvironment' <=> CleanEnvironment
<1>1. PowerOff("off")' = PowerOff("off")
  BY DEF PowerOff, AwsPowerOff, CloudstackPowerOff, OpenstackPowerOff, LxdPowerOff, VspherePowerOff,
         DesktopPowerOff, MultipassPowerOff
<1>2. Steady' = Steady
  BY DEF Steady, Without
<1>3. CleanEnvironment' = CleanEnvironment
  BY <1>1 DEF CleanEnvironment, Without
<1> QED
  BY <1>2, <1>3

\* Where a goroutine is tells what it does.
LEMMA Labels ==
  ASSUME TypeOK, CallInv, NEW c \in Callers
  PROVE  /\ call[c].op \in Op /\ call[c].vm \in Ids \cup {Nil} /\ call[c].powered \in BOOLEAN
         /\ call[c].pc \in LaunchLabels <=> call[c].op = "launch"
         /\ call[c].pc \in DeleteLabels <=> call[c].op \in {"clean", "delete"}
BY DEF TypeOK, CallInv, Call, Op, Idle, LaunchLabels, DeleteLabels

-----------------------------------------------------------------------------
(* What the goroutines do, by kind of step *)

USE DEF Moves

\* The launch has an error, and the clean-up begins.
LEMMA LaunchFails ==
  ASSUME ProviderInv, NEW c \in Callers,
         call[c].op = "launch", Moves(c, "clean", "created", Nil, FALSE),
         UNCHANGED <<env, record, fate, crashed, panicked>>,
         vms' \in [Ids -> VMState], addresses' \subseteq Ids, ~May("address") => addresses' = addresses,
         \A v \in Ids : vms'[v] = vms[v] \/ (vms[v] \in {"requested", "off"} /\ vms'[v] = "gone"),
         handler' \in Handler, handler'.id = handler.id, handler'.address = handler.address,
         Steady => \A v \in Ids : vms'[v] # "requested",
         CleanEnvironment =>
           /\ handler'.instance
           /\ \A v \in Ids : Present(v)' =>
                CleanState("created", FALSE, vms'[v]) /\ (kind \in ByName \/ handler.id = v)
  PROVE  ProviderInv'
<1>1. /\ TypeOK /\ CallInv /\ OneLauncher /\ Alone /\ VMKnown /\ SingleVM /\ NameFree
      /\ AddressInv /\ RecordInv /\ CleanInv
  BY DEF ProviderInv
<1>2. handler \in Handler
  BY <1>1 DEF CallInv
<1>3. /\ Steady' <=> Steady
      /\ CleanEnvironment' <=> CleanEnvironment
  BY SameEnvironment
<1>4. TypeOK'
  BY <1>1, <1>2, <1>3 DEF TypeOK, TypeCall
<1>5. CallInv'
  BY <1>1, <1>2, <1>3 DEF CallInv, DeleteLabels, LaunchLabels
<1>6. OneLauncher'
  BY <1>1, <1>2, <1>3 DEF OneLauncher
<1>7. Alone'
  BY <1>1, <1>2, <1>3 DEF Alone, OneLauncher, CallInv, Idle
<1>8. VMKnown'
  BY <1>1, <1>2, <1>3 DEF VMKnown, OneLauncher, Handler
<1>9. SingleVM'
  BY <1>1, <1>2, <1>3 DEF SingleVM
<1>10. NameFree'
  BY <1>1, <1>2, <1>3 DEF NameFree, CallInv
<1>11. AddressInv'
  BY <1>1, <1>2, <1>3 DEF AddressInv, AddressEnvironment
<1>12. RecordInv'
  BY <1>1, <1>2, <1>3 DEF RecordInv, RecordEnvironment
<1>13. CleanInv'
  BY <1>1, <1>2, <1>3 DEF CleanInv, OneLauncher, CleanState
<1> QED
  BY <1>4, <1>5, <1>6, <1>7, <1>8, <1>9, <1>10, <1>11, <1>12, <1>13 DEF ProviderInv

\* The launch goes on, with what it has made.
LEMMA LaunchGoesOn ==
  ASSUME ProviderInv, NEW c \in Callers,
         NEW pc \in LaunchLabels \ {"create", "creating"},
         call[c].op = "launch", Moves(c, "launch", pc, call[c].vm, call[c].powered),
         UNCHANGED <<env, record, fate, crashed, panicked>>,
         vms' \in [Ids -> VMState], addresses' \subseteq Ids,
         \A v \in Ids : vms'[v] = vms[v] \/ (vms[v] = "off" /\ vms'[v] = "starting"),
         handler' \in Handler, handler'.instance = handler.instance,
         handler'.id = IF call[c].pc = "creating" THEN call[c].vm ELSE handler.id,
         call[c].pc # "create",
         \/ addresses' = addresses /\ handler'.address = handler.address
         \/ /\ call[c].pc = "address" /\ addresses' = addresses \cup {handler.id}
            /\ handler'.address = handler.id,
         Steady => \A v \in Ids : vms'[v] # "requested",
         pc = "registerDNS" => \E v \in Ids : vms[v] = "on",
         CleanEnvironment =>
           \A v \in Ids : Present(v)' =>
             LaunchState(pc, vms'[v]) /\ (kind \in ByName \/ handler'.id = v)
  PROVE  ProviderInv'
<1>1. /\ TypeOK /\ CallInv /\ OneLauncher /\ Alone /\ VMKnown /\ SingleVM /\ NameFree
      /\ AddressInv /\ RecordInv /\ CleanInv
  BY DEF ProviderInv
<1>2. handler \in Handler /\ handler'.id # Nil /\ Nil \notin Ids
  BY <1>1, EnvironmentKnown DEF CallInv, VMKnown
<1>3. /\ Steady' <=> Steady
      /\ CleanEnvironment' <=> CleanEnvironment
  BY SameEnvironment
<1>4. \A d \in Callers :
        /\ call[d].vm \in Ids \cup {Nil}
        /\ call[d].pc \in LaunchLabels <=> call[d].op = "launch"
        /\ call[d].pc \in DeleteLabels <=> call[d].op \in {"clean", "delete"}
  BY <1>1, Labels
<1>5. /\ \A d \in Callers \ {c} : call'[d] = call[d] /\ ~Launcher(d) /\ call[d].pc \notin LaunchLabels
      /\ ~May("early") => fate = "none" /\ \A d \in Callers \ {c} : call[d].op = "none"
  BY <1>1, <1>4 DEF OneLauncher, Alone
<1>6. (\E v \in Ids : vms[v] = "on") => (\E v \in Ids : vms'[v] = "on")
  OBVIOUS
<1>7. CleanEnvironment => fate # "failed"
  BY <1>5, CleanIsSteady
<1>8. AddressEnvironment => fate # "deleted"
  BY <1>5 DEF AddressEnvironment
<1>9. AddressEnvironment =>
        /\ \A v \in addresses' : vms'[v] # "none"
        /\ handler'.id \in addresses' => handler'.address = handler'.id
  BY <1>1, <1>2, <1>4 DEF AddressInv, VMKnown, Handler
<1>10. TypeOK'
  BY <1>1, <1>2, <1>3, <1>4, <1>5, <1>6, <1>7, <1>8, <1>9 DEF TypeOK, TypeCall
<1>11. CallInv'
  BY <1>1, <1>2, <1>3, <1>4, <1>5, <1>6, <1>7, <1>8, <1>9 DEF CallInv, DeleteLabels, LaunchLabels
<1>12. OneLauncher'
  BY <1>1, <1>2, <1>3, <1>4, <1>5, <1>6, <1>7, <1>8, <1>9 DEF OneLauncher
<1>13. Alone'
  BY <1>1, <1>2, <1>3, <1>4, <1>5, <1>6, <1>7, <1>8, <1>9 DEF Alone, OneLauncher, CallInv, Idle
<1>14. VMKnown'
  BY <1>1, <1>2, <1>3, <1>4, <1>5, <1>6, <1>7, <1>8, <1>9 DEF VMKnown, Handler, LaunchLabels
<1>15. SingleVM'
  BY <1>1, <1>2, <1>3, <1>4, <1>5, <1>6, <1>7, <1>8, <1>9 DEF SingleVM
<1>16. NameFree'
  BY <1>1, <1>2, <1>3, <1>4, <1>5, <1>6, <1>7, <1>8, <1>9 DEF NameFree, CallInv
<1>17. AddressInv'
  BY <1>2, <1>5, <1>8, <1>9 DEF AddressInv, AddressEnvironment, LaunchLabels
<1>18. RecordInv'
  BY <1>1, <1>2, <1>3, <1>4, <1>5, <1>6, <1>7, <1>8, <1>9 DEF RecordInv, RecordEnvironment, LaunchLabels
<1>19. CleanInv'
  <2>1. CleanEnvironment /\ fate' = "failed" => \A v \in Ids : ~Present(v)'
    BY <1>1, <1>7
  <2>2. CleanEnvironment =>
          \A d \in Callers : Launcher(d)' /\ call'[d].pc # "create" => handler'.instance
    BY <1>1, <1>5 DEF CleanInv
  <2>3. CleanEnvironment =>
          \A d \in Callers, v \in Ids : call'[d].op = "launch" /\ Present(v)' =>
            /\ call'[d].pc = "creating" => call'[d].vm = v
            /\ call'[d].pc \notin {"create", "creating"} => kind \in ByName \/ handler'.id = v
            /\ call'[d].pc # "create" => LaunchState(call'[d].pc, vms'[v])
    BY <1>5 DEF LaunchLabels
  <2>4. CleanEnvironment =>
          \A d \in Callers, v \in Ids : call'[d].op = "clean" /\ Present(v)' =>
            /\ CleanState(call'[d].pc, call'[d].powered, vms'[v])
            /\ kind \in ByName \/ handler'.id = v
    BY <1>1, <1>5
  <2>5. kind' = kind
    OBVIOUS
  <2> QED
    BY <1>3, <2>1, <2>2, <2>3, <2>4, <2>5 DEF CleanInv, LaunchState, CleanState, Stoppable, Deletable
<1> QED
  BY <1>10, <1>11, <1>12, <1>13, <1>14, <1>15, <1>16, <1>17, <1>18, <1>19 DEF ProviderInv

\* deleteVM returns.
LEMMA DeleteReturnsStep ==
  ASSUME ProviderInv, NEW c \in Callers,
         call[c].op \in {"clean", "delete"}, NEW outcome \in {"error", "stuck", "deleted"},
         DeleteReturns(c, outcome), UNCHANGED <<env, record, handler, crashed, panicked>>,
         vms' \in [Ids -> VMState],
         \A v \in Ids : \/ vms'[v] = vms[v]
                       \/ /\ call[c].pc = "destroy" /\ vms[v] # "none" /\ vms[v] # "requested"
                          /\ vms'[v] \in {"terminating", "gone"},
         addresses' = addresses \/ addresses' = addresses \ {handler.address},
         outcome = "deleted" =>
           /\ call[c].pc \in {"destroy", "release"}
           /\ handler.address = Nil \/ addresses' = addresses \ {handler.address},
         CleanEnvironment /\ call[c].op = "clean" => \A v \in Ids : ~Present(v)'
  PROVE  ProviderInv'
<1>1. /\ TypeOK /\ CallInv /\ OneLauncher /\ Alone /\ VMKnown /\ SingleVM /\ NameFree
      /\ AddressInv /\ RecordInv /\ CleanInv
  BY DEF ProviderInv
<1>2. handler \in Handler /\ Nil \notin Ids /\ addresses \subseteq Ids
  BY <1>1, EnvironmentKnown DEF CallInv, TypeOK
<1>3. /\ Steady' <=> Steady
      /\ CleanEnvironment' <=> CleanEnvironment
  BY SameEnvironment
<1>4. \A d \in Callers :
        /\ call[d].vm \in Ids \cup {Nil}
        /\ call[d].pc \in LaunchLabels <=> call[d].op = "launch"
        /\ call[d].pc \in DeleteLabels <=> call[d].op \in {"clean", "delete"}
  BY <1>1, Labels
<1>5. /\ Moves(c, "none", "idle", Nil, FALSE) /\ call'[c] = Idle
      /\ fate' \in {"none", "ok", "failed", "deleted", "stuck"}
      /\ fate' = "failed" => fate = "failed" \/ call[c].op = "clean"
      /\ fate' = "deleted" => fate = "deleted" \/ outcome = "deleted"
      /\ ~Launcher(c) => fate' # "none" \/ fate = "none"
  BY <1>1, DeleteReturnsCall DEF DeleteReturns, TypeOK, TypeCall
<1>6. AddressEnvironment /\ fate' = "deleted" => handler.id \notin addresses'
  BY <1>1, <1>2, <1>5 DEF AddressInv, Handler
<1>7. RecordEnvironment /\ call[c].pc = "destroy" => ~record /\ \A d \in Callers : call[d].pc # "registerDNS"
  BY <1>1, <1>4 DEF RecordInv, RecordEnvironment, Alone, LaunchLabels
<1>8. RecordEnvironment /\ fate' = "deleted" => ~record
  BY <1>1, <1>5 DEF RecordInv
<1>9. CleanEnvironment => \A d \in Callers \ {c} : ~Launcher(d)
  BY <1>1, CleanIsSteady DEF Alone
<1>10. TypeOK'
  BY <1>1, <1>2, <1>3, <1>4, <1>5, <1>6, <1>7, <1>8, <1>9 DEF TypeOK, TypeCall
<1>11. CallInv'
  BY <1>1, <1>2, <1>3, <1>4, <1>5, <1>6, <1>7, <1>8, <1>9 DEF CallInv, DeleteLabels, LaunchLabels
<1>12. OneLauncher'
  BY <1>1, <1>2, <1>3, <1>4, <1>5, <1>6, <1>7, <1>8, <1>9 DEF OneLauncher
<1>13. Alone'
  BY <1>1, <1>2, <1>3, <1>4, <1>5, <1>6, <1>7, <1>8, <1>9 DEF Alone, OneLauncher, CallInv, Idle
<1>14. VMKnown'
  BY <1>1, <1>2, <1>3, <1>4, <1>5, <1>6, <1>7, <1>8, <1>9 DEF VMKnown, Handler
<1>15. SingleVM'
  BY <1>1, <1>2, <1>3, <1>4, <1>5, <1>6, <1>7, <1>8, <1>9 DEF SingleVM
<1>16. NameFree'
  BY <1>1, <1>2, <1>3, <1>4, <1>5, <1>6, <1>7, <1>8, <1>9 DEF NameFree, CallInv
<1>17. AddressInv'
  BY <1>1, <1>2, <1>5, <1>6 DEF AddressInv, AddressEnvironment
<1>18. RecordInv'
  BY <1>1, <1>5, <1>7, <1>8 DEF RecordInv, RecordEnvironment
<1>19. CleanInv'
  <2>1. CleanEnvironment /\ fate' = "failed" => \A v \in Ids : ~Present(v)'
    BY <1>1, <1>5 DEF CleanInv
  <2>2. CleanEnvironment =>
          \A d \in Callers : Launcher(d)' /\ call'[d].pc # "create" => handler'.instance
    BY <1>1, <1>5, <1>9 DEF CleanInv
  <2>3. CleanEnvironment =>
          \A d \in Callers, v \in Ids : call'[d].op = "launch" /\ Present(v)' =>
            /\ call'[d].pc = "creating" => call'[d].vm = v
            /\ call'[d].pc \notin {"create", "creating"} => kind \in ByName \/ handler'.id = v
            /\ call'[d].pc # "create" => LaunchState(call'[d].pc, vms'[v])
    BY <1>5, <1>9
  <2>4. CleanEnvironment =>
          \A d \in Callers, v \in Ids : call'[d].op = "clean" /\ Present(v)' =>
            /\ CleanState(call'[d].pc, call'[d].powered, vms'[v])
            /\ kind \in ByName \/ handler'.id = v
    BY <1>5, <1>9
  <2>5. kind' = kind
    OBVIOUS
  <2> QED
    BY <1>3, <2>1, <2>2, <2>3, <2>4, <2>5 DEF CleanInv, LaunchState, CleanState, Stoppable, Deletable
<1> QED
  BY <1>10, <1>11, <1>12, <1>13, <1>14, <1>15, <1>16, <1>17, <1>18, <1>19 DEF ProviderInv

\* deleteVM goes on.
LEMMA DeleteGoesOn ==
  ASSUME ProviderInv, NEW c \in Callers,
         NEW pc \in DeleteLabels, NEW powered \in BOOLEAN,
         call[c].op \in {"clean", "delete"}, Moves(c, call[c].op, pc, call[c].vm, powered),
         UNCHANGED <<env, addresses, handler, fate, crashed, panicked>>,
         vms' \in [Ids -> VMState], record' \in BOOLEAN, record' => record,
         \A v \in Ids : \/ vms'[v] = vms[v]
                       \/ /\ call[c].pc \in {"powerOff", "destroy"} /\ vms[v] # "none" /\ vms[v] # "requested"
                          /\ vms'[v] # "none" /\ (Present(v)' => Present(v)) /\ vms'[v] # "requested",
         RecordEnvironment =>
           /\ pc \in {"powerOff", "poweringOff", "destroy", "release"} => ~record'
           /\ pc = "unregisterDNS" /\ ~powered /\ kind \in RecordByAddress => ~record',
         CleanEnvironment /\ call[c].op = "clean" =>
           \A v \in Ids : Present(v)' => CleanState(pc, powered, vms'[v])
  PROVE  ProviderInv'
<1>1. /\ TypeOK /\ CallInv /\ OneLauncher /\ Alone /\ VMKnown /\ SingleVM /\ NameFree
      /\ AddressInv /\ RecordInv /\ CleanInv
  BY DEF ProviderInv
<1>2. handler \in Handler /\ addresses \subseteq Ids
  BY <1>1 DEF CallInv, TypeOK
<1>3. /\ Steady' <=> Steady
      /\ CleanEnvironment' <=> CleanEnvironment
  BY SameEnvironment
<1>4. \A d \in Callers :
        /\ call[d].vm \in Ids \cup {Nil}
        /\ call[d].pc \in LaunchLabels <=> call[d].op = "launch"
        /\ call[d].pc \in DeleteLabels <=> call[d].op \in {"clean", "delete"}
  BY <1>1, Labels
<1>5. RecordEnvironment /\ call[c].pc \in {"powerOff", "destroy"} =>
        ~record /\ \A d \in Callers : call[d].pc # "registerDNS"
  BY <1>1, <1>4 DEF RecordInv, RecordEnvironment, Alone, LaunchLabels
<1>6. CleanEnvironment => \A d \in Callers \ {c} : ~Launcher(d)
  BY <1>1, CleanIsSteady DEF Alone
<1>7. TypeOK'
  BY <1>1, <1>2, <1>3, <1>4, <1>5, <1>6 DEF TypeOK, TypeCall
<1>8. CallInv'
  BY <1>1, <1>2, <1>3, <1>4, <1>5, <1>6 DEF CallInv, DeleteLabels, LaunchLabels
<1>9. OneLauncher'
  BY <1>1, <1>2, <1>3, <1>4, <1>5, <1>6 DEF OneLauncher
<1>10. Alone'
  BY <1>1, <1>2, <1>3, <1>4, <1>5, <1>6 DEF Alone, OneLauncher, CallInv, Idle
<1>11. VMKnown'
  BY <1>1, <1>2, <1>3, <1>4, <1>5, <1>6 DEF VMKnown, Handler
<1>12. SingleVM'
  BY <1>1, <1>2, <1>3, <1>4, <1>5, <1>6 DEF SingleVM
<1>13. NameFree'
  BY <1>1, <1>2, <1>3, <1>4, <1>5, <1>6 DEF NameFree, DeleteLabels
<1>14. AddressInv'
  BY <1>1, <1>2, <1>4 DEF AddressInv, AddressEnvironment, DeleteLabels
<1>15. RecordInv'
  BY <1>1, <1>4, <1>5 DEF RecordInv, RecordEnvironment, DeleteLabels
<1>16. CleanInv'
  <2>1. CleanEnvironment /\ fate' = "failed" => \A v \in Ids : ~Present(v)'
    BY <1>1 DEF CleanInv
  <2>2. CleanEnvironment =>
          \A d \in Callers : Launcher(d)' /\ call'[d].pc # "create" => handler'.instance
    BY <1>1, <1>4, <1>6 DEF CleanInv, DeleteLabels
  <2>3. CleanEnvironment =>
          \A d \in Callers, v \in Ids : call'[d].op = "launch" /\ Present(v)' =>
            /\ call'[d].pc = "creating" => call'[d].vm = v
            /\ call'[d].pc \notin {"create", "creating"} => kind \in ByName \/ handler'.id = v
            /\ call'[d].pc # "create" => LaunchState(call'[d].pc, vms'[v])
    BY <1>1, <1>4, <1>6
  <2>4. CleanEnvironment =>
          \A d \in Callers, v \in Ids : call'[d].op = "clean" /\ Present(v)' =>
            /\ CleanState(call'[d].pc, call'[d].powered, vms'[v])
            /\ kind \in ByName \/ handler'.id = v
    BY <1>1, <1>4, <1>6 DEF CleanInv
  <2>5. kind' = kind
    OBVIOUS
  <2> QED
    BY <1>3, <2>1, <2>2, <2>3, <2>4, <2>5 DEF CleanInv, LaunchState, CleanState, Stoppable, Deletable
<1> QED
  BY <1>7, <1>8, <1>9, <1>10, <1>11, <1>12, <1>13, <1>14, <1>15, <1>16 DEF ProviderInv

-----------------------------------------------------------------------------
(* The steps of the launch *)

LEMMA Parts ==
  ProviderInv => /\ TypeOK /\ CallInv /\ OneLauncher /\ Alone /\ VMKnown /\ SingleVM /\ NameFree
                 /\ AddressInv /\ RecordInv /\ CleanInv /\ TypeCall
BY DEF ProviderInv, TypeOK, TypeCall

\* What is known at a step of the launch.
LEMMA AtLaunch ==
  ASSUME ProviderInv, NEW c \in Callers, call[c].pc \in LaunchLabels
  PROVE  /\ call[c].op = "launch" /\ handler \in Handler /\ Nil \notin Ids
         /\ call[c].pc \notin {"create", "creating"} => handler.id \in Ids /\ vms[handler.id] # "none"
         /\ call[c].pc = "creating" => call[c].vm \in Ids /\ vms[call[c].vm] # "none"
         /\ Steady => \A v \in Ids : vms[v] = "requested" =>
              call[c].pc = "creating" /\ call[c].vm = v
         /\ CleanEnvironment /\ call[c].pc # "create" => handler.instance
<1>1. TypeOK /\ CallInv /\ OneLauncher /\ VMKnown /\ NameFree /\ CleanInv
  BY Parts
<1>2. call[c].op = "launch" /\ call[c].vm \in Ids \cup {Nil}
  BY <1>1, Labels
<1>3. handler \in Handler /\ Nil \notin Ids
  BY <1>1, <1>2, EnvironmentKnown DEF CallInv
<1>4. Steady => \A v \in Ids : vms[v] = "requested" => call[c].pc = "creating" /\ call[c].vm = v
  BY <1>1, <1>2 DEF NameFree, OneLauncher
<1>5. CleanEnvironment /\ call[c].pc # "create" => handler.instance
  BY <1>1, <1>2 DEF CleanInv
<1> QED
  BY <1>1, <1>2, <1>3, <1>4, <1>5 DEF VMKnown, Handler

\* The VM of the launch, when nothing is late or without an answer.
LEMMA LaunchVM ==
  ASSUME ProviderInv, NEW c \in Callers, call[c].pc \in LaunchLabels \ {"create", "creating"},
         CleanEnvironment, NEW v \in Ids, Present(v)
  PROVE  /\ Alive(vms[v]) /\ v \in Addressed
         /\ LaunchState(call[c].pc, vms[v]) /\ (kind \in ByName \/ handler.id = v)
<1>1. call[c].op = "launch" /\ Nil \notin Ids /\ vms[v] # "requested"
  BY AtLaunch, CleanIsSteady
<1>2. LaunchState(call[c].pc, vms[v]) /\ (kind \in ByName \/ handler.id = v)
  BY <1>1, Parts DEF CleanInv
<1> QED
  BY <1>1, <1>2 DEF Addressed

\* A step of the launch that fails and changes nothing else.
LEMMA LaunchFailsHere ==
  ASSUME ProviderInv, NEW c \in Callers, call[c].pc \in LaunchLabels \ {"create", "creating"},
         LaunchError(c), UNCHANGED <<env, vms, record, handler, fate, crashed, panicked>>,
         addresses' \subseteq Ids, ~May("address") => addresses' = addresses,
         CleanEnvironment => \A v \in Ids : Present(v) => CleanState("created", FALSE, vms[v])
  PROVE  ProviderInv'
<1>1. call[c].op = "launch" /\ handler \in Handler /\ (Steady => \A v \in Ids : vms[v] # "requested")
  BY AtLaunch
<1>2. Moves(c, "clean", "created", Nil, FALSE)
  BY Parts, LaunchErrorCall
<1>3. vms' \in [Ids -> VMState]
  BY Parts DEF TypeOK
<1>4. CleanEnvironment =>
        /\ handler.instance
        /\ \A v \in Ids : Present(v)' =>
             CleanState("created", FALSE, vms'[v]) /\ (kind \in ByName \/ handler.id = v)
  BY AtLaunch, LaunchVM DEF CleanState
<1> QED
  BY <1>1, <1>2, <1>3, <1>4, LaunchFails

\* A VM that has not booted, or that runs, can be removed again.
LEMMA LaunchStateIsClean ==
  ASSUME NEW s \in VMState, Alive(s), NEW pc \in LaunchLabels \ {"create", "creating"}, LaunchState(pc, s),
         pc = "poweringOn" => s # "starting"
  PROVE  CleanState("created", FALSE, s)
BY DEF LaunchState, CleanState, LaunchLabels, DeletesOff

\* A step of the launch that only waits.
LEMMA LaunchGoesOnHere ==
  ASSUME ProviderInv, NEW c \in Callers, call[c].pc \in LaunchLabels \ {"create", "creating"},
         NEW pc \in LaunchLabels \ {"create", "creating"}, Goto(c, pc),
         UNCHANGED <<env, vms, addresses, record, handler, fate, crashed, panicked>>,
         pc = "registerDNS" => \E v \in Ids : vms[v] = "on",
         CleanEnvironment => \A v \in Ids : Present(v) => LaunchState(pc, vms[v])
  PROVE  ProviderInv'
<1>1. call[c].op = "launch" /\ handler \in Handler /\ (Steady => \A v \in Ids : vms[v] # "requested")
  BY AtLaunch
<1>2. Moves(c, "launch", pc, call[c].vm, call[c].powered)
  BY <1>1, Parts, GotoCall DEF LaunchLabels, Label
<1>3. vms' \in [Ids -> VMState] /\ addresses' \subseteq Ids
  BY Parts DEF TypeOK
<1>4. CleanEnvironment =>
        \A v \in Ids : Present(v)' => LaunchState(pc, vms'[v]) /\ (kind \in ByName \/ handler'.id = v)
  BY LaunchVM
<1> HIDE DEF Moves
<1> QED
  BY <1>1, <1>2, <1>3, <1>4, LaunchGoesOn

LEMMA ConfigureStep ==
  ASSUME ProviderInv, NEW c \in Callers, Configure(c)
  PROVE  ProviderInv'
<1>1. call[c].pc = "configure" /\ call[c].pc \in LaunchLabels \ {"create", "creating"}
  BY DEF Configure, At, LaunchLabels
<1>2. CleanEnvironment => \A v \in Ids : Present(v) => Alive(vms[v]) /\ LaunchState("configure", vms[v])
  BY <1>1, LaunchVM
<1>3. vms \in [Ids -> VMState] /\ addresses \subseteq Ids
  BY Parts DEF TypeOK
<1>4. CASE Goto(c, "powerOn") /\ UNCHANGED vms
  <2>1. CleanEnvironment => \A v \in Ids : Present(v) => LaunchState("powerOn", vms[v])
    BY <1>2 DEF LaunchState
  <2> QED
    BY <1>1, <1>4, <2>1, LaunchGoesOnHere DEF Configure, LaunchLabels
<1>5. ASSUME LaunchError(c),
             \/ vms' = [v \in Ids |->
                          IF v \in Addressed /\ VsphereDelete(vms[v]) = "done" THEN "gone" ELSE vms[v]]
             \/ UNCHANGED vms
      PROVE  ProviderInv'
  <2>1. \A v \in Ids : vms'[v] = vms[v] \/ (vms[v] = "off" /\ vms'[v] = "gone")
    BY <1>5 DEF VsphereDelete
  <2>2. vms' \in [Ids -> VMState]
    BY <1>3, <1>5, <2>1
  <2>3. call[c].op = "launch" /\ handler \in Handler /\ (Steady => \A v \in Ids : vms[v] # "requested")
    BY <1>1, AtLaunch
  <2>4. Moves(c, "clean", "created", Nil, FALSE)
    BY <1>5, Parts, LaunchErrorCall
  <2>5. CleanEnvironment =>
          /\ handler.instance
          /\ \A v \in Ids : Present(v)' =>
               CleanState("created", FALSE, vms'[v]) /\ (kind \in ByName \/ handler.id = v)
    <3>1. \A v \in Ids : Present(v)' => vms'[v] = vms[v] /\ Present(v)
      BY <2>1
    <3>2. CleanEnvironment => \A v \in Ids : Present(v) => CleanState("created", FALSE, vms[v])
      BY <1>1, <1>2, <1>3, LaunchStateIsClean
    <3> QED
      BY <1>1, <3>1, <3>2, AtLaunch, LaunchVM
  <2>6. Steady => \A v \in Ids : vms'[v] # "requested"
    BY <2>1, <2>3
  <2> HIDE DEF Moves
  <2> QED
    BY <1>3, <2>1, <2>2, <2>3, <2>4, <2>5, <2>6, LaunchFails DEF Configure
<1> QED
  BY <1>4, <1>5 DEF Configure

LEMMA WaitForPoweredStep ==
  ASSUME ProviderInv, NEW c \in Callers, WaitForPowered(c)
  PROVE  ProviderInv'
<1>1. call[c].pc = "built" /\ call[c].pc \in LaunchLabels \ {"create", "creating"}
  BY DEF WaitForPowered, At, LaunchLabels
<1>2. CleanEnvironment => \A v \in Ids : Present(v) => Alive(vms[v]) /\ LaunchState("built", vms[v])
  BY <1>1, LaunchVM
<1>3. vms \in [Ids -> VMState] /\ addresses \subseteq Ids
  BY Parts DEF TypeOK
<1>4. CASE Goto(c, "address")
  <2>1. CleanEnvironment => \A v \in Ids : Present(v) => LaunchState("address", vms[v])
    BY <1>2 DEF LaunchState
  <2> QED
    BY <1>1, <1>4, <2>1, LaunchGoesOnHere DEF WaitForPowered, LaunchLabels
<1>5. CASE LaunchError(c)
  <2>1. CleanEnvironment => \A v \in Ids : Present(v) => CleanState("created", FALSE, vms[v])
    BY <1>1, <1>2, <1>3, LaunchStateIsClean
  <2> QED
    BY <1>1, <1>3, <1>5, <2>1, LaunchFailsHere DEF WaitForPowered
<1> QED
  BY <1>4, <1>5 DEF WaitForPowered

LEMMA AssociateStep ==
  ASSUME ProviderInv, NEW c \in Callers, Associate(c)
  PROVE  ProviderInv'
<1>1. call[c].pc = "address" /\ call[c].pc \in LaunchLabels \ {"create", "creating"}
  BY DEF Associate, At, LaunchLabels
<1>2. CleanEnvironment => \A v \in Ids : Present(v) => Alive(vms[v]) /\ LaunchState("address", vms[v])
  BY <1>1, LaunchVM
<1>3. vms \in [Ids -> VMState] /\ addresses \subseteq Ids
  BY Parts DEF TypeOK
<1>4. CleanEnvironment => \A v \in Ids : Present(v) => LaunchState("powerOn", vms[v])
  BY <1>2 DEF LaunchState
<1>5. /\ call[c].op = "launch" /\ handler \in Handler /\ handler.id \in Ids
      /\ Steady => \A v \in Ids : vms[v] # "requested"
  BY <1>1, AtLaunch
<1>6. ASSUME addresses' = addresses \cup {handler.id}, handler' = [handler EXCEPT !.address = handler.id],
             Goto(c, "powerOn")
      PROVE  ProviderInv'
  <2>1. Moves(c, "launch", "powerOn", call[c].vm, call[c].powered)
    BY <1>5, <1>6, Parts, GotoCall DEF Label
  <2>2. /\ handler' \in Handler /\ handler'.instance = handler.instance
        /\ handler'.id = handler.id /\ handler'.address = handler.id
    BY <1>5, <1>6 DEF Handler
  <2>3. vms' \in [Ids -> VMState] /\ addresses' \subseteq Ids /\ vms' = vms
    BY <1>3, <1>5, <1>6 DEF Associate
  <2>4. CleanEnvironment =>
          \A v \in Ids : Present(v)' =>
            LaunchState("powerOn", vms'[v]) /\ (kind \in ByName \/ handler'.id = v)
    BY <1>1, <1>4, <2>2, <2>3, LaunchVM
  <2> HIDE DEF Moves
  <2> QED
    BY <1>1, <1>5, <1>6, <2>1, <2>2, <2>3, <2>4, LaunchGoesOn DEF Associate, LaunchLabels
<1>7. CASE Goto(c, "powerOn") /\ UNCHANGED <<addresses, handler>>
  BY <1>1, <1>4, <1>7, LaunchGoesOnHere DEF Associate, LaunchLabels
<1>8. ASSUME May("address"), LaunchError(c), UNCHANGED handler,
             addresses' = addresses \/ addresses' = addresses \cup {handler.id}
      PROVE  ProviderInv'
  <2>1. CleanEnvironment => \A v \in Ids : Present(v) => CleanState("created", FALSE, vms[v])
    BY <1>1, <1>2, <1>3, LaunchStateIsClean
  <2> QED
    BY <1>1, <1>3, <1>5, <1>8, <2>1, LaunchFailsHere DEF Associate
<1> QED
  BY <1>6, <1>7, <1>8 DEF Associate

\* The process ends with a panic, and all else stays.
LEMMA PanicStep ==
  ASSUME ProviderInv, UNCHANGED <<env, vms, addresses, record, handler, fate, call, crashed>>,
         panicked' \in BOOLEAN
  PROVE  ProviderInv'
<1>1. (Steady' <=> Steady) /\ (CleanEnvironment' <=> CleanEnvironment)
  BY SameEnvironment
<1>2. TypeOK' /\ CallInv' /\ OneLauncher' /\ Alone' /\ VMKnown'
  BY Parts DEF TypeOK, CallInv, OneLauncher, Alone, VMKnown
<1>3. SingleVM' /\ NameFree' /\ AddressInv' /\ RecordInv'
  BY <1>1, Parts DEF SingleVM, NameFree, AddressInv, AddressEnvironment, RecordInv, RecordEnvironment
<1>4. CleanInv'
  BY <1>1, Parts DEF CleanInv, LaunchState, CleanState, Stoppable, Deletable
<1> QED
  BY <1>2, <1>3, <1>4 DEF ProviderInv

LEMMA InstancePowerOnStep ==
  ASSUME ProviderInv, NEW c \in Callers, InstancePowerOn(c)
  PROVE  ProviderInv'
<1>1. call[c].pc = "powerOn" /\ call[c].pc \in LaunchLabels \ {"create", "creating"}
  BY DEF InstancePowerOn, At, LaunchLabels
<1>2. CleanEnvironment => \A v \in Ids : Present(v) => Alive(vms[v]) /\ LaunchState("powerOn", vms[v])
  BY <1>1, LaunchVM
<1>3. vms \in [Ids -> VMState] /\ addresses \subseteq Ids /\ kind \in Kinds /\ SingleVM
  BY Parts, EnvironmentKnown DEF TypeOK
<1>4. /\ call[c].op = "launch" /\ handler \in Handler /\ handler.id \in Ids
      /\ Steady => \A v \in Ids : vms[v] # "requested"
  BY <1>1, AtLaunch
<1>5. Addressed \subseteq Ids
  BY <1>4 DEF Addressed
<1>6. ASSUME NEW v \in Addressed, PowerOn(vms[v]) # "error",
             vms' = [vms EXCEPT ![v] = IF @ = "off" THEN "starting" ELSE @],
             Goto(c, IF PowerOn(vms[v]) = "done" THEN "ready" ELSE "poweringOn"),
             UNCHANGED <<env, addresses, record, handler, fate, crashed, panicked>>
      PROVE  ProviderInv'
  <2> DEFINE pc == IF PowerOn(vms[v]) = "done" THEN "ready" ELSE "poweringOn"
  <2>1. /\ v \in Ids /\ vms[v] \in VMState
        /\ pc \in LaunchLabels \ {"create", "creating"} /\ pc \in Label /\ pc # "registerDNS"
    BY <1>3, <1>5 DEF LaunchLabels, Label
  <2>2. Moves(c, "launch", pc, call[c].vm, call[c].powered)
    BY <1>4, <1>6, <2>1, Parts, GotoCall
  <2>3. /\ vms' \in [Ids -> VMState] /\ addresses' \subseteq Ids
        /\ \A w \in Ids : vms'[w] = vms[w] \/ (vms[w] = "off" /\ vms'[w] = "starting")
        /\ \A w \in Ids \ {v} : vms'[w] = vms[w]
        /\ vms'[v] = IF vms[v] = "off" THEN "starting" ELSE vms[v]
    BY <1>3, <1>6, <2>1
  <2>4. CleanEnvironment =>
          \A w \in Ids : Present(w)' => LaunchState(pc, vms'[w]) /\ (kind \in ByName \/ handler'.id = w)
    <3> SUFFICES ASSUME CleanEnvironment, NEW w \in Ids, Present(w)'
                 PROVE  LaunchState(pc, vms'[w]) /\ (kind \in ByName \/ handler'.id = w)
      OBVIOUS
    <3>1. Present(w) /\ LaunchState("powerOn", vms[w]) /\ (kind \in ByName \/ handler'.id = w)
      BY <1>1, <1>2, <1>6, <2>3, LaunchVM
    <3>2. Present(v) /\ PowerOn(vms[v]) \in {"wait", "done"}
      BY <1>3, <1>6, <2>1, PowerOnTable
    <3>3. w = v
      BY <1>3, <2>1, <3>1, <3>2, CleanIsSteady DEF SingleVM
    <3>4. kind \in {"lxd", "vsphere"} => PowerOn("off") = "wait"
      BY <1>3, PowerOnTable DEF VMState
    <3> QED
      BY <2>3, <3>1, <3>3, <3>4 DEF LaunchState, DeletesOff
  <2> HIDE DEF pc, Moves
  <2>5. Steady => \A w \in Ids : vms'[w] # "requested"
    BY <1>4, <2>3
  <2> QED
    BY <1>1, <1>4, <1>6, <2>1, <2>2, <2>3, <2>4, <2>5, LaunchGoesOn
<1>7. ASSUME LaunchError(c), UNCHANGED <<env, vms, addresses, record, handler, fate, crashed, panicked>>
      PROVE  ProviderInv'
  <2>1. CleanEnvironment => \A v \in Ids : Present(v) => CleanState("created", FALSE, vms[v])
    BY <1>1, <1>2, <1>3, LaunchStateIsClean
  <2> QED
    BY <1>1, <1>3, <1>7, <2>1, LaunchFailsHere
<1>8. CASE Panic
  BY <1>8, PanicStep DEF Panic
<1> QED
  BY <1>6, <1>7, <1>8 DEF InstancePowerOn

LEMMA WaitOnStep ==
  ASSUME ProviderInv, NEW c \in Callers, WaitOn(c)
  PROVE  ProviderInv'
<1>1. call[c].pc = "poweringOn" /\ call[c].pc \in LaunchLabels \ {"create", "creating"}
  BY DEF WaitOn, At, LaunchLabels
<1>2. CleanEnvironment =>
        \A v \in Ids : Present(v) => Alive(vms[v]) /\ LaunchState("poweringOn", vms[v]) /\ v \in Addressed
  BY <1>1, LaunchVM
<1>3. vms \in [Ids -> VMState] /\ addresses \subseteq Ids /\ SingleVM
  BY Parts DEF TypeOK
<1>4. Addressed \subseteq Ids
  BY <1>1, AtLaunch DEF Addressed
<1> DEFINE s == {vms[v] : v \in Addressed}
<1>5. CASE "on" \in s /\ Goto(c, "ready")
  <2>1. PICK v \in Addressed : vms[v] = "on"
    BY <1>5
  <2>2. CleanEnvironment => \A w \in Ids : Present(w) => w = v
    BY <1>3, <1>4, <2>1, CleanIsSteady DEF SingleVM
  <2>3. CleanEnvironment => \A w \in Ids : Present(w) => LaunchState("ready", vms[w])
    BY <2>1, <2>2 DEF LaunchState
  <2> QED
    BY <1>1, <1>5, <2>3, LaunchGoesOnHere DEF WaitOn, LaunchLabels
<1>6. CASE (s \cap {"starting", "on"} = {} \/ May("late")) /\ LaunchError(c)
  <2>1. CleanEnvironment => \A v \in Ids : Present(v) => vms[v] # "starting"
    BY <1>2, <1>6, CleanIsSteady
  <2>2. CleanEnvironment => \A v \in Ids : Present(v) => CleanState("created", FALSE, vms[v])
    BY <1>1, <1>2, <1>3, <2>1, LaunchStateIsClean
  <2> QED
    BY <1>1, <1>3, <1>6, <2>2, LaunchFailsHere DEF WaitOn
<1> QED
  BY <1>5, <1>6 DEF WaitOn

LEMMA InstanceWaitReadyStep ==
  ASSUME ProviderInv, NEW c \in Callers, InstanceWaitReady(c)
  PROVE  ProviderInv'
<1>1. call[c].pc = "ready" /\ call[c].pc \in LaunchLabels \ {"create", "creating"}
  BY DEF InstanceWaitReady, At, LaunchLabels
<1>2. CleanEnvironment => \A v \in Ids : Present(v) => Alive(vms[v]) /\ LaunchState("ready", vms[v])
  BY <1>1, LaunchVM
<1>3. vms \in [Ids -> VMState] /\ addresses \subseteq Ids
  BY Parts DEF TypeOK
<1>4. Addressed \subseteq Ids
  BY <1>1, AtLaunch DEF Addressed
<1>5. ASSUME "on" \in {vms[v] : v \in Addressed}, Goto(c, "registerDNS")
      PROVE  ProviderInv'
  <2>1. \E v \in Ids : vms[v] = "on"
    BY <1>4, <1>5
  <2>2. CleanEnvironment => \A v \in Ids : Present(v) => LaunchState("registerDNS", vms[v])
    BY <1>2 DEF LaunchState
  <2> QED
    BY <1>1, <1>5, <2>1, <2>2, LaunchGoesOnHere DEF InstanceWaitReady, LaunchLabels
<1>6. CASE LaunchError(c)
  <2>1. CleanEnvironment => \A v \in Ids : Present(v) => CleanState("created", FALSE, vms[v])
    BY <1>1, <1>2, <1>3, LaunchStateIsClean
  <2> QED
    BY <1>1, <1>3, <1>6, <2>1, LaunchFailsHere DEF InstanceWaitReady
<1> QED
  BY <1>5, <1>6 DEF InstanceWaitReady

\* The launch has ended and the node is there.
LEMMA LaunchEnds ==
  ASSUME ProviderInv, NEW c \in Callers, call[c].pc = "registerDNS",
         call' = [call EXCEPT ![c] = Idle], fate' = "ok", record' = (record \/ env.dns),
         UNCHANGED <<env, vms, addresses, handler, crashed, panicked>>
  PROVE  ProviderInv'
<1>1. /\ TypeOK /\ CallInv /\ OneLauncher /\ Alone /\ VMKnown /\ SingleVM /\ NameFree
      /\ AddressInv /\ RecordInv /\ CleanInv /\ TypeCall
  BY Parts
<1>2. (Steady' <=> Steady) /\ (CleanEnvironment' <=> CleanEnvironment)
  BY SameEnvironment
<1>3. Moves(c, "none", "idle", Nil, FALSE) /\ call'[c] = Idle
  BY <1>1, IdleCall, UpdateCall
<1>4. call[c].op = "launch" /\ handler \in Handler
  BY AtLaunch DEF LaunchLabels
<1>5. env.dns \in BOOLEAN
  BY <1>1, EnvironmentKnown
<1>6. TypeOK'
  BY <1>1, <1>3, <1>5 DEF TypeOK, TypeCall
<1>7. CallInv' /\ OneLauncher'
  BY <1>1, <1>3, <1>4 DEF CallInv, OneLauncher
<1>8. \A d \in Callers \ {c} : ~Launcher(d)
  BY <1>1, <1>4 DEF OneLauncher
<1>9. ~May("early") => \A d \in Callers \ {c} : call[d] = Idle
  BY <1>1, <1>4 DEF Alone, CallInv
<1>10. Alone'
  BY <1>3, <1>8 DEF Alone
<1>11. VMKnown' /\ SingleVM' /\ NameFree'
  BY <1>1, <1>2, <1>3, <1>4 DEF VMKnown, SingleVM, NameFree
<1>12. AddressInv'
  BY <1>1, <1>3 DEF AddressInv, AddressEnvironment
<1>13. RecordInv'
  BY <1>1, <1>3, <1>9, IdleCall DEF RecordInv, RecordEnvironment
<1>14. CleanInv'
  BY <1>2, <1>3, <1>8 DEF CleanInv
<1> QED
  BY <1>6, <1>7, <1>10, <1>11, <1>12, <1>13, <1>14 DEF ProviderInv

LEMMA RegisterDNSStep ==
  ASSUME ProviderInv, NEW c \in Callers, RegisterDNS(c)
  PROVE  ProviderInv'
<1>1. call[c].pc = "registerDNS" /\ call[c].pc \in LaunchLabels \ {"create", "creating"}
  BY DEF RegisterDNS, At, LaunchLabels
<1>2. CASE LaunchError(c) /\ UNCHANGED <<record, fate>>
  <2>1. vms \in [Ids -> VMState] /\ addresses \subseteq Ids
    BY Parts DEF TypeOK
  <2>2. CleanEnvironment => \A v \in Ids : Present(v) => CleanState("created", FALSE, vms[v])
    BY <1>1, <2>1, LaunchVM, LaunchStateIsClean
  <2> QED
    BY <1>1, <1>2, <2>1, <2>2, LaunchFailsHere DEF RegisterDNS
<1> QED
  BY <1>1, <1>2, LaunchEnds DEF RegisterDNS

LEMMA CreatedStep ==
  ASSUME ProviderInv, NEW c \in Callers, Created(c)
  PROVE  ProviderInv'
<1>1. call[c].pc = "creating" /\ call[c].pc \in LaunchLabels
  BY DEF Created, At, LaunchLabels
<1>2. /\ call[c].op = "launch" /\ handler \in Handler /\ call[c].vm \in Ids
      /\ Steady => \A v \in Ids : vms[v] = "requested" => call[c].vm = v
      /\ CleanEnvironment => handler.instance
  BY <1>1, AtLaunch
<1>3. vms \in [Ids -> VMState] /\ addresses \subseteq Ids /\ kind \in Kinds
  BY Parts, EnvironmentKnown DEF TypeOK
<1>4. CleanEnvironment => \A v \in Ids : Present(v) => call[c].vm = v /\ LaunchState("creating", vms[v])
  BY <1>1, <1>2, Parts DEF CleanInv
<1>5. ASSUME vms[call[c].vm] # "requested", handler' = [handler EXCEPT !.id = call[c].vm],
             Goto(c, AfterCreate), UNCHANGED vms
      PROVE  ProviderInv'
  <2>1. /\ AfterCreate \in LaunchLabels \ {"create", "creating"} /\ AfterCreate \in Label
        /\ AfterCreate \in {"built", "address", "configure", "powerOn"}
    BY <1>3 DEF AfterCreate, LaunchLabels, Label, Kinds
  <2>2. Moves(c, "launch", AfterCreate, call[c].vm, call[c].powered)
    BY <1>2, <1>5, <2>1, Parts, GotoCall
  <2>3. /\ handler' \in Handler /\ handler'.instance = handler.instance
        /\ handler'.id = call[c].vm /\ handler'.address = handler.address
    BY <1>2, <1>5 DEF Handler
  <2>4. vms' \in [Ids -> VMState] /\ addresses' = addresses /\ addresses' \subseteq Ids
    BY <1>3, <1>5 DEF Created
  <2>5. Steady => \A v \in Ids : vms'[v] # "requested"
    BY <1>2, <1>5
  <2>6. CleanEnvironment =>
          \A v \in Ids : Present(v)' =>
            LaunchState(AfterCreate, vms'[v]) /\ (kind \in ByName \/ handler'.id = v)
    BY <1>4, <1>5, <2>1, <2>3 DEF LaunchState
  <2> HIDE DEF Moves
  <2> QED
    BY <1>1, <1>2, <1>5, <2>1, <2>2, <2>3, <2>4, <2>5, <2>6, LaunchGoesOn DEF Created
<1>6. ASSUME LaunchError(c), UNCHANGED handler,
             \/ vms[call[c].vm] = "requested" /\ vms' = [vms EXCEPT ![call[c].vm] = "gone"]
             \/ (IF vms[call[c].vm] = "requested" THEN May("late") ELSE May("lost")) /\ UNCHANGED vms
      PROVE  ProviderInv'
  <2>1. Moves(c, "clean", "created", Nil, FALSE)
    BY <1>6, Parts, LaunchErrorCall
  <2>2. /\ vms' \in [Ids -> VMState]
        /\ \A v \in Ids : vms'[v] = vms[v] \/ (vms[v] = "requested" /\ vms'[v] = "gone")
    BY <1>2, <1>3, <1>6
  <2>3. Steady => \A v \in Ids : vms'[v] # "requested"
    BY <1>2, <1>3, <1>6, CleanIsSteady
  <2>4. CleanEnvironment =>
          /\ handler'.instance
          /\ \A v \in Ids : Present(v)' =>
               CleanState("created", FALSE, vms'[v]) /\ (kind \in ByName \/ handler.id = v)
    <3> SUFFICES ASSUME CleanEnvironment, NEW v \in Ids, Present(v)'
                 PROVE  CleanState("created", FALSE, vms'[v]) /\ (kind \in ByName \/ handler.id = v)
      BY <1>2, <1>6
    <3>1. Present(v) /\ vms'[v] = vms[v] /\ vms[v] # "requested"
      BY <2>2, <2>3, CleanIsSteady
    <3>2. call[c].vm = v /\ LaunchState("creating", vms[v])
      BY <1>4, <3>1
    <3>3. May("lost")
      BY <1>2, <1>3, <1>6, <3>1, <3>2
    <3>4. kind \in ByName
      BY <3>3, CleanIsSteady
    <3>5. CleanState("created", FALSE, vms[v])
      BY <3>1, <3>2 DEF LaunchState, CleanState
    <3> QED
      BY <3>1, <3>4, <3>5
  <2> HIDE DEF Moves
  <2> QED
    BY <1>2, <1>3, <1>6, <2>1, <2>2, <2>3, <2>4, LaunchFails DEF Created
<1> QED
  BY <1>5, <1>6 DEF Created

\* While a launch asks for a VM its name is free.
LEMMA NameIsFree ==
  ASSUME ProviderInv, NEW c \in Callers, call[c].pc = "create", Create = "wait"
  PROVE  Steady \/ kind \in RecordByAddress => \A v \in Ids : ~Present(v)
<1>1. kind \in Kinds /\ NameFree
  BY Parts, EnvironmentKnown
<1>2. kind \in RecordByAddress => \A v \in Ids : ~Present(v)
  BY <1>1 DEF Create, Kinds, RecordByAddress
<1>3. Steady /\ kind # "multipass" => \A v \in Ids : ~Present(v)
  BY <1>1 DEF NameFree
<1> QED
  BY <1>2, <1>3 DEF RecordByAddress

\* A VM is asked for.
LEMMA AsksForVM ==
  ASSUME ProviderInv, NEW c \in Callers, call[c].pc = "create", Create = "wait",
         NEW v \in Ids, vms[v] = "none", vms' \in [Ids -> VMState], vms'[v] = "requested",
         \A w \in Ids \ {v} : vms'[w] = vms[w],
         Moves(c, "launch", "creating", v, call[c].powered),
         handler' \in Handler, handler'.instance,
         handler'.id = handler.id, handler'.address = handler.address,
         UNCHANGED <<env, addresses, record, fate, crashed, panicked>>
  PROVE  ProviderInv'
<1>1. /\ TypeOK /\ CallInv /\ OneLauncher /\ Alone /\ VMKnown /\ SingleVM /\ NameFree
      /\ AddressInv /\ RecordInv /\ CleanInv /\ TypeCall
  BY Parts
<1>2. (Steady' <=> Steady) /\ (CleanEnvironment' <=> CleanEnvironment)
  BY SameEnvironment
<1>3. call[c].op = "launch" /\ handler \in Handler /\ Nil \notin Ids
  BY AtLaunch DEF LaunchLabels
<1>4. Steady \/ kind \in RecordByAddress => \A w \in Ids : ~Present(w)
  BY NameIsFree
<1>5. /\ \A d \in Callers \ {c} : ~Launcher(d)
      /\ ~May("early") => fate = "none" /\ \A d \in Callers \ {c} : call[d].op = "none"
  BY <1>1, <1>3 DEF OneLauncher, Alone
<1>6. \A d \in Callers \ {c} : call[d].pc \notin LaunchLabels
  BY <1>1, <1>5, Labels
<1>7. TypeOK'
  BY <1>1 DEF TypeOK, TypeCall
<1>8. CallInv' /\ OneLauncher' /\ Alone'
  <2>1. CallInv'
    BY <1>1, <1>3 DEF CallInv, LaunchLabels
  <2>2. OneLauncher' /\ Alone'
    BY <1>1, <1>3, <1>5 DEF OneLauncher, Alone
  <2> QED
    BY <2>1, <2>2
<1>9. VMKnown'
  BY <1>1, <1>3, <1>5 DEF VMKnown, Handler
<1>10. SingleVM'
  BY <1>2, <1>4 DEF SingleVM
<1>11. NameFree'
  BY <1>2, <1>4, <1>6 DEF NameFree, LaunchLabels
<1>12. AddressInv'
  <2>1. /\ addresses \subseteq Ids /\ Nil \notin addresses
        /\ AddressEnvironment => handler.id = Nil /\ handler.address = Nil /\ v \notin addresses
    BY <1>1, <1>3 DEF AddressInv, TypeOK
  <2> QED
    BY <1>1, <1>3, <1>5, <1>6, <2>1 DEF AddressInv, AddressEnvironment, LaunchLabels
<1>13. (\E w \in Ids : vms[w] = "on") => \E w \in Ids : vms'[w] = "on"
  OBVIOUS
<1>14. RecordInv'
  BY <1>1, <1>13 DEF RecordInv, RecordEnvironment
<1>15. CleanInv'
  <2>1. CleanEnvironment => Steady /\ fate = "none" /\ \A w \in Ids : Present(w)' => w = v
    BY <1>4, <1>5, CleanIsSteady
  <2>2. CleanEnvironment => \A d \in Callers : Launcher(d)' => d = c
    BY <1>5
  <2>3. LaunchState("creating", "requested") /\ kind' = kind
    BY DEF LaunchState
  <2> QED
    BY <1>2, <2>1, <2>2, <2>3 DEF CleanInv, LaunchState
<1> QED
  BY <1>7, <1>8, <1>9, <1>10, <1>11, <1>12, <1>14, <1>15 DEF ProviderInv

LEMMA InstanceCreateStep ==
  ASSUME ProviderInv, NEW c \in Callers, InstanceCreate(c)
  PROVE  ProviderInv'
<1>1. call[c].pc = "create"
  BY DEF InstanceCreate, At
<1>2. ASSUME Create = "wait", NEW v \in Ids, Fresh(v), vms' = [vms EXCEPT ![v] = "requested"],
             call' = [call EXCEPT ![c].pc = "creating", ![c].vm = v]
      PROVE  ProviderInv'
  <2>1. call[c].op = "launch" /\ handler \in Handler
    BY <1>1, AtLaunch DEF LaunchLabels
  <2>2. Moves(c, "launch", "creating", v, call[c].powered)
    BY <1>2, <2>1, Parts, CreatingCall
  <2>3. /\ handler' \in Handler /\ handler'.instance
        /\ handler'.id = handler.id /\ handler'.address = handler.address
    BY <2>1 DEF InstanceCreate, Handler
  <2>4. vms' \in [Ids -> VMState] /\ vms'[v] = "requested" /\ \A w \in Ids \ {v} : vms'[w] = vms[w]
    BY <1>2, Parts DEF TypeOK
  <2>5. vms[v] = "none" /\ UNCHANGED <<env, addresses, record, fate, crashed, panicked>>
    BY <1>2 DEF InstanceCreate, Fresh
  <2> HIDE DEF Moves
  <2> QED
    BY <1>1, <1>2, <2>2, <2>3, <2>4, <2>5, AsksForVM
<1>3. ASSUME LaunchError(c), UNCHANGED vms
      PROVE  ProviderInv'
  <2>1. /\ call[c].op = "launch" /\ handler \in Handler
        /\ Steady => \A v \in Ids : vms[v] # "requested"
    BY <1>1, AtLaunch DEF LaunchLabels
  <2>2. Moves(c, "clean", "created", Nil, FALSE)
    BY <1>3, Parts, LaunchErrorCall
  <2>3. /\ handler' \in Handler /\ handler'.instance
        /\ handler'.id = handler.id /\ handler'.address = handler.address
    BY <2>1 DEF InstanceCreate, Handler
  <2>4. vms' \in [Ids -> VMState] /\ addresses' \subseteq Ids /\ addresses' = addresses
    BY <1>3, Parts DEF TypeOK, InstanceCreate
  <2>5. CleanEnvironment =>
          \A v \in Ids : Present(v)' =>
            CleanState("created", FALSE, vms'[v]) /\ (kind \in ByName \/ handler.id = v)
    BY <1>1, <1>3, <2>1, Parts, CleanIsSteady DEF NameFree, CleanState, ByName, DeletesOff
  <2> HIDE DEF Moves
  <2> QED
    BY <1>3, <2>1, <2>2, <2>3, <2>4, <2>5, LaunchFails DEF InstanceCreate
<1> QED
  BY <1>2, <1>3 DEF InstanceCreate

LEMMA CreateInstanceStep ==
  ASSUME ProviderInv, NEW c \in Callers, CreateInstance(c)
  PROVE  ProviderInv'
<1>1. /\ TypeOK /\ CallInv /\ OneLauncher /\ Alone /\ VMKnown /\ SingleVM /\ NameFree
      /\ AddressInv /\ RecordInv /\ CleanInv /\ TypeCall
  BY Parts
<1>2. (Steady' <=> Steady) /\ (CleanEnvironment' <=> CleanEnvironment)
  BY SameEnvironment DEF CreateInstance
<1>3. \A d \in Callers : call[d] = Idle
  BY DEF CreateInstance, Quiet
<1>4. Moves(c, "launch", "create", Nil, FALSE)
  BY <1>1, BeginCall DEF CreateInstance, Op, Label
<1>5. handler' \in Handler /\ handler'.id = Nil /\ handler'.address = Nil /\ fate' = "none" /\ Nil \notin Ids
  BY <1>1, EnvironmentKnown DEF CreateInstance, Handler
<1>6. UNCHANGED <<env, vms, addresses, record, crashed, panicked>>
  BY DEF CreateInstance
<1>7. Steady /\ kind # "multipass" => \A v \in Ids : ~Present(v)
  BY <1>1, <1>3, IdleCall, CleanIsSteady DEF CreateInstance, Found, NameFree
<1>8. \A d \in Callers \ {c} : call'[d] = Idle
  BY <1>3, <1>4
<1>9. TypeOK'
  BY <1>1, <1>4, <1>5, <1>6 DEF TypeOK, TypeCall
<1>10. CallInv' /\ OneLauncher' /\ Alone'
  BY <1>1, <1>4, <1>5, <1>6, <1>8, IdleCall DEF CallInv, OneLauncher, Alone, LaunchLabels
<1>11. VMKnown' /\ SingleVM'
  BY <1>1, <1>2, <1>4, <1>5, <1>6, <1>8, IdleCall DEF VMKnown, SingleVM
<1>12. NameFree'
  BY <1>1, <1>2, <1>3, <1>4, <1>6, <1>7, <1>8, IdleCall DEF NameFree
<1>13. AddressInv'
  BY <1>1, <1>4, <1>5, <1>6, <1>8, IdleCall DEF AddressInv, AddressEnvironment, TypeOK
<1>14. RecordInv'
  BY <1>1, <1>4, <1>5, <1>6, <1>8, IdleCall DEF RecordInv, RecordEnvironment
<1>15. CleanInv'
  BY <1>2, <1>4, <1>5, <1>8, IdleCall DEF CleanInv
<1> QED
  BY <1>9, <1>10, <1>11, <1>12, <1>13, <1>14, <1>15 DEF ProviderInv

-----------------------------------------------------------------------------
(* The steps of deleteVM *)

LEMMA DeleteStep ==
  ASSUME ProviderInv, NEW c \in Callers, Delete(c)
  PROVE  ProviderInv'
<1>1. /\ TypeOK /\ CallInv /\ OneLauncher /\ Alone /\ VMKnown /\ SingleVM /\ NameFree
      /\ AddressInv /\ RecordInv /\ CleanInv /\ TypeCall
  BY Parts
<1>2. UNCHANGED <<env, vms, addresses, record, handler, fate, crashed, panicked>>
  BY DEF Delete
<1>3. (Steady' <=> Steady) /\ (CleanEnvironment' <=> CleanEnvironment)
  BY <1>2, SameEnvironment
<1>4. Moves(c, "delete", "created", Nil, FALSE) /\ call[c] = Idle
  BY <1>1, BeginCall DEF Delete, Op, Label
<1>5. handler \in Handler
  BY <1>1 DEF Delete, Launching, CallInv
<1>6. ~May("early") => \A d \in Callers : ~Launcher(d)
  BY <1>1 DEF Delete, Alone
<1> HIDE DEF Moves
<1>7. TypeOK' /\ CallInv'
  BY <1>1, <1>2, <1>4, <1>5 DEF TypeOK, TypeCall, CallInv, DeleteLabels, Moves
<1>8. OneLauncher' /\ Alone'
  BY <1>1, <1>2, <1>4, <1>6 DEF OneLauncher, Alone, Moves
<1>9. VMKnown'
  BY <1>1, <1>2, <1>4 DEF VMKnown, Moves
<1>10. SingleVM' /\ NameFree'
  <2>1. SingleVM'
    BY <1>1, <1>2, <1>3 DEF SingleVM
  <2>2. NameFree'
    BY <1>1, <1>2, <1>3, <1>4, IdleCall DEF NameFree, Moves
  <2> QED
    BY <2>1, <2>2
<1>11. AddressInv' /\ RecordInv'
  BY <1>1, <1>2, <1>4 DEF AddressInv, AddressEnvironment, RecordInv, RecordEnvironment, Moves
<1>12. CleanInv'
  <2>1. CleanEnvironment => \A d \in Callers : ~Launcher(d)'
    BY <1>4, <1>6, CleanIsSteady DEF Moves
  <2> QED
    BY <1>1, <1>2, <1>3, <2>1 DEF CleanInv
<1> QED
  BY <1>7, <1>8, <1>9, <1>10, <1>11, <1>12 DEF ProviderInv

\* What is known at a step of deleteVM.
LEMMA AtDelete ==
  ASSUME ProviderInv, NEW c \in Callers, call[c].pc \in DeleteLabels
  PROVE  /\ call[c].op \in {"clean", "delete"} /\ call[c].powered \in BOOLEAN /\ handler \in Handler
         /\ vms \in [Ids -> VMState] /\ addresses \subseteq Ids /\ record \in BOOLEAN /\ kind \in Kinds
         /\ Addressed \subseteq Ids /\ Nil \notin Ids
<1>1. TypeOK /\ CallInv
  BY Parts
<1>2. call[c].op \in {"clean", "delete"} /\ call[c].powered \in BOOLEAN
  BY <1>1, Labels
<1>3. handler \in Handler /\ kind \in Kinds /\ Nil \notin Ids
  BY <1>1, <1>2, EnvironmentKnown DEF CallInv
<1>4. Addressed \subseteq Ids
  BY <1>3 DEF Addressed, Handler
<1> QED
  BY <1>1, <1>2, <1>3, <1>4 DEF TypeOK

\* The clean-up addresses the only VM there is.
LEMMA CleanVM ==
  ASSUME ProviderInv, NEW c \in Callers, call[c].op = "clean", CleanEnvironment, NEW v \in Ids, Present(v)
  PROVE  /\ CleanState(call[c].pc, call[c].powered, vms[v]) /\ Alive(vms[v])
         /\ v \in Addressed /\ \A w \in Addressed : w = v
<1>1. CleanState(call[c].pc, call[c].powered, vms[v]) /\ (kind \in ByName \/ handler.id = v)
  BY Parts DEF CleanInv
<1>2. Alive(vms[v])
  BY <1>1 DEF CleanState
<1>3. \A w \in Ids : Present(w) => w = v
  BY Parts, CleanIsSteady DEF SingleVM
<1>4. Nil \notin Ids
  BY Parts, EnvironmentKnown
<1> QED
  BY <1>1, <1>2, <1>3, <1>4 DEF Addressed

\* The clean-up is not refused, and finds the VM if there is one.
LEMMA CleanIsAccepted ==
  ASSUME ProviderInv, NEW c \in Callers, call[c].op = "clean", call[c].pc = "created", CleanEnvironment,
         NEW v \in Ids, Present(v)
  PROVE  ~Deleting /\ Attached /\ Found # {}
<1>1. fate = "none" /\ \A d \in Callers \ {c} : call[d] = Idle
  BY Parts, CleanIsSteady DEF Alone, CallInv
<1>2. ~Deleting
  BY <1>1, IdleCall DEF Deleting
<1>3. Found # {}
  BY CleanVM DEF Found
<1>4. handler.instance /\ (kind \in ByName \/ handler.id = v) /\ Nil \notin Ids
  BY Parts, EnvironmentKnown DEF CleanInv
<1>5. Attached
  BY <1>4 DEF Attached, ByName
<1> QED
  BY <1>2, <1>3, <1>5

LEMMA DeleteReturnsHere ==
  ASSUME ProviderInv, NEW c \in Callers, call[c].pc \in DeleteLabels,
         NEW outcome \in {"error", "stuck"}, DeleteReturns(c, outcome),
         UNCHANGED <<env, vms, addresses, record, handler, crashed, panicked>>,
         CleanEnvironment /\ call[c].op = "clean" => \A v \in Ids : ~Present(v)
  PROVE  ProviderInv'
BY AtDelete, DeleteReturnsStep

LEMMA DeleteGoesOnHere ==
  ASSUME ProviderInv, NEW c \in Callers, call[c].pc \in DeleteLabels,
         NEW pc \in DeleteLabels, Goto(c, pc), pc # "unregisterDNS",
         UNCHANGED <<env, vms, addresses, record, handler, fate, crashed, panicked>>,
         RecordEnvironment /\ pc \in {"powerOff", "poweringOff", "destroy", "release"} => ~record,
         CleanEnvironment /\ call[c].op = "clean" =>
           \A v \in Ids : Present(v) => CleanState(pc, call[c].powered, vms[v])
  PROVE  ProviderInv'
<1>1. Moves(c, call[c].op, pc, call[c].vm, call[c].powered)
  BY Parts, GotoCall DEF DeleteLabels, Label
<1> HIDE DEF Moves
<1> QED
  BY <1>1, AtDelete, DeleteGoesOn

LEMMA InstanceCreatedStep ==
  ASSUME ProviderInv, NEW c \in Callers, InstanceCreated(c)
  PROVE  ProviderInv'
<1>1. call[c].pc = "created" /\ call[c].pc \in DeleteLabels /\ "status" \in DeleteLabels
  BY DEF InstanceCreated, At, DeleteLabels
<1>2. CASE Goto(c, "status") /\ UNCHANGED fate
  <2>1. CleanEnvironment /\ call[c].op = "clean" =>
          \A v \in Ids : Present(v) => CleanState("status", call[c].powered, vms[v])
    BY <1>1, CleanVM DEF CleanState
  <2> QED
    BY <1>1, <1>2, <2>1, DeleteGoesOnHere DEF InstanceCreated
<1>3. CASE (Deleting \/ ~Attached \/ Found = {} \/ May("unseen")) /\ DeleteReturns(c, "error")
  <2>1. CleanEnvironment /\ call[c].op = "clean" => \A v \in Ids : ~Present(v)
    BY <1>1, <1>3, CleanIsAccepted, CleanIsSteady
  <2> QED
    BY <1>1, <1>3, <2>1, DeleteReturnsHere DEF InstanceCreated
<1> QED
  BY <1>2, <1>3 DEF InstanceCreated

LEMMA InstanceStatusStep ==
  ASSUME ProviderInv, NEW c \in Callers, InstanceStatus(c)
  PROVE  ProviderInv'
<1>1. call[c].pc = "status" /\ call[c].pc \in DeleteLabels /\ "unregisterDNS" \in DeleteLabels
  BY DEF InstanceStatus, At, DeleteLabels
<1>2. /\ call[c].op \in {"clean", "delete"} /\ handler \in Handler
      /\ vms \in [Ids -> VMState] /\ addresses \subseteq Ids /\ record \in BOOLEAN /\ kind \in Kinds
      /\ Addressed \subseteq Ids
  BY <1>1, AtDelete
<1>3. ASSUME NEW v \in Addressed, Status(vms[v]) # "error", UNCHANGED fate,
             call' = [call EXCEPT ![c].pc = "unregisterDNS", ![c].powered = Status(vms[v]) = "on"]
      PROVE  ProviderInv'
  <2> DEFINE powered == Status(vms[v]) = "on"
  <2>1. powered \in BOOLEAN /\ v \in Ids /\ vms[v] \in VMState
    BY <1>2
  <2>2. Moves(c, call[c].op, "unregisterDNS", call[c].vm, powered)
    BY <1>3, <2>1, Parts, StatusCall
  <2>3. RecordEnvironment /\ ~powered /\ kind \in RecordByAddress => ~record
    <3>1. kind \in RecordByAddress => Alive(vms[v]) /\ (vms[v] = "on" => powered)
      BY <1>2, <1>3, <2>1, StatusTable
    <3>2. kind \in RecordByAddress => \A w \in Ids : Present(w) => w = v
      BY <2>1, <3>1, Parts DEF SingleVM
    <3>3. RecordEnvironment /\ kind \in RecordByAddress /\ record => \E w \in Ids : vms[w] = "on"
      BY Parts DEF RecordInv
    <3> QED
      BY <3>1, <3>2, <3>3
  <2>4. CleanEnvironment /\ call[c].op = "clean" =>
          \A w \in Ids : Present(w) => CleanState("unregisterDNS", powered, vms[w])
    <3> SUFFICES ASSUME CleanEnvironment, call[c].op = "clean", NEW w \in Ids, Present(w)
                 PROVE  CleanState("unregisterDNS", powered, vms[w])
      OBVIOUS
    <3>1. w = v /\ Alive(vms[v]) /\ CleanState("status", FALSE, vms[v])
      BY <1>1, CleanVM DEF CleanState
    <3>2. IF powered THEN Stoppable(vms[v]) ELSE Deletable(vms[v])
      BY <1>2, <1>3, <2>1, <3>1, StatusTable
    <3> QED
      BY <3>1, <3>2 DEF CleanState
  <2> HIDE DEF powered, Moves
  <2>5. vms' = vms /\ record' = record /\ UNCHANGED <<env, addresses, handler, fate, crashed, panicked>>
    BY <1>3 DEF InstanceStatus
  <2> QED
    BY <1>1, <1>2, <2>1, <2>2, <2>3, <2>4, <2>5, DeleteGoesOn
<1>4. CASE (May("unseen") \/ \A v \in Addressed : Status(vms[v]) = "error") /\ DeleteReturns(c, "error")
  <2>1. CleanEnvironment /\ call[c].op = "clean" => \A v \in Ids : ~Present(v)
    BY <1>2, <1>4, CleanVM, CleanIsSteady, StatusTable
  <2> QED
    BY <1>1, <1>4, <2>1, DeleteReturnsHere DEF InstanceStatus
<1> QED
  BY <1>3, <1>4 DEF InstanceStatus

LEMMA UnregisterDNSStep ==
  ASSUME ProviderInv, NEW c \in Callers, UnregisterDNS(c)
  PROVE  ProviderInv'
<1>1. call[c].pc = "unregisterDNS" /\ call[c].pc \in DeleteLabels
  BY DEF UnregisterDNS, At, DeleteLabels
<1>2. /\ call[c].op \in {"clean", "delete"} /\ call[c].powered \in BOOLEAN /\ handler \in Handler
      /\ vms \in [Ids -> VMState] /\ record \in BOOLEAN
  BY <1>1, AtDelete
<1> DEFINE pc == IF call[c].powered THEN "powerOff" ELSE "destroy"
<1>3. pc \in DeleteLabels /\ pc \in Label /\ pc # "unregisterDNS"
  BY DEF DeleteLabels, Label
<1>4. ASSUME IF kind \in RecordByAddress /\ ~call[c].powered
             THEN UNCHANGED record
             ELSE record' = FALSE \/ (May("stop") /\ UNCHANGED record),
             Goto(c, pc), UNCHANGED <<env, vms, addresses, handler, fate, crashed, panicked>>
      PROVE  ProviderInv'
  <2>1. Moves(c, call[c].op, pc, call[c].vm, call[c].powered)
    BY <1>3, <1>4, Parts, GotoCall
  <2>2. record' \in BOOLEAN /\ (record' => record)
    BY <1>2, <1>4
  <2>3. RecordEnvironment /\ kind \in RecordByAddress /\ ~call[c].powered => ~record
    BY <1>1, Parts DEF RecordInv
  <2>4. RecordEnvironment => ~record'
    BY <1>4, <2>2, <2>3 DEF RecordEnvironment
  <2>5. CleanEnvironment /\ call[c].op = "clean" =>
          \A v \in Ids : Present(v)' => CleanState(pc, call[c].powered, vms'[v])
    BY <1>1, <1>4, CleanVM DEF CleanState
  <2> HIDE DEF pc, Moves
  <2> QED
    BY <1>1, <1>2, <1>3, <1>4, <2>1, <2>2, <2>4, <2>5, DeleteGoesOn
<1>5. CASE Panic
  BY <1>5, PanicStep DEF Panic
<1> QED
  BY <1>4, <1>5 DEF UnregisterDNS

LEMMA InstancePowerOffStep ==
  ASSUME ProviderInv, NEW c \in Callers, InstancePowerOff(c)
  PROVE  ProviderInv'
<1>1. call[c].pc = "powerOff" /\ call[c].pc \in DeleteLabels
  BY DEF InstancePowerOff, At, DeleteLabels
<1>2. /\ call[c].op \in {"clean", "delete"} /\ call[c].powered \in BOOLEAN /\ handler \in Handler
      /\ vms \in [Ids -> VMState] /\ record \in BOOLEAN /\ kind \in Kinds /\ Addressed \subseteq Ids
  BY <1>1, AtDelete
<1>3. ASSUME NEW v \in Addressed, PowerOff(vms[v]) # "error",
             vms' = [vms EXCEPT ![v] = IF PowerOff(@) = "wait" /\ @ # "off" THEN "stopping" ELSE @],
             Goto(c, IF PowerOff(vms[v]) = "done" THEN "destroy" ELSE "poweringOff"),
             UNCHANGED <<env, addresses, record, handler, fate, crashed, panicked>>
      PROVE  ProviderInv'
  <2> DEFINE pc == IF PowerOff(vms[v]) = "done" THEN "destroy" ELSE "poweringOff"
  <2>1. pc \in DeleteLabels /\ pc \in Label /\ pc # "unregisterDNS"
    BY DEF DeleteLabels, Label
  <2>2. Moves(c, call[c].op, pc, call[c].vm, call[c].powered)
    BY <1>3, <2>1, Parts, GotoCall
  <2>3. v \in Ids /\ vms[v] \in VMState /\ Alive(vms[v]) /\ PowerOff(vms[v]) \in {"wait", "done"}
    BY <1>2, <1>3, PowerOffTable
  <2>4. /\ vms' \in [Ids -> VMState] /\ \A w \in Ids \ {v} : vms'[w] = vms[w]
        /\ vms'[v] = IF PowerOff(vms[v]) = "wait" /\ vms[v] # "off" THEN "stopping" ELSE vms[v]
    BY <1>2, <1>3, <2>3
  <2>5. RecordEnvironment => ~record
    BY <1>1, Parts DEF RecordInv
  <2>6. CleanEnvironment /\ call[c].op = "clean" =>
          \A w \in Ids : Present(w)' => CleanState(pc, call[c].powered, vms'[w])
    <3> SUFFICES ASSUME CleanEnvironment, call[c].op = "clean", NEW w \in Ids, Present(w)'
                 PROVE  CleanState(pc, call[c].powered, vms'[w])
      OBVIOUS
    <3>1. Present(v)
      BY <2>3
    <3>2. w = v
      BY <2>3, <2>4, <3>1, CleanVM
    <3>3. Stoppable(vms[v])
      BY <1>1, <2>3, <3>1, CleanVM DEF CleanState
    <3>4. PowerOff(vms[v]) = "done" => Deletable(vms[v])
      BY <1>2, <2>3, <3>3, PowerOffTable
    <3>5. PowerOff(vms[v]) = "wait" => vms'[v] \in {"stopping", "off"}
      BY <2>4
    <3> QED
      BY <2>3, <2>4, <3>2, <3>4, <3>5 DEF CleanState
  <2>7. \A w \in Ids : \/ vms'[w] = vms[w]
                       \/ /\ vms[w] # "none" /\ vms[w] # "requested"
                          /\ vms'[w] # "none" /\ (Present(w)' => Present(w)) /\ vms'[w] # "requested"
    BY <2>3, <2>4
  <2> HIDE DEF pc, Moves
  <2> QED
    BY <1>1, <1>2, <1>3, <2>1, <2>2, <2>4, <2>5, <2>6, <2>7, DeleteGoesOn
<1>4. ASSUME May("stop") \/ \A v \in Addressed : PowerOff(vms[v]) = "error", DeleteReturns(c, "stuck"),
             UNCHANGED <<env, vms, addresses, record, handler, crashed, panicked>>
      PROVE  ProviderInv'
  <2>1. CleanEnvironment /\ call[c].op = "clean" => \A v \in Ids : ~Present(v)
    <3> SUFFICES ASSUME CleanEnvironment, call[c].op = "clean", NEW v \in Ids, Present(v)
                 PROVE  FALSE
      OBVIOUS
    <3>1. v \in Addressed /\ Stoppable(vms[v])
      BY <1>1, CleanVM DEF CleanState
    <3>2. PowerOff(vms[v]) # "error"
      BY <1>2, <3>1, PowerOffTable
    <3> QED
      BY <1>4, <3>1, <3>2, CleanIsSteady
  <2> QED
    BY <1>1, <1>4, <2>1, DeleteReturnsHere
<1>5. CASE Panic
  BY <1>5, PanicStep DEF Panic
<1> QED
  BY <1>3, <1>4, <1>5 DEF InstancePowerOff

LEMMA WaitOffStep ==
  ASSUME ProviderInv, NEW c \in Callers, WaitOff(c)
  PROVE  ProviderInv'
<1>1. call[c].pc = "poweringOff" /\ call[c].pc \in DeleteLabels /\ "destroy" \in DeleteLabels
  BY DEF WaitOff, At, DeleteLabels
<1>2. \A v \in Ids : CleanEnvironment /\ call[c].op = "clean" /\ Present(v) =>
        v \in Addressed /\ vms[v] \in {"stopping", "off"} /\ \A w \in Addressed : w = v
  BY <1>1, CleanVM DEF CleanState
<1> DEFINE s == {vms[v] : v \in Addressed}
<1>3. CASE "off" \in s /\ Goto(c, "destroy") /\ UNCHANGED fate
  <2>1. CleanEnvironment /\ call[c].op = "clean" =>
          \A v \in Ids : Present(v) => CleanState("destroy", call[c].powered, vms[v])
    BY <1>2, <1>3 DEF CleanState, Deletable
  <2>2. RecordEnvironment => ~record
    BY <1>1, Parts DEF RecordInv
  <2> QED
    BY <1>1, <1>3, <2>1, <2>2, DeleteGoesOnHere DEF WaitOff
<1>4. CASE (s \cap {"stopping", "off"} = {} \/ May("late")) /\ DeleteReturns(c, "stuck")
  <2>1. CleanEnvironment /\ call[c].op = "clean" => \A v \in Ids : ~Present(v)
    BY <1>2, <1>4, CleanIsSteady
  <2> QED
    BY <1>1, <1>4, <2>1, DeleteReturnsHere DEF WaitOff
<1> QED
  BY <1>3, <1>4 DEF WaitOff

LEMMA InstanceDeleteStep ==
  ASSUME ProviderInv, NEW c \in Callers, InstanceDelete(c)
  PROVE  ProviderInv'
<1>1. call[c].pc = "destroy" /\ call[c].pc \in DeleteLabels
  BY DEF InstanceDelete, At, DeleteLabels
<1>2. /\ call[c].op \in {"clean", "delete"} /\ call[c].powered \in BOOLEAN /\ handler \in Handler
      /\ vms \in [Ids -> VMState] /\ addresses \subseteq Ids /\ record \in BOOLEAN
      /\ kind \in Kinds /\ Addressed \subseteq Ids
  BY <1>1, AtDelete
<1>3. UNCHANGED <<env, addresses, record, handler, crashed, panicked>>
  BY DEF InstanceDelete
<1> DEFINE failed == IF call[c].powered THEN "error" ELSE "stuck"
<1>4. failed \in {"error", "stuck"}
  OBVIOUS
<1> HIDE DEF failed
<1>5. ASSUME NEW v \in Addressed, Destroy(vms[v]) # "error", vms' = [vms EXCEPT ![v] = DestroyedBy],
             \/ handler.address # Nil /\ Goto(c, "release") /\ UNCHANGED fate
             \/ handler.address = Nil /\ DeleteReturns(c, "deleted")
             \/ May("lost") /\ DeleteReturns(c, failed)
      PROVE  ProviderInv'
  <2>1. v \in Ids /\ vms[v] \in VMState /\ vms[v] # "none" /\ vms[v] # "requested"
    BY <1>2, <1>5, DestroyTable
  <2>2. /\ vms' \in [Ids -> VMState] /\ \A w \in Ids \ {v} : vms'[w] = vms[w]
        /\ vms'[v] \in {"terminating", "gone"}
    BY <1>2, <1>5, <2>1 DEF DestroyedBy
  <2>3. CleanEnvironment /\ call[c].op = "clean" => \A w \in Ids : ~Present(w)'
    <3> SUFFICES ASSUME CleanEnvironment, call[c].op = "clean", NEW w \in Ids, Present(w)'
                 PROVE  FALSE
      OBVIOUS
    <3>1. w # v /\ Present(w)
      BY <2>1, <2>2
    <3> QED
      BY <3>1, <1>5, CleanVM
  <2>4. \A w \in Ids : \/ vms'[w] = vms[w]
                       \/ /\ vms[w] # "none" /\ vms[w] # "requested"
                          /\ vms'[w] \in {"terminating", "gone"}
    BY <2>1, <2>2
  <2>5. CASE Goto(c, "release") /\ UNCHANGED fate
    <3>1. "release" \in DeleteLabels /\ "release" \in Label
      BY DEF DeleteLabels, Label
    <3>2. Moves(c, call[c].op, "release", call[c].vm, call[c].powered)
      BY <2>5, <3>1, Parts, GotoCall
    <3>3. RecordEnvironment => ~record
      BY <1>1, Parts DEF RecordInv
    <3>4. \A w \in Ids : \/ vms'[w] = vms[w]
                         \/ /\ vms[w] # "none" /\ vms[w] # "requested"
                            /\ vms'[w] # "none" /\ (Present(w)' => Present(w)) /\ vms'[w] # "requested"
      BY <2>4
    <3> HIDE DEF Moves
    <3> QED
      BY <1>1, <1>2, <1>3, <2>2, <2>3, <2>5, <3>1, <3>2, <3>3, <3>4, DeleteGoesOn
  <2>6. CASE handler.address = Nil /\ DeleteReturns(c, "deleted")
    BY <1>1, <1>2, <1>3, <2>2, <2>3, <2>4, <2>6, DeleteReturnsStep
  <2>7. CASE DeleteReturns(c, failed)
    BY <1>1, <1>2, <1>3, <1>4, <2>2, <2>3, <2>4, <2>7, DeleteReturnsStep
  <2> QED
    BY <1>5, <2>5, <2>6, <2>7
<1>6. ASSUME May("stop") \/ \A v \in Addressed : Destroy(vms[v]) = "error",
             DeleteReturns(c, failed), UNCHANGED vms
      PROVE  ProviderInv'
  <2>1. CleanEnvironment /\ call[c].op = "clean" => \A v \in Ids : ~Present(v)
    <3> SUFFICES ASSUME CleanEnvironment, call[c].op = "clean", NEW v \in Ids, Present(v)
                 PROVE  FALSE
      OBVIOUS
    <3>1. v \in Addressed /\ Deletable(vms[v])
      BY <1>1, CleanVM DEF CleanState
    <3>2. Destroy(vms[v]) # "error"
      BY <1>2, <3>1, DestroyTable
    <3> QED
      BY <1>6, <3>1, <3>2, CleanIsSteady
  <2> QED
    BY <1>1, <1>3, <1>4, <1>6, <2>1, DeleteReturnsHere
<1> QED
  BY <1>5, <1>6 DEF InstanceDelete, failed

LEMMA ReleaseStep ==
  ASSUME ProviderInv, NEW c \in Callers, Release(c)
  PROVE  ProviderInv'
<1>1. call[c].pc = "release" /\ call[c].pc \in DeleteLabels
  BY DEF Release, At, DeleteLabels
<1>2. call[c].op \in {"clean", "delete"} /\ vms \in [Ids -> VMState]
  BY <1>1, AtDelete
<1>3. CleanEnvironment /\ call[c].op = "clean" => \A v \in Ids : ~Present(v)
  BY <1>1, CleanVM DEF CleanState
<1>4. UNCHANGED <<env, vms, record, handler, crashed, panicked>>
  BY DEF Release
<1>5. CASE addresses' = addresses \ {handler.address} /\ DeleteReturns(c, "deleted")
  BY <1>1, <1>2, <1>3, <1>4, <1>5, DeleteReturnsStep
<1>6. CASE UNCHANGED addresses /\ DeleteReturns(c, IF call[c].powered THEN "error" ELSE "stuck")
  BY <1>1, <1>3, <1>4, <1>6, DeleteReturnsHere
<1> QED
  BY <1>5, <1>6 DEF Release

-----------------------------------------------------------------------------
(* The VMs and the process *)

\* How a VM changes by itself.
Changes(s, t) ==
  \/ s = "requested" /\ t = IF kind \in Running THEN "starting" ELSE "off"
  \/ s = "starting" /\ (t = "on" \/ (t = "off" /\ kind # "desktop"))
  \/ s = "on" /\ t = "off" /\ May("halt")
  \/ s = "stopping" /\ t = "off"
  \/ s = "terminating" /\ t = "gone"

LEMMA ChangesTable ==
  ASSUME kind \in Kinds, NEW s, NEW t, Changes(s, t)
  PROVE  /\ s # "none" /\ t # "none" /\ t # "requested" /\ t \in VMState
         /\ Alive(t) => s = "requested" \/ Alive(s)
         /\ s = "on" => May("halt")
BY DEF Changes

LEMMA LaunchStateStays ==
  ASSUME kind \in Kinds, NEW s, NEW t, Changes(s, t), NEW pc, LaunchState(pc, s)
  PROVE  LaunchState(pc, t)
BY DEF Changes, LaunchState, DeletesOff, Running

LEMMA CleanStateStays ==
  ASSUME kind \in Kinds, NEW s, NEW t, Changes(s, t), NEW pc, NEW powered, CleanState(pc, powered, s),
         CleanEnvironment
  PROVE  CleanState(pc, powered, t)
<1>1. May("halt") => kind \notin {"vsphere", "desktop"}
  BY CleanIsSteady DEF PowerOff, VspherePowerOff, DesktopPowerOff, Kinds
<1>2. Alive(s) /\ Alive(t)
  BY DEF CleanState, Changes
<1>3. Stoppable(s) => Stoppable(t)
  BY <1>1, <1>2 DEF Changes, Stoppable
<1>4. Deletable(s) => Deletable(t)
  BY <1>1, <1>2 DEF Changes, Deletable, DeletesOff
<1>5. kind \in DeletesOff /\ (s \in {"off", "on"} \/ (kind = "desktop" /\ s = "starting")) =>
        t \in {"off", "on"} \/ (kind = "desktop" /\ t = "starting")
  BY DEF Changes
<1>6. s \in {"stopping", "off"} => t \in {"stopping", "off"}
  BY DEF Changes
<1> QED
  BY <1>2, <1>3, <1>4, <1>5, <1>6 DEF CleanState

LEMMA VMChangesStep ==
  ASSUME ProviderInv, NEW v \in Ids, VMChanges(v)
  PROVE  ProviderInv'
<1>1. /\ TypeOK /\ CallInv /\ OneLauncher /\ Alone /\ VMKnown /\ SingleVM /\ NameFree
      /\ AddressInv /\ RecordInv /\ CleanInv
  BY Parts
<1>2. UNCHANGED <<env, addresses, record, handler, fate, call, crashed, panicked>>
  BY DEF VMChanges
<1>3. (Steady' <=> Steady) /\ (CleanEnvironment' <=> CleanEnvironment) /\ kind \in Kinds
  BY <1>1, <1>2, SameEnvironment, EnvironmentKnown
<1>4. vms \in [Ids -> VMState] /\ addresses \subseteq Ids /\ handler \in Handler \cup {Nil} /\ Nil \notin Ids
  BY <1>1, EnvironmentKnown DEF TypeOK
<1>5. (\A w \in Ids \ {v} : vms'[w] = vms[w]) /\ Changes(vms[v], vms'[v])
  BY <1>4 DEF VMChanges, Changes
<1>6. /\ vms[v] # "none" /\ vms'[v] # "none" /\ vms'[v] # "requested" /\ vms'[v] \in VMState
      /\ Alive(vms'[v]) => vms[v] = "requested" \/ Alive(vms[v])
      /\ vms[v] = "on" => May("halt")
  BY <1>3, <1>5, ChangesTable
<1>7. vms' \in [Ids -> VMState]
  BY <1>4, <1>5, <1>6 DEF VMChanges
<1>8. \A w \in Ids : (Present(w)' => Present(w)) /\ (vms[w] # "none" => vms'[w] # "none")
                     /\ (vms'[w] = "requested" => vms[w] = "requested")
  BY <1>5, <1>6
<1>9. TypeOK' /\ CallInv' /\ OneLauncher' /\ Alone'
  BY <1>1, <1>2, <1>7 DEF TypeOK, CallInv, OneLauncher, Alone
<1>10. VMKnown'
  BY <1>1, <1>2, <1>4, <1>8 DEF VMKnown, Handler, CallInv, TypeOK, Call
<1>11. SingleVM' /\ NameFree'
  <2>1. SingleVM'
    BY <1>1, <1>2, <1>3, <1>8 DEF SingleVM
  <2>2. NameFree'
    BY <1>1, <1>2, <1>3, <1>8 DEF NameFree
  <2> QED
    BY <2>1, <2>2
<1>12. AddressInv'
  BY <1>1, <1>2, <1>4, <1>8 DEF AddressInv, AddressEnvironment
<1>13. RecordInv'
  <2>1. ~May("halt") /\ (\E w \in Ids : vms[w] = "on") => \E w \in Ids : vms'[w] = "on"
    BY <1>5, <1>6
  <2> QED
    BY <1>1, <1>2, <2>1 DEF RecordInv, RecordEnvironment
<1>14. CleanInv'
  <2>1. \A w \in Ids : \A pc : LaunchState(pc, vms[w]) => LaunchState(pc, vms'[w])
    BY <1>3, <1>5, LaunchStateStays
  <2>2. CleanEnvironment =>
          \A w \in Ids : \A pc, powered : CleanState(pc, powered, vms[w]) => CleanState(pc, powered, vms'[w])
    BY <1>3, <1>5, CleanStateStays
  <2>3. kind' = kind
    BY <1>2
  <2>4. \A w \in Ids : \A pc : LaunchState(pc, vms[w])' <=> LaunchState(pc, vms'[w])
    BY <2>3 DEF LaunchState
  <2>5. \A w \in Ids : \A pc, powered : CleanState(pc, powered, vms[w])' <=> CleanState(pc, powered, vms'[w])
    BY <2>3 DEF CleanState, Stoppable, Deletable
  <2> QED
    BY <1>1, <1>2, <1>3, <1>8, <2>1, <2>2, <2>3, <2>4, <2>5 DEF CleanInv
<1> QED
  BY <1>9, <1>10, <1>11, <1>12, <1>13, <1>14 DEF ProviderInv

LEMMA CrashStep ==
  ASSUME ProviderInv, Crash
  PROVE  ProviderInv'
<1>1. /\ TypeOK /\ CallInv /\ SingleVM /\ RecordInv
  BY Parts
<1>2. /\ UNCHANGED <<env, vms, addresses, record, panicked>> /\ crashed' /\ May("crash")
      /\ handler' = Nil /\ fate' = "none" /\ \A d \in Callers : call'[d] = Idle
  BY DEF Crash
<1>3. TypeCall'
  BY IdleCall DEF Crash, TypeCall
<1>4. ~Steady' /\ ~CleanEnvironment' /\ ~Steady
  BY <1>2 DEF Steady, CleanEnvironment, Without
<1>5. crashed' \in BOOLEAN
  BY DEF Crash
<1>6. TypeOK'
  BY <1>1, <1>2, <1>3, <1>5 DEF TypeOK, TypeCall
<1>7. CallInv' /\ OneLauncher' /\ Alone' /\ VMKnown'
  BY <1>2, IdleCall, NilAssumption DEF CallInv, OneLauncher, Alone, VMKnown, Handler
<1>8. SingleVM' /\ NameFree'
  BY <1>1, <1>2, <1>4, IdleCall DEF SingleVM, NameFree
<1>9. AddressInv'
  BY <1>2 DEF AddressInv, AddressEnvironment
<1>10. RecordInv'
  BY <1>1, <1>2, IdleCall DEF RecordInv, RecordEnvironment
<1>11. CleanInv'
  BY <1>4 DEF CleanInv
<1> QED
  BY <1>6, <1>7, <1>8, <1>9, <1>10, <1>11 DEF ProviderInv

LEMMA AttachInstanceStep ==
  ASSUME ProviderInv, AttachInstance
  PROVE  ProviderInv'
<1>1. /\ TypeOK /\ CallInv /\ SingleVM /\ RecordInv
  BY Parts
<1>2. /\ UNCHANGED <<env, vms, addresses, record, call, crashed, panicked>>
      /\ fate' = "ok" /\ crashed /\ May("crash") /\ \A d \in Callers : call[d] = Idle
  BY <1>1 DEF AttachInstance, Quiet, CallInv
<1>3. Found \subseteq {v \in Ids : vms[v] # "none"}
  BY DEF Found
<1>4. handler' \in Handler /\ (handler'.id # Nil => handler'.id \in Ids /\ vms[handler'.id] # "none")
  BY <1>3 DEF AttachInstance, Handler
<1>5. ~Steady' /\ ~CleanEnvironment' /\ ~Steady
  BY <1>2 DEF Steady, CleanEnvironment, Without
<1>6. TypeOK'
  BY <1>1, <1>2, <1>4 DEF TypeOK
<1>7. CallInv' /\ OneLauncher' /\ Alone' /\ VMKnown'
  BY <1>2, <1>4, IdleCall DEF CallInv, OneLauncher, Alone, VMKnown
<1>8. SingleVM' /\ NameFree'
  BY <1>1, <1>2, <1>5, IdleCall DEF SingleVM, NameFree
<1>9. AddressInv'
  BY <1>2 DEF AddressInv, AddressEnvironment
<1>10. RecordInv'
  BY <1>1, <1>2, IdleCall DEF RecordInv, RecordEnvironment
<1>11. CleanInv'
  BY <1>5 DEF CleanInv
<1> QED
  BY <1>6, <1>7, <1>8, <1>9, <1>10, <1>11 DEF ProviderInv

LEMMA InitHolds ==
  ASSUME Init
  PROVE  ProviderInv
<1>1. \A c \in Callers : call[c] = Idle
  BY DEF Init
<1>2. TypeOK
  BY IdleCall DEF Init, TypeOK
<1>3. CallInv /\ OneLauncher /\ Alone /\ VMKnown
  BY <1>1, IdleCall, NilAssumption DEF Init, CallInv, OneLauncher, Alone, VMKnown
<1>4. SingleVM /\ NameFree
  BY <1>1, IdleCall DEF Init, SingleVM, NameFree
<1>5. AddressInv /\ RecordInv
  BY <1>1, IdleCall, NilAssumption DEF Init, AddressInv, RecordInv
<1>6. CleanInv
  BY <1>1, IdleCall DEF Init, CleanInv
<1> QED
  BY <1>2, <1>3, <1>4, <1>5, <1>6 DEF ProviderInv

-----------------------------------------------------------------------------
(* Theorems *)

LEMMA LaunchSteps ==
  ASSUME ProviderInv, NEW c \in Callers, Launch(c)
  PROVE  ProviderInv'
BY CreateInstanceStep, InstanceCreateStep, CreatedStep, ConfigureStep, WaitForPoweredStep, AssociateStep,
   InstancePowerOnStep, WaitOnStep, InstanceWaitReadyStep, RegisterDNSStep DEF Launch

LEMMA DeleteVMSteps ==
  ASSUME ProviderInv, NEW c \in Callers, DeleteVM(c)
  PROVE  ProviderInv'
BY DeleteStep, InstanceCreatedStep, InstanceStatusStep, UnregisterDNSStep, InstancePowerOffStep,
   WaitOffStep, InstanceDeleteStep, ReleaseStep DEF DeleteVM

\* The inductive invariant: what the goroutines of a node and its handler know of the VM,
\* at every step of launchVM and of deleteVM.
THEOREM ProviderInvariance == Spec => []ProviderInv
<1>1. Init => ProviderInv
  BY InitHolds
<1>2. ProviderInv /\ [Next]_vars => ProviderInv'
  <2> SUFFICES ASSUME ProviderInv, [Next]_vars
               PROVE  ProviderInv'
    OBVIOUS
  <2>1. CASE \E c \in Callers : Launch(c) \/ DeleteVM(c)
    BY <2>1, LaunchSteps, DeleteVMSteps
  <2>2. CASE \E v \in Ids : VMChanges(v)
    BY <2>2, VMChangesStep
  <2>3. CASE Crash
    BY <2>3, CrashStep
  <2>4. CASE AttachInstance
    BY <2>4, AttachInstanceStep
  <2>5. CASE UNCHANGED vars
    <3>1. panicked \in BOOLEAN
      BY Parts DEF TypeOK
    <3> QED
      BY <2>5, <3>1, PanicStep DEF vars
  <2> QED
    BY <2>1, <2>2, <2>3, <2>4, <2>5 DEF Next
<1> QED
  BY <1>1, <1>2, PTL DEF Spec

\* Every variable has its type: the handler and the goroutines know VMs of the name only.
THEOREM ProviderTypeCorrect == Spec => []TypeOK
<1>1. ProviderInv => TypeOK
  BY DEF ProviderInv
<1> QED
  BY <1>1, ProviderInvariance, PTL

LEMMA AtMostOne ==
  ASSUME NEW S, \A x, y \in S : x = y
  PROVE  Cardinality(S) <= 1
<1>1. CASE S = {}
  BY <1>1, FS_EmptySet
<1>2. ASSUME NEW x \in S
      PROVE  Cardinality(S) <= 1
  <2>1. S = {x}
    BY <1>2
  <2>2. Cardinality({x}) = 1
    BY FS_Singleton
  <2> QED
    BY <2>1, <2>2
<1> QED
  BY <1>1, <1>2

\* The check of the name before the launch, and the clean-up after it, keep one VM per name,
\* in each of the seven providers, as long as no question stays without answer, no VM comes
\* late and the process goes on.
THEOREM ProviderOneVMPerName == Spec => []OneVMPerName
<1>1. ProviderInv => OneVMPerName
  <2> SUFFICES ASSUME ProviderInv, Steady
               PROVE  Cardinality({v \in Ids : Alive(vms[v])}) <= 1
    BY DEF OneVMPerName, Steady, Without
  <2>1. \A v, w \in {u \in Ids : Alive(vms[u])} : v = w
    BY Parts DEF SingleVM
  <2> HIDE DEF Alive
  <2> QED
    BY <2>1, AtMostOne
<1> QED
  BY <1>1, ProviderInvariance, PTL

\* cleanOnLaunchError removes the VM of a launch that failed, at whatever step it failed.
THEOREM ProviderLaunchFailureCleaned == Spec => []LaunchFailureCleaned
<1>1. ProviderInv => LaunchFailureCleaned
  BY Parts DEF LaunchFailureCleaned, CleanInv, CleanEnvironment, Without
<1> QED
  BY <1>1, ProviderInvariance, PTL

\* deleteVM gives back the public address and removes the DNS record before it is done.
THEOREM ProviderDeletedLeavesNothing == Spec => []DeletedLeavesNothing
<1>1. ProviderInv => DeletedLeavesNothing
  BY Parts DEF DeletedLeavesNothing, AddressInv, AddressEnvironment, RecordInv, RecordEnvironment
<1> QED
  BY <1>1, ProviderInvariance, PTL

=============================================================================
