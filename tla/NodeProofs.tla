----------------------------- MODULE NodeProofs -----------------------------
(***************************************************************************)
(* Proofs about one node and its VM, for any number of goroutines and any   *)
(* environments.                                                            *)
(***************************************************************************)
EXTENDS NodeInv, TLAPS

-----------------------------------------------------------------------------
(* How a step of goroutine c changes call *)

\* The other goroutines stay where they are.
Others(c) == \A d \in Callers \ {c} : call'[d] = call[d]

\* Where goroutine c is then.
Now(c, op, pc, seen, at) ==
  call'[c].op = op /\ call'[c].pc = pc /\ call'[c].seen = seen /\ call'[c].at = at

TypeCall == call \in [Callers -> Call]

LEMMA UpdateCall ==
  ASSUME TypeCall, NEW c \in Callers, NEW r \in Call, call' = [call EXCEPT ![c] = r]
  PROVE  TypeCall' /\ Others(c) /\ call'[c] = r
BY DEF TypeCall, Others

LEMMA GotoCall ==
  ASSUME TypeCall, NEW c \in Callers, NEW pc \in Label, Goto(c, pc)
  PROVE  TypeCall' /\ Others(c) /\ Now(c, call[c].op, pc, call[c].seen, call[c].at)
<1> DEFINE r == [call[c] EXCEPT !.pc = pc]
<1>1. call' = [call EXCEPT ![c] = r]
  BY Zenon DEF TypeCall, Goto
<1>2. call[c] \in Call
  BY DEF TypeCall
<1>3. r \in Call /\ r.op = call[c].op /\ r.pc = pc /\ r.seen = call[c].seen /\ r.at = call[c].at
  BY <1>2 DEF Call
<1> HIDE DEF r
<1>4. TypeCall' /\ Others(c) /\ call'[c] = r
  BY <1>1, <1>3, UpdateCall
<1> QED
  BY <1>3, <1>4 DEF Now

LEMMA BeginCall ==
  ASSUME TypeCall, NEW c \in Callers, NEW op \in Op, NEW pc \in Label, Begin(c, op, pc)
  PROVE  TypeCall' /\ Others(c) /\ Now(c, op, pc, "none", "none") /\ call[c] = Idle
<1> DEFINE r == [Idle EXCEPT !.op = op, !.pc = pc]
<1>1. call[c] = Idle /\ call' = [call EXCEPT ![c] = r]
  BY DEF Begin
<1>2. r \in Call /\ r.op = op /\ r.pc = pc /\ r.seen = "none" /\ r.at = "none"
  BY DEF Idle, Call, Op, Label, Seen, Progress
<1> HIDE DEF r
<1>3. TypeCall' /\ Others(c) /\ call'[c] = r
  BY <1>1, <1>2, UpdateCall
<1> QED
  BY <1>1, <1>2, <1>3 DEF Now

LEMMA ReturnCall ==
  ASSUME TypeCall, NEW c \in Callers, Return(c)
  PROVE  TypeCall' /\ Others(c) /\ Now(c, "none", "idle", "none", "none") /\ call'[c] = Idle
<1>1. /\ Idle \in Call
      /\ Idle.op = "none" /\ Idle.pc = "idle" /\ Idle.seen = "none" /\ Idle.at = "none"
  BY DEF Idle, Call, Op, Label, Seen, Progress
<1>2. TypeCall' /\ Others(c) /\ call'[c] = Idle
  BY <1>1, UpdateCall DEF Return
<1> QED
  BY <1>1, <1>2 DEF Now

LEMMA LaunchErrorCall ==
  ASSUME TypeCall, NEW c \in Callers, NEW at \in Progress, LaunchError(c, at)
  PROVE  TypeCall' /\ Others(c) /\ Now(c, "clean", "status", "none", at)
<1> DEFINE r == [op |-> "clean", pc |-> "status", seen |-> "none", at |-> at]
<1>1. r \in Call /\ call' = [call EXCEPT ![c] = r]
  BY DEF Call, LaunchError, Op, Label, Seen, Progress
<1>2. r.op = "clean" /\ r.pc = "status" /\ r.seen = "none" /\ r.at = at
  OBVIOUS
<1> HIDE DEF r
<1>3. TypeCall' /\ Others(c) /\ call'[c] = r
  BY <1>1, UpdateCall
<1> QED
  BY <1>2, <1>3 DEF Now

\* The answer of statusVM is what the VM is at that moment, or an error.
LEMMA StatusCall ==
  ASSUME TypeCall, NEW c \in Callers, StatusVM(c)
  PROVE  /\ TypeCall' /\ Others(c)
         /\ Now(c, call[c].op, "seen", call'[c].seen, call[c].at)
         /\ \/ call'[c].seen = "on" /\ Powered
            \/ call'[c].seen = "off" /\ vm # "absent" /\ ~Powered
            \/ call'[c].seen = "error" /\ (vm = "absent" \/ May("delete"))
<1>1. PICK s \in {"on", "off", "error"} :
        /\ call' = [call EXCEPT ![c].pc = "seen", ![c].seen = s]
        /\ \/ s = "on" /\ Powered
           \/ s = "off" /\ vm # "absent" /\ ~Powered
           \/ s = "error" /\ (vm = "absent" \/ May("delete"))
  BY DEF StatusVM, Powered
<1> DEFINE r == [call[c] EXCEPT !.pc = "seen", !.seen = s]
<1>2. call' = [call EXCEPT ![c] = r]
  BY <1>1, Zenon DEF TypeCall
<1>3. call[c] \in Call
  BY DEF TypeCall
<1>4. r \in Call /\ r.op = call[c].op /\ r.pc = "seen" /\ r.seen = s /\ r.at = call[c].at
  BY <1>3 DEF Call, Label, Seen
<1> HIDE DEF r
<1>5. TypeCall' /\ Others(c) /\ call'[c] = r
  BY <1>2, <1>4, UpdateCall
<1> QED
  BY <1>1, <1>4, <1>5 DEF Now

LEMMA InstanceStatusCall ==
  ASSUME TypeCall, NEW c \in Callers, NEW pc \in Label, NEW at \in Progress,
         call' = [call EXCEPT ![c].pc = pc, ![c].at = at]
  PROVE  TypeCall' /\ Others(c) /\ Now(c, call[c].op, pc, call[c].seen, at)
<1> DEFINE r == [call[c] EXCEPT !.pc = pc, !.at = at]
<1>1. call' = [call EXCEPT ![c] = r]
  BY Zenon DEF TypeCall
<1>2. call[c] \in Call
  BY DEF TypeCall
<1>3. r \in Call /\ r.op = call[c].op /\ r.pc = pc /\ r.seen = call[c].seen /\ r.at = at
  BY <1>2 DEF Call
<1> HIDE DEF r
<1>4. TypeCall' /\ Others(c) /\ call'[c] = r
  BY <1>1, <1>3, UpdateCall
<1> QED
  BY <1>3, <1>4 DEF Now

LEMMA StartPowerOnCall ==
  ASSUME TypeCall, NEW c \in Callers, call' = [call EXCEPT ![c].op = "started", ![c].pc = "status"]
  PROVE  TypeCall' /\ Others(c) /\ Now(c, "started", "status", call[c].seen, call[c].at)
<1> DEFINE r == [call[c] EXCEPT !.op = "started", !.pc = "status"]
<1>1. call' = [call EXCEPT ![c] = r]
  BY Zenon DEF TypeCall
<1>2. call[c] \in Call
  BY DEF TypeCall
<1>3. r \in Call /\ r.op = "started" /\ r.pc = "status" /\ r.seen = call[c].seen /\ r.at = call[c].at
  BY <1>2 DEF Call, Op, Label
<1> HIDE DEF r
<1>4. TypeCall' /\ Others(c) /\ call'[c] = r
  BY <1>1, <1>3, UpdateCall
<1> QED
  BY <1>3, <1>4 DEF Now

\* Goroutine c goes on, or returns.
Moves(c, op, pc, seen, at) == Others(c) /\ Now(c, op, pc, seen, at)
Returns(c) == Others(c) /\ Now(c, "none", "idle", "none", "none") /\ call'[c] = Idle

LEMMA IdleFields == Idle.op = "none" /\ Idle.pc = "idle" /\ Idle.seen = "none" /\ Idle.at = "none"
BY DEF Idle

USE DEF Moves, Returns, Others, Now, Launching, Cleaning, Launcher, Deleting, Powering,
        Draining, Destroying, Stopped, Ending, Rescuing, Powered, Past, Sure, Calm

\* The labels of deleteVM and of statusVM tell who is there.
LEMMA Whose ==
  ASSUME TypeCall, CallInv, NEW c \in Callers
  PROVE  /\ call[c].pc \in {"created", "getStatus", "getNode", "drain", "deleteNode", "destroy",
                            "destroyStopped", "failed"} => Deleting(c)
         /\ call[c].pc = "status" => call[c].op \notin {"none", "delete"}
<1>1. call[c].op \in Op /\ (call[c].op = "none" => call[c].pc = "idle")
  BY IdleFields DEF TypeCall, Call, CallInv
<1> QED
  BY <1>1 DEF CallInv, Op, LaunchLabels, DeleteLabels

-----------------------------------------------------------------------------
(* The phases that NodeLife sees *)

\* The phase of a goroutine, before a step and after it.
LEMMA Phase ==
  ASSUME NEW c \in Callers
  PROVE  /\ Launching(c) /\ call[c].pc \in {"launch", "prepare"} => PhaseOf(c) = "start"
         /\ Launching(c) /\ call[c].pc = "create" => PhaseOf(c) = "creating"
         /\ Launching(c) /\ call[c].pc \in {"instanceID", "powerOn", "autoStart", "join", "noAddress",
                                            "tools", "status", "seen"} => PhaseOf(c) = "booting"
         /\ Launching(c) /\ call[c].pc \in {"joinCluster", "ready", "register"} => PhaseOf(c) = "joined"
         /\ Cleaning(c) /\ call[c].pc \in {"status", "seen"} => PhaseOf(c) = call[c].at
         /\ Deleting(c) /\ call[c].pc \in {"created", "getStatus"} => PhaseOf(c) = "checked"
         /\ Draining(c) \/ Destroying(c) => PhaseOf(c) = call[c].at
         /\ Stopped(c) => PhaseOf(c) = "stopped"
         /\ Deleting(c) /\ call[c].pc = "failed" => PhaseOf(c) = "refused"
         /\ call[c].op \notin {"launch", "clean", "delete"} => PhaseOf(c) = "none"
BY DEF PhaseOf

LEMMA PhaseNext ==
  ASSUME NEW c \in Callers
  PROVE  /\ Launching(c)' /\ call'[c].pc \in {"launch", "prepare"} => PhaseOf(c)' = "start"
         /\ Launching(c)' /\ call'[c].pc = "create" => PhaseOf(c)' = "creating"
         /\ Launching(c)' /\ call'[c].pc \in {"instanceID", "powerOn", "autoStart", "join", "noAddress",
                                            "tools", "status", "seen"} => PhaseOf(c)' = "booting"
         /\ Launching(c)' /\ call'[c].pc \in {"joinCluster", "ready", "register"} => PhaseOf(c)' = "joined"
         /\ Cleaning(c)' /\ call'[c].pc \in {"status", "seen"} => PhaseOf(c)' = call'[c].at
         /\ Deleting(c)' /\ call'[c].pc \in {"created", "getStatus"} => PhaseOf(c)' = "checked"
         /\ Draining(c)' \/ Destroying(c)' => PhaseOf(c)' = call'[c].at
         /\ Stopped(c)' => PhaseOf(c)' = "stopped"
         /\ Deleting(c)' /\ call'[c].pc = "failed" => PhaseOf(c)' = "refused"
         /\ call'[c].op \notin {"launch", "clean", "delete"} => PhaseOf(c)' = "none"
BY DEF PhaseOf

LEMMA PhaseStep ==
  ASSUME NEW c \in Callers, NEW p, Others(c), PhaseOf(c)' = p
  PROVE  Life!To(c, p)
<1>1. \A d \in Callers \ {c} : PhaseOf(d)' = PhaseOf(d)
  BY DEF Others, PhaseOf
<1> QED
  BY <1>1 DEF Life!To

LEMMA PhaseSame ==
  ASSUME NEW c \in Callers, Others(c), PhaseOf(c)' = PhaseOf(c)
  PROVE  [d \in Callers |-> PhaseOf(d)]' = [d \in Callers |-> PhaseOf(d)]
<1>1. \A d \in Callers : PhaseOf(d)' = PhaseOf(d)
  BY DEF Others, PhaseOf
<1> QED
  BY <1>1

LEMMA PhaseStays ==
  ASSUME NEW c \in Callers, Others(c), PhaseOf(c)' = PhaseOf(c), faults' = faults, state' = state,
         vm' = "absent" <=> vm = "absent"
  PROVE  UNCHANGED Life!vars
BY PhaseSame DEF Life!vars

-----------------------------------------------------------------------------
(* What every step keeps *)

\* The parts of the invariant: the proofs below expand those that they need.
NodeParts ==
  /\ TypeOK /\ TypeCall /\ CallInv /\ OneLaunch /\ PowerAlone
  /\ PreVM /\ PastCreating /\ NoLateStart /\ NotRacing /\ DeletedIsGone
  /\ CleanSees /\ Overtaken /\ FailedEnds /\ DeletingEnds /\ PowerPast
  /\ CalmLaunch /\ CalmNode

\* The step is one of NodeLife.
LifeStep == Orderly => Life!Next \/ UNCHANGED Life!vars

\* The step does not take the power off a node of the cluster.
Drained == launch = "ok" /\ Calm /\ Powered /\ ~Powered' => kube # "ready"

Kept ==
  /\ CallInv' /\ OneLaunch' /\ PowerAlone'
  /\ PreVM' /\ PastCreating' /\ NoLateStart' /\ NotRacing' /\ DeletedIsGone'
  /\ CleanSees' /\ Overtaken' /\ FailedEnds' /\ DeletingEnds' /\ PowerPast'
  /\ CalmLaunch' /\ CalmNode'
  /\ LifeStep /\ Drained

-----------------------------------------------------------------------------
(* The calls *)

LEMMA LaunchStep ==
  ASSUME NodeInv, NEW c \in Callers, Launch(c)
  PROVE  Kept
<1> NodeParts
  BY DEF NodeInv, NodeParts, TypeOK, TypeCall
<1> USE DEF NodeParts
<1>1. /\ launch = "none" /\ launch' = "under way" /\ call[c].op = "none"
      /\ Moves(c, "launch", "launch", "none", "none")
      /\ UNCHANGED <<state, vm, kube>>
      /\ UNCHANGED <<requests, faults, cloudInit>>
  BY BeginCall, IdleFields DEF Launch, config, Op, Label
<1>2. CallInv'
  <2>1. Moves(c, "launch", "launch", "none", "none") /\ cloudInit' = cloudInit
    BY <1>1
  <2> QED
    BY <2>1 DEF CallInv, LaunchLabels, DeleteLabels
<1>3. OneLaunch'       BY <1>1 DEF OneLaunch
<1>4. PowerAlone'      BY <1>1 DEF PowerAlone
<1>5. PreVM'           BY <1>1 DEF PreVM, OneLaunch
<1>6. PastCreating'    BY <1>1 DEF PastCreating
<1>7. NoLateStart'     BY <1>1 DEF NoLateStart, OneLaunch
<1>8. NotRacing'       BY <1>1 DEF NotRacing, OneLaunch
<1>9. DeletedIsGone'   BY <1>1 DEF DeletedIsGone
<1>10. CleanSees'      BY <1>1 DEF CleanSees
<1>11. Overtaken'      BY <1>1 DEF Overtaken
<1>12. FailedEnds'     BY <1>1 DEF FailedEnds
<1>13. DeletingEnds'   BY <1>1 DEF DeletingEnds
<1>14. PowerPast'      BY <1>1 DEF PowerPast
<1>15. CalmLaunch'     BY <1>1 DEF CalmLaunch, OneLaunch
<1>16. CalmNode'       BY <1>1 DEF CalmNode
<1>17. Life!Launch(c) \/ UNCHANGED Life!vars
  BY <1>1, Phase, PhaseNext, PhaseStep, PhaseStays DEF Life!Launch, Life!Launching, OneLaunch
<1>18. Drained         BY <1>1 DEF Drained
<1> QED
  BY <1>2, <1>3, <1>4, <1>5, <1>6, <1>7, <1>8, <1>9, <1>10, <1>11, <1>12, <1>13, <1>14, <1>15,
     <1>16, <1>17, <1>18 DEF Kept, LifeStep, Life!Next

LEMMA DeleteVMStep ==
  ASSUME NodeInv, NEW c \in Callers, DeleteVM(c)
  PROVE  Kept
<1> NodeParts
  BY DEF NodeInv, NodeParts, TypeOK, TypeCall
<1> USE DEF NodeParts
<1>1. /\ call[c].op = "none" /\ launch # "none" /\ ("early" \in requests \/ launch \in {"ok", "failed"})
      /\ \A d \in Callers : ~Powering(d)
      /\ \/ state = "Deleting" /\ Moves(c, "delete", "failed", "none", "none")
         \/ state # "Deleting" /\ Moves(c, "delete", "created", "none", "none")
      /\ UNCHANGED <<state, vm, kube, launch>>
      /\ UNCHANGED <<requests, faults, cloudInit>>
  BY BeginCall, IdleFields DEF DeleteVM, CheckNotDeleting, config, NoPowerCall, Op, Label,
     TypeOK
<1>2. CallInv'
  <2>1. PICK pc \in {"created", "failed"} : Moves(c, "delete", pc, "none", "none") /\ cloudInit' = cloudInit
    BY <1>1
  <2> QED
    BY <2>1 DEF CallInv, LaunchLabels, DeleteLabels
<1>3. OneLaunch'       BY <1>1 DEF OneLaunch
<1>4. PowerAlone'      BY <1>1 DEF PowerAlone
<1>5. PreVM'           BY <1>1 DEF PreVM
<1>6. PastCreating'    BY <1>1 DEF PastCreating
<1>7. NoLateStart'     BY <1>1 DEF NoLateStart
<1>8. NotRacing'       BY <1>1 DEF NotRacing
<1>9. DeletedIsGone'   BY <1>1 DEF DeletedIsGone
<1>10. CleanSees'      BY <1>1 DEF CleanSees
<1>11. Overtaken'      BY <1>1 DEF Overtaken
<1>12. FailedEnds'     BY <1>1 DEF FailedEnds
<1>13. DeletingEnds'   BY <1>1 DEF DeletingEnds
<1>14. PowerPast'      BY <1>1 DEF PowerPast
<1>15. CalmLaunch'     BY <1>1 DEF CalmLaunch
<1>16. CalmNode'       BY <1>1 DEF CalmNode
<1>17. Life!Delete(c) \/ UNCHANGED Life!vars
  BY <1>1, Phase, PhaseNext, PhaseStep, PhaseStays DEF Life!Delete, Life!CheckNotDeleting
<1>18. Drained         BY <1>1 DEF Drained
<1> QED
  BY <1>2, <1>3, <1>4, <1>5, <1>6, <1>7, <1>8, <1>9, <1>10, <1>11, <1>12, <1>13, <1>14, <1>15,
     <1>16, <1>17, <1>18 DEF Kept, LifeStep, Life!Next

LEMMA RefreshStep ==
  ASSUME NodeInv, NEW c \in Callers, Refresh(c)
  PROVE  Kept
<1> NodeParts
  BY DEF NodeInv, NodeParts, TypeOK, TypeCall
<1> USE DEF NodeParts
<1>1. /\ Past /\ call[c].op = "none"
      /\ \A d \in Callers : ~Powering(d)
      /\ Moves(c, "refresh", "status", "none", "none")
      /\ UNCHANGED <<state, vm, kube, launch>>
      /\ UNCHANGED <<requests, faults, cloudInit>>
  BY BeginCall, IdleFields DEF Refresh, config, NoPowerCall, Op, Label
<1>2. CallInv'         BY <1>1 DEF CallInv, LaunchLabels, DeleteLabels
<1>3. OneLaunch'       BY <1>1 DEF OneLaunch
<1>4. PowerAlone'      BY <1>1 DEF PowerAlone
<1>5. PreVM'           BY <1>1 DEF PreVM
<1>6. PastCreating'    BY <1>1 DEF PastCreating
<1>7. NoLateStart'     BY <1>1 DEF NoLateStart
<1>8. NotRacing'       BY <1>1 DEF NotRacing
<1>9. DeletedIsGone'   BY <1>1 DEF DeletedIsGone
<1>10. CleanSees'      BY <1>1 DEF CleanSees
<1>11. Overtaken'      BY <1>1 DEF Overtaken
<1>12. FailedEnds'     BY <1>1 DEF FailedEnds
<1>13. DeletingEnds'   BY <1>1 DEF DeletingEnds
<1>14. PowerPast'      BY <1>1 DEF PowerPast
<1>15. CalmLaunch'     BY <1>1 DEF CalmLaunch
<1>16. CalmNode'       BY <1>1 DEF CalmNode
<1>17. UNCHANGED Life!vars
  BY <1>1, Phase, PhaseNext, PhaseStep, PhaseStays
<1>18. Drained         BY <1>1 DEF Drained
<1> QED
  BY <1>2, <1>3, <1>4, <1>5, <1>6, <1>7, <1>8, <1>9, <1>10, <1>11, <1>12, <1>13, <1>14, <1>15,
     <1>16, <1>17, <1>18 DEF Kept, LifeStep

LEMMA StartVMStep ==
  ASSUME NodeInv, NEW c \in Callers, StartVM(c)
  PROVE  Kept
<1> NodeParts
  BY DEF NodeInv, NodeParts, TypeOK, TypeCall
<1> USE DEF NodeParts
<1>1. /\ "power" \in requests /\ launch \in {"ok", "failed"} /\ \A d \in Callers : call[d].op = "none"
      /\ Moves(c, "start", "status", "none", "none")
      /\ UNCHANGED <<state, vm, kube, launch>>
      /\ UNCHANGED <<requests, faults, cloudInit>>
  BY BeginCall, IdleFields DEF StartVM, config, Op, Quiet, Label
<1>2. CallInv'         BY <1>1 DEF CallInv, LaunchLabels, DeleteLabels
<1>3. OneLaunch'       BY <1>1 DEF OneLaunch
<1>4. PowerAlone'      BY <1>1 DEF PowerAlone
<1>5. PreVM'           BY <1>1 DEF PreVM
<1>6. PastCreating'    BY <1>1 DEF PastCreating
<1>7. NoLateStart'     BY <1>1 DEF NoLateStart
<1>8. NotRacing'       BY <1>1 DEF NotRacing
<1>9. DeletedIsGone'   BY <1>1 DEF DeletedIsGone
<1>10. CleanSees'      BY <1>1 DEF CleanSees
<1>11. Overtaken'      BY <1>1 DEF Overtaken
<1>12. FailedEnds'     BY <1>1 DEF FailedEnds
<1>13. DeletingEnds'   BY <1>1 DEF DeletingEnds
<1>14. PowerPast'      BY <1>1 DEF PowerPast, FailedEnds, PastCreating
<1>15. CalmLaunch'     BY <1>1 DEF CalmLaunch
<1>16. CalmNode'       BY <1>1 DEF CalmNode
<1>17. UNCHANGED Life!vars
  BY <1>1, Phase, PhaseNext, PhaseStep, PhaseStays
<1>18. Drained         BY <1>1 DEF Drained
<1> QED
  BY <1>2, <1>3, <1>4, <1>5, <1>6, <1>7, <1>8, <1>9, <1>10, <1>11, <1>12, <1>13, <1>14, <1>15,
     <1>16, <1>17, <1>18 DEF Kept, LifeStep

LEMMA StopVMStep ==
  ASSUME NodeInv, NEW c \in Callers, StopVM(c)
  PROVE  Kept
<1> NodeParts
  BY DEF NodeInv, NodeParts, TypeOK, TypeCall
<1> USE DEF NodeParts
<1>1. /\ "power" \in requests /\ launch \in {"ok", "failed"} /\ \A d \in Callers : call[d].op = "none"
      /\ Moves(c, "stop", "status", "none", "none")
      /\ UNCHANGED <<state, vm, kube, launch>>
      /\ UNCHANGED <<requests, faults, cloudInit>>
  BY BeginCall, IdleFields DEF StopVM, config, Op, Quiet, Label
<1>2. CallInv'         BY <1>1 DEF CallInv, LaunchLabels, DeleteLabels
<1>3. OneLaunch'       BY <1>1 DEF OneLaunch
<1>4. PowerAlone'      BY <1>1 DEF PowerAlone
<1>5. PreVM'           BY <1>1 DEF PreVM
<1>6. PastCreating'    BY <1>1 DEF PastCreating
<1>7. NoLateStart'     BY <1>1 DEF NoLateStart
<1>8. NotRacing'       BY <1>1 DEF NotRacing
<1>9. DeletedIsGone'   BY <1>1 DEF DeletedIsGone
<1>10. CleanSees'      BY <1>1 DEF CleanSees
<1>11. Overtaken'      BY <1>1 DEF Overtaken
<1>12. FailedEnds'     BY <1>1 DEF FailedEnds
<1>13. DeletingEnds'   BY <1>1 DEF DeletingEnds
<1>14. PowerPast'      BY <1>1 DEF PowerPast, FailedEnds, PastCreating
<1>15. CalmLaunch'     BY <1>1 DEF CalmLaunch
<1>16. CalmNode'       BY <1>1 DEF CalmNode
<1>17. UNCHANGED Life!vars
  BY <1>1, Phase, PhaseNext, PhaseStep, PhaseStays
<1>18. Drained         BY <1>1 DEF Drained
<1> QED
  BY <1>2, <1>3, <1>4, <1>5, <1>6, <1>7, <1>8, <1>9, <1>10, <1>11, <1>12, <1>13, <1>14, <1>15,
     <1>16, <1>17, <1>18 DEF Kept, LifeStep

-----------------------------------------------------------------------------
(* launchVM *)

LEMMA CheckNotCreatedStep ==
  ASSUME NodeInv, NEW c \in Callers, CheckNotCreated(c)
  PROVE  Kept
<1> NodeParts
  BY DEF NodeInv, NodeParts, TypeOK, TypeCall
<1> USE DEF NodeParts
<1>1. /\ call[c].op = "launch" /\ call[c].pc = "launch"
      /\ \/ state = "NotCreated" /\ Moves(c, "launch", "prepare", call[c].seen, call[c].at)
         \/ state # "NotCreated" /\ Moves(c, "clean", "status", "none", "start")
      /\ UNCHANGED <<state, vm, kube, launch>>
      /\ UNCHANGED <<requests, faults, cloudInit>>
  BY GotoCall, LaunchErrorCall DEF CheckNotCreated, At, config, Label, Progress
<1>2. CallInv'         BY <1>1 DEF CallInv, LaunchLabels, DeleteLabels
<1>3. OneLaunch'       BY <1>1 DEF OneLaunch
<1>4. PowerAlone'      BY <1>1 DEF PowerAlone
<1>5. PreVM'           BY <1>1 DEF PreVM
<1>6. PastCreating'    BY <1>1 DEF PastCreating
<1>7. NoLateStart'     BY <1>1 DEF NoLateStart
<1>8. NotRacing'       BY <1>1 DEF NotRacing
<1>9. DeletedIsGone'   BY <1>1 DEF DeletedIsGone
<1>10. CleanSees'      BY <1>1 DEF CleanSees
<1>11. Overtaken'      BY <1>1 DEF Overtaken
<1>12. FailedEnds'     BY <1>1 DEF FailedEnds
<1>13. DeletingEnds'   BY <1>1 DEF DeletingEnds
<1>14. PowerPast'      BY <1>1 DEF PowerPast
<1>15. CalmLaunch'     BY <1>1 DEF CalmLaunch
<1>16. CalmNode'       BY <1>1 DEF CalmNode
<1>17. UNCHANGED Life!vars
  BY <1>1, Phase, PhaseNext, PhaseStep, PhaseStays DEF PreVM
<1>18. Drained         BY <1>1 DEF Drained
<1> QED
  BY <1>2, <1>3, <1>4, <1>5, <1>6, <1>7, <1>8, <1>9, <1>10, <1>11, <1>12, <1>13, <1>14, <1>15,
     <1>16, <1>17, <1>18 DEF Kept, LifeStep

LEMMA PrepareInstanceStep ==
  ASSUME NodeInv, NEW c \in Callers, PrepareInstance(c)
  PROVE  Kept
<1> NodeParts
  BY DEF NodeInv, NodeParts, TypeOK, TypeCall
<1> USE DEF NodeParts
<1>1. /\ call[c].op = "launch" /\ call[c].pc = "prepare"
      /\ \/ state' = "Creating" /\ Moves(c, "launch", "create", call[c].seen, call[c].at)
         \/ "launch" \in faults /\ state' = state /\ Moves(c, "clean", "status", "none", "start")
      /\ UNCHANGED <<vm, kube, launch>>
      /\ UNCHANGED <<requests, faults, cloudInit>>
  BY GotoCall, LaunchErrorCall DEF PrepareInstance, At, May, config, Label, Progress
<1>2. CallInv'         BY <1>1 DEF CallInv, LaunchLabels, DeleteLabels
<1>3. OneLaunch'       BY <1>1 DEF OneLaunch
<1>4. PowerAlone'      BY <1>1 DEF PowerAlone
<1>5. PreVM'           BY <1>1 DEF PreVM, OneLaunch
<1>6. PastCreating'    BY <1>1 DEF PastCreating, PreVM
<1>7. NoLateStart'     BY <1>1 DEF NoLateStart
<1>8. NotRacing'       BY <1>1 DEF NotRacing
<1>9. DeletedIsGone'   BY <1>1 DEF DeletedIsGone
<1>10. CleanSees'      BY <1>1 DEF CleanSees
<1>11. Overtaken'      BY <1>1 DEF Overtaken
<1>12. FailedEnds'     BY <1>1 DEF FailedEnds
<1>13. DeletingEnds'   BY <1>1 DEF DeletingEnds
<1>14. PowerPast'      BY <1>1 DEF PowerPast, PowerAlone
<1>15. CalmLaunch'     BY <1>1 DEF CalmLaunch
<1>16. CalmNode'       BY <1>1 DEF CalmNode
<1>17. Life!LaunchVM(c) \/ UNCHANGED Life!vars
  BY <1>1, Phase, PhaseNext, PhaseStep, PhaseStays DEF Life!LaunchVM, PreVM
<1>18. Drained         BY <1>1 DEF Drained
<1> QED
  BY <1>2, <1>3, <1>4, <1>5, <1>6, <1>7, <1>8, <1>9, <1>10, <1>11, <1>12, <1>13, <1>14, <1>15,
     <1>16, <1>17, <1>18 DEF Kept, LifeStep, Life!Next

LEMMA InstanceCreateStep ==
  ASSUME NodeInv, NEW c \in Callers, InstanceCreate(c)
  PROVE  Kept
<1> NodeParts
  BY DEF NodeInv, NodeParts, TypeOK, TypeCall
<1> USE DEF NodeParts
<1>1. /\ call[c].op = "launch" /\ call[c].pc = "create"
      /\ \/ vm = "absent" /\ vm' = "off" /\ (Moves(c, "launch", "instanceID", call[c].seen, call[c].at) \/ Moves(c, "clean", "status", "none", "booting"))
         \/ ("launch" \in faults \/ vm # "absent") /\ vm' = vm /\ Moves(c, "clean", "status", "none", "creating")
      /\ UNCHANGED <<state, kube, launch>>
      /\ UNCHANGED <<requests, faults, cloudInit>>
  BY GotoCall, LaunchErrorCall DEF InstanceCreate, At, May, config, Label, Progress
<1>2. CallInv'         BY <1>1 DEF CallInv, LaunchLabels, DeleteLabels
<1>3. OneLaunch'       BY <1>1 DEF OneLaunch
<1>4. PowerAlone'      BY <1>1 DEF PowerAlone
<1>5. PreVM'           BY <1>1 DEF PreVM, OneLaunch
<1>6. PastCreating'    BY <1>1 DEF PastCreating
<1>7. NoLateStart'     BY <1>1 DEF NoLateStart
<1>8. NotRacing'       BY <1>1 DEF NotRacing
<1>9. DeletedIsGone'   BY <1>1 DEF DeletedIsGone, PreVM
<1>10. CleanSees'      BY <1>1 DEF CleanSees, OneLaunch
<1>11. Overtaken'      BY <1>1 DEF Overtaken, NoLateStart
<1>12. FailedEnds'     BY <1>1 DEF FailedEnds, OneLaunch
<1>13. DeletingEnds'   BY <1>1 DEF DeletingEnds
<1>14. PowerPast'      BY <1>1 DEF PowerPast, PowerAlone
<1>15. CalmLaunch'     BY <1>1 DEF CalmLaunch
<1>16. CalmNode'       BY <1>1 DEF CalmNode, OneLaunch
<1>17. Life!InstanceCreate(c) \/ UNCHANGED Life!vars
  BY <1>1, Phase, PhaseNext, PhaseStep, PhaseStays DEF Life!InstanceCreate, PreVM
<1>18. Drained         BY <1>1 DEF Drained
<1> QED
  BY <1>2, <1>3, <1>4, <1>5, <1>6, <1>7, <1>8, <1>9, <1>10, <1>11, <1>12, <1>13, <1>14, <1>15,
     <1>16, <1>17, <1>18 DEF Kept, LifeStep, Life!Next

LEMMA InstanceIDStep ==
  ASSUME NodeInv, NEW c \in Callers, InstanceID(c)
  PROVE  Kept
<1> NodeParts
  BY DEF NodeInv, NodeParts, TypeOK, TypeCall
<1> USE DEF NodeParts
<1>1. /\ call[c].op = "launch" /\ call[c].pc = "instanceID"
      /\ Moves(c, "launch", "powerOn", call[c].seen, call[c].at) \/ Moves(c, "clean", "status", "none", "booting")
      /\ UNCHANGED <<state, vm, kube, launch>>
      /\ UNCHANGED <<requests, faults, cloudInit>>
  BY GotoCall, LaunchErrorCall DEF InstanceID, At, May, config, Label, Progress
<1>2. CallInv'         BY <1>1 DEF CallInv, LaunchLabels, DeleteLabels
<1>3. OneLaunch'       BY <1>1 DEF OneLaunch
<1>4. PowerAlone'      BY <1>1 DEF PowerAlone
<1>5. PreVM'           BY <1>1 DEF PreVM
<1>6. PastCreating'    BY <1>1 DEF PastCreating
<1>7. NoLateStart'     BY <1>1 DEF NoLateStart
<1>8. NotRacing'       BY <1>1 DEF NotRacing
<1>9. DeletedIsGone'   BY <1>1 DEF DeletedIsGone
<1>10. CleanSees'      BY <1>1 DEF CleanSees
<1>11. Overtaken'      BY <1>1 DEF Overtaken
<1>12. FailedEnds'     BY <1>1 DEF FailedEnds
<1>13. DeletingEnds'   BY <1>1 DEF DeletingEnds
<1>14. PowerPast'      BY <1>1 DEF PowerPast
<1>15. CalmLaunch'     BY <1>1 DEF CalmLaunch
<1>16. CalmNode'       BY <1>1 DEF CalmNode
<1>17. UNCHANGED Life!vars
  BY <1>1, Phase, PhaseNext, PhaseStep, PhaseStays
<1>18. Drained         BY <1>1 DEF Drained
<1> QED
  BY <1>2, <1>3, <1>4, <1>5, <1>6, <1>7, <1>8, <1>9, <1>10, <1>11, <1>12, <1>13, <1>14, <1>15,
     <1>16, <1>17, <1>18 DEF Kept, LifeStep

LEMMA InstancePowerOnStep ==
  ASSUME NodeInv, NEW c \in Callers, InstancePowerOn(c)
  PROVE  Kept
<1> NodeParts
  BY DEF NodeInv, NodeParts, TypeOK, TypeCall
<1> USE DEF NodeParts
<1>1. /\ call[c].op = "launch" /\ call[c].pc = "powerOn"
      /\ \/ vm = "off" /\ vm' = "booting" /\ Moves(c, "launch", "autoStart", call[c].seen, call[c].at)
         \/ vm' = vm /\ Moves(c, "clean", "status", "none", "booting")
      /\ UNCHANGED <<state, kube, launch>>
      /\ UNCHANGED <<requests, faults, cloudInit>>
  BY GotoCall, LaunchErrorCall DEF InstancePowerOn, At, May, config, Label, Progress
<1>2. CallInv'         BY <1>1 DEF CallInv, LaunchLabels, DeleteLabels
<1>3. OneLaunch'       BY <1>1 DEF OneLaunch
<1>4. PowerAlone'      BY <1>1 DEF PowerAlone
<1>5. PreVM'           BY <1>1 DEF PreVM
<1>6. PastCreating'    BY <1>1 DEF PastCreating
<1>7. NoLateStart'     BY <1>1 DEF NoLateStart, OneLaunch
<1>8. NotRacing'       BY <1>1 DEF NotRacing, NoLateStart
<1>9. DeletedIsGone'   BY <1>1 DEF DeletedIsGone
<1>10. CleanSees'      BY <1>1 DEF CleanSees
<1>11. Overtaken'      BY <1>1 DEF Overtaken
<1>12. FailedEnds'     BY <1>1 DEF FailedEnds, OneLaunch
<1>13. DeletingEnds'   BY <1>1 DEF DeletingEnds
<1>14. PowerPast'      BY <1>1 DEF PowerPast
<1>15. CalmLaunch'     BY <1>1 DEF CalmLaunch
<1>16. CalmNode'       BY <1>1 DEF CalmNode, OneLaunch
<1>17. UNCHANGED Life!vars
  BY <1>1, Phase, PhaseNext, PhaseStep, PhaseStays
<1>18. Drained         BY <1>1 DEF Drained
<1> QED
  BY <1>2, <1>3, <1>4, <1>5, <1>6, <1>7, <1>8, <1>9, <1>10, <1>11, <1>12, <1>13, <1>14, <1>15,
     <1>16, <1>17, <1>18 DEF Kept, LifeStep

LEMMA InstanceAutoStartStep ==
  ASSUME NodeInv, NEW c \in Callers, InstanceAutoStart(c)
  PROVE  Kept
<1> NodeParts
  BY DEF NodeInv, NodeParts, TypeOK, TypeCall
<1> USE DEF NodeParts
<1>1. /\ call[c].op = "launch" /\ call[c].pc = "autoStart"
      /\ \/ cloudInit /\ Moves(c, "launch", "join", call[c].seen, call[c].at)
         \/ Moves(c, "launch", "tools", call[c].seen, call[c].at)
         \/ Moves(c, "clean", "status", "none", "booting")
      /\ UNCHANGED <<state, vm, kube, launch>>
      /\ UNCHANGED <<requests, faults, cloudInit>>
  BY GotoCall, LaunchErrorCall DEF InstanceAutoStart, At, May, config, Label, Progress
<1>2. CallInv'         BY <1>1 DEF CallInv, LaunchLabels, DeleteLabels
<1>3. OneLaunch'       BY <1>1 DEF OneLaunch
<1>4. PowerAlone'      BY <1>1 DEF PowerAlone
<1>5. PreVM'           BY <1>1 DEF PreVM
<1>6. PastCreating'    BY <1>1 DEF PastCreating
<1>7. NoLateStart'     BY <1>1 DEF NoLateStart
<1>8. NotRacing'       BY <1>1 DEF NotRacing
<1>9. DeletedIsGone'   BY <1>1 DEF DeletedIsGone
<1>10. CleanSees'      BY <1>1 DEF CleanSees
<1>11. Overtaken'      BY <1>1 DEF Overtaken
<1>12. FailedEnds'     BY <1>1 DEF FailedEnds
<1>13. DeletingEnds'   BY <1>1 DEF DeletingEnds
<1>14. PowerPast'      BY <1>1 DEF PowerPast
<1>15. CalmLaunch'     BY <1>1 DEF CalmLaunch
<1>16. CalmNode'       BY <1>1 DEF CalmNode
<1>17. UNCHANGED Life!vars
  BY <1>1, Phase, PhaseNext, PhaseStep, PhaseStays
<1>18. Drained         BY <1>1 DEF Drained
<1> QED
  BY <1>2, <1>3, <1>4, <1>5, <1>6, <1>7, <1>8, <1>9, <1>10, <1>11, <1>12, <1>13, <1>14, <1>15,
     <1>16, <1>17, <1>18 DEF Kept, LifeStep

LEMMA WaitJoinedStep ==
  ASSUME NodeInv, NEW c \in Callers, WaitJoined(c)
  PROVE  Kept
<1> NodeParts
  BY DEF NodeInv, NodeParts, TypeOK, TypeCall
<1> USE DEF NodeParts
<1>1. /\ call[c].op = "launch" /\ call[c].pc = "join"
      /\ \/ kube # "absent" /\ state' = "Running" /\ Moves(c, "launch", "ready", call[c].seen, call[c].at)
         \/ kube # "absent" /\ state' = state /\ Moves(c, "launch", "noAddress", call[c].seen, call[c].at)
         \/ state' = state /\ Moves(c, "clean", "status", "none", "booting")
      /\ UNCHANGED <<vm, kube, launch>>
      /\ UNCHANGED <<requests, faults, cloudInit>>
  BY GotoCall, LaunchErrorCall DEF WaitJoined, At, May, config, Label, Progress
<1>2. CallInv'         BY <1>1 DEF CallInv, LaunchLabels, DeleteLabels
<1>3. OneLaunch'       BY <1>1 DEF OneLaunch
<1>4. PowerAlone'      BY <1>1 DEF PowerAlone
<1>5. PreVM'           BY <1>1 DEF PreVM, OneLaunch
<1>6. PastCreating'    BY <1>1 DEF PastCreating
<1>7. NoLateStart'     BY <1>1 DEF NoLateStart
<1>8. NotRacing'       BY <1>1 DEF NotRacing
<1>9. DeletedIsGone'   BY <1>1 DEF DeletedIsGone
<1>10. CleanSees'      BY <1>1 DEF CleanSees
<1>11. Overtaken'      BY <1>1 DEF Overtaken
<1>12. FailedEnds'     BY <1>1 DEF FailedEnds
<1>13. DeletingEnds'   BY <1>1 DEF DeletingEnds
<1>14. PowerPast'      BY <1>1 DEF PowerPast
<1>15. CalmLaunch'     BY <1>1 DEF CalmLaunch
<1>16. CalmNode'       BY <1>1 DEF CalmNode
<1>17. Life!NodeJoins(c) \/ UNCHANGED Life!vars
  BY <1>1, Phase, PhaseNext, PhaseStep, PhaseStays DEF Life!NodeJoins
<1>18. Drained         BY <1>1 DEF Drained
<1> QED
  BY <1>2, <1>3, <1>4, <1>5, <1>6, <1>7, <1>8, <1>9, <1>10, <1>11, <1>12, <1>13, <1>14, <1>15,
     <1>16, <1>17, <1>18 DEF Kept, LifeStep, Life!Next

LEMMA WaitToolsStep ==
  ASSUME NodeInv, NEW c \in Callers, WaitTools(c)
  PROVE  Kept
<1> NodeParts
  BY DEF NodeInv, NodeParts, TypeOK, TypeCall
<1> USE DEF NodeParts
<1>1. /\ call[c].op = "launch" /\ call[c].pc = "tools"
      /\ \/ Powered /\ Moves(c, "launch", "status", call[c].seen, call[c].at)
         \/ Moves(c, "clean", "status", "none", "booting")
      /\ UNCHANGED <<state, vm, kube, launch>>
      /\ UNCHANGED <<requests, faults, cloudInit>>
  BY GotoCall, LaunchErrorCall DEF WaitTools, At, May, config, Label, Progress
<1>2. CallInv'         BY <1>1 DEF CallInv, LaunchLabels, DeleteLabels
<1>3. OneLaunch'       BY <1>1 DEF OneLaunch
<1>4. PowerAlone'      BY <1>1 DEF PowerAlone
<1>5. PreVM'           BY <1>1 DEF PreVM
<1>6. PastCreating'    BY <1>1 DEF PastCreating
<1>7. NoLateStart'     BY <1>1 DEF NoLateStart
<1>8. NotRacing'       BY <1>1 DEF NotRacing
<1>9. DeletedIsGone'   BY <1>1 DEF DeletedIsGone
<1>10. CleanSees'      BY <1>1 DEF CleanSees
<1>11. Overtaken'      BY <1>1 DEF Overtaken
<1>12. FailedEnds'     BY <1>1 DEF FailedEnds
<1>13. DeletingEnds'   BY <1>1 DEF DeletingEnds
<1>14. PowerPast'      BY <1>1 DEF PowerPast
<1>15. CalmLaunch'     BY <1>1 DEF CalmLaunch
<1>16. CalmNode'       BY <1>1 DEF CalmNode
<1>17. UNCHANGED Life!vars
  BY <1>1, Phase, PhaseNext, PhaseStep, PhaseStays
<1>18. Drained         BY <1>1 DEF Drained
<1> QED
  BY <1>2, <1>3, <1>4, <1>5, <1>6, <1>7, <1>8, <1>9, <1>10, <1>11, <1>12, <1>13, <1>14, <1>15,
     <1>16, <1>17, <1>18 DEF Kept, LifeStep

LEMMA LaunchStatusStep ==
  ASSUME NodeInv, NEW c \in Callers, LaunchStatus(c)
  PROVE  Kept
<1> NodeParts
  BY DEF NodeInv, NodeParts, TypeOK, TypeCall
<1> USE DEF NodeParts
<1>1. /\ call[c].op = "launch" /\ call[c].pc = "seen"
      /\ \/ call[c].seen = "on" /\ state' = "Running" /\ Moves(c, "launch", "joinCluster", call[c].seen, call[c].at)
         \/ call[c].seen = "off" /\ state' = "Stopped" /\ Moves(c, "clean", "status", "none", "booting")
         \/ state' = state /\ Moves(c, "clean", "status", "none", "booting")
      /\ UNCHANGED <<vm, kube, launch>>
      /\ UNCHANGED <<requests, faults, cloudInit>>
  BY GotoCall, LaunchErrorCall DEF LaunchStatus, At, config, Label, Progress
<1>2. CallInv'         BY <1>1 DEF CallInv, LaunchLabels, DeleteLabels
<1>3. OneLaunch'       BY <1>1 DEF OneLaunch
<1>4. PowerAlone'      BY <1>1 DEF PowerAlone
<1>5. PreVM'           BY <1>1 DEF PreVM, OneLaunch
<1>6. PastCreating'    BY <1>1 DEF PastCreating
<1>7. NoLateStart'     BY <1>1 DEF NoLateStart
<1>8. NotRacing'       BY <1>1 DEF NotRacing
<1>9. DeletedIsGone'   BY <1>1 DEF DeletedIsGone
<1>10. CleanSees'      BY <1>1 DEF CleanSees
<1>11. Overtaken'      BY <1>1 DEF Overtaken
<1>12. FailedEnds'     BY <1>1 DEF FailedEnds
<1>13. DeletingEnds'   BY <1>1 DEF DeletingEnds
<1>14. PowerPast'      BY <1>1 DEF PowerPast
<1>15. CalmLaunch'     BY <1>1 DEF CalmLaunch
<1>16. CalmNode'       BY <1>1 DEF CalmNode
<1>17. Life!NodeJoins(c) \/ Life!Refresh \/ UNCHANGED Life!vars
  BY <1>1, Phase, PhaseNext, PhaseStep, PhaseStays, PhaseSame DEF Life!NodeJoins, Life!Refresh,
     PastCreating
<1>18. Drained         BY <1>1 DEF Drained
<1> QED
  BY <1>2, <1>3, <1>4, <1>5, <1>6, <1>7, <1>8, <1>9, <1>10, <1>11, <1>12, <1>13, <1>14, <1>15,
     <1>16, <1>17, <1>18 DEF Kept, LifeStep, Life!Next

LEMMA JoinClusterStep ==
  ASSUME NodeInv, NEW c \in Callers, JoinCluster(c)
  PROVE  Kept
<1> NodeParts
  BY DEF NodeInv, NodeParts, TypeOK, TypeCall
<1> USE DEF NodeParts
<1>1. /\ call[c].op = "launch" /\ call[c].pc = "joinCluster"
      /\ \/ vm = "booting" /\ vm' = "on" /\ kube' = "ready" /\ Moves(c, "launch", "ready", call[c].seen, call[c].at)
         \/ UNCHANGED <<vm, kube>> /\ Moves(c, "clean", "status", "none", "joined")
      /\ UNCHANGED <<state, launch>>
      /\ UNCHANGED <<requests, faults, cloudInit>>
  BY GotoCall, LaunchErrorCall DEF JoinCluster, At, May, config, Label, Progress
<1>2. CallInv'         BY <1>1 DEF CallInv, LaunchLabels, DeleteLabels
<1>3. OneLaunch'       BY <1>1 DEF OneLaunch
<1>4. PowerAlone'      BY <1>1 DEF PowerAlone
<1>5. PreVM'           BY <1>1 DEF PreVM
<1>6. PastCreating'    BY <1>1 DEF PastCreating
<1>7. NoLateStart'     BY <1>1 DEF NoLateStart
<1>8. NotRacing'       BY <1>1 DEF NotRacing
<1>9. DeletedIsGone'   BY <1>1 DEF DeletedIsGone
<1>10. CleanSees'      BY <1>1 DEF CleanSees
<1>11. Overtaken'      BY <1>1 DEF Overtaken
<1>12. FailedEnds'     BY <1>1 DEF FailedEnds
<1>13. DeletingEnds'   BY <1>1 DEF DeletingEnds
<1>14. PowerPast'      BY <1>1 DEF PowerPast
<1>15. CalmLaunch'     BY <1>1 DEF CalmLaunch
<1>16. CalmNode'       BY <1>1 DEF CalmNode
<1>17. UNCHANGED Life!vars
  BY <1>1, Phase, PhaseNext, PhaseStep, PhaseStays
<1>18. Drained         BY <1>1 DEF Drained
<1> QED
  BY <1>2, <1>3, <1>4, <1>5, <1>6, <1>7, <1>8, <1>9, <1>10, <1>11, <1>12, <1>13, <1>14, <1>15,
     <1>16, <1>17, <1>18 DEF Kept, LifeStep

LEMMA WaitNodeToBeReadyStep ==
  ASSUME NodeInv, NEW c \in Callers, WaitNodeToBeReady(c)
  PROVE  Kept
<1> NodeParts
  BY DEF NodeInv, NodeParts, TypeOK, TypeCall
<1> USE DEF NodeParts
<1>1. /\ call[c].op = "launch" /\ call[c].pc \in {"ready", "noAddress"}
      /\ call[c].pc = "noAddress" => cloudInit
      /\ \/ kube # "absent" /\ (cloudInit => state = "Running") /\ Moves(c, "launch", "register", call[c].seen, call[c].at)
         \/ call[c].pc = "ready" /\ Moves(c, "clean", "status", "none", "joined")
         \/ call[c].pc = "noAddress" /\ Moves(c, "clean", "status", "none", "booting")
      /\ UNCHANGED <<state, vm, kube, launch>>
      /\ UNCHANGED <<requests, faults, cloudInit>>
  BY GotoCall, LaunchErrorCall DEF WaitNodeToBeReady, At, May, config, Label, Progress, CallInv
<1>2. CallInv'         BY <1>1 DEF CallInv, LaunchLabels, DeleteLabels
<1>3. OneLaunch'       BY <1>1 DEF OneLaunch
<1>4. PowerAlone'      BY <1>1 DEF PowerAlone
<1>5. PreVM'           BY <1>1 DEF PreVM
<1>6. PastCreating'    BY <1>1 DEF PastCreating
<1>7. NoLateStart'     BY <1>1 DEF NoLateStart
<1>8. NotRacing'       BY <1>1 DEF NotRacing
<1>9. DeletedIsGone'   BY <1>1 DEF DeletedIsGone
<1>10. CleanSees'      BY <1>1 DEF CleanSees
<1>11. Overtaken'      BY <1>1 DEF Overtaken
<1>12. FailedEnds'     BY <1>1 DEF FailedEnds
<1>13. DeletingEnds'   BY <1>1 DEF DeletingEnds
<1>14. PowerPast'      BY <1>1 DEF PowerPast
<1>15. CalmLaunch'     BY <1>1 DEF CalmLaunch
<1>16. CalmNode'       BY <1>1 DEF CalmNode
<1>17. Life!NodeJoins(c) \/ UNCHANGED Life!vars
  BY <1>1, Phase, PhaseNext, PhaseStep, PhaseStays DEF Life!NodeJoins
<1>18. Drained         BY <1>1 DEF Drained
<1> QED
  BY <1>2, <1>3, <1>4, <1>5, <1>6, <1>7, <1>8, <1>9, <1>10, <1>11, <1>12, <1>13, <1>14, <1>15,
     <1>16, <1>17, <1>18 DEF Kept, LifeStep, Life!Next

LEMMA RegisterStep ==
  ASSUME NodeInv, NEW c \in Callers, Register(c)
  PROVE  Kept
<1> NodeParts
  BY DEF NodeInv, NodeParts, TypeOK, TypeCall
<1> USE DEF NodeParts
<1>1. /\ call[c].op = "launch" /\ call[c].pc = "register"
      /\ \/ kube # "absent" /\ launch' = "ok" /\ Returns(c)
         \/ launch' = launch /\ Moves(c, "clean", "status", "none", "joined")
      /\ UNCHANGED <<state, vm, kube>>
      /\ UNCHANGED <<requests, faults, cloudInit>>
  BY ReturnCall, LaunchErrorCall DEF Register, At, May, config, Progress
<1>2. CallInv'         BY <1>1 DEF CallInv, LaunchLabels, DeleteLabels
<1>3. OneLaunch'       BY <1>1 DEF OneLaunch
<1>4. PowerAlone'      BY <1>1 DEF PowerAlone
<1>5. PreVM'           BY <1>1 DEF PreVM
<1>6. PastCreating'    BY <1>1 DEF PastCreating
<1>7. NoLateStart'     BY <1>1 DEF NoLateStart
<1>8. NotRacing'       BY <1>1 DEF NotRacing
<1>9. DeletedIsGone'   BY <1>1 DEF DeletedIsGone
<1>10. CleanSees'      BY <1>1 DEF CleanSees
<1>11. Overtaken'      BY <1>1 DEF Overtaken
<1>12. FailedEnds'     BY <1>1 DEF FailedEnds
<1>13. DeletingEnds'   BY <1>1 DEF DeletingEnds
<1>14. PowerPast'      BY <1>1 DEF PowerPast
<1>15. CalmLaunch'     BY <1>1 DEF CalmLaunch
<1>16. CalmNode'       BY <1>1 DEF CalmNode, CalmLaunch, OneLaunch, PowerAlone
<1>17. Life!LaunchSucceeds(c) \/ UNCHANGED Life!vars
  BY <1>1, Phase, PhaseNext, PhaseStep, PhaseStays DEF Life!LaunchSucceeds
<1>18. Drained         BY <1>1 DEF Drained
<1> QED
  BY <1>2, <1>3, <1>4, <1>5, <1>6, <1>7, <1>8, <1>9, <1>10, <1>11, <1>12, <1>13, <1>14, <1>15,
     <1>16, <1>17, <1>18 DEF Kept, LifeStep, Life!Next

-----------------------------------------------------------------------------
(* statusVM *)

LEMMA StatusVMStep ==
  ASSUME NodeInv, NEW c \in Callers, StatusVM(c)
  PROVE  Kept
<1> NodeParts
  BY DEF NodeInv, NodeParts, TypeOK, TypeCall
<1> USE DEF NodeParts
<1>1. /\ call[c].op \notin {"none", "delete"} /\ call[c].pc = "status"
      /\ Moves(c, call[c].op, "seen", call'[c].seen, call[c].at)
      /\ \/ call'[c].seen = "on" /\ Powered
         \/ call'[c].seen = "off" /\ vm # "absent" /\ ~Powered
         \/ call'[c].seen = "error" /\ (vm = "absent" \/ "delete" \in faults)
      /\ UNCHANGED <<state, vm, kube, launch>>
      /\ UNCHANGED <<requests, faults, cloudInit>>
  BY StatusCall, Whose DEF StatusVM, May, config
<1>2. CallInv'         BY <1>1 DEF CallInv, LaunchLabels, DeleteLabels
<1>3. OneLaunch'
  <2>1. /\ Others(c) /\ call'[c].op = call[c].op /\ call[c].op # "none"
        /\ UNCHANGED <<state, vm, kube, launch>>
    BY <1>1
  <2> QED
    BY <2>1 DEF OneLaunch
<1>4. PowerAlone'      BY <1>1 DEF PowerAlone
<1>5. PreVM'           BY <1>1 DEF PreVM, PastCreating
<1>6. PastCreating'    BY <1>1 DEF PastCreating
<1>7. NoLateStart'     BY <1>1 DEF NoLateStart
<1>8. NotRacing'       BY <1>1 DEF NotRacing
<1>9. DeletedIsGone'   BY <1>1 DEF DeletedIsGone
<1>10. CleanSees'      BY <1>1 DEF CleanSees
<1>11. Overtaken'      BY <1>1 DEF Overtaken
<1>12. FailedEnds'     BY <1>1 DEF FailedEnds
<1>13. DeletingEnds'   BY <1>1 DEF DeletingEnds
<1>14. PowerPast'      BY <1>1 DEF PowerPast, FailedEnds
<1>15. CalmLaunch'     BY <1>1 DEF CalmLaunch
<1>16. CalmNode'       BY <1>1 DEF CalmNode
<1>17. UNCHANGED Life!vars
  BY <1>1, Phase, PhaseNext, PhaseStep, PhaseStays
<1>18. Drained         BY <1>1 DEF Drained
<1> QED
  BY <1>2, <1>3, <1>4, <1>5, <1>6, <1>7, <1>8, <1>9, <1>10, <1>11, <1>12, <1>13, <1>14, <1>15,
     <1>16, <1>17, <1>18 DEF Kept, LifeStep

LEMMA CleanOnLaunchErrorStep ==
  ASSUME NodeInv, NEW c \in Callers, CleanOnLaunchError(c)
  PROVE  Kept
<1> NodeParts
  BY DEF NodeInv, NodeParts, TypeOK, TypeCall
<1> USE DEF NodeParts
<1>1. /\ call[c].op = "clean" /\ call[c].pc = "seen"
      /\ call[c].seen \in {"on", "off", "error"}
      /\ \/ call[c].seen = "on" /\ state' = "Running"
         \/ call[c].seen = "off" /\ state' = "Stopped"
         \/ call[c].seen \notin {"on", "off"} /\ state' = state
      /\ \/ state' = "Deleting" /\ Moves(c, "clean", "failed", call[c].seen, call[c].at)
         \/ state' # "Deleting" /\ Moves(c, "clean", "created", call[c].seen, call[c].at)
      /\ UNCHANGED <<vm, kube, launch>>
      /\ UNCHANGED <<requests, faults, cloudInit>>
  BY GotoCall DEF CleanOnLaunchError, At, StatusState, CheckNotDeleting, config, Label, CallInv
<1>2. CallInv'         BY <1>1 DEF CallInv, LaunchLabels, DeleteLabels
<1>3. OneLaunch'       BY <1>1 DEF OneLaunch
<1>4. PowerAlone'      BY <1>1 DEF PowerAlone
<1>5. PreVM'           BY <1>1 DEF PreVM, OneLaunch
<1>6. PastCreating'    BY <1>1 DEF PastCreating
<1>7. NoLateStart'     BY <1>1 DEF NoLateStart
<1>8. NotRacing'       BY <1>1 DEF NotRacing
<1>9. DeletedIsGone'   BY <1>1 DEF DeletedIsGone
<1>10. CleanSees'      BY <1>1 DEF CleanSees
<1>11. Overtaken'      BY <1>1 DEF Overtaken
<1>12. FailedEnds'     BY <1>1 DEF FailedEnds
<1>13. DeletingEnds'   BY <1>1 DEF DeletingEnds, CleanSees
<1>14. PowerPast'      BY <1>1 DEF PowerPast
<1>15. CalmLaunch'     BY <1>1 DEF CalmLaunch
<1>16. CalmNode'       BY <1>1 DEF CalmNode
<1>17. Life!LaunchFails(c) \/ UNCHANGED Life!vars
  BY <1>1, Phase, PhaseNext, PhaseStep, PhaseStays DEF Life!LaunchFails, Life!CheckNotDeleting,
     PreVM, CleanSees, CallInv, LaunchLabels, DeleteLabels
<1>18. Drained         BY <1>1 DEF Drained
<1> QED
  BY <1>2, <1>3, <1>4, <1>5, <1>6, <1>7, <1>8, <1>9, <1>10, <1>11, <1>12, <1>13, <1>14, <1>15,
     <1>16, <1>17, <1>18 DEF Kept, LifeStep, Life!Next

LEMMA RefreshedStep ==
  ASSUME NodeInv, NEW c \in Callers, Refreshed(c)
  PROVE  Kept
<1> NodeParts
  BY DEF NodeInv, NodeParts, TypeOK, TypeCall
<1> USE DEF NodeParts
<1>1. /\ call[c].op = "refresh" /\ call[c].pc = "seen"
      /\ \/ call[c].seen = "on" /\ state' = "Running"
         \/ call[c].seen = "off" /\ state' = "Stopped"
         \/ call[c].seen \notin {"on", "off"} /\ state' = state
      /\ Returns(c)
      /\ UNCHANGED <<vm, kube, launch>>
      /\ UNCHANGED <<requests, faults, cloudInit>>
  BY ReturnCall DEF Refreshed, At, StatusState, config
<1>2. CallInv'         BY <1>1 DEF CallInv, LaunchLabels, DeleteLabels
<1>3. OneLaunch'       BY <1>1 DEF OneLaunch
<1>4. PowerAlone'      BY <1>1 DEF PowerAlone
<1>5. PreVM'           BY <1>1 DEF PreVM, PastCreating
<1>6. PastCreating'    BY <1>1 DEF PastCreating
<1>7. NoLateStart'     BY <1>1 DEF NoLateStart
<1>8. NotRacing'       BY <1>1 DEF NotRacing
<1>9. DeletedIsGone'   BY <1>1 DEF DeletedIsGone
<1>10. CleanSees'      BY <1>1 DEF CleanSees
<1>11. Overtaken'      BY <1>1 DEF Overtaken
<1>12. FailedEnds'     BY <1>1 DEF FailedEnds
<1>13. DeletingEnds'   BY <1>1 DEF DeletingEnds
<1>14. PowerPast'      BY <1>1 DEF PowerPast
<1>15. CalmLaunch'     BY <1>1 DEF CalmLaunch
<1>16. CalmNode'       BY <1>1 DEF CalmNode
<1>17. Life!Refresh \/ UNCHANGED Life!vars
  BY <1>1, Phase, PhaseNext, PhaseStep, PhaseStays, PhaseSame DEF Life!Refresh, PastCreating
<1>18. Drained         BY <1>1 DEF Drained
<1> QED
  BY <1>2, <1>3, <1>4, <1>5, <1>6, <1>7, <1>8, <1>9, <1>10, <1>11, <1>12, <1>13, <1>14, <1>15,
     <1>16, <1>17, <1>18 DEF Kept, LifeStep, Life!Next

-----------------------------------------------------------------------------
(* deleteVM *)

LEMMA InstanceCreatedStep ==
  ASSUME NodeInv, NEW c \in Callers, InstanceCreated(c)
  PROVE  Kept
<1> NodeParts
  BY DEF NodeInv, NodeParts, TypeOK, TypeCall
<1> USE DEF NodeParts
<1>1. /\ Deleting(c) /\ call[c].pc = "created"
      /\ \/ vm # "absent" /\ Moves(c, call[c].op, "getStatus", call[c].seen, call[c].at)
         \/ (vm = "absent" \/ "delete" \in faults) /\ Moves(c, call[c].op, "failed", call[c].seen, call[c].at)
      /\ UNCHANGED <<state, vm, kube, launch>>
      /\ UNCHANGED <<requests, faults, cloudInit>>
  BY GotoCall, Whose DEF InstanceCreated, May, config, Label
<1>2. CallInv'         BY <1>1 DEF CallInv, LaunchLabels, DeleteLabels
<1>3. OneLaunch'       BY <1>1 DEF OneLaunch
<1>4. PowerAlone'      BY <1>1 DEF PowerAlone
<1>5. PreVM'           BY <1>1 DEF PreVM
<1>6. PastCreating'    BY <1>1 DEF PastCreating
<1>7. NoLateStart'     BY <1>1 DEF NoLateStart
<1>8. NotRacing'       BY <1>1 DEF NotRacing
<1>9. DeletedIsGone'   BY <1>1 DEF DeletedIsGone
<1>10. CleanSees'      BY <1>1 DEF CleanSees
<1>11. Overtaken'      BY <1>1 DEF Overtaken
<1>12. FailedEnds'     BY <1>1 DEF FailedEnds
<1>13. DeletingEnds'   BY <1>1 DEF DeletingEnds
<1>14. PowerPast'      BY <1>1 DEF PowerPast
<1>15. CalmLaunch'     BY <1>1 DEF CalmLaunch
<1>16. CalmNode'       BY <1>1 DEF CalmNode
<1>17. Life!InstanceStatus(c) \/ UNCHANGED Life!vars
  BY <1>1, Phase, PhaseNext, PhaseStep, PhaseStays DEF Life!InstanceStatus
<1>18. Drained         BY <1>1 DEF Drained
<1> QED
  BY <1>2, <1>3, <1>4, <1>5, <1>6, <1>7, <1>8, <1>9, <1>10, <1>11, <1>12, <1>13, <1>14, <1>15,
     <1>16, <1>17, <1>18 DEF Kept, LifeStep, Life!Next

\* A goroutine that launches the node, when there is a VM, is seen by deleteVM.
LEMMA MeetsLaunch ==
  ASSUME PreVM, CallInv, vm # "absent", NEW c \in Callers, ~Launching(c), NEW d \in Callers, Launching(d)
  PROVE  LaunchUnderWay(c)
<1>1. PhaseOf(d) \in {"booting", "joined"}
  BY Phase DEF PreVM, CallInv, LaunchLabels
<1> QED
  BY <1>1 DEF LaunchUnderWay

\* Whom deleteVM sees is the goroutine that launches the node, or cleans up.
LEMMA MetLauncher ==
  ASSUME CallInv, NEW c \in Callers, LaunchUnderWay(c)
  PROVE  \E d \in Callers \ {c} : Launcher(d)
<1>1. PICK d \in Callers : d # c /\ PhaseOf(d) \in {"booting", "joined"}
  BY DEF LaunchUnderWay
<1>2. Launcher(d)
  BY <1>1 DEF PhaseOf, CallInv
<1> QED
  BY <1>1, <1>2

LEMMA InstanceStatusStep ==
  ASSUME NodeInv, NEW c \in Callers, InstanceStatus(c)
  PROVE  Kept
<1> NodeParts
  BY DEF NodeInv, NodeParts, TypeOK, TypeCall
<1> USE DEF NodeParts
<1>1. /\ Deleting(c) /\ call[c].pc = "getStatus" /\ vm \in VMState
      /\ UNCHANGED <<vm, kube, launch, requests, faults, cloudInit>>
  BY Whose DEF InstanceStatus, config, TypeOK
<1>2. ASSUME vm = "absent" \/ "delete" \in faults, state' = state, Goto(c, "failed")
      PROVE  Kept
  <2>1. Moves(c, call[c].op, "failed", call[c].seen, call[c].at)
    BY <1>2, GotoCall DEF Label
  <2>2. CallInv'         BY <1>1, <1>2, <2>1 DEF CallInv, LaunchLabels, DeleteLabels
  <2>3. OneLaunch'       BY <1>1, <1>2, <2>1 DEF OneLaunch
  <2>4. PowerAlone'      BY <1>1, <1>2, <2>1 DEF PowerAlone
  <2>5. PreVM'           BY <1>1, <1>2, <2>1 DEF PreVM
  <2>6. PastCreating'    BY <1>1, <1>2, <2>1 DEF PastCreating
  <2>7. NoLateStart'     BY <1>1, <1>2, <2>1 DEF NoLateStart
  <2>8. NotRacing'       BY <1>1, <1>2, <2>1 DEF NotRacing
  <2>9. DeletedIsGone'   BY <1>1, <1>2, <2>1 DEF DeletedIsGone
  <2>10. CleanSees'      BY <1>1, <1>2, <2>1 DEF CleanSees
  <2>11. Overtaken'      BY <1>1, <1>2, <2>1 DEF Overtaken
  <2>12. FailedEnds'     BY <1>1, <1>2, <2>1 DEF FailedEnds
  <2>13. DeletingEnds'   BY <1>1, <1>2, <2>1 DEF DeletingEnds
  <2>14. PowerPast'      BY <1>1, <1>2, <2>1 DEF PowerPast
  <2>15. CalmLaunch'     BY <1>1, <1>2, <2>1 DEF CalmLaunch
  <2>16. CalmNode'       BY <1>1, <1>2, <2>1 DEF CalmNode
  <2>17. Life!InstanceStatus(c)
    BY <1>1, <1>2, <2>1, Phase, PhaseNext, PhaseStep DEF Life!InstanceStatus
  <2>18. Drained         BY <1>1 DEF Drained
  <2> QED
    BY <2>2, <2>3, <2>4, <2>5, <2>6, <2>7, <2>8, <2>9, <2>10, <2>11, <2>12, <2>13, <2>14, <2>15,
       <2>16, <2>17, <2>18 DEF Kept, LifeStep, Life!Next
<1>3. ASSUME vm # "absent", state' = "Deleting",
             call' = [call EXCEPT ![c].pc = IF Powered THEN "getNode" ELSE "destroy",
                                  ![c].at = IF LaunchUnderWay(c) THEN "racing" ELSE "deleting"]
      PROVE  Kept
  <2> DEFINE pc == IF Powered THEN "getNode" ELSE "destroy"
             at == IF LaunchUnderWay(c) THEN "racing" ELSE "deleting"
  <2>1. /\ pc \in {"getNode", "destroy"} /\ (pc = "getNode" <=> Powered)
        /\ at \in {"racing", "deleting"} /\ (at = "racing" <=> LaunchUnderWay(c))
    OBVIOUS
  <2>2. call' = [call EXCEPT ![c].pc = pc, ![c].at = at]
    BY <1>3
  <2> HIDE DEF pc, at
  <2>3. vm # "absent" /\ state' = "Deleting"
    BY <1>3
  <2>4. Moves(c, call[c].op, pc, call[c].seen, at)
    BY <2>1, <2>2, InstanceStatusCall DEF Label, Progress
  \* Nobody launches the node, or will, when deleteVM has seen nobody.
  <2>5. at = "deleting" => \A d \in Callers : ~Launching(d)
    BY <1>1, <2>1, <2>3, MeetsLaunch
  <2>6. at = "racing" => \E d \in Callers \ {c} : Launcher(d)
    BY <2>1, MetLauncher
  <2>7. Powered => \A d \in Callers :
          ~(Launching(d) /\ call[d].pc \in {"launch", "prepare", "create", "instanceID", "powerOn"})
    BY DEF NoLateStart
  <2>8. Calm => at = "deleting"
    BY <1>1, <2>1, <2>6 DEF CalmLaunch, OneLaunch
  <2>9. CallInv'         BY <1>1, <2>1, <2>3, <2>4 DEF CallInv, LaunchLabels, DeleteLabels
  <2>10. OneLaunch'      BY <1>1, <2>1, <2>3, <2>4 DEF OneLaunch
  <2>11. PowerAlone'     BY <1>1, <2>1, <2>3, <2>4 DEF PowerAlone
  <2>12. PreVM'          BY <1>1, <2>1, <2>3, <2>4 DEF PreVM
  <2>13. PastCreating'   BY <1>1, <2>1, <2>3, <2>4 DEF PastCreating
  <2>14. NoLateStart'    BY <1>1, <2>1, <2>3, <2>4, <2>7 DEF NoLateStart
  <2>15. NotRacing'      BY <1>1, <2>1, <2>3, <2>4, <2>5, <2>6 DEF NotRacing, OneLaunch
  <2>16. DeletedIsGone'  BY <1>1, <2>1, <2>3, <2>4 DEF DeletedIsGone
  <2>17. CleanSees'      BY <1>1, <2>1, <2>3, <2>4 DEF CleanSees
  <2>18. Overtaken'      BY <1>1, <2>1, <2>3, <2>4 DEF Overtaken
  <2>19. FailedEnds'     BY <1>1, <2>1, <2>3, <2>4 DEF FailedEnds
  <2>20. DeletingEnds'   BY <1>1, <2>1, <2>3, <2>4 DEF DeletingEnds, VMState
  <2>21. PowerPast'      BY <1>1, <2>1, <2>3, <2>4 DEF PowerPast
  <2>22. CalmLaunch'     BY <1>1, <2>1, <2>3, <2>4, <2>8 DEF CalmLaunch
  <2>23. CalmNode'       BY <1>1, <2>1, <2>3, <2>4 DEF CalmNode
  <2>24. Life!InstanceStatus(c)
    BY <1>1, <2>1, <2>3, <2>4, Phase, PhaseNext, PhaseStep
       DEF Life!InstanceStatus, Life!LaunchUnderWay, LaunchUnderWay
  <2>25. LifeStep
    BY <2>24 DEF LifeStep, Life!Next
  <2>26. Drained         BY <1>1 DEF Drained
  <2> QED
    BY <2>9, <2>10, <2>11, <2>12, <2>13, <2>14, <2>15, <2>16, <2>17, <2>18, <2>19, <2>20, <2>21,
       <2>22, <2>23, <2>25, <2>26 DEF Kept
<1> QED
  BY <1>2, <1>3, Zenon DEF InstanceStatus, May

LEMMA GetNodeStep ==
  ASSUME NodeInv, NEW c \in Callers, GetNode(c)
  PROVE  Kept
<1> NodeParts
  BY DEF NodeInv, NodeParts, TypeOK, TypeCall
<1> USE DEF NodeParts
<1>1. /\ Deleting(c) /\ call[c].pc = "getNode"
      /\ \/ kube # "absent" /\ Moves(c, call[c].op, "drain", call[c].seen, call[c].at)
         \/ (kube = "absent" \/ "kube" \in faults) /\ Moves(c, call[c].op, "powerOff", call[c].seen, call[c].at)
      /\ UNCHANGED <<state, vm, kube, launch>>
      /\ UNCHANGED <<requests, faults, cloudInit>>
  BY GotoCall, Whose DEF GetNode, May, config, Label
<1>2. CallInv'         BY <1>1 DEF CallInv, LaunchLabels, DeleteLabels
<1>3. OneLaunch'       BY <1>1 DEF OneLaunch
<1>4. PowerAlone'      BY <1>1 DEF PowerAlone
<1>5. PreVM'           BY <1>1 DEF PreVM
<1>6. PastCreating'    BY <1>1 DEF PastCreating
<1>7. NoLateStart'     BY <1>1 DEF NoLateStart
<1>8. NotRacing'       BY <1>1 DEF NotRacing
<1>9. DeletedIsGone'   BY <1>1 DEF DeletedIsGone
<1>10. CleanSees'      BY <1>1 DEF CleanSees
<1>11. Overtaken'      BY <1>1 DEF Overtaken
<1>12. FailedEnds'     BY <1>1 DEF FailedEnds
<1>13. DeletingEnds'   BY <1>1 DEF DeletingEnds
<1>14. PowerPast'      BY <1>1 DEF PowerPast
<1>15. CalmLaunch'     BY <1>1 DEF CalmLaunch
<1>16. CalmNode'       BY <1>1 DEF CalmNode
<1>17. UNCHANGED Life!vars
  BY <1>1, Phase, PhaseNext, PhaseStep, PhaseStays
<1>18. Drained         BY <1>1 DEF Drained
<1> QED
  BY <1>2, <1>3, <1>4, <1>5, <1>6, <1>7, <1>8, <1>9, <1>10, <1>11, <1>12, <1>13, <1>14, <1>15,
     <1>16, <1>17, <1>18 DEF Kept, LifeStep

LEMMA DrainNodeStep ==
  ASSUME NodeInv, NEW c \in Callers, DrainNode(c)
  PROVE  Kept
<1> NodeParts
  BY DEF NodeInv, NodeParts, TypeOK, TypeCall
<1> USE DEF NodeParts
<1>1. /\ Deleting(c) /\ call[c].pc = "drain"
      /\ Moves(c, call[c].op, "deleteNode", call[c].seen, call[c].at)
      /\ kube' \in {kube, "cordoned"} /\ (kube = "absent" => kube' = "absent")
      /\ UNCHANGED <<state, vm, launch>>
      /\ UNCHANGED <<requests, faults, cloudInit>>
  BY GotoCall, Whose DEF DrainNode, May, config, Label
<1>2. CallInv'         BY <1>1 DEF CallInv, LaunchLabels, DeleteLabels
<1>3. OneLaunch'       BY <1>1 DEF OneLaunch
<1>4. PowerAlone'      BY <1>1 DEF PowerAlone
<1>5. PreVM'           BY <1>1 DEF PreVM
<1>6. PastCreating'    BY <1>1 DEF PastCreating
<1>7. NoLateStart'     BY <1>1 DEF NoLateStart
<1>8. NotRacing'       BY <1>1 DEF NotRacing
<1>9. DeletedIsGone'   BY <1>1 DEF DeletedIsGone
<1>10. CleanSees'      BY <1>1 DEF CleanSees
<1>11. Overtaken'      BY <1>1 DEF Overtaken
<1>12. FailedEnds'     BY <1>1 DEF FailedEnds
<1>13. DeletingEnds'   BY <1>1 DEF DeletingEnds
<1>14. PowerPast'      BY <1>1 DEF PowerPast
<1>15. CalmLaunch'     BY <1>1 DEF CalmLaunch
<1>16. CalmNode'       BY <1>1 DEF CalmNode
<1>17. UNCHANGED Life!vars
  BY <1>1, Phase, PhaseNext, PhaseStep, PhaseStays
<1>18. Drained         BY <1>1 DEF Drained
<1> QED
  BY <1>2, <1>3, <1>4, <1>5, <1>6, <1>7, <1>8, <1>9, <1>10, <1>11, <1>12, <1>13, <1>14, <1>15,
     <1>16, <1>17, <1>18 DEF Kept, LifeStep

LEMMA DeleteNodeStep ==
  ASSUME NodeInv, NEW c \in Callers, DeleteNode(c)
  PROVE  Kept
<1> NodeParts
  BY DEF NodeInv, NodeParts, TypeOK, TypeCall
<1> USE DEF NodeParts
<1>1. /\ Deleting(c) /\ call[c].pc = "deleteNode"
      /\ vm \in VMState
      /\ Moves(c, call[c].op, "powerOff", call[c].seen, call[c].at)
      /\ kube' = "absent" \/ (kube' = kube /\ "kube" \in faults)
      /\ UNCHANGED <<state, vm, launch>>
      /\ UNCHANGED <<requests, faults, cloudInit>>
  BY GotoCall, Whose DEF DeleteNode, May, config, Label, TypeOK
<1>2. CallInv'         BY <1>1 DEF CallInv, LaunchLabels, DeleteLabels
<1>3. OneLaunch'       BY <1>1 DEF OneLaunch
<1>4. PowerAlone'      BY <1>1 DEF PowerAlone
<1>5. PreVM'           BY <1>1 DEF PreVM
<1>6. PastCreating'    BY <1>1 DEF PastCreating
<1>7. NoLateStart'     BY <1>1 DEF NoLateStart
<1>8. NotRacing'       BY <1>1 DEF NotRacing
<1>9. DeletedIsGone'   BY <1>1 DEF DeletedIsGone
<1>10. CleanSees'      BY <1>1 DEF CleanSees
<1>11. Overtaken'      BY <1>1 DEF Overtaken
<1>12. FailedEnds'     BY <1>1 DEF FailedEnds
<1>13. DeletingEnds'   BY <1>1 DEF DeletingEnds
<1>14. PowerPast'      BY <1>1 DEF PowerPast
<1>15. CalmLaunch'     BY <1>1 DEF CalmLaunch, OneLaunch
<1>16. CalmNode'       BY <1>1 DEF CalmNode, Overtaken, VMState
<1>17. UNCHANGED Life!vars
  BY <1>1, Phase, PhaseNext, PhaseStep, PhaseStays
<1>18. Drained         BY <1>1 DEF Drained
<1> QED
  BY <1>2, <1>3, <1>4, <1>5, <1>6, <1>7, <1>8, <1>9, <1>10, <1>11, <1>12, <1>13, <1>14, <1>15,
     <1>16, <1>17, <1>18 DEF Kept, LifeStep

LEMMA InstancePowerOffStep ==
  ASSUME NodeInv, NEW c \in Callers, InstancePowerOff(c)
  PROVE  Kept
<1> NodeParts
  BY DEF NodeInv, NodeParts, TypeOK, TypeCall
<1> USE DEF NodeParts
<1>1. /\ Deleting(c) /\ call[c].pc = "powerOff"
      /\ vm \in VMState
      /\ \/ /\ vm # "absent" /\ vm' = "off" /\ state' = "Stopped" /\ launch' = launch
            /\ Moves(c, call[c].op, "destroyStopped", call[c].seen, call[c].at)
         \/ /\ ~Powered \/ "delete" \in faults
            /\ UNCHANGED <<vm, state>> /\ Returns(c)
            /\ launch' = IF call[c].op = "clean" THEN "failed" ELSE launch
      /\ kube' = kube
      /\ UNCHANGED <<requests, faults, cloudInit>>
  BY GotoCall, ReturnCall DEF InstancePowerOff, DeleteReturns, May, config, Label, TypeOK
<1>2. CallInv'         BY <1>1 DEF CallInv, LaunchLabels, DeleteLabels
<1>3. OneLaunch'       BY <1>1 DEF OneLaunch
<1>4. PowerAlone'      BY <1>1 DEF PowerAlone
<1>5. PreVM'           BY <1>1 DEF PreVM
<1>6. PastCreating'    BY <1>1 DEF PastCreating
<1>7. NoLateStart'     BY <1>1 DEF NoLateStart
<1>8. NotRacing'       BY <1>1 DEF NotRacing
<1>9. DeletedIsGone'   BY <1>1 DEF DeletedIsGone
<1>10. CleanSees'      BY <1>1 DEF CleanSees
<1>11. Overtaken'      BY <1>1 DEF Overtaken
<1>12. FailedEnds'     BY <1>1 DEF FailedEnds, NotRacing, Overtaken, VMState
<1>13. DeletingEnds'   BY <1>1 DEF DeletingEnds
<1>14. PowerPast'      BY <1>1 DEF PowerPast
<1>15. CalmLaunch'
  <2>1. Calm => \A d \in Callers : ~Launching(d)
    BY <1>1 DEF CalmLaunch, OneLaunch
  <2> QED
    BY <1>1, <2>1 DEF CalmLaunch
<1>16. CalmNode'       BY <1>1 DEF CalmNode
<1>17. Life!InstancePowerOff(c) \/ Life!VMNotDeleted(c) \/ UNCHANGED Life!vars
  BY <1>1, Phase, PhaseNext, PhaseStep, PhaseStays DEF Life!InstancePowerOff, Life!VMNotDeleted,
     Life!PoweredOff, VMState, CallInv, LaunchLabels, DeleteLabels, Overtaken, NotRacing
<1>18. Drained         BY <1>1 DEF Drained, CalmNode
<1> QED
  BY <1>2, <1>3, <1>4, <1>5, <1>6, <1>7, <1>8, <1>9, <1>10, <1>11, <1>12, <1>13, <1>14, <1>15,
     <1>16, <1>17, <1>18 DEF Kept, LifeStep, Life!Next

LEMMA InstanceDeleteStep ==
  ASSUME NodeInv, NEW c \in Callers, InstanceDelete(c)
  PROVE  Kept
<1> NodeParts
  BY DEF NodeInv, NodeParts, TypeOK, TypeCall
<1> USE DEF NodeParts
<1>1. /\ Deleting(c) /\ call[c].pc \in {"destroy", "destroyStopped"}
      /\ vm \in VMState
      /\ \/ vm # "absent" /\ vm' = "absent" /\ state' = "Deleted"
         \/ (vm # "off" \/ "delete" \in faults) /\ UNCHANGED <<vm, state>>
      /\ Returns(c)
      /\ launch' = IF call[c].op = "clean" THEN "failed" ELSE launch
      /\ kube' = kube
      /\ UNCHANGED <<requests, faults, cloudInit>>
  BY ReturnCall, Whose DEF InstanceDelete, DeleteReturns, May, config, TypeOK
<1>2. CallInv'         BY <1>1 DEF CallInv, LaunchLabels, DeleteLabels
<1>3. OneLaunch'       BY <1>1 DEF OneLaunch
<1>4. PowerAlone'      BY <1>1 DEF PowerAlone
<1>5. PreVM'           BY <1>1 DEF PreVM
<1>6. PastCreating'    BY <1>1 DEF PastCreating
<1>7. NoLateStart'     BY <1>1 DEF NoLateStart
<1>8. NotRacing'       BY <1>1 DEF NotRacing
<1>9. DeletedIsGone'   BY <1>1 DEF DeletedIsGone
<1>10. CleanSees'      BY <1>1 DEF CleanSees
<1>11. Overtaken'      BY <1>1 DEF Overtaken
<1>12. FailedEnds'     BY <1>1 DEF FailedEnds, NotRacing, OneLaunch, VMState
<1>13. DeletingEnds'   BY <1>1 DEF DeletingEnds
<1>14. PowerPast'      BY <1>1 DEF PowerPast
<1>15. CalmLaunch'     BY <1>1 DEF CalmLaunch, OneLaunch
<1>16. CalmNode'       BY <1>1 DEF CalmNode
<1>17. Life!VMDeleted(c) \/ Life!VMNotDeleted(c) \/ UNCHANGED Life!vars
  BY <1>1, Phase, PhaseNext, PhaseStep, PhaseStays DEF Life!VMDeleted, Life!VMNotDeleted,
     VMState, CallInv, LaunchLabels, DeleteLabels, NotRacing
<1>18. Drained         BY <1>1 DEF Drained, NotRacing, CalmLaunch, CallInv
<1> QED
  BY <1>2, <1>3, <1>4, <1>5, <1>6, <1>7, <1>8, <1>9, <1>10, <1>11, <1>12, <1>13, <1>14, <1>15,
     <1>16, <1>17, <1>18 DEF Kept, LifeStep, Life!Next

LEMMA DeleteFailsStep ==
  ASSUME NodeInv, NEW c \in Callers, DeleteFails(c)
  PROVE  Kept
<1> NodeParts
  BY DEF NodeInv, NodeParts, TypeOK, TypeCall
<1> USE DEF NodeParts
<1>1. /\ Deleting(c) /\ call[c].pc = "failed"
      /\ Returns(c)
      /\ launch' = IF call[c].op = "clean" THEN "failed" ELSE launch
      /\ UNCHANGED <<state, vm, kube>>
      /\ UNCHANGED <<requests, faults, cloudInit>>
  BY ReturnCall, Whose DEF DeleteFails, DeleteReturns, config
<1>2. CallInv'         BY <1>1 DEF CallInv, LaunchLabels, DeleteLabels
<1>3. OneLaunch'       BY <1>1 DEF OneLaunch
<1>4. PowerAlone'      BY <1>1 DEF PowerAlone
<1>5. PreVM'           BY <1>1 DEF PreVM
<1>6. PastCreating'    BY <1>1 DEF PastCreating
<1>7. NoLateStart'     BY <1>1 DEF NoLateStart
<1>8. NotRacing'       BY <1>1 DEF NotRacing
<1>9. DeletedIsGone'   BY <1>1 DEF DeletedIsGone
<1>10. CleanSees'      BY <1>1 DEF CleanSees
<1>11. Overtaken'      BY <1>1 DEF Overtaken
<1>12. FailedEnds'     BY <1>1 DEF FailedEnds, CleanSees
<1>13. DeletingEnds'   BY <1>1 DEF DeletingEnds
<1>14. PowerPast'      BY <1>1 DEF PowerPast
<1>15. CalmLaunch'     BY <1>1 DEF CalmLaunch
<1>16. CalmNode'       BY <1>1 DEF CalmNode
<1>17. Life!VMNotDeleted(c) \/ UNCHANGED Life!vars
  BY <1>1, Phase, PhaseNext, PhaseStep, PhaseStays DEF Life!VMNotDeleted
<1>18. Drained         BY <1>1 DEF Drained
<1> QED
  BY <1>2, <1>3, <1>4, <1>5, <1>6, <1>7, <1>8, <1>9, <1>10, <1>11, <1>12, <1>13, <1>14, <1>15,
     <1>16, <1>17, <1>18 DEF Kept, LifeStep, Life!Next

-----------------------------------------------------------------------------
(* startVM, stopVM *)

LEMMA StartStep ==
  ASSUME NodeInv, NEW c \in Callers, Start(c)
  PROVE  Kept
<1> NodeParts
  BY DEF NodeInv, NodeParts, TypeOK, TypeCall
<1> USE DEF NodeParts
<1>1. /\ call[c].op = "start" /\ call[c].pc = "seen"
      /\ \/ call[c].seen = "on" /\ state' = "Running"
         \/ call[c].seen = "off" /\ state' = "Stopped"
         \/ call[c].seen \notin {"on", "off"} /\ state' = state
      /\ \/ call[c].seen = "off" /\ Moves(c, "start", "powerOn", call[c].seen, call[c].at)
         \/ call[c].seen # "off" /\ Returns(c)
      /\ UNCHANGED <<vm, kube, launch>>
      /\ UNCHANGED <<requests, faults, cloudInit>>
  BY GotoCall, ReturnCall DEF Start, At, StatusState, config, Label
<1>2. CallInv'         BY <1>1 DEF CallInv, LaunchLabels, DeleteLabels
<1>3. OneLaunch'       BY <1>1 DEF OneLaunch
<1>4. PowerAlone'      BY <1>1 DEF PowerAlone
<1>5. PreVM'           BY <1>1 DEF PreVM, PowerAlone
<1>6. PastCreating'    BY <1>1 DEF PastCreating
<1>7. NoLateStart'     BY <1>1 DEF NoLateStart
<1>8. NotRacing'       BY <1>1 DEF NotRacing
<1>9. DeletedIsGone'   BY <1>1 DEF DeletedIsGone
<1>10. CleanSees'      BY <1>1 DEF CleanSees
<1>11. Overtaken'      BY <1>1 DEF Overtaken
<1>12. FailedEnds'     BY <1>1 DEF FailedEnds
<1>13. DeletingEnds'   BY <1>1 DEF DeletingEnds
<1>14. PowerPast'      BY <1>1 DEF PowerPast
<1>15. CalmLaunch'     BY <1>1 DEF CalmLaunch
<1>16. CalmNode'       BY <1>1 DEF CalmNode
<1>17. Orderly => (Life!Refresh \/ UNCHANGED Life!vars)
  BY <1>1, Phase, PhaseNext, PhaseStep, PhaseStays, PhaseSame DEF Life!Refresh, PowerPast,
     PowerAlone, Orderly
<1>18. Drained         BY <1>1 DEF Drained
<1> QED
  BY <1>2, <1>3, <1>4, <1>5, <1>6, <1>7, <1>8, <1>9, <1>10, <1>11, <1>12, <1>13, <1>14, <1>15,
     <1>16, <1>17, <1>18 DEF Kept, LifeStep, Life!Next

LEMMA StartPowerOnStep ==
  ASSUME NodeInv, NEW c \in Callers, StartPowerOn(c)
  PROVE  Kept
<1> NodeParts
  BY DEF NodeInv, NodeParts, TypeOK, TypeCall
<1> USE DEF NodeParts
<1>1. /\ call[c].op = "start" /\ call[c].pc = "powerOn"
      /\ \/ vm = "off" /\ vm' = IF kube = "absent" THEN "booting" ELSE "on"
         \/ vm' = vm
      /\ \/ Returns(c)
         \/ Moves(c, "started", "status", call[c].seen, call[c].at)
      /\ UNCHANGED <<state, kube, launch>>
      /\ UNCHANGED <<requests, faults, cloudInit>>
  BY StartPowerOnCall, ReturnCall DEF StartPowerOn, At, May, config
<1>2. CallInv'         BY <1>1 DEF CallInv, LaunchLabels, DeleteLabels
<1>3. OneLaunch'       BY <1>1 DEF OneLaunch
<1>4. PowerAlone'      BY <1>1 DEF PowerAlone
<1>5. PreVM'           BY <1>1 DEF PreVM
<1>6. PastCreating'    BY <1>1 DEF PastCreating
<1>7. NoLateStart'     BY <1>1 DEF NoLateStart, PowerAlone
<1>8. NotRacing'       BY <1>1 DEF NotRacing, PowerAlone
<1>9. DeletedIsGone'   BY <1>1 DEF DeletedIsGone
<1>10. CleanSees'      BY <1>1 DEF CleanSees
<1>11. Overtaken'      BY <1>1 DEF Overtaken
<1>12. FailedEnds'     BY <1>1 DEF FailedEnds, PowerAlone
<1>13. DeletingEnds'   BY <1>1 DEF DeletingEnds, PowerAlone
<1>14. PowerPast'      BY <1>1 DEF PowerPast
<1>15. CalmLaunch'     BY <1>1 DEF CalmLaunch
<1>16. CalmNode'       BY <1>1 DEF CalmNode, PowerAlone
<1>17. UNCHANGED Life!vars
  BY <1>1, Phase, PhaseNext, PhaseStep, PhaseStays
<1>18. Drained         BY <1>1 DEF Drained
<1> QED
  BY <1>2, <1>3, <1>4, <1>5, <1>6, <1>7, <1>8, <1>9, <1>10, <1>11, <1>12, <1>13, <1>14, <1>15,
     <1>16, <1>17, <1>18 DEF Kept, LifeStep

LEMMA StartedStep ==
  ASSUME NodeInv, NEW c \in Callers, Started(c)
  PROVE  Kept
<1> NodeParts
  BY DEF NodeInv, NodeParts, TypeOK, TypeCall
<1> USE DEF NodeParts
<1>1. /\ call[c].op = "started" /\ call[c].pc = "seen"
      /\ \/ call[c].seen = "on" /\ state' = "Running"
         \/ call[c].seen = "off" /\ state' = "Stopped"
         \/ call[c].seen \notin {"on", "off"} /\ state' = state
      /\ Returns(c)
      /\ kube' \in {kube, "ready"} /\ (kube = "absent" => kube' = "absent")
      /\ UNCHANGED <<vm, launch>>
      /\ UNCHANGED <<requests, faults, cloudInit>>
  BY ReturnCall DEF Started, At, StatusState, May, config
<1>2. CallInv'         BY <1>1 DEF CallInv, LaunchLabels, DeleteLabels
<1>3. OneLaunch'       BY <1>1 DEF OneLaunch
<1>4. PowerAlone'      BY <1>1 DEF PowerAlone
<1>5. PreVM'           BY <1>1 DEF PreVM, PowerAlone
<1>6. PastCreating'    BY <1>1 DEF PastCreating
<1>7. NoLateStart'     BY <1>1 DEF NoLateStart
<1>8. NotRacing'       BY <1>1 DEF NotRacing
<1>9. DeletedIsGone'   BY <1>1 DEF DeletedIsGone
<1>10. CleanSees'      BY <1>1 DEF CleanSees
<1>11. Overtaken'      BY <1>1 DEF Overtaken
<1>12. FailedEnds'     BY <1>1 DEF FailedEnds
<1>13. DeletingEnds'   BY <1>1 DEF DeletingEnds
<1>14. PowerPast'      BY <1>1 DEF PowerPast
<1>15. CalmLaunch'     BY <1>1 DEF CalmLaunch
<1>16. CalmNode'       BY <1>1 DEF CalmNode, PowerAlone
<1>17. Orderly => (Life!Refresh \/ UNCHANGED Life!vars)
  BY <1>1, Phase, PhaseNext, PhaseStep, PhaseStays, PhaseSame DEF Life!Refresh, PowerPast,
     PowerAlone, Orderly
<1>18. Drained         BY <1>1 DEF Drained
<1> QED
  BY <1>2, <1>3, <1>4, <1>5, <1>6, <1>7, <1>8, <1>9, <1>10, <1>11, <1>12, <1>13, <1>14, <1>15,
     <1>16, <1>17, <1>18 DEF Kept, LifeStep, Life!Next

LEMMA StopStep ==
  ASSUME NodeInv, NEW c \in Callers, Stop(c)
  PROVE  Kept
<1> NodeParts
  BY DEF NodeInv, NodeParts, TypeOK, TypeCall
<1> USE DEF NodeParts
<1>1. /\ call[c].op = "stop" /\ call[c].pc = "seen"
      /\ \/ call[c].seen = "on" /\ state' = "Running"
         \/ call[c].seen = "off" /\ state' = "Stopped"
         \/ call[c].seen \notin {"on", "off"} /\ state' = state
      /\ \/ /\ call[c].seen = "on" /\ Moves(c, "stop", "powerOff", call[c].seen, call[c].at)
            /\ \/ kube' = IF kube = "ready" THEN "cordoned" ELSE kube
               \/ "kube" \in faults /\ kube' = kube
         \/ call[c].seen # "on" /\ kube' = kube /\ Returns(c)
      /\ UNCHANGED <<vm, launch>>
      /\ UNCHANGED <<requests, faults, cloudInit>>
  BY GotoCall, ReturnCall DEF Stop, At, StatusState, May, config, Label
<1>2. CallInv'         BY <1>1 DEF CallInv, LaunchLabels, DeleteLabels
<1>3. OneLaunch'       BY <1>1 DEF OneLaunch
<1>4. PowerAlone'      BY <1>1 DEF PowerAlone
<1>5. PreVM'           BY <1>1 DEF PreVM, PowerAlone
<1>6. PastCreating'    BY <1>1 DEF PastCreating
<1>7. NoLateStart'     BY <1>1 DEF NoLateStart
<1>8. NotRacing'       BY <1>1 DEF NotRacing
<1>9. DeletedIsGone'   BY <1>1 DEF DeletedIsGone
<1>10. CleanSees'      BY <1>1 DEF CleanSees
<1>11. Overtaken'      BY <1>1 DEF Overtaken
<1>12. FailedEnds'     BY <1>1 DEF FailedEnds
<1>13. DeletingEnds'   BY <1>1 DEF DeletingEnds
<1>14. PowerPast'      BY <1>1 DEF PowerPast
<1>15. CalmLaunch'     BY <1>1 DEF CalmLaunch
<1>16. CalmNode'       BY <1>1 DEF CalmNode
<1>17. Orderly => (Life!Refresh \/ UNCHANGED Life!vars)
  BY <1>1, Phase, PhaseNext, PhaseStep, PhaseStays, PhaseSame DEF Life!Refresh, PowerPast,
     PowerAlone, Orderly
<1>18. Drained         BY <1>1 DEF Drained
<1> QED
  BY <1>2, <1>3, <1>4, <1>5, <1>6, <1>7, <1>8, <1>9, <1>10, <1>11, <1>12, <1>13, <1>14, <1>15,
     <1>16, <1>17, <1>18 DEF Kept, LifeStep, Life!Next

LEMMA StopPowerOffStep ==
  ASSUME NodeInv, NEW c \in Callers, StopPowerOff(c)
  PROVE  Kept
<1> NodeParts
  BY DEF NodeInv, NodeParts, TypeOK, TypeCall
<1> USE DEF NodeParts
<1>1. /\ call[c].op = "stop" /\ call[c].pc = "powerOff"
      /\ \/ vm # "absent" /\ vm' = "off" /\ state' = "Stopped"
         \/ (~Powered \/ "delete" \in faults) /\ UNCHANGED <<vm, state>>
      /\ Returns(c)
      /\ UNCHANGED <<kube, launch>>
      /\ UNCHANGED <<requests, faults, cloudInit>>
  BY ReturnCall DEF StopPowerOff, At, May, config
<1>2. CallInv'         BY <1>1 DEF CallInv, LaunchLabels, DeleteLabels
<1>3. OneLaunch'       BY <1>1 DEF OneLaunch
<1>4. PowerAlone'      BY <1>1 DEF PowerAlone
<1>5. PreVM'           BY <1>1 DEF PreVM
<1>6. PastCreating'    BY <1>1 DEF PastCreating
<1>7. NoLateStart'     BY <1>1 DEF NoLateStart
<1>8. NotRacing'       BY <1>1 DEF NotRacing
<1>9. DeletedIsGone'   BY <1>1 DEF DeletedIsGone
<1>10. CleanSees'      BY <1>1 DEF CleanSees
<1>11. Overtaken'      BY <1>1 DEF Overtaken, PowerAlone
<1>12. FailedEnds'     BY <1>1 DEF FailedEnds, PowerAlone
<1>13. DeletingEnds'   BY <1>1 DEF DeletingEnds
<1>14. PowerPast'      BY <1>1 DEF PowerPast
<1>15. CalmLaunch'     BY <1>1 DEF CalmLaunch, PowerAlone
<1>16. CalmNode'       BY <1>1 DEF CalmNode, PowerAlone
<1>17. Orderly => (Life!Refresh \/ UNCHANGED Life!vars)
  BY <1>1, Phase, PhaseNext, PhaseStep, PhaseStays, PhaseSame DEF Life!Refresh, PowerPast,
     PowerAlone, Orderly
<1>18. Drained         BY <1>1 DEF Drained, CalmNode
<1> QED
  BY <1>2, <1>3, <1>4, <1>5, <1>6, <1>7, <1>8, <1>9, <1>10, <1>11, <1>12, <1>13, <1>14, <1>15,
     <1>16, <1>17, <1>18 DEF Kept, LifeStep, Life!Next

\* A VM that boots has not been launched, or is in Kubernetes already.
LEMMA VMJoinsStep ==
  ASSUME NodeInv, VMJoins
  PROVE  Kept
<1> NodeParts
  BY DEF NodeInv, NodeParts, TypeOK, TypeCall
<1> USE DEF NodeParts
<1>1. /\ cloudInit /\ vm = "booting" /\ vm' = "on"
      /\ kube' \in {kube, "ready"} /\ (kube # "absent" => kube' = kube)
      /\ UNCHANGED <<requests, faults, cloudInit, state, launch, call>>
  BY DEF VMJoins, config
<1>2. CallInv'         BY <1>1 DEF CallInv, LaunchLabels, DeleteLabels
<1>3. OneLaunch'       BY <1>1 DEF OneLaunch
<1>4. PowerAlone'      BY <1>1 DEF PowerAlone
<1>5. PreVM'           BY <1>1 DEF PreVM
<1>6. PastCreating'    BY <1>1 DEF PastCreating
<1>7. NoLateStart'     BY <1>1 DEF NoLateStart
<1>8. NotRacing'       BY <1>1 DEF NotRacing
<1>9. DeletedIsGone'   BY <1>1 DEF DeletedIsGone
<1>10. CleanSees'      BY <1>1 DEF CleanSees
<1>11. Overtaken'      BY <1>1 DEF Overtaken
<1>12. FailedEnds'     BY <1>1 DEF FailedEnds
<1>13. DeletingEnds'   BY <1>1 DEF DeletingEnds
<1>14. PowerPast'      BY <1>1 DEF PowerPast
<1>15. CalmLaunch'     BY <1>1 DEF CalmLaunch
<1>16. CalmNode'       BY <1>1 DEF CalmNode
<1>17. UNCHANGED Life!vars
  BY <1>1 DEF Life!vars, PhaseOf
<1>18. Drained         BY <1>1 DEF Drained
<1> QED
  BY <1>2, <1>3, <1>4, <1>5, <1>6, <1>7, <1>8, <1>9, <1>10, <1>11, <1>12, <1>13, <1>14, <1>15,
     <1>16, <1>17, <1>18 DEF Kept, LifeStep

-----------------------------------------------------------------------------
(* The theorems *)

\* Nothing but call can get a wrong type.
LEMMA TypeStep ==
  ASSUME TypeOK, Next
  PROVE  TypeOK'
<1> USE DEF NodeState, VMState, KubeState, RequestKinds, FaultKinds, Op, Label, Progress
<1> TypeCall
  BY DEF TypeOK, TypeCall
<1> DEFINE Typed ==
      /\ TypeCall' /\ UNCHANGED <<requests, faults, cloudInit>>
      /\ state' \in NodeState /\ vm' \in VMState /\ kube' \in KubeState
      /\ launch' \in {"none", "under way", "ok", "failed"}
<1>1. ASSUME NEW c \in Callers, Launch(c) PROVE Typed
  BY <1>1, BeginCall DEF TypeOK, Launch, config
<1>2. ASSUME NEW c \in Callers, DeleteVM(c) PROVE Typed
  BY <1>2, BeginCall DEF TypeOK, DeleteVM, config, CheckNotDeleting
<1>3. ASSUME NEW c \in Callers, Refresh(c) PROVE Typed
  BY <1>3, BeginCall DEF TypeOK, Refresh, config
<1>4. ASSUME NEW c \in Callers, StartVM(c) PROVE Typed
  BY <1>4, BeginCall DEF TypeOK, StartVM, config
<1>5. ASSUME NEW c \in Callers, StopVM(c) PROVE Typed
  BY <1>5, BeginCall DEF TypeOK, StopVM, config
<1>6. ASSUME NEW c \in Callers, CheckNotCreated(c) PROVE Typed
  BY <1>6, GotoCall, LaunchErrorCall DEF TypeOK, CheckNotCreated, config, At
<1>7. ASSUME NEW c \in Callers, PrepareInstance(c) PROVE Typed
  BY <1>7, GotoCall, LaunchErrorCall DEF TypeOK, PrepareInstance, config, At, May
<1>8. ASSUME NEW c \in Callers, InstanceCreate(c) PROVE Typed
  BY <1>8, GotoCall, LaunchErrorCall DEF TypeOK, InstanceCreate, config, At, May
<1>9. ASSUME NEW c \in Callers, InstanceID(c) PROVE Typed
  BY <1>9, GotoCall, LaunchErrorCall DEF TypeOK, InstanceID, config, At, May
<1>10. ASSUME NEW c \in Callers, InstancePowerOn(c) PROVE Typed
  BY <1>10, GotoCall, LaunchErrorCall DEF TypeOK, InstancePowerOn, config, At, May
<1>11. ASSUME NEW c \in Callers, InstanceAutoStart(c) PROVE Typed
  BY <1>11, GotoCall, LaunchErrorCall DEF TypeOK, InstanceAutoStart, config, At, May
<1>12. ASSUME NEW c \in Callers, WaitJoined(c) PROVE Typed
  BY <1>12, GotoCall, LaunchErrorCall DEF TypeOK, WaitJoined, config, At, May
<1>13. ASSUME NEW c \in Callers, WaitTools(c) PROVE Typed
  BY <1>13, GotoCall, LaunchErrorCall DEF TypeOK, WaitTools, config, At, May
<1>14. ASSUME NEW c \in Callers, LaunchStatus(c) PROVE Typed
  BY <1>14, GotoCall, LaunchErrorCall DEF TypeOK, LaunchStatus, config, At
<1>15. ASSUME NEW c \in Callers, JoinCluster(c) PROVE Typed
  BY <1>15, GotoCall, LaunchErrorCall DEF TypeOK, JoinCluster, config, At, May
<1>16. ASSUME NEW c \in Callers, WaitNodeToBeReady(c) PROVE Typed
  BY <1>16, GotoCall, LaunchErrorCall DEF TypeOK, WaitNodeToBeReady, config, At, May
<1>17. ASSUME NEW c \in Callers, Register(c) PROVE Typed
  BY <1>17, ReturnCall, LaunchErrorCall DEF TypeOK, Register, config, At, May
<1>18. ASSUME NEW c \in Callers, StatusVM(c) PROVE Typed
  BY <1>18, StatusCall DEF TypeOK, StatusVM, config, May
<1>19. ASSUME NEW c \in Callers, CleanOnLaunchError(c) PROVE Typed
  BY <1>19, GotoCall DEF TypeOK, CleanOnLaunchError, config, At, StatusState, CheckNotDeleting
<1>20. ASSUME NEW c \in Callers, Refreshed(c) PROVE Typed
  BY <1>20, ReturnCall DEF TypeOK, Refreshed, config, At, StatusState
<1>21. ASSUME NEW c \in Callers, InstanceCreated(c) PROVE Typed
  BY <1>21, GotoCall DEF TypeOK, InstanceCreated, config, May
<1>22. ASSUME NEW c \in Callers, InstanceStatus(c) PROVE Typed
  <2>1. CASE Goto(c, "failed") /\ state' = state
    BY <1>22, <2>1, GotoCall DEF TypeOK, InstanceStatus, config
  <2>2. CASE /\ state' = "Deleting"
             /\ call' = [call EXCEPT ![c].pc = IF Powered THEN "getNode" ELSE "destroy",
                                     ![c].at = IF LaunchUnderWay(c) THEN "racing" ELSE "deleting"]
    BY <1>22, <2>2, InstanceStatusCall DEF TypeOK, InstanceStatus, config
  <2> QED
    BY <1>22, <2>1, <2>2 DEF InstanceStatus
<1>23. ASSUME NEW c \in Callers, GetNode(c) PROVE Typed
  BY <1>23, GotoCall DEF TypeOK, GetNode, config, May
<1>24. ASSUME NEW c \in Callers, DrainNode(c) PROVE Typed
  BY <1>24, GotoCall DEF TypeOK, DrainNode, config, May
<1>25. ASSUME NEW c \in Callers, DeleteNode(c) PROVE Typed
  BY <1>25, GotoCall DEF TypeOK, DeleteNode, config, May
<1>26. ASSUME NEW c \in Callers, InstancePowerOff(c) PROVE Typed
  BY <1>26, GotoCall, ReturnCall DEF TypeOK, InstancePowerOff, config, DeleteReturns, May
<1>27. ASSUME NEW c \in Callers, InstanceDelete(c) PROVE Typed
  BY <1>27, ReturnCall DEF TypeOK, InstanceDelete, config, DeleteReturns, May
<1>28. ASSUME NEW c \in Callers, DeleteFails(c) PROVE Typed
  BY <1>28, ReturnCall DEF TypeOK, DeleteFails, config, DeleteReturns
<1>29. ASSUME NEW c \in Callers, Start(c) PROVE Typed
  BY <1>29, GotoCall, ReturnCall DEF TypeOK, Start, config, At, StatusState
<1>30. ASSUME NEW c \in Callers, StartPowerOn(c) PROVE Typed
  BY <1>30, StartPowerOnCall, ReturnCall DEF TypeOK, StartPowerOn, config, At, May
<1>31. ASSUME NEW c \in Callers, Started(c) PROVE Typed
  BY <1>31, ReturnCall DEF TypeOK, Started, config, At, StatusState, May
<1>32. ASSUME NEW c \in Callers, Stop(c) PROVE Typed
  BY <1>32, GotoCall, ReturnCall DEF TypeOK, Stop, config, At, StatusState, May
<1>33. ASSUME NEW c \in Callers, StopPowerOff(c) PROVE Typed
  BY <1>33, ReturnCall DEF TypeOK, StopPowerOff, config, At, May
<1>34. ASSUME VMJoins PROVE Typed
  BY <1>34 DEF TypeOK, VMJoins, config, TypeCall
<1>35. Typed
  BY <1>1, <1>2, <1>3, <1>4, <1>5, <1>6, <1>7, <1>8, <1>9, <1>10, <1>11, <1>12, <1>13, <1>14,
     <1>15, <1>16, <1>17, <1>18, <1>19, <1>20, <1>21, <1>22, <1>23, <1>24, <1>25, <1>26, <1>27,
     <1>28, <1>29, <1>30, <1>31, <1>32, <1>33, <1>34 DEF Next, Step
<1> QED
  BY <1>35 DEF TypeOK, TypeCall

LEMMA NodeInvInit == Init => NodeInv
<1> SUFFICES ASSUME Init PROVE NodeInv
  OBVIOUS
<1>1. Idle \in Call
  BY DEF Idle, Call, Op, Label, Seen, Progress
<1>2. TypeOK
  BY <1>1, NodeAssumption DEF Init, TypeOK, RequestKinds, FaultKinds, NodeState, VMState, KubeState
<1>3. \A c \in Callers : call[c] = Idle /\ call[c].op = "none" /\ call[c].pc = "idle" /\ call[c].at = "none"
  BY IdleFields DEF Init
<1>4. state = "NotCreated" /\ vm = "absent" /\ kube = "absent" /\ launch = "none"
  BY DEF Init
<1> QED
  BY <1>2, <1>3, <1>4 DEF NodeInv, CallInv, OneLaunch, PowerAlone, PreVM, PastCreating, NoLateStart,
     NotRacing, DeletedIsGone, CleanSees, Overtaken, FailedEnds, DeletingEnds, PowerPast, CalmLaunch,
     CalmNode

LEMMA StepKept ==
  ASSUME NodeInv, Next
  PROVE  Kept
<1>1. ASSUME NEW c \in Callers, Launch(c) PROVE Kept
  BY <1>1, LaunchStep
<1>2. ASSUME NEW c \in Callers, DeleteVM(c) PROVE Kept
  BY <1>2, DeleteVMStep
<1>3. ASSUME NEW c \in Callers, Refresh(c) PROVE Kept
  BY <1>3, RefreshStep
<1>4. ASSUME NEW c \in Callers, StartVM(c) PROVE Kept
  BY <1>4, StartVMStep
<1>5. ASSUME NEW c \in Callers, StopVM(c) PROVE Kept
  BY <1>5, StopVMStep
<1>6. ASSUME NEW c \in Callers, CheckNotCreated(c) PROVE Kept
  BY <1>6, CheckNotCreatedStep
<1>7. ASSUME NEW c \in Callers, PrepareInstance(c) PROVE Kept
  BY <1>7, PrepareInstanceStep
<1>8. ASSUME NEW c \in Callers, InstanceCreate(c) PROVE Kept
  BY <1>8, InstanceCreateStep
<1>9. ASSUME NEW c \in Callers, InstanceID(c) PROVE Kept
  BY <1>9, InstanceIDStep
<1>10. ASSUME NEW c \in Callers, InstancePowerOn(c) PROVE Kept
  BY <1>10, InstancePowerOnStep
<1>11. ASSUME NEW c \in Callers, InstanceAutoStart(c) PROVE Kept
  BY <1>11, InstanceAutoStartStep
<1>12. ASSUME NEW c \in Callers, WaitJoined(c) PROVE Kept
  BY <1>12, WaitJoinedStep
<1>13. ASSUME NEW c \in Callers, WaitTools(c) PROVE Kept
  BY <1>13, WaitToolsStep
<1>14. ASSUME NEW c \in Callers, LaunchStatus(c) PROVE Kept
  BY <1>14, LaunchStatusStep
<1>15. ASSUME NEW c \in Callers, JoinCluster(c) PROVE Kept
  BY <1>15, JoinClusterStep
<1>16. ASSUME NEW c \in Callers, WaitNodeToBeReady(c) PROVE Kept
  BY <1>16, WaitNodeToBeReadyStep
<1>17. ASSUME NEW c \in Callers, Register(c) PROVE Kept
  BY <1>17, RegisterStep
<1>18. ASSUME NEW c \in Callers, StatusVM(c) PROVE Kept
  BY <1>18, StatusVMStep
<1>19. ASSUME NEW c \in Callers, CleanOnLaunchError(c) PROVE Kept
  BY <1>19, CleanOnLaunchErrorStep
<1>20. ASSUME NEW c \in Callers, Refreshed(c) PROVE Kept
  BY <1>20, RefreshedStep
<1>21. ASSUME NEW c \in Callers, InstanceCreated(c) PROVE Kept
  BY <1>21, InstanceCreatedStep
<1>22. ASSUME NEW c \in Callers, InstanceStatus(c) PROVE Kept
  BY <1>22, InstanceStatusStep
<1>23. ASSUME NEW c \in Callers, GetNode(c) PROVE Kept
  BY <1>23, GetNodeStep
<1>24. ASSUME NEW c \in Callers, DrainNode(c) PROVE Kept
  BY <1>24, DrainNodeStep
<1>25. ASSUME NEW c \in Callers, DeleteNode(c) PROVE Kept
  BY <1>25, DeleteNodeStep
<1>26. ASSUME NEW c \in Callers, InstancePowerOff(c) PROVE Kept
  BY <1>26, InstancePowerOffStep
<1>27. ASSUME NEW c \in Callers, InstanceDelete(c) PROVE Kept
  BY <1>27, InstanceDeleteStep
<1>28. ASSUME NEW c \in Callers, DeleteFails(c) PROVE Kept
  BY <1>28, DeleteFailsStep
<1>29. ASSUME NEW c \in Callers, Start(c) PROVE Kept
  BY <1>29, StartStep
<1>30. ASSUME NEW c \in Callers, StartPowerOn(c) PROVE Kept
  BY <1>30, StartPowerOnStep
<1>31. ASSUME NEW c \in Callers, Started(c) PROVE Kept
  BY <1>31, StartedStep
<1>32. ASSUME NEW c \in Callers, Stop(c) PROVE Kept
  BY <1>32, StopStep
<1>33. ASSUME NEW c \in Callers, StopPowerOff(c) PROVE Kept
  BY <1>33, StopPowerOffStep
<1>34. ASSUME VMJoins PROVE Kept
  BY <1>34, VMJoinsStep
<1> QED
  BY <1>1, <1>2, <1>3, <1>4, <1>5, <1>6, <1>7, <1>8, <1>9, <1>10, <1>11, <1>12, <1>13, <1>14,
     <1>15, <1>16, <1>17, <1>18, <1>19, <1>20, <1>21, <1>22, <1>23, <1>24, <1>25, <1>26, <1>27,
     <1>28, <1>29, <1>30, <1>31, <1>32, <1>33, <1>34 DEF Next, Step

LEMMA NodeInvStep ==
  ASSUME NodeInv, [Next]_vars
  PROVE  NodeInv' /\ LifeStep /\ Drained
<1>1. CASE Next
  <2>1. TypeOK'
    BY <1>1, TypeStep DEF NodeInv
  <2>2. Kept
    BY <1>1, StepKept
  <2> QED
    BY <2>1, <2>2 DEF Kept, NodeInv
<1>2. CASE UNCHANGED vars
  <2>1. UNCHANGED <<requests, faults, cloudInit, state, vm, kube, launch, call>>
    BY <1>2 DEF vars, config
  <2>2. NodeInv'
    <3>1. TypeOK' /\ CallInv' /\ OneLaunch' /\ PowerAlone'
      BY <2>1 DEF NodeInv, TypeOK, CallInv, OneLaunch, PowerAlone
    <3>2. PreVM' /\ PastCreating' /\ NoLateStart' /\ NotRacing' /\ DeletedIsGone'
      BY <2>1 DEF NodeInv, PreVM, PastCreating, NoLateStart, NotRacing, DeletedIsGone
    <3>3. CleanSees' /\ Overtaken' /\ FailedEnds' /\ DeletingEnds' /\ PowerPast'
      BY <2>1 DEF NodeInv, CleanSees, Overtaken, FailedEnds, DeletingEnds, PowerPast
    <3>4. CalmLaunch' /\ CalmNode'
      BY <2>1 DEF NodeInv, CalmLaunch, CalmNode
    <3> QED
      BY <3>1, <3>2, <3>3, <3>4 DEF NodeInv
  <2>3. UNCHANGED Life!vars
    BY <2>1 DEF Life!vars, PhaseOf
  <2> QED
    BY <2>1, <2>2, <2>3 DEF LifeStep, Drained
<1> QED
  BY <1>1, <1>2

\* NodeInv holds in every state.
THEOREM NodeInvariance == Spec => []NodeInv
<1>1. NodeInv /\ [Next]_vars => NodeInv'
  BY NodeInvStep
<1> QED
  BY <1>1, NodeInvInit, PTL DEF Spec

\* The variables have their types.
THEOREM NodeTypeCorrect == Spec => []TypeOK
<1>1. NodeInv => TypeOK
  BY DEF NodeInv
<1> QED
  BY <1>1, NodeInvariance, PTL

\* A node that is Deleted has no VM, whatever fails and whoever works on it meanwhile.
THEOREM NodeDeletedIsGone == Spec => []DeletedIsGone
<1>1. NodeInv => DeletedIsGone
  BY DEF NodeInv
<1> QED
  BY <1>1, NodeInvariance, PTL

\* A launch that fails leaves no VM behind, if no deletion fails: FailedEnds, when nobody
\* is at it any more.
THEOREM NodeFailedLaunchLeavesNoVM == Spec => []FailedLaunchLeavesNoVM
<1>1. NodeInv => FailedLaunchLeavesNoVM
  BY IdleFields DEF NodeInv, FailedEnds, FailedLaunchLeavesNoVM, Quiet
<1> QED
  BY <1>1, NodeInvariance, PTL

\* A VM that is left when all is quiet is not Deleting: DeletingEnds, when nobody is at it
\* any more.
THEOREM NodeCanBeDeleted == Spec => []CanBeDeleted
<1>1. NodeInv => CanBeDeleted
  BY IdleFields DEF NodeInv, DeletingEnds, CanBeDeleted, Quiet
<1> QED
  BY <1>1, NodeInvariance, PTL

\* A node that joined leaves Kubernetes before its VM is powered off.
THEOREM NodeDrainedBeforePowerOff == Spec => DrainedBeforePowerOff
<1>1. NodeInv /\ [Next]_vars => [Drained]_vars
  BY NodeInvStep
<1>2. [Drained]_vars => [launch = "ok" /\ Calm /\ Powered /\ ~Powered' => kube # "ready"]_vars
  BY DEF Drained
<1> QED
  BY <1>1, <1>2, NodeInvariance, PTL DEF Spec, DrainedBeforePowerOff

LEMMA LifeInit == Init => Life!Init
<1> SUFFICES ASSUME Init PROVE Life!Init
  OBVIOUS
<1>1. faults \subseteq {"launch", "delete", "kube"}
  BY NodeAssumption DEF Init, FaultKinds
<1>2. \A c \in Callers : PhaseOf(c) = "none"
  BY IdleFields, Phase DEF Init
<1> QED
  BY <1>1, <1>2 DEF Init, Life!Init

\* requests and faults do not change.
LEMMA ConfigStays ==
  ASSUME [Next]_vars
  PROVE  requests' = requests /\ faults' = faults
BY Zenon DEF Next, Step, vars, config, Launch, DeleteVM, Refresh, StartVM, StopVM, CheckNotCreated, PrepareInstance, InstanceCreate, InstanceID, InstancePowerOn, InstanceAutoStart, WaitJoined, WaitTools, LaunchStatus, JoinCluster, WaitNodeToBeReady, Register, StatusVM, CleanOnLaunchError, Refreshed, InstanceCreated, InstanceStatus, GetNode, DrainNode, DeleteNode, InstancePowerOff, InstanceDelete, DeleteFails, Start, StartPowerOn, Started, Stop, StopPowerOff, VMJoins

\* The steps inside launchVM, deleteVM and statusVM are steps of NodeLife, or none: what
\* module NodeGroup does with a node is what node.go does.
THEOREM NodeImplementsLife == Spec /\ Orderly => ImplementsLife
<1>1. NodeInv /\ [Next]_vars /\ Orderly => [Life!Next]_(Life!vars)
  BY NodeInvStep DEF LifeStep
<1>2. Orderly /\ [Next]_vars => Orderly'
  BY ConfigStays DEF Orderly
<1> QED
  BY <1>1, <1>2, LifeInit, NodeInvariance, PTL DEF Spec, ImplementsLife, Life!Spec
=============================================================================
