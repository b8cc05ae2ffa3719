------------------------ MODULE NodeGroupBooksProofs ------------------------
(***************************************************************************)
(* Proofs about the books of a node group, for any number of callers, of    *)
(* nodes and any MaxNodeSize: who has the turn to reserve and create nodes, *)
(* what the maps, the indexes, the counter and the VMs say of each other    *)
(* until a cleanup begins, and that the cleanup leaves no VM.               *)
(***************************************************************************)
EXTENDS NodeGroupProofs

-----------------------------------------------------------------------------
(* What the steps of a caller do to the calls *)

\* What a call was asked stays.
SameRequest(c) ==
  /\ call'[c].req = call[c].req /\ call'[c].size = call[c].size
  /\ call'[c].name = call[c].name /\ call'[c].index = call[c].index

LEMMA SetPhaseFields ==
  ASSUME TypeOK, NEW c \in Callers, NEW o \in Objects, NEW p, SetPhase(c, o, p)
  PROVE  /\ OthersStay(c) /\ SameRequest(c)
         /\ call'[c].pc = call[c].pc /\ call'[c].need = call[c].need
         /\ call'[c].todo = call[c].todo /\ call'[c].victims = call[c].victims
         /\ \A q \in Objects : call'[c].run[q] = IF q = o THEN p ELSE call[c].run[q]
<1>1. call \in [Callers -> Call] /\ call[c] \in Call
  BY CallType DEF TypeOK
<1> QED
  BY <1>1 DEF SetPhase, OthersStay, Call, SameRequest

LEMMA GotoFields ==
  ASSUME TypeOK, NEW c \in Callers, NEW label, Goto(c, label)
  PROVE  /\ OthersStay(c) /\ SameRequest(c)
         /\ call'[c].pc = label /\ call'[c].need = call[c].need
         /\ call'[c].todo = call[c].todo /\ call'[c].victims = call[c].victims
         /\ call'[c].run = call[c].run
<1>1. call \in [Callers -> Call] /\ call[c] \in Call
  BY CallType DEF TypeOK
<1> QED
  BY <1>1 DEF Goto, OthersStay, Call, SameRequest

LEMMA ReturnFields ==
  ASSUME TypeOK, NEW c \in Callers, Return(c)
  PROVE  /\ OthersStay(c)
         /\ call'[c].pc = "idle" /\ call'[c].req = "none"
         /\ call'[c].todo = {} /\ call'[c].victims = {}
         /\ \A o \in Objects : call'[c].run[o] = "none"
<1>1. call \in [Callers -> Call]
  BY DEF TypeOK
<1> QED
  BY <1>1 DEF Return, OthersStay, NoCall

LEMMA CrashFields ==
  ASSUME TypeOK, Crash
  PROVE  \A d \in Callers :
           /\ call'[d].pc = "dead" /\ call'[d].req = "none"
           /\ call'[d].todo = {} /\ call'[d].victims = {}
           /\ \A o \in Objects : call'[d].run[o] = "none"
BY DEF Crash, NoCall

LEMMA StartDeleteVMFields ==
  ASSUME TypeOK, NEW c \in Callers, NEW o \in Objects, StartDeleteVM(c, o)
  PROVE  /\ OthersStay(c) /\ SameRequest(c)
         /\ call'[c].pc = call[c].pc /\ call'[c].need = call[c].need
         /\ call'[c].todo = call[c].todo \ {o}
         /\ call'[c].victims = call[c].victims \ {node[o].name}
         /\ \A q \in Objects : call'[c].run[q] = IF q = o THEN CheckNotDeleting(o) ELSE call[c].run[q]
<1>1. call \in [Callers -> Call] /\ call[c] \in Call
  BY CallType DEF TypeOK
<1> QED
  BY <1>1 DEF StartDeleteVM, OthersStay, Call, SameRequest

LEMMA DeleteErrorFields ==
  ASSUME TypeOK, NEW c \in Callers, NEW n, DeleteError(c, n), call[c].pc = "delete"
  PROVE  /\ OthersStay(c)
         /\ call'[c].pc \in {"idle", "delete"} /\ call'[c].req \in {"none", call[c].req}
         /\ call'[c].pc = "idle" => call'[c].victims = {}
         /\ call'[c].todo \subseteq call[c].todo
         /\ call'[c].victims \subseteq call[c].victims \ {n}
         /\ \A q \in Objects : call'[c].run[q] = "none"
<1>1. call \in [Callers -> Call] /\ call[c] \in Call
  BY CallType DEF TypeOK
<1>2. CASE Return(c)
  BY <1>2, ReturnFields
<1>3. CASE call' = [call EXCEPT ![c].victims = @ \ {n}, ![c].run = NoCall.run]
  BY <1>1, <1>3 DEF OthersStay, Call, NoCall
<1> QED
  BY <1>2, <1>3 DEF DeleteError

LEMMA WorkOnFields ==
  ASSUME TypeOK, NEW c \in Callers, NEW S, WorkOn(c, S)
  PROVE  /\ OthersStay(c) /\ SameRequest(c)
         /\ call'[c].pc = (IF call[c].req = "increase" THEN "create" ELSE "destroy")
         /\ call'[c].need = call[c].need
         /\ call'[c].todo = S /\ call'[c].victims = call[c].victims
         /\ call'[c].run = call[c].run
<1>1. call \in [Callers -> Call] /\ call[c] \in Call
  BY CallType DEF TypeOK
<1> QED
  BY <1>1 DEF WorkOn, OthersStay, Call, SameRequest

\* A request arrives.
LEMMA RequestFields ==
  ASSUME TypeOK, NEW c \in Callers, Request(c)
  PROVE  /\ OthersStay(c) /\ call[c].pc = "idle"
         /\ call'[c].todo = {} /\ call'[c].name[1] \in Kinds
         /\ \A o \in Objects : call'[c].run[o] = "none"
         /\ UNCHANGED <<waitGroup, lock, node, vms, nodes, pendingNodes, runningNodes, numOf>>
<1>1. call \in [Callers -> Call]
  BY DEF TypeOK
<1> USE DEF OthersStay, NoCall, NoName, Kinds, group
<1>2. ASSUME NEW delta, IncreaseSize(c, delta)
      PROVE  /\ OthersStay(c) /\ call[c].pc = "idle"
             /\ call'[c].todo = {} /\ call'[c].name[1] \in Kinds
             /\ \A o \in Objects : call'[c].run[o] = "none"
             /\ UNCHANGED <<waitGroup, lock, node, vms, nodes, pendingNodes, runningNodes, numOf>>
  BY <1>1, <1>2 DEF IncreaseSize
<1>3. ASSUME NEW delta, DecreaseTargetSize(c, delta)
      PROVE  /\ OthersStay(c) /\ call[c].pc = "idle"
             /\ call'[c].todo = {} /\ call'[c].name[1] \in Kinds
             /\ \A o \in Objects : call'[c].run[o] = "none"
             /\ UNCHANGED <<waitGroup, lock, node, vms, nodes, pendingNodes, runningNodes, numOf>>
  BY <1>1, <1>3 DEF DecreaseTargetSize
<1>4. ASSUME NEW names, DeleteNodes(c, names)
      PROVE  /\ OthersStay(c) /\ call[c].pc = "idle"
             /\ call'[c].todo = {} /\ call'[c].name[1] \in Kinds
             /\ \A o \in Objects : call'[c].run[o] = "none"
             /\ UNCHANGED <<waitGroup, lock, node, vms, nodes, pendingNodes, runningNodes, numOf>>
  BY <1>1, <1>4 DEF DeleteNodes
<1>5. ASSUME NEW kind \in {"worker", "master"}, AddManagedNode(c, kind)
      PROVE  /\ OthersStay(c) /\ call[c].pc = "idle"
             /\ call'[c].todo = {} /\ call'[c].name[1] \in Kinds
             /\ \A o \in Objects : call'[c].run[o] = "none"
             /\ UNCHANGED <<waitGroup, lock, node, vms, nodes, pendingNodes, runningNodes, numOf>>
  BY <1>1, <1>5 DEF AddManagedNode
<1>6. ASSUME NEW n, DeleteManagedNode(c, n)
      PROVE  /\ OthersStay(c) /\ call[c].pc = "idle"
             /\ call'[c].todo = {} /\ call'[c].name[1] \in Kinds
             /\ \A o \in Objects : call'[c].run[o] = "none"
             /\ UNCHANGED <<waitGroup, lock, node, vms, nodes, pendingNodes, runningNodes, numOf>>
  BY <1>1, <1>6 DEF DeleteManagedNode
<1>7. ASSUME Cleanup(c)
      PROVE  /\ OthersStay(c) /\ call[c].pc = "idle"
             /\ call'[c].todo = {} /\ call'[c].name[1] \in Kinds
             /\ \A o \in Objects : call'[c].run[o] = "none"
             /\ UNCHANGED <<waitGroup, lock, node, vms, nodes, pendingNodes, runningNodes, numOf>>
  BY <1>1, <1>7 DEF Cleanup
<1> QED
  BY <1>2, <1>3, <1>4, <1>5, <1>6, <1>7, Zenon DEF Request

-----------------------------------------------------------------------------
(* Creations one at a time *)

\* Two callers cannot both have the turn, ...
LEMMA OneTurn ==
  ASSUME TypeOK, TurnInv, InTurn, NEW c \in Callers, NEW d \in Callers,
         call[c].pc \in HasTurn, call[d].pc \in HasTurn
  PROVE  c = d
BY DEF TurnInv

\* ... and nobody begins while somebody the wait group let go has not returned.
LEMMA NobodyReleased ==
  ASSUME TypeOK, CleanupInv, TurnInv, InTurn, ~crashed, status = "Created", lock = NoCaller
  PROVE  released = {}
<1> SUFFICES ASSUME NEW c \in released PROVE FALSE
  OBVIOUS
<1>1. c \in Callers /\ call[c].pc \in {"wait", "drainWG", "dead"}
  BY DEF TypeOK, TurnInv
<1>2. call[c].pc # "dead"
  BY <1>1 DEF crashed
<1>3. call[c].pc # "drainWG"
  BY <1>1 DEF CleanupInv, StatusInv
<1>4. call[c].pc # "wait"
  BY <1>1, NodeGroupAssumption DEF TurnInv, HasTurn
<1> QED
  BY <1>1, <1>2, <1>3, <1>4

\* A step that takes no turn and leaves the wait group alone.
LEMMA TurnKept ==
  ASSUME TypeOK, TurnInv, NEW c \in Callers, OthersStay(c),
         UNCHANGED <<pendingNodesWG, waiters>>,
         released' \subseteq released,
         \A d \in Callers \ {c} : lock = d => lock' = d,
         call'[c].pc \in HasTurn => call[c].pc \in HasTurn /\ lock' = lock,
         call'[c].pc \in {"pick", "reserve", "create"} => call[c].pc \in {"pick", "reserve", "create"},
         call[c].pc \in {"wait", "drainWG", "dead"} =>
           c \notin waiters' \cup released' \/ call'[c].pc \in {"wait", "drainWG", "dead"}
  PROVE  TurnInv'
<1>1. \A d \in Callers : d # c => call'[d] = call[d]
  BY DEF OthersStay
<1> SUFFICES ASSUME InTurn PROVE TurnInv'
  BY DEF TurnInv, InTurn
<1>2. \A d \in Callers : call'[d].pc \in HasTurn => lock' = d
  BY <1>1 DEF TurnInv
<1>3. \A d \in waiters' \cup released' : call'[d].pc \in {"wait", "drainWG", "dead"}
  <2>1. waiters' \cup released' \subseteq Callers
    BY DEF TypeOK
  <2> QED
    BY <1>1, <2>1 DEF TurnInv
<1>4. released' # {} => /\ pendingNodesWG' = {}
                        /\ \A d \in Callers : call'[d].pc \notin {"pick", "reserve", "create"}
  BY <1>1 DEF TurnInv
<1> QED
  BY <1>2, <1>3, <1>4 DEF TurnInv

\* The creation of a node ends.
LEMMA TurnDone ==
  ASSUME TypeOK, CleanupInv, TurnInv, NEW c \in Callers, NEW o \in Objects, SetPhase(c, o, "none"), Done(c, o),
         UNCHANGED lock, call[c].pc = "launch"
  PROVE  TurnInv'
<1> SUFFICES ASSUME InTurn PROVE TurnInv'
  BY DEF TurnInv, InTurn
<1>1. \A d \in Callers : call'[d].pc = call[d].pc
  BY SetPhaseFields DEF OthersStay
<1>2. \A d \in Callers : call[d].pc \in HasTurn => lock = d
  BY DEF TurnInv
<1>3. waiters' \cup released' \subseteq Callers /\ waiters' \cup released' \subseteq waiters \cup released
  BY DEF Done, TypeOK
<1>4. \A d \in Callers : call[d].pc \notin {"pick", "reserve", "create"}
  BY <1>2 DEF HasTurn
<1>5. released' # {} => pendingNodesWG' = {}
  BY DEF Done, TurnInv
<1> QED
  BY <1>1, <1>2, <1>3, <1>4, <1>5 DEF TurnInv

LEMMA TurnCrash ==
  ASSUME TypeOK, TurnInv, Crash
  PROVE  TurnInv'
<1>1. \A d \in Callers : call'[d].pc = "dead"
  BY CrashFields
<1>2. UNCHANGED waitGroup
  BY DEF Crash
<1> QED
  BY <1>1, <1>2 DEF TurnInv, HasTurn, waitGroup, TypeOK, InTurn

LEMMA TurnInit == Init => TurnInv
<1> SUFFICES ASSUME Init PROVE TurnInv
  OBVIOUS
<1>1. \A c \in Callers : call[c].pc = "idle"
  BY DEF Init, NoCall
<1> QED
  BY <1>1 DEF Init, TurnInv, HasTurn

LEMMA TurnRequest ==
  ASSUME TypeOK, TurnInv, NEW c \in Callers, Request(c)
  PROVE  TurnInv'
<1> SUFFICES ASSUME InTurn PROVE TurnInv'
  BY DEF TurnInv, InTurn
<1>1. ~(\E kind \in {"worker", "master"} : AddManagedNode(c, kind))
  BY DEF AddManagedNode, InTurn
<1>2. call'[c].pc \notin HasTurn
  <2>1. call \in [Callers -> Call]
    BY DEF TypeOK
  <2>2. \A delta : IncreaseSize(c, delta) => call'[c].pc = "resize"
    BY <2>1 DEF IncreaseSize, NoCall
  <2>3. \A delta : DecreaseTargetSize(c, delta) => call'[c].pc = "resize"
    BY <2>1 DEF DecreaseTargetSize, NoCall
  <2>4. \A names : DeleteNodes(c, names) => call'[c].pc = "delete"
    BY <2>1 DEF DeleteNodes, NoCall
  <2>5. \A n : DeleteManagedNode(c, n) => call'[c].pc = "delete"
    BY <2>1 DEF DeleteManagedNode, NoCall
  <2>6. Cleanup(c) => call'[c].pc = "drainWG"
    BY <2>1 DEF Cleanup, NoCall
  <2>7. call'[c].pc \in {"resize", "delete", "drainWG"}
    BY <1>1, <2>2, <2>3, <2>4, <2>5, <2>6, Zenon DEF Request
  <2> QED
    BY <2>7 DEF HasTurn
<1>3. /\ OthersStay(c) /\ call[c].pc = "idle"
      /\ UNCHANGED <<pendingNodesWG, waiters, released, lock>>
  BY RequestFields DEF waitGroup
<1>4. "pick" \in HasTurn /\ "reserve" \in HasTurn /\ "create" \in HasTurn
  BY DEF HasTurn
<1> QED
  BY <1>2, <1>3, <1>4, TurnKept

LEMMA TurnResize ==
  ASSUME TypeOK, CleanupInv, TurnInv, NEW c \in Callers, Resize(c)
  PROVE  TurnInv'
<1> SUFFICES ASSUME InTurn PROVE TurnInv'
  BY DEF TurnInv, InTurn
<1>1. call[c].pc = "resize" /\ lock = NoCaller /\ FrontEnd = "grpc"
  BY DEF Resize, GrowRefused, Grow, Keep, Shrink, ShrinkPanics, CanResize, InTurn
<1>2. CASE Return(c) /\ ~Grow(c)
  <2>1. UNCHANGED <<pendingNodesWG, waiters, released, lock>>
    BY <1>1, <1>2 DEF Resize, GrowRefused, Keep, Shrink, ShrinkPanics, Crash, waitGroup
  <2>2. OthersStay(c) /\ call'[c].pc = "idle"
    BY <1>2, ReturnFields
  <2> QED
    BY <1>1, <2>1, <2>2, TurnKept DEF HasTurn
<1>3. CASE Grow(c)
  <2>1. /\ status = "Created" /\ lock' = c /\ UNCHANGED <<pendingNodesWG, waiters, released>>
        /\ OthersStay(c) /\ call'[c].pc = "pick"
    <3>1. call \in [Callers -> Call] /\ call[c] \in Call
      BY CallType DEF TypeOK
    <3> QED
      BY <1>3, <3>1 DEF Grow, waitGroup, OthersStay, Call
  <2>2. ~crashed
    BY <1>1 DEF CleanupInv, DeadInv
  <2>3. released = {}
    BY <1>1, <2>1, <2>2, NobodyReleased
  <2>4. \A d \in Callers : d # c => call'[d] = call[d]
    BY <2>1 DEF OthersStay
  <2>5. \A d \in Callers : call[d].pc \notin HasTurn
    BY <1>1, NodeGroupAssumption DEF TurnInv
  <2>6. c \notin waiters
    BY <1>1 DEF TurnInv
  <2>7. \A d \in waiters' \cup released' : d \in Callers /\ d # c /\ call[d].pc \in {"wait", "drainWG", "dead"}
    BY <2>1, <2>3, <2>6 DEF TurnInv, TypeOK
  <2> QED
    BY <2>1, <2>3, <2>4, <2>5, <2>7 DEF TurnInv
<1>4. CASE ShrinkPanics(c)
  BY <1>4, TurnCrash DEF ShrinkPanics
<1> QED
  BY <1>1, <1>2, <1>3, <1>4 DEF Resize, GrowRefused, Keep, Shrink

LEMMA TurnNodeStep ==
  ASSUME TypeOK, CleanupInv, TurnInv, NEW c \in Callers, NEW o \in Objects, NodeStep(c, o)
  PROVE  TurnInv'
<1>0. /\ call[c].run[o] # "none" => call[c].pc \in {"launch", "destroy", "delete", "cleanup"}
      /\ call[c].run[o] \in LaunchPhase => call[c].pc = "launch"
  BY DEF CleanupInv, WorkInv
<1> DEFINE Kept == /\ OthersStay(c) /\ UNCHANGED <<pendingNodesWG, waiters, released, lock>>
                   /\ call[c].pc \in {"launch", "destroy", "delete", "cleanup"}
                   /\ call'[c].pc \in {call[c].pc, "idle"}
<1>1. Kept => TurnInv'
  <2> HAVE Kept
  <2>1. call'[c].pc \in HasTurn => call'[c].pc = call[c].pc
    BY DEF HasTurn
  <2> QED
    BY <2>1, TurnKept
<1>2. ASSUME NEW p, SetPhase(c, o, p), UNCHANGED <<waitGroup, lock>>,
             call[c].pc \in {"launch", "destroy", "delete", "cleanup"}
      PROVE  Kept
  BY <1>2, SetPhaseFields DEF waitGroup
<1> HIDE DEF Kept
<1>3. CASE CreateNodeRefused(c, o) \/ LaunchSucceeds(c, o) \/ LaunchCleaned(c, o)
  <2>1. SetPhase(c, o, "none") /\ Done(c, o) /\ UNCHANGED lock
    BY <1>3 DEF CreateNodeRefused, LaunchSucceeds, LaunchCleaned
  <2>2. call[c].pc = "launch"
    BY <1>0, <1>3, PhaseSets DEF CreateNodeRefused, LaunchSucceeds, LaunchCleaned
  <2> QED
    BY <2>1, <2>2, TurnDone
<1>4. CASE LaunchVM(c, o) \/ InstanceCreate(c, o) \/ NodeJoins(c, o) \/ InstanceStatus(c, o) \/ InstancePowerOff(c, o)
  <2>1. /\ \E p : SetPhase(c, o, p)
        /\ UNCHANGED <<waitGroup, lock>> /\ call[c].run[o] # "none"
    BY <1>4 DEF LaunchVM, InstanceCreate, NodeJoins, InstanceStatus, InstancePowerOff
  <2> QED
    BY <1>0, <1>1, <1>2, <2>1
<1>5. CASE LaunchFails(c, o)
  <2>1. /\ \E p : SetPhase(c, o, p)
        /\ UNCHANGED <<waitGroup, lock>> /\ call[c].run[o] # "none"
    BY <1>5 DEF LaunchFails, CleanOnLaunchError
  <2> QED
    BY <1>0, <1>1, <1>2, <2>1
<1>6. CASE NodeDestroyed(c, o) \/ CleanupNodeEnds(c, o)
  <2>1. /\ \E p : SetPhase(c, o, p)
        /\ UNCHANGED <<waitGroup, lock>> /\ call[c].pc \in {"destroy", "cleanup"}
    BY <1>6 DEF NodeDestroyed, CleanupNodeEnds
  <2> QED
    BY <1>1, <1>2, <2>1
<1>7. CASE DestroyNode(c, o) \/ CleanupNode(c, o)
  <2>1. StartDeleteVM(c, o) /\ UNCHANGED <<waitGroup, lock>> /\ call[c].pc \in {"destroy", "cleanup"}
    BY <1>7 DEF DestroyNode, CleanupNode, StartDelete
  <2>2. Kept
    BY <2>1, StartDeleteVMFields DEF Kept, waitGroup
  <2> QED
    BY <1>1, <2>2
<1>8. CASE NodeDeleted(c, o)
  <2>1. UNCHANGED <<waitGroup, lock>> /\ call[c].pc = "delete" /\ (SetPhase(c, o, "none") \/ DeleteError(c, node[o].name))
    BY <1>8 DEF NodeDeleted
  <2>2. CASE DeleteError(c, node[o].name)
    <3>1. Kept
      BY <2>1, <2>2, DeleteErrorFields DEF Kept, waitGroup
    <3> QED
      BY <1>1, <3>1
  <2> QED
    BY <1>1, <1>2, <2>1, <2>2
<1> QED
  BY <1>3, <1>4, <1>5, <1>6, <1>7, <1>8 DEF NodeStep

LEMMA TurnStep ==
  ASSUME TypeOK, CleanupInv, TurnInv, NEW c \in Callers, Step(c)
  PROVE  TurnInv'
<1>0. call \in [Callers -> Call] /\ call[c] \in Call
  BY CallType DEF TypeOK
<1> SUFFICES ASSUME InTurn PROVE TurnInv'
  BY DEF TurnInv, InTurn
<1>1. CASE PickNode(c)
  <2>1. /\ call[c].pc = "pick" /\ call'[c].pc = "reserve" /\ OthersStay(c)
        /\ UNCHANGED <<pendingNodesWG, waiters, released, lock>>
    BY <1>0, <1>1 DEF PickNode, OthersStay, Call, waitGroup
  <2> QED
    BY <2>1, TurnKept DEF HasTurn
<1>2. CASE ReserveNode(c)
  <2>1. /\ UNCHANGED <<pendingNodesWG, waiters, released, lock>> /\ call[c].pc = "reserve"
        /\ \E o \in Objects, next \in {"pick", "create"} :
             call' = [call EXCEPT ![c].pc = next, ![c].need = @ - 1, ![c].todo = @ \cup {o}]
    <3>1. (CHOOSE x \in FreeObjects : TRUE) \in Objects
      BY <1>2 DEF ReserveNode, FreeObjects
    <3> QED
      BY <1>2, <3>1 DEF ReserveNode, InTurn, waitGroup
  <2>2. OthersStay(c) /\ call'[c].pc \in {"pick", "create"}
    BY <1>0, <2>1 DEF OthersStay, Call
  <2> QED
    BY <2>1, <2>2, TurnKept DEF HasTurn
<1>3. CASE ReserveFails(c) \/ DestroyNodesReturns(c) \/ DeleteNodesReturns(c)
  <2>1. /\ UNCHANGED <<pendingNodesWG, waiters, released>> /\ call[c].pc \in {"reserve", "destroy", "delete"}
        /\ Return(c) /\ lock' \in {lock, Unlocked(c)}
    BY <1>3 DEF ReserveFails, DestroyNodesReturns, DeleteNodesReturns, waitGroup
  <2> QED
    BY <2>1, ReturnFields, TurnKept DEF HasTurn, Unlocked
<1>4. CASE CreateNodes(c)
  <2>1. /\ call[c].pc = "create" /\ call'[c].pc = "launch" /\ OthersStay(c)
        /\ UNCHANGED <<waiters, released, lock>>
    BY <1>4, GotoFields DEF CreateNodes
  <2>2. released = {}
    BY <2>1 DEF TurnInv
  <2>3. \A d \in Callers : d # c => call'[d] = call[d]
    BY <2>1 DEF OthersStay
  <2>4. \A d \in waiters' : d \in Callers /\ call[d].pc \in {"wait", "drainWG", "dead"}
    BY <2>1 DEF TurnInv, TypeOK
  <2>5. \A d \in waiters' : call'[d].pc \in {"wait", "drainWG", "dead"}
    BY <2>1, <2>3, <2>4
  <2>6. \A d \in Callers : call'[d].pc \in HasTurn => lock' = d
    BY <2>1, <2>3 DEF TurnInv, HasTurn
  <2> QED
    BY <2>1, <2>2, <2>5, <2>6 DEF TurnInv
<1>5. CASE StartCycle(c) \/ CreateNodesEnds(c)
  <2>1. /\ call[c].pc = "launch" /\ call'[c].pc \in {"launch", "wait"} /\ OthersStay(c)
        /\ UNCHANGED <<pendingNodesWG, waiters, released, lock>>
    <3>1. CASE StartCycle(c)
      BY <1>0, <3>1 DEF StartCycle, OthersStay, Call, waitGroup
    <3>2. CASE CreateNodesEnds(c)
      BY <3>2, GotoFields DEF CreateNodesEnds, waitGroup
    <3> QED
      BY <1>5, <3>1, <3>2
  <2> QED
    BY <2>1, TurnKept DEF HasTurn
<1>6. CASE Wait(c)
  BY <1>6 DEF Wait, AtWait, TurnInv
<1>7. CASE CreateNodesReturns(c)
  <2>1. /\ UNCHANGED <<pendingNodesWG, waiters>> /\ call[c].pc = "wait" /\ c \notin waiters
        /\ released' = released \ {c} /\ Return(c) /\ lock' = Unlocked(c)
    BY <1>7 DEF CreateNodesReturns, Waited, AtWait
  <2> QED
    BY <2>1, ReturnFields, TurnKept DEF HasTurn, Unlocked
<1>8. CASE CleanupWaited(c)
  <2>1. /\ UNCHANGED <<pendingNodesWG, waiters, lock>> /\ call[c].pc = "drainWG" /\ c \notin waiters
        /\ released' = released \ {c} /\ OthersStay(c) /\ call'[c].pc = "cleanup"
    BY <1>0, <1>8 DEF CleanupWaited, Waited, AtWait, OthersStay, Call
  <2> QED
    BY <2>1, TurnKept DEF HasTurn
<1>9. CASE CleanupReturns(c)
  <2>1. /\ UNCHANGED <<pendingNodesWG, waiters, released, lock>> /\ call[c].pc = "cleanup" /\ Return(c)
    BY <1>9 DEF CleanupReturns, waitGroup
  <2> QED
    BY <2>1, ReturnFields, TurnKept DEF HasTurn
<1>10. ASSUME NEW n \in call[c].victims, DeleteNodeByName(c, n) PROVE TurnInv'
  <2>1. Named(n) \in Objects
    BY <1>10 DEF DeleteNodeByName, Named, Tracked, TypeOK, IsMap
  <2>2. /\ UNCHANGED <<pendingNodesWG, waiters, released, lock>> /\ call[c].pc = "delete" /\ StartDeleteVM(c, Named(n))
    BY <1>10 DEF DeleteNodeByName, StartDelete, waitGroup
  <2> QED
    BY <2>1, <2>2, StartDeleteVMFields, TurnKept DEF HasTurn
<1>11. ASSUME NEW n \in call[c].victims, DeleteNodeRefused(c, n) PROVE TurnInv'
  <2>1. /\ UNCHANGED <<pendingNodesWG, waiters, released, lock>> /\ call[c].pc = "delete" /\ DeleteError(c, n)
    BY <1>11 DEF DeleteNodeRefused, waitGroup
  <2> QED
    BY <2>1, DeleteErrorFields, TurnKept DEF HasTurn
<1> QED
  BY <1>1, <1>2, <1>3, <1>4, <1>5, <1>6, <1>7, <1>8, <1>9, <1>10, <1>11, TurnResize, TurnNodeStep DEF Step

LEMMA TurnNext == TypeOK /\ CleanupInv /\ TurnInv /\ [Next]_vars => TurnInv'
<1> SUFFICES ASSUME TypeOK, CleanupInv, TurnInv, [Next]_vars PROVE TurnInv'
  OBVIOUS
<1>1. ASSUME NEW c \in Callers, Panic(c) PROVE TurnInv'
  BY <1>1, TurnCrash DEF Panic, CreateNodesPanics, WaitPanics
<1>2. CASE UNCHANGED <<call, waitGroup, lock>>
  BY <1>2 DEF TurnInv, waitGroup, InTurn
<1>3. ASSUME NEW o \in Objects, Refresh(o) PROVE TurnInv'
  BY <1>2, <1>3 DEF Refresh
<1>4. CASE UNCHANGED vars
  BY <1>2, <1>4 DEF vars, waitGroup
<1> QED
  BY <1>1, <1>3, <1>4, TurnRequest, TurnStep DEF Next

LEMMA TurnInvariant == Spec => []TurnInv
<1>1. TypeOK /\ CleanupInv /\ TurnInv /\ [Next]_vars => TurnInv'
  BY TurnNext
<1> QED
  BY <1>1, TurnInit, TypeCorrect, CleanupInvariant, PTL DEF Spec

\* With the grpc front end, which launches the nodes under the lock, no creation starts before
\* everybody who waited for the former ones has returned: Go's WaitGroup does not panic.
THEOREM NodeGroupWaitGroupNotReused == Spec => [](InTurn => WaitGroupNotReused)
<1>1. TurnInv => (InTurn => WaitGroupNotReused)
  BY DEF TurnInv, WaitGroupNotReused
<1> QED
  BY <1>1, TurnInvariant, PTL

-----------------------------------------------------------------------------
(* The requests, the size and the node objects, whether the group is being  *)
(* cleaned up or not                                                        *)

BasicInv == CallInv /\ SizeInv /\ FreshInv /\ AllocInv

\* A node object keeps its name and its index once it is allocated.
SameObjects ==
  \A o \in Objects : node[o].state # "Unallocated" =>
    /\ node'[o].state # "Unallocated"
    /\ node'[o].name = node[o].name /\ node'[o].index = node[o].index

LEMMA ClaimedFinite ==
  ASSUME TypeOK, IsFiniteSet(vms)
  PROVE  /\ IsFiniteSet(Claimed) /\ IsFiniteSet(Tracked)
         /\ Cardinality(Claimed) \in Nat /\ Cardinality(Tracked) \in Nat
<1>1. IsFiniteSet(DOMAIN nodes) /\ IsFiniteSet(DOMAIN pendingNodes)
  BY DEF TypeOK, IsMap
<1>2. IsFiniteSet(Tracked)
  BY <1>1, FS_Union DEF Tracked
<1>3. IsFiniteSet(Claimed)
  BY <1>2, FS_Union DEF Claimed
<1> QED
  BY <1>2, <1>3, FS_CardinalityType

\* A step of c that takes no name.
LEMMA BasicKept ==
  ASSUME TypeOK, BasicInv, NEW c \in Callers, OthersStay(c), SameObjects,
         Claimed' \subseteq Claimed, AllNodes' \subseteq AllNodes,
         \A d \in Callers \ {c} : lock = d => lock' = d,
         CallOK(c)',
         Reserving(c)' => Cardinality(Claimed) + call'[c].need <= MaxNodeSize,
         call'[c].pc = "reserve" => call'[c].name \notin Claimed,
         \A o \in Objects : o \in call'[c].todo \/ call'[c].run[o] # "none" =>
                              node[o].state # "Unallocated",
         TypeOK'
  PROVE  BasicInv'
<1>1. \A d \in Callers : d # c => call'[d] = call[d]
  BY DEF OthersStay
<1>2. CallInv'
  <2> SUFFICES ASSUME NEW d \in Callers, d # c PROVE CallOK(d)'
    BY DEF CallInv
  <2>1. CallOK(d) /\ call'[d] = call[d] /\ (lock = d => lock' = d)
    BY <1>1 DEF BasicInv, CallInv
  <2> QED
    BY <2>1 DEF CallOK, Reserving, Dying
<1>3. SizeInv'
  <2>1. IsFiniteSet(Claimed) /\ Cardinality(Claimed) \in Nat
    BY ClaimedFinite DEF BasicInv, SizeInv
  <2>2. /\ IsFiniteSet(Claimed') /\ Cardinality(Claimed') \in Nat
        /\ Cardinality(Claimed') <= Cardinality(Claimed)
    BY <2>1, FS_Subset, FS_CardinalityType
  <2>3. IsFiniteSet(vms')
    <3>1. vms' \subseteq Claimed'
      BY DEF Claimed
    <3> QED
      BY <2>2, <3>1, FS_Subset
  <2>4. MaxNodeSize \in Nat /\ \A d \in Callers : call[d].need \in Int /\ call'[d].need \in Int
    <3>1. \A d \in Callers : call[d] \in Call /\ call'[d] \in Call
      BY DEF TypeOK
    <3> QED
      BY <3>1, NodeGroupAssumption DEF Call
  <2>5. Cardinality(Claimed) <= MaxNodeSize
    BY DEF BasicInv, SizeInv
  <2>6. ASSUME NEW d \in Callers, Reserving(d)' PROVE Cardinality(Claimed') + call'[d].need <= MaxNodeSize
    <3>1. Cardinality(Claimed) + call'[d].need <= MaxNodeSize
      <4>1. CASE d = c
        BY <2>6, <4>1
      <4>2. CASE d # c
        BY <1>1, <2>6, <4>2 DEF BasicInv, SizeInv, Reserving
      <4> QED
        BY <4>1, <4>2
    <3> QED
      BY <2>1, <2>2, <2>4, <3>1
  <2>7. Cardinality(Claimed') <= MaxNodeSize
    BY <2>1, <2>2, <2>4, <2>5
  <2> QED
    BY <2>3, <2>6, <2>7 DEF SizeInv
<1>4. FreshInv'
  BY <1>1 DEF BasicInv, FreshInv
<1>5. AllocInv'
  <2>1. \A o \in AllNodes : o \in Objects /\ node[o].state # "Unallocated"
    BY DEF AllNodes, PendingObjects, BasicInv, AllocInv, TypeOK, IsMap
  <2>2. \A o \in AllNodes' : node'[o].state # "Unallocated"
    BY <2>1 DEF SameObjects
  <2>3. /\ \A n \in DOMAIN nodes' : node'[nodes'[n]].state # "Unallocated"
        /\ \A n \in DOMAIN pendingNodes' : node'[pendingNodes'[n]].state # "Unallocated"
    BY <2>2 DEF AllNodes, PendingObjects
  <2>4. \A d \in Callers, o \in Objects :
          o \in call'[d].todo \/ call'[d].run[o] # "none" => node'[o].state # "Unallocated"
    BY <1>1 DEF BasicInv, AllocInv, SameObjects
  <2> QED
    BY <2>3, <2>4 DEF AllocInv
<1> QED
  BY <1>2, <1>3, <1>4, <1>5 DEF BasicInv

\* What the rest of the invariant is proved from.
Books == Orderly /\ TypeOK /\ CleanupInv /\ BasicInv /\ (Open => OpenInv)

LEMMA BasicInit == Init => BasicInv
<1> SUFFICES ASSUME Init PROVE BasicInv
  OBVIOUS
<1>1. \A c \in Callers : /\ call[c].pc = "idle" /\ call[c].req = "none" /\ call[c].todo = {}
                         /\ call[c].victims = {} /\ \A o \in Objects : call[c].run[o] = "none"
  BY DEF Init, NoCall
<1>2. DOMAIN nodes = {} /\ DOMAIN pendingNodes = {} /\ vms = {}
  BY DEF Init, EmptyMap
<1>3. CallInv
  BY <1>1 DEF CallInv, CallOK, Reserving, Dying
<1>4. SizeInv
  <2>1. Claimed = {}
    BY <1>2 DEF Claimed, Tracked
  <2>2. IsFiniteSet(Claimed) /\ Cardinality(Claimed) = 0
    BY <2>1, FS_EmptySet
  <2>3. \A c \in Callers : ~Reserving(c)
    BY <1>1 DEF Reserving
  <2> QED
    BY <1>2, <2>1, <2>2, <2>3, NodeGroupAssumption DEF SizeInv
<1>5. FreshInv /\ AllocInv
  BY <1>1, <1>2 DEF FreshInv, AllocInv
<1> QED
  BY <1>3, <1>4, <1>5 DEF BasicInv

LEMMA BasicCrash ==
  ASSUME BasicInv, Crash
  PROVE  BasicInv'
<1>1. \A c \in Callers : /\ call'[c].pc = "dead" /\ call'[c].req = "none" /\ call'[c].todo = {}
                         /\ call'[c].victims = {} /\ \A o \in Objects : call'[c].run[o] = "none"
  BY DEF Crash, NoCall
<1>2. UNCHANGED <<nodes, pendingNodes, node, vms>>
  BY DEF Crash, group
<1>3. CallInv'
  BY <1>1 DEF CallInv, CallOK, Reserving, Dying
<1>4. SizeInv'
  BY <1>1, <1>2 DEF BasicInv, SizeInv, Reserving, Claimed, Tracked
<1>5. FreshInv' /\ AllocInv'
  BY <1>1, <1>2 DEF BasicInv, FreshInv, AllocInv
<1> QED
  BY <1>3, <1>4, <1>5 DEF BasicInv

LEMMA SetStateFields ==
  ASSUME TypeOK, NEW o \in Objects, NEW s, SetState(o, s)
  PROVE  \A q \in Objects : /\ node'[q].name = node[q].name /\ node'[q].index = node[q].index
                            /\ node'[q].state = IF q = o THEN s ELSE node[q].state
<1>1. node \in [Objects -> NodeObject]
  BY DEF TypeOK
<1>2. \A q \in Objects : node[q] \in NodeObject
  BY <1>1
<1> QED
  BY <1>1, <1>2 DEF SetState, NodeObject

\* What VMDeleted and VMNotDeleted do to the node.
LEMMA VMDeletedFields ==
  ASSUME TypeOK, NEW c \in Callers, NEW o \in Objects, VMDeleted(c, o) \/ VMNotDeleted(c, o)
  PROVE  /\ SameObjects /\ vms' \subseteq vms
         /\ call[c].run[o] \in {"deleting", "racing", "stopped", "refused"}
         /\ \A q \in Objects : node'[q].name = node[q].name /\ node'[q].index = node[q].index
<1>1. CASE VMDeleted(c, o)
  BY <1>1, SetStateFields DEF VMDeleted, SameObjects
<1>2. CASE VMNotDeleted(c, o)
  BY <1>2 DEF VMNotDeleted, SameObjects
<1> QED
  BY <1>1, <1>2

\* A step that changes neither map, ...
LEMMA SameMaps ==
  ASSUME UNCHANGED <<nodes, pendingNodes>>, vms' \subseteq vms
  PROVE  Claimed' \subseteq Claimed /\ AllNodes' \subseteq AllNodes /\ Tracked' = Tracked
BY DEF Claimed, Tracked, AllNodes, PendingObjects

\* ... or takes a name out of them.
LEMMA SmallerMaps ==
  ASSUME TypeOK, NEW n, nodes' \in {nodes, Del(nodes, n)}, pendingNodes' \in {pendingNodes, Del(pendingNodes, n)},
         vms' \subseteq vms
  PROVE  Claimed' \subseteq Claimed /\ AllNodes' \subseteq AllNodes /\ Tracked' \subseteq Tracked
<1>1. DOMAIN nodes' \subseteq DOMAIN nodes /\ \A x \in DOMAIN nodes' : nodes'[x] = nodes[x]
  <2>1. DOMAIN Del(nodes, n) = DOMAIN nodes \ {n} /\ \A x \in DOMAIN nodes \ {n} : Del(nodes, n)[x] = nodes[x]
    BY DelMap DEF TypeOK
  <2>2. CASE nodes' = nodes
    BY <2>2
  <2>3. CASE nodes' = Del(nodes, n)
    BY <2>1, <2>3
  <2> QED
    BY <2>2, <2>3
<1>2. DOMAIN pendingNodes' \subseteq DOMAIN pendingNodes /\ \A x \in DOMAIN pendingNodes' : pendingNodes'[x] = pendingNodes[x]
  <2>1. DOMAIN Del(pendingNodes, n) = DOMAIN pendingNodes \ {n} /\ \A x \in DOMAIN pendingNodes \ {n} : Del(pendingNodes, n)[x] = pendingNodes[x]
    BY DelMap DEF TypeOK
  <2>2. CASE pendingNodes' = pendingNodes
    BY <2>2
  <2>3. CASE pendingNodes' = Del(pendingNodes, n)
    BY <2>1, <2>3
  <2> QED
    BY <2>2, <2>3
<1> QED
  BY <1>1, <1>2 DEF Claimed, Tracked, AllNodes, PendingObjects

\* The goroutine of a node goes on, or ends.
LEMMA BasicPhase ==
  ASSUME TypeOK, TypeOK', CleanupInv, BasicInv, NEW c \in Callers, NEW o \in Objects, NEW p,
         SetPhase(c, o, p), call[c].run[o] # "none", UNCHANGED lock,
         SameObjects, Claimed' \subseteq Claimed, AllNodes' \subseteq AllNodes
  PROVE  BasicInv'
<1>1. /\ OthersStay(c) /\ SameRequest(c)
      /\ call'[c].pc = call[c].pc /\ call'[c].need = call[c].need
      /\ call'[c].todo = call[c].todo /\ call'[c].victims = call[c].victims
      /\ \A q \in Objects : call'[c].run[q] = IF q = o THEN p ELSE call[c].run[q]
  BY SetPhaseFields
<1>2. call[c].pc \in {"launch", "destroy", "delete", "cleanup"}
  BY DEF CleanupInv, WorkInv
<1>3. \A q \in Objects : call'[c].run[q] # "none" => call[c].run[q] # "none"
  BY <1>1
<1>4. CallOK(c)'
  <2>1. CallOK(c)
    BY DEF BasicInv, CallInv
  <2> QED
    BY <1>1, <1>2, <1>3, <2>1 DEF CallOK, Reserving, Dying, SameRequest
<1>5. \A q \in Objects : q \in call'[c].todo \/ call'[c].run[q] # "none" => node[q].state # "Unallocated"
  BY <1>1, <1>3 DEF BasicInv, AllocInv
<1>6. ~Reserving(c)' /\ call'[c].pc # "reserve"
  BY <1>1, <1>2 DEF Reserving
<1> QED
  BY <1>1, <1>4, <1>5, <1>6, BasicKept

\* A step that ends what c does, or hands it on to another stage where it reserves nothing.
LEMMA BasicMoves ==
  ASSUME TypeOK, TypeOK', BasicInv, NEW c \in Callers, OthersStay(c),
         UNCHANGED <<nodes, pendingNodes, node, vms>>,
         \A d \in Callers \ {c} : lock = d => lock' = d,
         call'[c].pc \notin {"resize", "pick", "reserve", "destroy"},
         call'[c].req \in {"none", call[c].req},
         call'[c].victims \subseteq call[c].victims, call'[c].victims # {} => call'[c].pc = "delete",
         \A o \in Objects : /\ o \in call'[c].todo => o \in call[c].todo \/ o \in AllNodes
                            /\ call'[c].run[o] # "none" => o \in call[c].todo \/ call[c].run[o] # "none",
         call'[c].pc = "delete" => \A o \in Objects : call'[c].run[o] = "none"
  PROVE  BasicInv'
<1>1. CallOK(c)'
  <2>1. CallOK(c)
    BY DEF BasicInv, CallInv
  <2> QED
    BY <2>1 DEF CallOK, Reserving, Dying
<1>2. \A o \in AllNodes : o \in Objects /\ node[o].state # "Unallocated"
  BY DEF AllNodes, PendingObjects, BasicInv, AllocInv, TypeOK, IsMap
<1>3. \A o \in Objects : o \in call'[c].todo \/ call'[c].run[o] # "none" => node[o].state # "Unallocated"
  BY <1>2 DEF BasicInv, AllocInv
<1>4. ~Reserving(c)' /\ call'[c].pc # "reserve"
  BY DEF Reserving
<1>5. SameObjects /\ Claimed' \subseteq Claimed /\ AllNodes' \subseteq AllNodes
  BY SameMaps DEF SameObjects
<1> QED
  BY <1>1, <1>3, <1>4, <1>5, BasicKept

-----------------------------------------------------------------------------
(* ... and the steps one by one *)

LEMMA BasicRequest ==
  ASSUME TypeOK, TypeOK', Orderly, BasicInv, NEW c \in Callers, Request(c)
  PROVE  BasicInv'
<1>0. call \in [Callers -> Call]
  BY DEF TypeOK
<1>1. /\ OthersStay(c) /\ call[c].pc = "idle" /\ call'[c].todo = {}
      /\ \A o \in Objects : call'[c].run[o] = "none"
      /\ UNCHANGED <<lock, node, vms, nodes, pendingNodes>>
  BY RequestFields
<1> DEFINE Sizes == /\ call'[c].pc = "resize" /\ call'[c].victims = {}
                    /\ call'[c].name[1] = "autoscaled"
                    /\ call'[c].req \in {"increase", "decrease"}
                    /\ call'[c].req = "decrease" => FrontEnd = "grpc"
           Deletes == call'[c].pc \in {"delete", "drainWG"} /\ call'[c].req \in {"delete", "cleanup"}
<1>2. Sizes \/ Deletes
  <2>1. ASSUME NEW delta, IncreaseSize(c, delta) PROVE Sizes
    BY <1>0, <2>1 DEF IncreaseSize, NoCall, NoName
  <2>2. ASSUME NEW delta, DecreaseTargetSize(c, delta) PROVE Sizes
    <3>1. FrontEnd = "grpc"
      BY <2>2 DEF DecreaseTargetSize, Orderly
    <3> QED
      BY <1>0, <2>2, <3>1 DEF DecreaseTargetSize, NoCall, NoName
  <2>3. ASSUME NEW names, DeleteNodes(c, names) PROVE Deletes
    BY <1>0, <2>3 DEF DeleteNodes, NoCall
  <2>4. ASSUME NEW kind, AddManagedNode(c, kind) PROVE FALSE
    BY <2>4 DEF AddManagedNode, Orderly
  <2>5. ASSUME NEW n, DeleteManagedNode(c, n) PROVE FALSE
    BY <2>5 DEF DeleteManagedNode, Orderly
  <2>6. ASSUME Cleanup(c) PROVE Deletes
    BY <1>0, <2>6 DEF Cleanup, NoCall
  <2> QED
    BY <2>1, <2>2, <2>3, <2>4, <2>5, <2>6, Zenon DEF Request
<1>3. call'[c].victims # {} => call'[c].pc = "delete"
  <2>1. ASSUME Cleanup(c) PROVE call'[c].victims = {}
    BY <1>0, <2>1 DEF Cleanup, NoCall
  <2>2. ASSUME NEW names, DeleteNodes(c, names) PROVE call'[c].pc = "delete"
    BY <1>0, <2>2 DEF DeleteNodes, NoCall
  <2>3. ASSUME NEW delta, IncreaseSize(c, delta) PROVE call'[c].victims = {}
    BY <1>0, <2>3 DEF IncreaseSize, NoCall
  <2>4. ASSUME NEW delta, DecreaseTargetSize(c, delta) PROVE call'[c].victims = {}
    BY <1>0, <2>4 DEF DecreaseTargetSize, NoCall
  <2>5. ASSUME NEW n, DeleteManagedNode(c, n) \/ AddManagedNode(c, n) PROVE FALSE
    BY <2>5 DEF DeleteManagedNode, AddManagedNode, Orderly
  <2> QED
    BY <2>1, <2>2, <2>3, <2>4, <2>5, Zenon DEF Request
<1>4. CallOK(c)'
  BY <1>1, <1>2, <1>3 DEF CallOK, Reserving, Dying
<1>5. ~Reserving(c)' /\ call'[c].pc # "reserve"
  BY <1>2 DEF Reserving
<1>6. SameObjects /\ Claimed' \subseteq Claimed /\ AllNodes' \subseteq AllNodes
  BY <1>1, SameMaps DEF SameObjects
<1> QED
  BY <1>1, <1>4, <1>5, <1>6, BasicKept

\* A group that may grow is not being cleaned up.
LEMMA CreatedIsOpen ==
  ASSUME CleanupInv, NEW c \in Callers, call[c].pc # "dead", status = "Created"
  PROVE  Open
BY DEF CleanupInv, DeadInv, StatusInv, Open

\* Its size is the number of its names, those of its VMs included.
LEMMA SizeIsClaimed ==
  ASSUME TypeOK, NameInv, vms \subseteq Tracked
  PROVE  Claimed = Tracked /\ targetSize = Cardinality(Claimed)
<1>1. IsFiniteSet(DOMAIN nodes) /\ IsFiniteSet(DOMAIN pendingNodes)
  BY DEF TypeOK, IsMap
<1>2. Claimed = Tracked
  BY DEF Claimed
<1>3. Cardinality(Tracked) = Cardinality(DOMAIN nodes) + Cardinality(DOMAIN pendingNodes) - Cardinality(DOMAIN nodes \cap DOMAIN pendingNodes)
  BY <1>1, FS_Union DEF Tracked
<1>4. Cardinality(DOMAIN nodes \cap DOMAIN pendingNodes) = 0
  BY FS_EmptySet DEF NameInv
<1>5. Cardinality(DOMAIN nodes) \in Nat /\ Cardinality(DOMAIN pendingNodes) \in Nat
  BY <1>1, FS_CardinalityType
<1> QED
  BY <1>2, <1>3, <1>4, <1>5 DEF targetSize

LEMMA GrowFields ==
  ASSUME TypeOK, NEW c \in Callers, Grow(c)
  PROVE  /\ OthersStay(c) /\ SameRequest(c)
         /\ call[c].pc = "resize" /\ call'[c].pc = "pick" /\ call'[c].need = Delta(c) /\ Delta(c) > 0
         /\ call'[c].todo = call[c].todo /\ call'[c].victims = call[c].victims
         /\ call'[c].run = call[c].run
         /\ lock = NoCaller /\ lock' = c /\ status = "Created"
         /\ UNCHANGED <<group, waitGroup, node, vms>>
<1>1. call \in [Callers -> Call] /\ call[c] \in Call
  BY CallType DEF TypeOK
<1> QED
  BY <1>1 DEF Grow, CanResize, OthersStay, Call, SameRequest

LEMMA BasicGrow ==
  ASSUME Books, TypeOK', NEW c \in Callers, Grow(c)
  PROVE  BasicInv'
<1>0. TypeOK /\ CleanupInv /\ BasicInv /\ (Open => OpenInv)
  BY DEF Books
<1>1. /\ OthersStay(c) /\ SameRequest(c)
      /\ call[c].pc = "resize" /\ call'[c].pc = "pick" /\ call'[c].need = Delta(c) /\ Delta(c) > 0
      /\ call'[c].todo = call[c].todo /\ call'[c].victims = call[c].victims
      /\ call'[c].run = call[c].run
      /\ lock = NoCaller /\ lock' = c /\ status = "Created"
      /\ UNCHANGED <<nodes, pendingNodes, node, vms>>
  BY <1>0, GrowFields DEF group
<1>2. Open
  BY <1>0, <1>1, CreatedIsOpen
<1>3. call[c].size <= MaxNodeSize /\ targetSize = Cardinality(Claimed)
  BY <1>0, <1>1, <1>2, SizeIsClaimed DEF OpenInv, StaleInv, VMInv
<1>4. call[c].size \in Int /\ Cardinality(Claimed) \in Nat
  BY <1>0, CallType, ClaimedFinite DEF Call, BasicInv, SizeInv
<1>5. Cardinality(Claimed) + call'[c].need <= MaxNodeSize /\ call'[c].need >= 1
  BY <1>1, <1>3, <1>4, NodeGroupAssumption DEF Delta
<1>6. CallOK(c)'
  <2>1. CallOK(c)
    BY <1>0 DEF BasicInv, CallInv
  <2> QED
    BY <1>1, <1>5, <2>1 DEF CallOK, Reserving, Dying, SameRequest
<1>7. \A o \in Objects : o \in call'[c].todo \/ call'[c].run[o] # "none" => node[o].state # "Unallocated"
  BY <1>0, <1>1 DEF BasicInv, AllocInv
<1>8. SameObjects /\ Claimed' \subseteq Claimed /\ AllNodes' \subseteq AllNodes
  BY <1>1, SameMaps DEF SameObjects
<1>9. \A d \in Callers \ {c} : lock = d => lock' = d
  BY <1>1, NodeGroupAssumption
<1> QED
  BY <1>0, <1>1, <1>5, <1>6, <1>7, <1>8, <1>9, BasicKept

\* nodeName finds a name in its loop, as long as fewer than MaxNodeSize names are taken: ...
LEMMA FreeName ==
  ASSUME TypeOK, IsFiniteSet(vms), Cardinality(Claimed) < MaxNodeSize
  PROVE  FreeNumbers("autoscaled") # {}
<1> SUFFICES ASSUME FreeNumbers("autoscaled") = {} PROVE FALSE
  OBVIOUS
<1> DEFINE S == 1 .. MaxNodeSize
           f == [i \in S |-> <<"autoscaled", i>>]
<1>1. IsFiniteSet(S) /\ Cardinality(S) = MaxNodeSize
  BY FS_Interval, NodeGroupAssumption
<1>2. \A i \in S : <<"autoscaled", i>> \in Claimed
  BY DEF FreeNumbers, UnusedNumbers, FirstNumber, Claimed
<1>3. f \in [S -> Claimed]
  BY <1>2
<1>4. IsFiniteSet(Claimed)
  BY ClaimedFinite
<1>5. \E i, j \in S : i # j /\ f[i] = f[j]
  <2> HIDE DEF S, f
  <2> QED
    BY <1>1, <1>3, <1>4, FS_PigeonHole
<1>6. \A i, j \in S : f[i] = f[j] => i = j
  OBVIOUS
<1> QED
  BY <1>5, <1>6

\* ... it is one that nothing has.
LEMMA PickFields ==
  ASSUME TypeOK, NEW c \in Callers, PickNode(c), KindOf(c) = "autoscaled", FreeNumbers("autoscaled") # {}
  PROVE  /\ OthersStay(c)
         /\ call[c].pc = "pick" /\ call'[c].pc = "reserve"
         /\ call'[c].name[1] = "autoscaled" /\ call'[c].name \notin Claimed
         /\ call'[c].index = findNextNodeIndex + Cardinality(SkippedNumbers("autoscaled"))
         /\ call'[c].req = call[c].req /\ call'[c].need = call[c].need
         /\ call'[c].todo = call[c].todo /\ call'[c].victims = call[c].victims
         /\ call'[c].run = call[c].run
         /\ UNCHANGED <<status, nodes, pendingNodes, numOf, waitGroup, lock, node, vms>>
<1>1. call \in [Callers -> Call] /\ call[c] \in Call
  BY CallType DEF TypeOK
<1> DEFINE i == findNextNodeIndex + Cardinality(SkippedNumbers("autoscaled"))
           n == nodeName("autoscaled", i)
<1>2. call' = [call EXCEPT ![c].pc = "reserve", ![c].name = n, ![c].index = i]
  BY DEF PickNode
<1>3. n = <<"autoscaled", Least(FreeNumbers("autoscaled"))>>
  BY DEF nodeName
<1>4. Least(FreeNumbers("autoscaled")) \in FreeNumbers("autoscaled")
  <2>1. FreeNumbers("autoscaled") \subseteq 1 .. MaxNodeSize
    BY DEF FreeNumbers, UnusedNumbers, FirstNumber
  <2>2. FreeNumbers("autoscaled") \in SUBSET Nat
    BY <2>1
  <2> QED
    BY <2>2, LeastNatural
<1>5. n \notin Claimed /\ n[1] = "autoscaled"
  <2>1. \A k \in FreeNumbers("autoscaled") : <<"autoscaled", k>> \notin Tracked /\ <<"autoscaled", k>> \notin vms
    BY DEF FreeNumbers, UnusedNumbers
  <2>2. n \notin Tracked /\ n \notin vms
    BY <1>3, <1>4, <2>1
  <2> QED
    BY <1>3, <2>2 DEF Claimed
<1>6. call[c].pc = "pick" /\ UNCHANGED <<status, nodes, pendingNodes, numOf, waitGroup, lock, node, vms>>
  BY DEF PickNode
<1> HIDE DEF n, i
<1>7. /\ OthersStay(c) /\ call'[c].pc = "reserve" /\ call'[c].name = n /\ call'[c].index = i
      /\ call'[c].req = call[c].req /\ call'[c].need = call[c].need
      /\ call'[c].todo = call[c].todo /\ call'[c].victims = call[c].victims
      /\ call'[c].run = call[c].run
  BY <1>1, <1>2 DEF OthersStay, Call
<1> QED
  BY <1>5, <1>6, <1>7 DEF i

\* Who reserves nodes has names left.
LEMMA NamesLeft ==
  ASSUME TypeOK, BasicInv, NEW c \in Callers, Reserving(c)
  PROVE  FreeNumbers("autoscaled") # {} /\ KindOf(c) = "autoscaled"
<1>1. call[c].need >= 1 /\ KindOf(c) = "autoscaled"
  BY DEF BasicInv, CallInv, CallOK, KindOf
<1>2. Cardinality(Claimed) + call[c].need <= MaxNodeSize /\ IsFiniteSet(vms)
  BY DEF BasicInv, SizeInv
<1>3. call[c].need \in Int /\ Cardinality(Claimed) \in Nat
  BY <1>2, CallType, ClaimedFinite DEF Call
<1> QED
  BY <1>1, <1>2, <1>3, FreeName, NodeGroupAssumption

LEMMA BasicPick ==
  ASSUME TypeOK, TypeOK', BasicInv, NEW c \in Callers, PickNode(c)
  PROVE  BasicInv'
<1>1. Reserving(c)
  BY DEF PickNode, Reserving
<1>2. FreeNumbers("autoscaled") # {} /\ KindOf(c) = "autoscaled"
  BY <1>1, NamesLeft
<1>3. /\ OthersStay(c)
      /\ call[c].pc = "pick" /\ call'[c].pc = "reserve"
      /\ call'[c].name[1] = "autoscaled" /\ call'[c].name \notin Claimed
      /\ call'[c].req = call[c].req /\ call'[c].need = call[c].need
      /\ call'[c].todo = call[c].todo /\ call'[c].victims = call[c].victims
      /\ call'[c].run = call[c].run
      /\ UNCHANGED <<nodes, pendingNodes, lock, node, vms>>
  BY <1>2, PickFields
<1>4. CallOK(c)'
  <2>1. CallOK(c)
    BY DEF BasicInv, CallInv
  <2> QED
    BY <1>3, <2>1 DEF CallOK, Reserving, Dying
<1>5. Cardinality(Claimed) + call'[c].need <= MaxNodeSize
  BY <1>1, <1>3 DEF BasicInv, SizeInv
<1>6. \A o \in Objects : o \in call'[c].todo \/ call'[c].run[o] # "none" => node[o].state # "Unallocated"
  BY <1>3 DEF BasicInv, AllocInv
<1>7. SameObjects /\ Claimed' \subseteq Claimed /\ AllNodes' \subseteq AllNodes
  BY <1>3, SameMaps DEF SameObjects
<1> QED
  BY <1>3, <1>4, <1>5, <1>6, <1>7, BasicKept

\* ReserveNode allocates an object, the new node.
Allocates(c, o) ==
  /\ OthersStay(c) /\ node[o].state = "Unallocated"
  /\ call[c].pc = "reserve" /\ call[c].name \notin vms
  /\ call'[c].pc \in {"pick", "create", "destroy"}
  /\ call'[c].pc = "pick" <=> call[c].need # 1
  /\ call'[c].pc = "destroy" => call[c].req = "decrease" /\ FrontEnd = "externalgrpc"
  /\ lock' = (IF call[c].need = 1 /\ FrontEnd = "externalgrpc" THEN Unlocked(c) ELSE lock)
  /\ call'[c].name = call[c].name /\ call'[c].req = call[c].req
  /\ call'[c].need = call[c].need - 1 /\ call'[c].todo = call[c].todo \cup {o}
  /\ call'[c].victims = call[c].victims /\ call'[c].run = call[c].run
  /\ node'[o].name = call[c].name /\ node'[o].index = call[c].index /\ node'[o].state = "NotCreated"
  /\ \A q \in Objects : q # o => node'[q] = node[q]
  /\ DOMAIN pendingNodes' = DOMAIN pendingNodes \cup {call[c].name}
  /\ \A n \in DOMAIN pendingNodes' :
       pendingNodes'[n] = IF n = call[c].name THEN o ELSE pendingNodes[n]
  /\ runningNodes' = Put(runningNodes, call[c].index, Creating)
  /\ UNCHANGED <<status, nodes, numOf, waitGroup, vms>>

LEMMA ReserveFields ==
  ASSUME TypeOK, NEW c \in Callers, ReserveNode(c)
  PROVE  \E o \in Objects : Allocates(c, o)
<1>0. call \in [Callers -> Call] /\ call[c] \in Call
  BY CallType DEF TypeOK
<1>1. PICK o \in Objects :
        /\ node[o].state = "Unallocated"
        /\ runningNodes' = Put(runningNodes, call[c].index, Creating)
        /\ node' = [node EXCEPT ![o] = [name |-> call[c].name, index |-> call[c].index,
                                        state |-> "NotCreated"]]
        /\ pendingNodes' = Put(pendingNodes, call[c].name, o)
        /\ \E next \in {"pick", "create", "destroy"} :
             /\ call' = [call EXCEPT ![c].pc = next, ![c].need = @ - 1, ![c].todo = @ \cup {o}]
             /\ next = "pick" <=> call[c].need # 1
             /\ next = "destroy" => call[c].req = "decrease" /\ FrontEnd = "externalgrpc"
        /\ lock' = (IF call[c].need = 1 /\ FrontEnd = "externalgrpc" THEN Unlocked(c) ELSE lock)
  <2> DEFINE x == CHOOSE x \in FreeObjects : TRUE
  <2>1. x \in FreeObjects
    BY DEF ReserveNode
  <2>2. x \in Objects /\ node[x].state = "Unallocated"
    BY <2>1 DEF FreeObjects
  <2>3. /\ runningNodes' = Put(runningNodes, call[c].index, Creating)
        /\ node' = [node EXCEPT ![x] = [name |-> call[c].name, index |-> call[c].index,
                                        state |-> "NotCreated"]]
        /\ pendingNodes' = Put(pendingNodes, call[c].name, x)
        /\ \E next \in {"pick", "create", "destroy"} :
             /\ call' = [call EXCEPT ![c].pc = next, ![c].need = @ - 1, ![c].todo = @ \cup {x}]
             /\ next = "pick" <=> call[c].need # 1
             /\ next = "destroy" => call[c].req = "decrease" /\ FrontEnd = "externalgrpc"
        /\ lock' = (IF call[c].need = 1 /\ FrontEnd = "externalgrpc" THEN Unlocked(c) ELSE lock)
    BY DEF ReserveNode
  <2> HIDE DEF x
  <2> QED
    BY <2>2, <2>3
<1>2. /\ OthersStay(c) /\ call'[c].pc \in {"pick", "create", "destroy"}
      /\ call'[c].pc = "pick" <=> call[c].need # 1
      /\ call'[c].pc = "destroy" => call[c].req = "decrease" /\ FrontEnd = "externalgrpc"
      /\ call'[c].name = call[c].name /\ call'[c].req = call[c].req
      /\ call'[c].need = call[c].need - 1 /\ call'[c].todo = call[c].todo \cup {o}
      /\ call'[c].victims = call[c].victims /\ call'[c].run = call[c].run
  BY <1>0, <1>1 DEF OthersStay, Call
<1>3. /\ node'[o].name = call[c].name /\ node'[o].index = call[c].index /\ node'[o].state = "NotCreated"
      /\ \A q \in Objects : q # o => node'[q] = node[q]
  <2>1. node \in [Objects -> NodeObject]
    BY DEF TypeOK
  <2> QED
    BY <1>1, <2>1
<1>4. /\ DOMAIN pendingNodes' = DOMAIN pendingNodes \cup {call[c].name}
      /\ \A n \in DOMAIN pendingNodes' : pendingNodes'[n] = IF n = call[c].name THEN o ELSE pendingNodes[n]
  BY <1>1 DEF Put
<1>5. /\ call[c].pc = "reserve" /\ call[c].name \notin vms
      /\ UNCHANGED <<status, nodes, numOf, waitGroup, vms>>
  BY DEF ReserveNode
<1> QED
  BY <1>1, <1>2, <1>3, <1>4, <1>5 DEF Allocates

\* Nobody else reserves nodes.
LEMMA OneReserves ==
  ASSUME BasicInv, NEW c \in Callers, NEW d \in Callers, Reserving(c), Reserving(d)
  PROVE  c = d
BY DEF BasicInv, CallInv, CallOK

\* The objects in use are allocated.
LEMMA InUse ==
  ASSUME TypeOK, BasicInv
  PROVE  /\ \A o \in AllNodes : o \in Objects /\ node[o].state # "Unallocated"
         /\ \A c \in Callers : \A o \in Live(c) \cup Dying(c) : o \in Objects /\ node[o].state # "Unallocated"
<1>1. \A o \in AllNodes : o \in Objects /\ node[o].state # "Unallocated"
  BY DEF AllNodes, PendingObjects, BasicInv, AllocInv, TypeOK, IsMap
<1>2. \A c \in Callers : \A o \in Live(c) \cup Dying(c) : o \in Objects /\ node[o].state # "Unallocated"
  BY DEF BasicInv, AllocInv, Live, Dying
<1> QED
  BY <1>1, <1>2

LEMMA BasicReserve ==
  ASSUME Orderly, TypeOK, TypeOK', BasicInv, NEW c \in Callers, ReserveNode(c)
  PROVE  BasicInv'
<1>1. PICK o \in Objects : Allocates(c, o)
  BY ReserveFields
<1>2. \A d \in Callers : d # c => call'[d] = call[d]
  BY <1>1 DEF Allocates, OthersStay
<1>3. Reserving(c) /\ CallOK(c)
  BY <1>1 DEF Allocates, Reserving, BasicInv, CallInv
<1>4. \A d \in Callers : d # c => ~Reserving(d)
  BY <1>3, OneReserves
<1>5. call'[c].pc \in {"pick", "create"} /\ call'[c].req = call[c].req /\ call[c].need \in Int
  <2>1. call'[c].pc # "destroy"
    BY <1>1, <1>3 DEF Allocates, CallOK
  <2> QED
    BY <1>1, <2>1, CallType DEF Allocates, Call
<1>6. CallInv'
  <2> SUFFICES ASSUME NEW d \in Callers PROVE CallOK(d)'
    BY DEF CallInv
  <2>1. CASE d = c
    <3>1. call[c].need >= 1 /\ lock = c
      BY <1>3 DEF CallOK
    <3>2. Reserving(c)' => lock' = c /\ call'[c].need >= 1
      BY <1>1, <1>5, <3>1 DEF Allocates, Reserving
    <3>3. /\ call'[c].name = call[c].name /\ call'[c].victims = call[c].victims /\ call'[c].run = call[c].run
          /\ call[c].pc = "reserve"
      BY <1>1 DEF Allocates
    <3> QED
      BY <1>3, <1>5, <2>1, <3>2, <3>3 DEF CallOK, Reserving, Dying
  <2>2. CASE d # c
    <3>1. CallOK(d) /\ call'[d] = call[d] /\ ~Reserving(d)
      BY <1>2, <1>4, <2>2 DEF BasicInv, CallInv
    <3> QED
      BY <3>1 DEF CallOK, Reserving, Dying
  <2> QED
    BY <2>1, <2>2
<1>7. SizeInv'
  <2>1. /\ IsFiniteSet(vms) /\ Cardinality(Claimed) + call[c].need <= MaxNodeSize
        /\ call[c].need >= 1
    BY <1>3 DEF BasicInv, SizeInv, CallOK
  <2>2. IsFiniteSet(Claimed) /\ Cardinality(Claimed) \in Nat
    BY <2>1, ClaimedFinite
  <2>3. Claimed' = Claimed \cup {call[c].name} /\ vms' = vms
    BY <1>1 DEF Allocates, Claimed, Tracked
  <2>4. Cardinality(Claimed') \in Nat /\ Cardinality(Claimed') <= Cardinality(Claimed) + 1
    <3>1. Cardinality(Claimed \cup {call[c].name}) =
            IF call[c].name \in Claimed THEN Cardinality(Claimed) ELSE Cardinality(Claimed) + 1
      BY <2>2, FS_AddElement
    <3> QED
      BY <2>2, <2>3, <3>1
  <2>5. call'[c].need = call[c].need - 1
    BY <1>1 DEF Allocates
  <2>6. Cardinality(Claimed') + call'[c].need <= MaxNodeSize /\ Cardinality(Claimed') <= MaxNodeSize
    BY <1>5, <2>1, <2>2, <2>4, <2>5, NodeGroupAssumption
  <2>7. \A d \in Callers : Reserving(d)' => d = c
    BY <1>2, <1>4 DEF Reserving
  <2> QED
    BY <2>1, <2>3, <2>6, <2>7 DEF SizeInv
<1>8. FreshInv'
  BY <1>2, <1>4, <1>5 DEF FreshInv, Reserving
<1>9. AllocInv'
  <2>1. \A q \in Objects : q = o \/ node[q].state # "Unallocated" => node'[q].state # "Unallocated"
    BY <1>1 DEF Allocates
  <2>2. \A n \in DOMAIN nodes' : node'[nodes'[n]].state # "Unallocated"
    BY <1>1, <2>1 DEF Allocates, BasicInv, AllocInv, TypeOK, IsMap
  <2>3. \A n \in DOMAIN pendingNodes' : node'[pendingNodes'[n]].state # "Unallocated"
    BY <1>1, <2>1 DEF Allocates, BasicInv, AllocInv, TypeOK, IsMap
  <2>4. \A d \in Callers, q \in Objects :
          q \in call'[d].todo \/ call'[d].run[q] # "none" => node'[q].state # "Unallocated"
    <3>1. call'[c].todo = call[c].todo \cup {o} /\ call'[c].run = call[c].run
      BY <1>1 DEF Allocates
    <3> QED
      BY <1>2, <2>1, <3>1 DEF BasicInv, AllocInv
  <2> QED
    BY <2>2, <2>3, <2>4 DEF AllocInv
<1> QED
  BY <1>6, <1>7, <1>8, <1>9 DEF BasicInv

\* CreateInstance finds no VM that has the name, and prepareNodes does not give up.
LEMMA NoReserveFails ==
  ASSUME Orderly, BasicInv, NEW c \in Callers
  PROVE  ~ReserveFails(c)
<1> SUFFICES ASSUME ReserveFails(c) PROVE FALSE
  OBVIOUS
<1>1. call[c].pc = "reserve" /\ (call[c].name \in vms \/ "create" \in Faults)
  BY DEF ReserveFails
<1>2. "create" \notin Faults
  BY DEF Orderly
<1> QED
  BY <1>1, <1>2 DEF BasicInv, FreshInv, Claimed

LEMMA BasicResize ==
  ASSUME Books, TypeOK', NEW c \in Callers, Resize(c)
  PROVE  BasicInv'
<1>0. TypeOK /\ CleanupInv /\ BasicInv
  BY DEF Books
<1>1. call[c].pc = "resize" /\ call[c].todo = {} /\ call[c].victims = {} /\ CallOK(c)
  BY <1>0 DEF Resize, GrowRefused, Grow, Keep, Shrink, ShrinkPanics, CanResize, BasicInv, CallInv, CallOK
<1>2. CASE Grow(c)
  BY <1>2, BasicGrow
<1>3. CASE ShrinkPanics(c)
  BY <1>0, <1>3, BasicCrash DEF ShrinkPanics
<1>4. CASE GrowRefused(c) \/ Keep(c) \/ Shrink(c)
  <2>1. UNCHANGED <<nodes, pendingNodes, node, vms, lock>>
    BY <1>4 DEF GrowRefused, Keep, Shrink, group
  <2>2. CASE Return(c)
    BY <1>0, <2>1, <2>2, ReturnFields, BasicMoves
  <2>3. ASSUME NEW S, WorkOn(c, S), S \subseteq PendingObjects, FrontEnd = "externalgrpc" PROVE BasicInv'
    <3>1. call[c].req = "increase"
      BY <1>1, <2>3 DEF CallOK
    <3>2. /\ OthersStay(c) /\ SameRequest(c) /\ call'[c].pc = "create"
          /\ call'[c].todo = S /\ call'[c].victims = call[c].victims
          /\ call'[c].run = call[c].run
      BY <1>0, <2>3, <3>1, WorkOnFields
    <3>3. \A o \in Objects : o \in call'[c].todo => o \in AllNodes
      BY <2>3, <3>2 DEF AllNodes
    <3> QED
      BY <1>0, <1>1, <2>1, <3>2, <3>3, BasicMoves DEF SameRequest
  <2>4. CASE Keep(c)
    <3>1. Return(c) \/ (WorkOn(c, {}) /\ FrontEnd = "externalgrpc")
      BY <2>4, NodeGroupAssumption DEF Keep
    <3>2. {} \subseteq PendingObjects
      OBVIOUS
    <3> QED
      BY <2>2, <2>3, <3>1, <3>2
  <2>5. CASE Shrink(c)
    <3>1. PICK S \in prepareDeleteNodes(-Delta(c)) : WorkOn(c, S)
      BY <2>5 DEF Shrink
    <3>2. S \subseteq PendingObjects /\ FrontEnd = "externalgrpc"
      BY <2>5 DEF Shrink, prepareDeleteNodes
    <3> QED
      BY <2>3, <3>1, <3>2
  <2> QED
    BY <1>4, <2>2, <2>4, <2>5 DEF GrowRefused
<1> QED
  BY <1>2, <1>3, <1>4 DEF Resize

\* The deletion of a node begins.
LEMMA BasicDelete ==
  ASSUME TypeOK, TypeOK', BasicInv, NEW c \in Callers, NEW o \in Objects, StartDeleteVM(c, o),
         node[o].state # "Unallocated", Busy(c) = {}, call[c].pc \in {"delete", "cleanup"},
         UNCHANGED <<nodes, pendingNodes, node, vms, lock>>
  PROVE  BasicInv'
<1>1. /\ OthersStay(c) /\ SameRequest(c)
      /\ call'[c].pc = call[c].pc /\ call'[c].need = call[c].need
      /\ call'[c].todo = call[c].todo \ {o}
      /\ call'[c].victims = call[c].victims \ {node[o].name}
      /\ \A q \in Objects : q # o => call'[c].run[q] = call[c].run[q]
  BY StartDeleteVMFields
<1>2. \A q \in Objects : q # o => call'[c].run[q] = "none"
  BY <1>1 DEF Busy
<1>3. CallOK(c)'
  <2>1. CallOK(c)
    BY DEF BasicInv, CallInv
  <2> QED
    BY <1>1, <1>2, <2>1 DEF CallOK, Reserving, Dying, SameRequest
<1>4. \A q \in Objects : q \in call'[c].todo \/ call'[c].run[q] # "none" => node[q].state # "Unallocated"
  BY <1>1, <1>2 DEF BasicInv, AllocInv
<1>5. ~Reserving(c)' /\ call'[c].pc # "reserve"
  BY <1>1 DEF Reserving
<1>6. SameObjects /\ Claimed' \subseteq Claimed /\ AllNodes' \subseteq AllNodes
  BY SameMaps DEF SameObjects
<1> QED
  BY <1>1, <1>3, <1>4, <1>5, <1>6, BasicKept

\* The steps of a goroutine that works on one node.
LEMMA BasicNodeStep ==
  ASSUME Books, TypeOK', NEW c \in Callers, NEW o \in Objects, NodeStep(c, o)
  PROVE  BasicInv'
<1>0. /\ Orderly /\ TypeOK /\ CleanupInv /\ BasicInv
      /\ call[c].run[o] \in LaunchPhase => call[c].pc = "launch"
  BY DEF Books, CleanupInv, WorkInv
<1>a. CallOK(c)
  BY <1>0 DEF BasicInv, CallInv
\* A node that is being launched is pending.
<1>b. call[c].run[o] \in {"creating", "joined"} => node[o].name \in DOMAIN pendingNodes
  <2> HAVE call[c].run[o] \in {"creating", "joined"}
  <2>1. call[c].pc = "launch" /\ call[c].run[o] # "none"
    BY <1>0, PhaseSets
  <2>2. Open
    BY <1>0, <2>1 DEF CleanupInv, DeadInv, NoLaunchInv, Open
  <2>3. o \in Live(c)
    BY <2>1 DEF Live
  <2> QED
    BY <2>2, <2>3 DEF Books, OpenInv, LiveInv
<1>1. CASE CreateNodeRefused(c, o)
  <2>1. /\ SetPhase(c, o, "none") /\ call[c].run[o] # "none"
        /\ UNCHANGED <<nodes, pendingNodes, lock, node, vms>>
    BY <1>1 DEF CreateNodeRefused
  <2>2. SameObjects /\ Claimed' \subseteq Claimed /\ AllNodes' \subseteq AllNodes
    BY <2>1, SameMaps DEF SameObjects
  <2> QED
    BY <1>0, <2>1, <2>2, BasicPhase
<1>2. CASE LaunchVM(c, o) \/ NodeJoins(c, o) \/ InstancePowerOff(c, o)
  <2>1. /\ \E p : SetPhase(c, o, p)
        /\ call[c].run[o] # "none" /\ \E s \in {"Creating", "Running", "Stopped"} : SetState(o, s)
        /\ UNCHANGED <<nodes, pendingNodes, lock, vms>>
    BY <1>2 DEF LaunchVM, NodeJoins, InstancePowerOff, group
  <2>2. SameObjects
    BY <1>0, <2>1, SetStateFields DEF SameObjects
  <2> QED
    BY <1>0, <2>1, <2>2, SameMaps, BasicPhase
<1>3. CASE LaunchFails(c, o) \/ InstanceStatus(c, o)
  <2>1. /\ \E p : SetPhase(c, o, p)
        /\ call[c].run[o] # "none"
        /\ UNCHANGED node \/ \E s \in {"Running", "Stopped", "Deleting"} : SetState(o, s)
        /\ UNCHANGED <<nodes, pendingNodes, lock, vms>>
    BY <1>3 DEF LaunchFails, CleanOnLaunchError, InstanceStatus, group
  <2>2. SameObjects
    BY <1>0, <2>1, SetStateFields DEF SameObjects
  <2> QED
    BY <1>0, <2>1, <2>2, SameMaps, BasicPhase
<1>4. CASE InstanceCreate(c, o)
  <2>1. /\ SetPhase(c, o, "booting") /\ call[c].run[o] = "creating"
        /\ UNCHANGED <<nodes, pendingNodes, lock, node>> /\ vms' = vms \cup {node[o].name}
    BY <1>4 DEF InstanceCreate, group
  <2>2. Claimed' \subseteq Claimed /\ AllNodes' \subseteq AllNodes /\ SameObjects
    BY <1>b, <2>1 DEF Claimed, Tracked, AllNodes, PendingObjects, SameObjects
  <2> QED
    BY <1>0, <2>1, <2>2, BasicPhase
<1>5. CASE LaunchSucceeds(c, o)
  <2>1. /\ SetPhase(c, o, "none") /\ call[c].run[o] = "joined"
        /\ nodes' = Put(nodes, node[o].name, o) /\ pendingNodes' = Del(pendingNodes, node[o].name)
        /\ UNCHANGED <<lock, node, vms>>
    BY <1>5 DEF LaunchSucceeds
  <2>2. /\ node[o].name \in DOMAIN pendingNodes /\ pendingNodes[node[o].name] = o
    <3>1. Open /\ o \in Live(c)
      BY <1>0, <2>1, PhaseSets DEF CleanupInv, DeadInv, NoLaunchInv, Open, Live
    <3> QED
      BY <3>1 DEF Books, OpenInv, LiveInv
  <2>3. Claimed' \subseteq Claimed
    BY <2>1, <2>2 DEF Claimed, Tracked, Put, Del
  <2>4. AllNodes' \subseteq AllNodes
    BY <2>1, <2>2 DEF AllNodes, PendingObjects, Put, Del
  <2> QED
    BY <1>0, <2>1, <2>3, <2>4, BasicPhase DEF SameObjects
<1>6. CASE LaunchCleaned(c, o) \/ NodeDestroyed(c, o) \/ CleanupNodeEnds(c, o) \/ (NodeDeleted(c, o) /\ SetPhase(c, o, "none"))
  <2>1. /\ SetPhase(c, o, "none") /\ UNCHANGED lock /\ (VMDeleted(c, o) \/ VMNotDeleted(c, o))
        /\ nodes' \in {nodes, Del(nodes, node[o].name)}
        /\ pendingNodes' \in {pendingNodes, Del(pendingNodes, node[o].name)}
    BY <1>6 DEF LaunchCleaned, NodeDestroyed, CleanupNodeEnds, NodeDeleted, Forget, group
  <2>2. SameObjects /\ vms' \subseteq vms /\ call[c].run[o] # "none"
    BY <1>0, <2>1, VMDeletedFields
  <2> QED
    BY <1>0, <2>1, <2>2, SmallerMaps, BasicPhase
<1>7. CASE DestroyNode(c, o) \/ CleanupNode(c, o)
  <2>1. CleanupNode(c, o)
    BY <1>7, <1>a DEF DestroyNode, CallOK
  <2>2. /\ call[c].pc = "cleanup" /\ Busy(c) = {} /\ o \in call[c].todo /\ StartDeleteVM(c, o)
        /\ UNCHANGED <<nodes, pendingNodes, node, vms, lock>>
    BY <2>1 DEF CleanupNode, group
  <2>3. node[o].state # "Unallocated"
    BY <1>0, <2>2 DEF BasicInv, AllocInv
  <2> QED
    BY <1>0, <2>2, <2>3, BasicDelete
<1>8. CASE NodeDeleted(c, o) /\ DeleteError(c, node[o].name)
  <2>1. /\ call[c].pc = "delete" /\ UNCHANGED lock /\ (VMDeleted(c, o) \/ VMNotDeleted(c, o))
        /\ nodes' \in {nodes, Del(nodes, node[o].name)}
        /\ pendingNodes' \in {pendingNodes, Del(pendingNodes, node[o].name)}
    BY <1>8 DEF NodeDeleted, Forget
  <2>2. SameObjects /\ vms' \subseteq vms
    BY <1>0, <2>1, VMDeletedFields
  <2>3. /\ OthersStay(c)
        /\ call'[c].pc \in {"idle", "delete"} /\ call'[c].req \in {"none", call[c].req}
        /\ call'[c].pc = "idle" => call'[c].victims = {}
        /\ call'[c].todo \subseteq call[c].todo
        /\ \A q \in Objects : call'[c].run[q] = "none"
    BY <1>0, <1>8, <2>1, DeleteErrorFields
  <2>4. CallOK(c)'
    BY <1>a, <2>3 DEF CallOK, Reserving, Dying
  <2>5. \A q \in Objects : q \in call'[c].todo \/ call'[c].run[q] # "none" => node[q].state # "Unallocated"
    BY <1>0, <2>3 DEF BasicInv, AllocInv
  <2>6. ~Reserving(c)' /\ call'[c].pc # "reserve"
    BY <2>3 DEF Reserving
  <2>7. Claimed' \subseteq Claimed /\ AllNodes' \subseteq AllNodes
    BY <1>0, <2>1, <2>2, SmallerMaps
  <2> QED
    BY <1>0, <2>1, <2>2, <2>3, <2>4, <2>5, <2>6, <2>7, BasicKept
<1>9. NodeDeleted(c, o) => SetPhase(c, o, "none") \/ DeleteError(c, node[o].name)
  BY DEF NodeDeleted
<1> QED
  BY <1>1, <1>2, <1>3, <1>4, <1>5, <1>6, <1>7, <1>8, <1>9 DEF NodeStep

\* A step that touches neither the calls nor the maps.
LEMMA BasicSame ==
  ASSUME TypeOK, BasicInv, UNCHANGED <<nodes, pendingNodes, vms, lock, call>>, SameObjects
  PROVE  BasicInv'
<1>1. \A q \in AllNodes : q \in Objects /\ node[q].state # "Unallocated"
  BY InUse
<1>2. CallInv'
  BY DEF BasicInv, CallInv, CallOK, Reserving, Dying
<1>3. Claimed' = Claimed /\ \A c \in Callers : Reserving(c)' <=> Reserving(c)
  BY DEF Claimed, Tracked, Reserving
<1>4. SizeInv'
  BY <1>3 DEF BasicInv, SizeInv
<1>5. FreshInv'
  BY <1>3 DEF BasicInv, FreshInv
<1>6. AllocInv'
  BY <1>1 DEF BasicInv, AllocInv, SameObjects, AllNodes, PendingObjects
<1> QED
  BY <1>2, <1>4, <1>5, <1>6 DEF BasicInv

LEMMA BasicStep ==
  ASSUME Books, TypeOK', NEW c \in Callers, Step(c)
  PROVE  BasicInv'
<1>0. Orderly /\ TypeOK /\ CleanupInv /\ BasicInv
  BY DEF Books
<1>1. CASE CreateNodes(c) \/ CreateNodesEnds(c)
  <2>1. /\ call[c].pc \in {"create", "launch"} /\ call'[c].pc \in {"launch", "wait"}
        /\ UNCHANGED <<nodes, pendingNodes, node, vms, lock>>
        /\ OthersStay(c) /\ SameRequest(c) /\ call'[c].need = call[c].need
        /\ call'[c].todo = call[c].todo /\ call'[c].victims = call[c].victims
        /\ call'[c].run = call[c].run
    BY <1>0, <1>1, GotoFields DEF CreateNodes, CreateNodesEnds, group
  <2>2. call[c].victims = {}
    BY <1>0, <2>1 DEF BasicInv, CallInv, CallOK
  <2> QED
    BY <1>0, <2>1, <2>2, BasicMoves DEF SameRequest
<1>2. CASE StartCycle(c)
  <2>1. PICK cycle \in SUBSET call[c].todo :
          call' = [call EXCEPT ![c].todo = @ \ cycle,
                               ![c].run = [o \in Objects |-> IF o \in cycle THEN "start" ELSE "none"]]
    BY <1>2 DEF StartCycle
  <2>2. call \in [Callers -> Call] /\ call[c] \in Call
    BY <1>0, CallType DEF TypeOK
  <2>3. /\ OthersStay(c) /\ call'[c].pc = call[c].pc /\ call'[c].req = call[c].req
        /\ call'[c].victims = call[c].victims /\ call'[c].todo = call[c].todo \ cycle
        /\ \A o \in Objects : call'[c].run[o] = IF o \in cycle THEN "start" ELSE "none"
    BY <2>1, <2>2 DEF OthersStay, Call
  <2>4. /\ call[c].pc = "launch" /\ UNCHANGED <<nodes, pendingNodes, node, vms, lock>>
    BY <1>2 DEF StartCycle, group
  <2>5. call[c].victims = {}
    BY <1>0, <2>4 DEF BasicInv, CallInv, CallOK
  <2> QED
    BY <1>0, <2>3, <2>4, <2>5, BasicMoves
<1>3. CASE Wait(c)
  <2>1. UNCHANGED <<nodes, pendingNodes, node, vms, lock, call>>
    BY <1>3 DEF Wait, group
  <2> QED
    BY <1>0, <2>1, BasicSame DEF SameObjects
<1>4. CASE CreateNodesReturns(c) \/ DestroyNodesReturns(c) \/ DeleteNodesReturns(c)
  <2>1. /\ Return(c) /\ UNCHANGED <<nodes, pendingNodes, node, vms>> /\ lock' \in {lock, Unlocked(c)}
    BY <1>4 DEF CreateNodesReturns, DestroyNodesReturns, DeleteNodesReturns, group
  <2>2. \A d \in Callers \ {c} : lock = d => lock' = d
    BY <2>1 DEF Unlocked
  <2> QED
    BY <1>0, <2>1, <2>2, ReturnFields, BasicMoves
<1>5. ASSUME NEW n \in call[c].victims, DeleteNodeByName(c, n) PROVE BasicInv'
  <2>1. /\ call[c].pc = "delete" /\ Busy(c) = {} /\ n \in Tracked /\ StartDeleteVM(c, Named(n))
        /\ UNCHANGED <<nodes, pendingNodes, node, vms, lock>>
    BY <1>5 DEF DeleteNodeByName, StartDelete
  <2>2. Named(n) \in AllNodes
    BY <2>1 DEF Named, Tracked, AllNodes, PendingObjects
  <2>3. Named(n) \in Objects /\ node[Named(n)].state # "Unallocated"
    BY <1>0, <2>2, InUse
  <2> QED
    BY <1>0, <2>1, <2>3, BasicDelete
<1>6. ASSUME NEW n \in call[c].victims, DeleteNodeRefused(c, n) PROVE BasicInv'
  <2>1. /\ call[c].pc = "delete" /\ DeleteError(c, n)
        /\ UNCHANGED <<nodes, pendingNodes, node, vms, lock>>
    BY <1>6 DEF DeleteNodeRefused, group
  <2>2. /\ OthersStay(c)
        /\ call'[c].pc \in {"idle", "delete"} /\ call'[c].req \in {"none", call[c].req}
        /\ call'[c].pc = "idle" => call'[c].victims = {}
        /\ call'[c].todo \subseteq call[c].todo /\ call'[c].victims \subseteq call[c].victims
        /\ \A q \in Objects : call'[c].run[q] = "none"
    BY <1>0, <2>1, DeleteErrorFields
  <2> QED
    BY <1>0, <2>1, <2>2, BasicMoves
<1>7. CASE CleanupWaited(c)
  <2>1. /\ OthersStay(c) /\ call[c].pc = "drainWG" /\ call'[c].pc = "cleanup"
        /\ call'[c].todo \subseteq AllNodes /\ call'[c].req = call[c].req
        /\ call'[c].victims = call[c].victims /\ call'[c].run = call[c].run
        /\ UNCHANGED <<nodes, pendingNodes, node, vms, lock>>
    <3>1. call \in [Callers -> Call] /\ call[c] \in Call
      BY <1>0, CallType DEF TypeOK
    <3> QED
      BY <1>7, <3>1 DEF CleanupWaited, Waited, AtWait, OthersStay, Call, group
  <2>2. call[c].victims = {}
    BY <1>0, <2>1 DEF BasicInv, CallInv, CallOK
  <2> QED
    BY <1>0, <2>1, <2>2, BasicMoves
<1>8. CASE CleanupReturns(c)
  <2>1. /\ Return(c) /\ UNCHANGED <<lock, node, vms>> /\ nodes' = EmptyMap /\ pendingNodes' = EmptyMap
    BY <1>8 DEF CleanupReturns
  <2>2. /\ OthersStay(c) /\ call'[c].pc = "idle" /\ call'[c].req = "none"
        /\ call'[c].todo = {} /\ call'[c].victims = {}
        /\ \A o \in Objects : call'[c].run[o] = "none"
    BY <1>0, <2>1, ReturnFields
  <2>3. SameObjects /\ Claimed' \subseteq Claimed /\ AllNodes' \subseteq AllNodes
    BY <2>1 DEF SameObjects, Claimed, Tracked, AllNodes, PendingObjects, EmptyMap
  <2>4. CallOK(c)' /\ ~Reserving(c)'
    BY <2>2 DEF CallOK, Reserving, Dying
  <2> QED
    BY <1>0, <2>1, <2>2, <2>3, <2>4, BasicKept
<1>9. ASSUME NEW o \in Objects, NodeStep(c, o) PROVE BasicInv'
  BY <1>9, BasicNodeStep
<1> QED
  BY <1>0, <1>1, <1>2, <1>3, <1>4, <1>5, <1>6, <1>7, <1>8, <1>9, NoReserveFails,
     BasicResize, BasicPick, BasicReserve DEF Step

LEMMA BasicNext == Books /\ TypeOK' /\ [Next]_vars => BasicInv'
<1> SUFFICES ASSUME Books, TypeOK', [Next]_vars PROVE BasicInv'
  OBVIOUS
<1>0. Orderly /\ TypeOK /\ BasicInv
  BY DEF Books
<1>1. ASSUME NEW c \in Callers, Panic(c) PROVE BasicInv'
  BY <1>0, <1>1, BasicCrash DEF Panic, CreateNodesPanics, WaitPanics
<1>2. ASSUME UNCHANGED <<nodes, pendingNodes, vms, lock, call>>, SameObjects PROVE BasicInv'
  BY <1>0, <1>2, BasicSame
<1>3. ASSUME NEW o \in Objects, Refresh(o) PROVE BasicInv'
  <2>1. SameObjects
    BY <1>0, <1>3, SetStateFields DEF Refresh, SameObjects
  <2> QED
    BY <1>2, <1>3, <2>1 DEF Refresh, group
<1>4. CASE UNCHANGED vars
  BY <1>2, <1>4 DEF vars, SameObjects
<1> QED
  BY <1>0, <1>1, <1>3, <1>4, BasicRequest, BasicStep DEF Next

-----------------------------------------------------------------------------
(* The nodes of a group that is not being cleaned up yet *)

\* A node in creation is a pending one, ...
LEMMA LiveFacts ==
  ASSUME TypeOK, BasicInv, OpenInv, NEW c \in Callers, NEW o \in Live(c)
  PROVE  /\ o \in Objects /\ node[o].name \in DOMAIN pendingNodes /\ pendingNodes[node[o].name] = o
         /\ node[o].name \notin DOMAIN nodes
         /\ \A n \in DOMAIN nodes : nodes[n] # o
         /\ \A d \in Callers : o \in Live(d) => d = c
         /\ \A d \in Callers : o \notin Dying(d)
         /\ \A d \in Callers : \A p \in Live(d) : node[p].name = node[o].name => p = o
<1>1. /\ o \in Objects /\ node[o].name \in DOMAIN pendingNodes /\ pendingNodes[node[o].name] = o
      /\ \A d \in Callers : o \in Live(d) => d = c
  BY DEF OpenInv, LiveInv, Live
<1>2. DOMAIN nodes \cap DOMAIN pendingNodes = {} /\ \A n \in DOMAIN nodes : node[nodes[n]].name = n
  BY DEF OpenInv, NameInv
<1>3. \A d \in Callers : o \in Dying(d) => node[o].name \in DOMAIN nodes
  BY DEF OpenInv, DoomedInv, Doomed
<1>4. \A d \in Callers : \A p \in Live(d) : pendingNodes[node[p].name] = p
  BY DEF OpenInv, LiveInv
<1> QED
  BY <1>1, <1>2, <1>3, <1>4

\* ... and a node that is being deleted a registered one.
LEMMA DyingFacts ==
  ASSUME TypeOK, BasicInv, OpenInv, NEW c \in Callers, NEW o \in Dying(c)
  PROVE  /\ o \in Objects /\ node[o].name \in DOMAIN nodes /\ nodes[node[o].name] = o
         /\ node[o].name \notin DOMAIN pendingNodes
         /\ node[o].name \in vms
         /\ call[c].run[o] \notin {"refused", "racing"}
         /\ \A d \in Callers : o \notin Live(d)
         /\ \A d \in Callers : node[o].name \in Doomed(d) => d = c
         /\ \A p \in Dying(c) : p = o
<1>1. /\ o \in Objects /\ nodes[node[o].name] = o /\ call[c].run[o] \notin {"refused", "racing"}
      /\ node[o].name \in Doomed(c)
  BY DEF OpenInv, DoomedInv, Dying, Doomed
<1>2. /\ node[o].name \in DOMAIN nodes
      /\ \A d \in Callers : node[o].name \in Doomed(d) => d = c
  BY <1>1 DEF OpenInv, DoomedInv
<1>3. DOMAIN nodes \cap DOMAIN pendingNodes = {} /\ DOMAIN nodes \subseteq vms
  BY DEF OpenInv, NameInv, VMInv
<1>4. \A d \in Callers : o \in Live(d) => node[o].name \in DOMAIN pendingNodes
  BY DEF OpenInv, LiveInv
<1>5. \A p \in Dying(c) : p = o
  BY DEF BasicInv, CallInv, CallOK
<1> QED
  BY <1>1, <1>2, <1>3, <1>4, <1>5

\* What a call is about stays as it is if the names do.
LEMMA SetsOfOthers ==
  ASSUME TypeOK, NEW c \in Callers, OthersStay(c), NEW d \in Callers, d # c
  PROVE  /\ call'[d] = call[d] /\ Live(d)' = Live(d) /\ Dying(d)' = Dying(d)
         /\ Reserving(d)' <=> Reserving(d)
<1>1. call'[d] = call[d]
  BY DEF OthersStay
<1> QED
  BY <1>1 DEF Live, Dying, Reserving

LEMMA DoomedOfOthers ==
  ASSUME TypeOK, BasicInv, NEW c \in Callers, OthersStay(c), SameObjects, NEW d \in Callers, d # c
  PROVE  Doomed(d)' = Doomed(d)
<1>1. call'[d] = call[d] /\ Dying(d)' = Dying(d)
  BY SetsOfOthers
<1>2. \A o \in Dying(d) : node'[o].name = node[o].name
  BY InUse DEF SameObjects
<1> QED
  BY <1>1, <1>2 DEF Doomed

\* A step of c that leaves the maps, the node objects and the VMs alone.
LEMMA OpenMoves ==
  ASSUME TypeOK, TypeOK', BasicInv, OpenInv, NEW c \in Callers, OthersStay(c),
         UNCHANGED <<nodes, pendingNodes, numOf, node, vms>>,
         \A o \in Live(c)' : o \in Live(c) /\ call'[c].run[o] \in {call[c].run[o], "start", "none"},
         Dying(c) \subseteq Dying(c)',
         Doomed(c)' \subseteq DOMAIN nodes,
         \A d \in Callers \ {c} : Doomed(c)' \cap Doomed(d) = {},
         \A o \in Dying(c)' : /\ nodes[node[o].name] = o /\ node[o].name \notin call'[c].victims
                              /\ call'[c].run[o] \notin {"refused", "racing"},
         call'[c].pc = "resize" =>
           /\ call'[c].size <= MaxNodeSize
           /\ FrontEnd = "externalgrpc" => call'[c].size > targetSize,
         FrontEnd = "externalgrpc" /\ (call'[c].pc = "resize" \/ Reserving(c)') =>
           \A d \in Callers \ {c} : call[d].pc # "resize" /\ (call'[c].pc = "resize" => ~Reserving(d)),
         lock' \in {lock, NoCaller, c}, lock' = c => call'[c].pc \in HasTurn
  PROVE  OpenInv'
<1>1. \A d \in Callers : d # c => /\ call'[d] = call[d] /\ Live(d)' = Live(d) /\ Dying(d)' = Dying(d)
                                  /\ Doomed(d)' = Doomed(d) /\ (Reserving(d)' <=> Reserving(d))
  BY SetsOfOthers, DoomedOfOthers DEF SameObjects
<1>2. NameInv'
  BY DEF OpenInv, NameInv, Tracked
<1>3. LiveInv'
  <2> SUFFICES ASSUME NEW d \in Callers, NEW o \in Live(d)'
               PROVE  /\ node[o].name \in DOMAIN pendingNodes /\ pendingNodes[node[o].name] = o
                      /\ \A e \in Callers : o \in Live(e)' => d = e
                      /\ call'[d].run[o] \in {"creating", "booting"} => node[o].state = "Creating"
                      /\ call'[d].run[o] = "joined" => node[o].state \in {"Running", "Stopped"}
                      /\ call'[d].run[o] \in {"booting", "joined"} => node[o].name \in vms
                      /\ call'[d].run[o] = "refused" => node[o].name \notin vms
                      /\ call'[d].run[o] # "racing"
    BY DEF LiveInv
  <2>1. o \in Live(d) /\ call'[d].run[o] \in {call[d].run[o], "start", "none"}
    BY <1>1
  <2>2. \A e \in Callers : o \in Live(e)' => o \in Live(e)
    BY <1>1
  <2> QED
    BY <2>1, <2>2 DEF OpenInv, LiveInv
<1>4. DoomedInv'
  <2>1. \A d \in Callers : Doomed(d)' \subseteq DOMAIN nodes
    BY <1>1 DEF OpenInv, DoomedInv
  <2>2. \A d, e \in Callers : d # e => Doomed(d)' \cap Doomed(e)' = {}
    BY <1>1 DEF OpenInv, DoomedInv
  <2>3. \A d \in Callers : \A o \in Dying(d)' :
          /\ nodes[node[o].name] = o /\ node[o].name \notin call'[d].victims
          /\ call'[d].run[o] \notin {"refused", "racing"}
    BY <1>1 DEF OpenInv, DoomedInv
  <2> QED
    BY <2>1, <2>2, <2>3 DEF DoomedInv
<1>5. RunningInv'
  <2>1. \A d \in Callers : Dying(d) \subseteq Dying(d)'
    BY <1>1
  <2> QED
    BY <2>1 DEF OpenInv, RunningInv
<1>6. VMInv'
  BY DEF OpenInv, VMInv, Tracked
<1>7. StaleInv'
  <2>1. targetSize' = targetSize
    BY DEF targetSize
  <2> QED
    BY <1>1, <2>1 DEF OpenInv, StaleInv
<1>8. LockInv'
  <2>1. lock' # NoCaller => call'[lock'].pc \in HasTurn
    <3>1. CASE lock' = c
      BY <3>1
    <3>2. CASE lock' = lock /\ lock # c /\ lock # NoCaller
      <4>1. lock \in Callers /\ call[lock].pc \in HasTurn
        BY <3>2 DEF OpenInv, LockInv, TypeOK
      <4> QED
        BY <1>1, <3>2, <4>1
    <3> QED
      BY <3>1, <3>2
  <2> QED
    BY <2>1 DEF LockInv
<1> QED
  BY <1>2, <1>3, <1>4, <1>5, <1>6, <1>7, <1>8 DEF OpenInv

\* Whoever works on a node creates it or deletes it.
LEMMA AtWork ==
  ASSUME CleanupInv, BasicInv, Open, NEW c \in Callers, NEW o \in Objects, call[c].run[o] # "none"
  PROVE  /\ (call[c].pc = "launch" /\ o \in Live(c)) \/ (call[c].pc = "delete" /\ o \in Dying(c))
         /\ call[c].run[o] \in LaunchPhase => call[c].pc = "launch"
<1>1. /\ call[c].pc \in {"launch", "destroy", "delete", "cleanup"}
      /\ call[c].run[o] \in LaunchPhase => call[c].pc = "launch"
  BY DEF CleanupInv, WorkInv
<1>2. call[c].pc # "destroy" /\ call[c].pc # "cleanup"
  BY DEF BasicInv, CallInv, CallOK, Open
<1> QED
  BY <1>1, <1>2 DEF Live, Dying

\* The goroutine of a node goes on.
LEMMA OpenPhase ==
  ASSUME TypeOK, TypeOK', CleanupInv, BasicInv, Open, OpenInv, NEW c \in Callers, NEW o \in Objects,
         NEW p, p # "none", SetPhase(c, o, p), call[c].run[o] # "none",
         UNCHANGED <<nodes, pendingNodes, numOf, lock>>, SameObjects,
         \A q \in Objects : /\ node'[q].name = node[q].name
                            /\ q # o => node'[q].state = node[q].state,
         vms' \in {vms, vms \cup {node[o].name}},
         call[c].pc = "launch" =>
           /\ p \in {"creating", "booting"} => node'[o].state = "Creating"
           /\ p = "joined" => node'[o].state \in {"Running", "Stopped"}
           /\ p \in {"booting", "joined"} => node[o].name \in vms'
           /\ p = "refused" => node[o].name \notin vms'
           /\ p # "racing",
         call[c].pc = "delete" => p \notin {"refused", "racing"} /\ vms' = vms
  PROVE  OpenInv'
<1>0. (call[c].pc = "launch" /\ o \in Live(c)) \/ (call[c].pc = "delete" /\ o \in Dying(c))
  BY AtWork
<1>1. /\ OthersStay(c) /\ call'[c].pc = call[c].pc /\ call'[c].todo = call[c].todo
      /\ call'[c].victims = call[c].victims
      /\ \A q \in Objects : call'[c].run[q] = IF q = o THEN p ELSE call[c].run[q]
  BY SetPhaseFields
<1>2. \A d \in Callers : d # c => call'[d] = call[d]
  BY <1>1 DEF OthersStay
<1>3. \A d \in Callers : Live(d)' = Live(d) /\ Dying(d)' = Dying(d)
  BY <1>1, <1>2 DEF Live, Dying
<1>4. \A d \in Callers : Doomed(d)' = Doomed(d) /\ call'[d].pc = call[d].pc
  BY <1>1, <1>2, <1>3 DEF Doomed, Dying
<1>5. NameInv'
  BY DEF OpenInv, NameInv, Tracked, TypeOK, IsMap
<1>6. LiveInv'
  <2> SUFFICES ASSUME NEW d \in Callers, NEW q \in Live(d)
               PROVE  /\ node'[q].name \in DOMAIN pendingNodes /\ pendingNodes[node'[q].name] = q
                      /\ \A e \in Callers : q \in Live(e) => d = e
                      /\ call'[d].run[q] \in {"creating", "booting"} => node'[q].state = "Creating"
                      /\ call'[d].run[q] = "joined" => node'[q].state \in {"Running", "Stopped"}
                      /\ call'[d].run[q] \in {"booting", "joined"} => node'[q].name \in vms'
                      /\ call'[d].run[q] = "refused" => node'[q].name \notin vms'
                      /\ call'[d].run[q] # "racing"
    BY <1>3 DEF LiveInv
  <2>1. /\ q \in Objects /\ node[q].name \in DOMAIN pendingNodes /\ pendingNodes[node[q].name] = q
        /\ \A e \in Callers : q \in Live(e) => d = e
    BY LiveFacts
  <2>2. CASE q = o
    <3>1. call[c].pc = "launch" /\ d = c
      BY <1>0, <2>1, <2>2, DyingFacts
    <3> QED
      BY <1>1, <2>1, <2>2, <3>1
  <2>3. CASE q # o
    <3>1. call'[d].run[q] = call[d].run[q] /\ node'[q].state = node[q].state /\ node'[q].name = node[q].name
      BY <1>1, <1>2, <2>1, <2>3
    <3>2. call[c].pc = "launch" => node[q].name # node[o].name
      BY <1>0, <2>3, LiveFacts, DyingFacts
    <3>3. node[q].name \in vms' <=> node[q].name \in vms
      BY <1>0, <3>2
    <3> QED
      BY <2>1, <3>1, <3>3 DEF OpenInv, LiveInv
  <2> QED
    BY <2>2, <2>3
<1>7. DoomedInv'
  <2> SUFFICES ASSUME NEW d \in Callers
               PROVE  /\ Doomed(d) \subseteq DOMAIN nodes
                      /\ \A e \in Callers : d # e => Doomed(d) \cap Doomed(e) = {}
                      /\ \A q \in Dying(d) : /\ nodes[node'[q].name] = q /\ node'[q].name \notin call'[d].victims
                                             /\ call'[d].run[q] \notin {"refused", "racing"}
    BY <1>3, <1>4 DEF DoomedInv
  <2>1. \A q \in Dying(d) : /\ nodes[node[q].name] = q /\ node[q].name \notin call[d].victims
                            /\ call[d].run[q] \notin {"refused", "racing"} /\ q \in Objects
    BY DEF OpenInv, DoomedInv, Dying
  <2>2. \A q \in Dying(d) : call'[d].run[q] = call[d].run[q] \/ (d = c /\ q = o /\ call[c].pc = "delete" /\ call'[d].run[q] = p)
    BY <1>1, <1>2, <2>1 DEF Dying
  <2>3. call'[d].victims = call[d].victims
    BY <1>1, <1>2
  <2>4. \A q \in Dying(d) : /\ nodes[node'[q].name] = q /\ node'[q].name \notin call'[d].victims
                            /\ call'[d].run[q] \notin {"refused", "racing"}
    BY <2>1, <2>2, <2>3
  <2> QED
    BY <2>4 DEF OpenInv, DoomedInv
<1>8. RunningInv'
  <2> SUFFICES ASSUME NEW n \in DOMAIN nodes
               PROVE  node'[nodes[n]].state \in {"Running", "Stopped"} \/ \E d \in Callers : nodes[n] \in Dying(d)
    BY <1>3 DEF RunningInv
  <2>1. nodes[n] \in Objects
    BY DEF TypeOK, IsMap
  <2>2. nodes[n] = o => o \in Dying(c)
    BY <1>0, LiveFacts
  <2> QED
    BY <2>1, <2>2 DEF OpenInv, RunningInv
<1>9. VMInv'
  <2>1. node[o].name \in Tracked \/ vms' = vms
    BY <1>0, LiveFacts DEF Tracked
  <2> QED
    BY <2>1 DEF OpenInv, VMInv, Tracked
<1>10. StaleInv'
  <2>1. targetSize' = targetSize
    BY DEF targetSize
  <2>2. \A d \in Callers : call[d].pc = "resize" => call'[d] = call[d]
    BY <1>0, <1>2
  <2>3. \A d \in Callers : call'[d].pc = call[d].pc /\ (Reserving(d)' <=> Reserving(d))
    BY <1>4 DEF Reserving
  <2> QED
    BY <2>1, <2>2, <2>3 DEF OpenInv, StaleInv
<1>11. LockInv'
  BY <1>4 DEF OpenInv, LockInv, TypeOK
<1> QED
  BY <1>5, <1>6, <1>7, <1>8, <1>9, <1>10, <1>11 DEF OpenInv

\* The creation of a node ends, well or not.
LEMMA LiveEnds ==
  ASSUME TypeOK, TypeOK', CleanupInv, BasicInv, Open, OpenInv, NEW c \in Callers, NEW o \in Objects,
         SetPhase(c, o, "none"), call[c].pc = "launch", call[c].run[o] # "none",
         SameObjects, \A q \in Objects : /\ node'[q].name = node[q].name
                                         /\ q # o => node'[q].state = node[q].state,
         \A n \in DOMAIN pendingNodes : n # node[o].name =>
           n \in DOMAIN pendingNodes' /\ pendingNodes'[n] = pendingNodes[n],
         \A n : n # node[o].name => (n \in vms' <=> n \in vms)
  PROVE  /\ LiveInv' /\ o \in Live(c) /\ Live(c)' = Live(c) \ {o} /\ OthersStay(c)
         /\ \A d \in Callers : /\ Dying(d)' = Dying(d) /\ Doomed(d)' = Doomed(d)
                               /\ d # c => Live(d)' = Live(d)
                               /\ call'[d].pc = call[d].pc /\ call'[d].victims = call[d].victims
                               /\ \A q \in Dying(d) : call'[d].run[q] = call[d].run[q]
<1>1. /\ OthersStay(c) /\ call'[c].pc = "launch" /\ call'[c].todo = call[c].todo
      /\ call'[c].victims = call[c].victims
      /\ \A q \in Objects : call'[c].run[q] = IF q = o THEN "none" ELSE call[c].run[q]
  BY SetPhaseFields
<1>2. \A d \in Callers : d # c => call'[d] = call[d]
  BY <1>1 DEF OthersStay
<1>3. o \notin call[c].todo /\ o \in Live(c)
  BY DEF CleanupInv, WorkInv, Live
<1>4. Live(c)' = Live(c) \ {o} /\ \A d \in Callers : d # c => Live(d)' = Live(d)
  BY <1>1, <1>2, <1>3 DEF Live
<1>5. \A d \in Callers : /\ Dying(d)' = Dying(d) /\ call'[d].pc = call[d].pc
                         /\ call'[d].victims = call[d].victims
  BY <1>1, <1>2 DEF Dying
<1>6. \A d \in Callers : \A q \in Dying(d) : call'[d].run[q] = call[d].run[q]
  BY <1>1, <1>2 DEF Dying
<1>7. \A d \in Callers : Doomed(d)' = Doomed(d)
  BY <1>5 DEF Doomed, Dying
<1>8. LiveInv'
  <2> SUFFICES ASSUME NEW d \in Callers, NEW q \in Live(d)'
               PROVE  /\ node'[q].name \in DOMAIN pendingNodes' /\ pendingNodes'[node'[q].name] = q
                      /\ \A e \in Callers : q \in Live(e)' => d = e
                      /\ call'[d].run[q] \in {"creating", "booting"} => node'[q].state = "Creating"
                      /\ call'[d].run[q] = "joined" => node'[q].state \in {"Running", "Stopped"}
                      /\ call'[d].run[q] \in {"booting", "joined"} => node'[q].name \in vms'
                      /\ call'[d].run[q] = "refused" => node'[q].name \notin vms'
                      /\ call'[d].run[q] # "racing"
    BY DEF LiveInv
  <2>1. q \in Live(d) /\ \A e \in Callers : q \in Live(e)' => q \in Live(e)
    BY <1>4
  <2>2. /\ q \in Objects /\ node[q].name \in DOMAIN pendingNodes /\ pendingNodes[node[q].name] = q
        /\ \A e \in Callers : q \in Live(e) => d = e
    BY <2>1, LiveFacts
  <2>3. q # o
    BY <1>3, <1>4, <2>2
  <2>4. node[q].name # node[o].name
    BY <1>3, <2>1, <2>3, LiveFacts
  <2>5. call'[d].run[q] = call[d].run[q] /\ node'[q].state = node[q].state /\ node'[q].name = node[q].name
    BY <1>1, <1>2, <2>2, <2>3
  <2>6. node[q].name \in vms' <=> node[q].name \in vms
    BY <2>4
  <2>7. node[q].name \in DOMAIN pendingNodes' /\ pendingNodes'[node[q].name] = q
    BY <2>2, <2>4
  <2> QED
    BY <2>1, <2>2, <2>5, <2>6, <2>7 DEF OpenInv, LiveInv
<1> QED
  BY <1>1, <1>3, <1>4, <1>5, <1>6, <1>7, <1>8

LEMMA OpenRefused ==
  ASSUME TypeOK, TypeOK', CleanupInv, BasicInv, Open, OpenInv, NEW c \in Callers, NEW o \in Objects,
         CreateNodeRefused(c, o)
  PROVE  OpenInv'
<1>1. /\ call[c].run[o] = "start" /\ SetPhase(c, o, "none")
      /\ UNCHANGED <<nodes, pendingNodes, numOf, lock, node, vms>>
  BY DEF CreateNodeRefused
<1>2. call[c].pc = "launch"
  BY <1>1, PhaseSets DEF CleanupInv, WorkInv
<1>3. /\ LiveInv' /\ OthersStay(c)
      /\ \A d \in Callers : /\ Dying(d)' = Dying(d) /\ Doomed(d)' = Doomed(d)
                            /\ call'[d].pc = call[d].pc /\ call'[d].victims = call[d].victims
                            /\ \A q \in Dying(d) : call'[d].run[q] = call[d].run[q]
  BY <1>1, <1>2, LiveEnds DEF SameObjects
<1>4. NameInv' /\ VMInv'
  BY <1>1 DEF OpenInv, NameInv, VMInv, Tracked
<1>5. DoomedInv'
  BY <1>1, <1>3 DEF OpenInv, DoomedInv
<1>6. RunningInv'
  BY <1>1, <1>3 DEF OpenInv, RunningInv
<1>7. StaleInv'
  <2>1. targetSize' = targetSize
    BY <1>1 DEF targetSize
  <2>2. \A d \in Callers : call[d].pc = "resize" => call'[d] = call[d]
    BY <1>2, <1>3 DEF OthersStay
  <2>3. \A d \in Callers : call'[d].pc = call[d].pc /\ (Reserving(d)' <=> Reserving(d))
    BY <1>3 DEF Reserving
  <2> QED
    BY <2>1, <2>2, <2>3 DEF OpenInv, StaleInv
<1>8. LockInv'
  BY <1>1, <1>3 DEF OpenInv, LockInv, TypeOK
<1> QED
  BY <1>3, <1>4, <1>5, <1>6, <1>7, <1>8 DEF OpenInv

\* createNode makes the node one of the nodes of the group: ...
LEMMA OpenSucceeds ==
  ASSUME TypeOK, TypeOK', CleanupInv, BasicInv, Open, OpenInv, NEW c \in Callers, NEW o \in Objects,
         LaunchSucceeds(c, o)
  PROVE  OpenInv'
<1>1. /\ call[c].run[o] = "joined" /\ SetPhase(c, o, "none")
      /\ UNCHANGED <<lock, node, vms>> /\ numOf' = Counted(node[o].name, 1)
      /\ nodes' = Put(nodes, node[o].name, o) /\ pendingNodes' = Del(pendingNodes, node[o].name)
  BY DEF LaunchSucceeds
<1> DEFINE n == node[o].name
<1>2. call[c].pc = "launch"
  BY <1>1, PhaseSets DEF CleanupInv, WorkInv
<1>a. /\ DOMAIN nodes' = DOMAIN nodes \cup {n} /\ nodes'[n] = o
      /\ \A m \in DOMAIN nodes : m # n => nodes'[m] = nodes[m]
      /\ DOMAIN pendingNodes' = DOMAIN pendingNodes \ {n}
      /\ \A m \in DOMAIN pendingNodes' : pendingNodes'[m] = pendingNodes[m]
  BY <1>1 DEF Put, Del
<1>3. /\ LiveInv' /\ OthersStay(c) /\ o \in Live(c)
      /\ \A d \in Callers : /\ Dying(d)' = Dying(d) /\ Doomed(d)' = Doomed(d)
                            /\ call'[d].pc = call[d].pc /\ call'[d].victims = call[d].victims
                            /\ \A q \in Dying(d) : call'[d].run[q] = call[d].run[q]
  BY <1>1, <1>2, <1>a, LiveEnds DEF SameObjects
<1>4. n \in DOMAIN pendingNodes /\ n \notin DOMAIN nodes /\ n \in vms /\ node[o].state \in {"Running", "Stopped"}
  BY <1>1, <1>3, LiveFacts DEF OpenInv, LiveInv
<1>b. Tracked' = Tracked
  BY <1>4, <1>a DEF Tracked
<1> HIDE DEF n
<1>5. NameInv'
  <2>1. \A m \in DOMAIN nodes' : node[nodes'[m]].name = m
    BY <1>a DEF OpenInv, NameInv, n
  <2> QED
    BY <1>1, <1>a, <1>b, <2>1 DEF OpenInv, NameInv
<1>6. VMInv'
  <2>1. IsFiniteSet(DOMAIN nodes)
    BY DEF TypeOK, IsMap
  <2>2. Cardinality(DOMAIN nodes') = Cardinality(DOMAIN nodes) + 1
    BY <1>4, <1>a, <2>1, FS_AddElement
  <2>3. numOf'.provisionned = numOf.provisionned + 1
    <3>1. n[1] = "autoscaled"
      BY <1>4 DEF OpenInv, NameInv, Tracked
    <3>2. numOf' = [numOf EXCEPT !.provisionned = @ + 1]
      BY <1>1, <3>1 DEF Counted, n
    <3> QED
      BY <3>2 DEF TypeOK
  <2> QED
    BY <1>1, <1>4, <1>a, <1>b, <2>2, <2>3 DEF OpenInv, VMInv
<1>7. DoomedInv'
  <2> SUFFICES ASSUME NEW d \in Callers
               PROVE  /\ Doomed(d) \subseteq DOMAIN nodes'
                      /\ \A e \in Callers : d # e => Doomed(d) \cap Doomed(e) = {}
                      /\ \A q \in Dying(d) : /\ nodes'[node[q].name] = q /\ node[q].name \notin call'[d].victims
                                             /\ call'[d].run[q] \notin {"refused", "racing"}
    BY <1>1, <1>3 DEF DoomedInv
  <2>1. Doomed(d) \subseteq DOMAIN nodes /\ \A e \in Callers : d # e => Doomed(d) \cap Doomed(e) = {}
    BY DEF OpenInv, DoomedInv
  <2>2. \A q \in Dying(d) : /\ nodes[node[q].name] = q /\ node[q].name \notin call'[d].victims
                            /\ call'[d].run[q] \notin {"refused", "racing"}
    BY <1>3 DEF OpenInv, DoomedInv
  <2>3. \A q \in Dying(d) : node[q].name \in DOMAIN nodes
    BY DyingFacts
  <2> QED
    BY <1>4, <1>a, <2>1, <2>2, <2>3
<1>8. RunningInv'
  <2> SUFFICES ASSUME NEW m \in DOMAIN nodes'
               PROVE  node[nodes'[m]].state \in {"Running", "Stopped"} \/ \E d \in Callers : nodes'[m] \in Dying(d)
    BY <1>1, <1>3 DEF RunningInv
  <2> QED
    BY <1>4, <1>a DEF OpenInv, RunningInv
<1>9. StaleInv'
  <2>1. targetSize' = targetSize
    <3>1. IsFiniteSet(DOMAIN nodes) /\ IsFiniteSet(DOMAIN pendingNodes)
      BY DEF TypeOK, IsMap
    <3>2. Cardinality(DOMAIN nodes') = Cardinality(DOMAIN nodes) + 1
      BY <1>4, <1>a, <3>1, FS_AddElement
    <3>3. Cardinality(DOMAIN pendingNodes') = Cardinality(DOMAIN pendingNodes) - 1
      BY <1>4, <1>a, <3>1, FS_RemoveElement
    <3>4. Cardinality(DOMAIN nodes) \in Nat /\ Cardinality(DOMAIN pendingNodes) \in Nat
      BY <3>1, FS_CardinalityType
    <3> QED
      BY <3>2, <3>3, <3>4 DEF targetSize
  <2>2. \A d \in Callers : call[d].pc = "resize" => call'[d] = call[d]
    BY <1>2, <1>3 DEF OthersStay
  <2>3. \A d \in Callers : call'[d].pc = call[d].pc /\ (Reserving(d)' <=> Reserving(d))
    BY <1>3 DEF Reserving
  <2> QED
    BY <2>1, <2>2, <2>3 DEF OpenInv, StaleInv
<1>10. LockInv'
  BY <1>1, <1>3 DEF OpenInv, LockInv, TypeOK
<1> QED
  BY <1>3, <1>5, <1>6, <1>7, <1>8, <1>9, <1>10 DEF OpenInv

\* Nobody else powers off the VM of a node.
LEMMA NobodyPowersOff ==
  ASSUME TypeOK, CleanupInv, BasicInv, Open, OpenInv, NEW c \in Callers, NEW o \in Live(c) \cup Dying(c)
  PROVE  ~PoweredOff(c, o)
<1> SUFFICES ASSUME NEW d \in Callers, NEW p \in Objects, d # c, call[d].run[p] = "stopped",
                    node[p].name = node[o].name
             PROVE  FALSE
  BY DEF PoweredOff
<1>1. p \in Live(d) \/ p \in Dying(d)
  BY AtWork
<1>2. CASE o \in Live(c)
  <2>1. p \notin Live(d)
    BY <1>2, LiveFacts
  <2>2. p \notin Dying(d)
    <3>1. node[o].name \notin DOMAIN nodes
      BY <1>2, LiveFacts
    <3> QED
      BY <3>1, DyingFacts
  <2> QED
    BY <1>1, <2>1, <2>2
<1>3. CASE o \in Dying(c)
  <2>1. p \notin Live(d)
    <3>1. node[o].name \in DOMAIN nodes
      BY <1>3, DyingFacts
    <3> QED
      BY <3>1, LiveFacts
  <2>2. p \notin Dying(d)
    <3>1. \A e \in Callers : node[o].name \in Doomed(e) => e = c
      BY <1>3, DyingFacts
    <3> QED
      BY <3>1 DEF Doomed
  <2> QED
    BY <1>1, <2>1, <2>2
<1> QED
  BY <1>2, <1>3

\* When deleteVM ends the VM is gone, or there was none; that of a registered node is.
LEMMA VMIsGone ==
  ASSUME Orderly, TypeOK, CleanupInv, BasicInv, Open, OpenInv, NEW c \in Callers, NEW o \in Objects,
         VMDeleted(c, o) \/ VMNotDeleted(c, o)
  PROVE  /\ vms' = vms \ {node[o].name} /\ SameObjects
         /\ \A q \in Objects : /\ node'[q].name = node[q].name /\ node'[q].index = node[q].index
                               /\ q # o => node'[q].state = node[q].state
         /\ call[c].run[o] \in {"deleting", "racing", "stopped", "refused"}
         /\ o \in Dying(c) => VMDeleted(c, o)
<1>1. /\ SameObjects
      /\ call[c].run[o] \in {"deleting", "racing", "stopped", "refused"}
      /\ \A q \in Objects : node'[q].name = node[q].name /\ node'[q].index = node[q].index
  BY VMDeletedFields
<1>2. \A q \in Objects : q # o => node'[q].state = node[q].state
  BY SetStateFields DEF VMDeleted, VMNotDeleted
<1>3. o \in Live(c) \/ o \in Dying(c)
  BY <1>1, AtWork
<1>4. ~PoweredOff(c, o) /\ "delete" \notin Faults
  BY <1>3, NobodyPowersOff DEF Orderly
<1>5. CASE VMDeleted(c, o)
  <2>1. vms' = vms \ {node[o].name}
    BY <1>5 DEF VMDeleted
  <2> QED
    BY <1>1, <1>2, <1>5, <2>1
<1>6. CASE VMNotDeleted(c, o)
  <2>1. vms' = vms
    BY <1>6 DEF VMNotDeleted
  <2>2. call[c].run[o] \in {"racing", "refused"} \/ node[o].name \notin vms
    BY <1>4, <1>6 DEF VMNotDeleted
  <2>3. o \in Live(c) => node[o].name \notin vms
    <3> HAVE o \in Live(c)
    <3>1. call[c].run[o] # "racing" /\ (call[c].run[o] = "refused" => node[o].name \notin vms)
      BY DEF OpenInv, LiveInv
    <3> QED
      BY <2>2, <3>1
  <2>4. o \notin Dying(c)
    <3> SUFFICES ASSUME o \in Dying(c) PROVE FALSE
      OBVIOUS
    <3>1. call[c].run[o] \notin {"refused", "racing"} /\ node[o].name \in vms
      BY DyingFacts
    <3> QED
      BY <2>2, <3>1
  <2>5. node[o].name \notin vms
    BY <1>3, <2>3, <2>4
  <2> QED
    BY <1>1, <1>2, <2>1, <2>4, <2>5
<1> QED
  BY <1>5, <1>6

\* ... or forgets the node once its VM has gone.
LEMMA OpenCleaned ==
  ASSUME Orderly, TypeOK, TypeOK', CleanupInv, BasicInv, Open, OpenInv, NEW c \in Callers, NEW o \in Objects,
         LaunchCleaned(c, o)
  PROVE  OpenInv'
<1>1. /\ call[c].pc = "launch" /\ SetPhase(c, o, "none") /\ (VMDeleted(c, o) \/ VMNotDeleted(c, o))
      /\ UNCHANGED <<nodes, lock, numOf>> /\ pendingNodes' = Del(pendingNodes, node[o].name)
  BY DEF LaunchCleaned
<1> DEFINE n == node[o].name
<1>2. /\ vms' = vms \ {n} /\ SameObjects
      /\ \A q \in Objects : /\ node'[q].name = node[q].name
                            /\ q # o => node'[q].state = node[q].state
      /\ call[c].run[o] # "none"
  BY <1>1, VMIsGone
<1>a. /\ DOMAIN pendingNodes' = DOMAIN pendingNodes \ {n}
      /\ \A m \in DOMAIN pendingNodes' : pendingNodes'[m] = pendingNodes[m]
  BY <1>1 DEF Del
<1>3. /\ LiveInv' /\ OthersStay(c) /\ o \in Live(c)
      /\ \A d \in Callers : /\ Dying(d)' = Dying(d) /\ Doomed(d)' = Doomed(d)
                            /\ call'[d].pc = call[d].pc /\ call'[d].victims = call[d].victims
                            /\ \A q \in Dying(d) : call'[d].run[q] = call[d].run[q]
  <2>1. \A m \in DOMAIN pendingNodes : m # n => m \in DOMAIN pendingNodes' /\ pendingNodes'[m] = pendingNodes[m]
    BY <1>a
  <2>2. \A m : m # n => (m \in vms' <=> m \in vms)
    BY <1>2
  <2> QED
    BY <1>1, <1>2, <2>1, <2>2, LiveEnds
<1>4. /\ n \in DOMAIN pendingNodes /\ n \notin DOMAIN nodes
      /\ \A m \in DOMAIN nodes : nodes[m] # o
  BY <1>3, LiveFacts
<1> HIDE DEF n
<1>b. Tracked' = Tracked \ {n}
  BY <1>1, <1>4, <1>a DEF Tracked
<1>c. \A m \in DOMAIN nodes : nodes[m] \in Objects
  BY DEF TypeOK, IsMap
<1>d. \A m \in DOMAIN pendingNodes : pendingNodes[m] \in Objects
  BY DEF TypeOK, IsMap
<1>5. NameInv'
  BY <1>1, <1>2, <1>a, <1>b, <1>c, <1>d DEF OpenInv, NameInv
<1>6. VMInv'
  BY <1>1, <1>2, <1>4, <1>b DEF OpenInv, VMInv
<1>7. DoomedInv'
  <2> SUFFICES ASSUME NEW d \in Callers
               PROVE  /\ Doomed(d) \subseteq DOMAIN nodes
                      /\ \A e \in Callers : d # e => Doomed(d) \cap Doomed(e) = {}
                      /\ \A q \in Dying(d) : /\ nodes[node'[q].name] = q /\ node'[q].name \notin call'[d].victims
                                             /\ call'[d].run[q] \notin {"refused", "racing"}
    BY <1>1, <1>3 DEF DoomedInv
  <2>1. \A q \in Dying(d) : q \in Objects
    BY DEF Dying
  <2> QED
    BY <1>2, <1>3, <2>1 DEF OpenInv, DoomedInv
<1>8. RunningInv'
  BY <1>1, <1>2, <1>3, <1>4, <1>c DEF OpenInv, RunningInv
<1>9. StaleInv'
  <2>1. targetSize' = targetSize - 1 /\ targetSize \in Nat
    <3>1. IsFiniteSet(DOMAIN nodes) /\ IsFiniteSet(DOMAIN pendingNodes)
      BY DEF TypeOK, IsMap
    <3>2. Cardinality(DOMAIN pendingNodes') = Cardinality(DOMAIN pendingNodes) - 1
      BY <1>4, <1>a, <3>1, FS_RemoveElement
    <3>3. Cardinality(DOMAIN nodes) \in Nat /\ Cardinality(DOMAIN pendingNodes) \in Nat
      BY <3>1, FS_CardinalityType
    <3> QED
      BY <1>1, <3>2, <3>3 DEF targetSize
  <2>2. \A d \in Callers : call[d].pc = "resize" => call'[d] = call[d]
    BY <1>1, <1>3 DEF OthersStay
  <2>3. \A d \in Callers : call'[d].pc = call[d].pc /\ (Reserving(d)' <=> Reserving(d))
    BY <1>3 DEF Reserving
  <2>4. \A d \in Callers : call[d].size \in Int
    BY CallType DEF Call
  <2> SUFFICES ASSUME NEW d \in Callers, call[d].pc = "resize"
               PROVE  /\ call[d].size <= MaxNodeSize
                      /\ FrontEnd = "externalgrpc" =>
                           /\ call[d].size > targetSize'
                           /\ \A e \in Callers : call[e].pc = "resize" \/ Reserving(e) => e = d
    BY <2>2, <2>3 DEF StaleInv
  <2> QED
    BY <2>1, <2>4 DEF OpenInv, StaleInv
<1>10. LockInv'
  BY <1>1, <1>3 DEF OpenInv, LockInv, TypeOK
<1> QED
  BY <1>3, <1>5, <1>6, <1>7, <1>8, <1>9, <1>10 DEF OpenInv


\* deleteNode forgets a node that has gone with its VM.
LEMMA DeletedFields ==
  ASSUME Orderly, TypeOK, CleanupInv, BasicInv, Open, OpenInv, NEW c \in Callers, NEW o \in Objects,
         NodeDeleted(c, o)
  PROVE  o \in Dying(c) /\ SetPhase(c, o, "none") /\ VMDeleted(c, o)
<1>1. call[c].pc = "delete" /\ (VMDeleted(c, o) \/ VMNotDeleted(c, o))
  BY DEF NodeDeleted
<1>2. call[c].run[o] # "none"
  BY <1>1, VMDeletedFields
<1>3. o \in Dying(c)
  BY <1>1, <1>2 DEF Dying
<1>4. ~VMNotDeleted(c, o)
  <2>1. call[c].run[o] \notin {"refused", "racing"} /\ node[o].name \in vms
    BY <1>3, DyingFacts
  <2>2. ~PoweredOff(c, o) /\ "delete" \notin Faults
    BY <1>3, NobodyPowersOff DEF Orderly
  <2> QED
    BY <2>1, <2>2 DEF VMNotDeleted
<1> QED
  BY <1>3, <1>4 DEF NodeDeleted

LEMMA OpenDeleted ==
  ASSUME Orderly, TypeOK, TypeOK', CleanupInv, BasicInv, Open, OpenInv, NEW c \in Callers, NEW o \in Objects,
         NodeDeleted(c, o)
  PROVE  OpenInv'
<1>1. /\ call[c].pc = "delete" /\ SetPhase(c, o, "none") /\ o \in Dying(c) /\ (VMDeleted(c, o) \/ VMNotDeleted(c, o))
      /\ UNCHANGED lock /\ Forget(o) /\ numOf' = Counted(node[o].name, -1)
  BY DeletedFields DEF NodeDeleted
<1> DEFINE n == node[o].name
<1>2. /\ vms' = vms \ {n} /\ SameObjects
      /\ \A q \in Objects : /\ node'[q].name = node[q].name
                            /\ q # o => node'[q].state = node[q].state
  BY <1>1, VMIsGone
<1>3. /\ n \in DOMAIN nodes /\ n \notin DOMAIN pendingNodes /\ nodes[n] = o
      /\ \A d \in Callers : o \notin Live(d)
      /\ \A d \in Callers : n \in Doomed(d) => d = c
      /\ \A p \in Dying(c) : p = o
  BY <1>1, DyingFacts
<1>a. /\ DOMAIN nodes' = DOMAIN nodes \ {n}
      /\ \A m \in DOMAIN nodes' : nodes'[m] = nodes[m]
      /\ DOMAIN pendingNodes' = DOMAIN pendingNodes
      /\ \A m \in DOMAIN pendingNodes : pendingNodes'[m] = pendingNodes[m]
  BY <1>1, <1>3 DEF Forget, Del
<1>4. n \notin call[c].victims
  BY <1>1 DEF OpenInv, DoomedInv
<1>5. /\ OthersStay(c) /\ call'[c].pc = "delete" /\ call'[c].victims = call[c].victims
      /\ \A q \in Objects : call'[c].run[q] = IF q = o THEN "none" ELSE call[c].run[q]
  BY <1>1, SetPhaseFields
<1>6. \A d \in Callers : d # c => call'[d] = call[d]
  BY <1>5 DEF OthersStay
<1>7. /\ Dying(c)' = {} /\ Doomed(c)' = Doomed(c) \ {n}
      /\ \A d \in Callers : d # c => Dying(d)' = Dying(d) /\ Doomed(d)' = Doomed(d)
  <2>1. Dying(c) = {o} /\ Dying(c)' = {}
    BY <1>1, <1>3, <1>5 DEF Dying
  <2>2. Doomed(c) = {n} \cup call[c].victims /\ Doomed(c)' = call[c].victims
    BY <1>5, <2>1 DEF Doomed
  <2>3. \A d \in Callers : d # c => Dying(d)' = Dying(d) /\ Doomed(d)' = Doomed(d)
    BY <1>2, <1>5, SetsOfOthers, DoomedOfOthers
  <2> QED
    BY <1>4, <2>1, <2>2, <2>3
<1> HIDE DEF n
<1>b. Tracked' = Tracked \ {n}
  BY <1>3, <1>a DEF Tracked
<1>c. /\ \A m \in DOMAIN nodes : nodes[m] \in Objects
      /\ \A m \in DOMAIN pendingNodes : pendingNodes[m] \in Objects
  BY DEF TypeOK, IsMap
<1>8. NameInv'
  BY <1>2, <1>a, <1>b, <1>c DEF OpenInv, NameInv
<1>9. LiveInv'
  <2> SUFFICES ASSUME NEW d \in Callers, NEW q \in Live(d)'
               PROVE  /\ node'[q].name \in DOMAIN pendingNodes' /\ pendingNodes'[node'[q].name] = q
                      /\ \A e \in Callers : q \in Live(e)' => d = e
                      /\ call'[d].run[q] \in {"creating", "booting"} => node'[q].state = "Creating"
                      /\ call'[d].run[q] = "joined" => node'[q].state \in {"Running", "Stopped"}
                      /\ call'[d].run[q] \in {"booting", "joined"} => node'[q].name \in vms'
                      /\ call'[d].run[q] = "refused" => node'[q].name \notin vms'
                      /\ call'[d].run[q] # "racing"
    BY DEF LiveInv
  <2>1. \A e \in Callers : Live(e)' = Live(e)
    BY <1>1, <1>5, <1>6 DEF Live
  <2>2. q \in Live(d) /\ \A e \in Callers : q \in Live(e)' => q \in Live(e)
    BY <2>1
  <2>3. /\ q \in Objects /\ node[q].name \in DOMAIN pendingNodes /\ pendingNodes[node[q].name] = q
        /\ \A e \in Callers : q \in Live(e) => d = e
    BY <2>2, LiveFacts
  <2>4. q # o /\ node[q].name # n /\ call[d].pc # "delete"
    BY <1>3, <2>2, <2>3 DEF Live
  <2>5. call'[d].run[q] = call[d].run[q] /\ node'[q].state = node[q].state /\ node'[q].name = node[q].name
    BY <1>1, <1>2, <1>6, <2>3, <2>4
  <2>6. node[q].name \in vms' <=> node[q].name \in vms
    BY <1>2, <2>4 DEF n
  <2> QED
    BY <1>a, <2>2, <2>3, <2>5, <2>6 DEF OpenInv, LiveInv
<1>10. VMInv'
  <2>1. IsFiniteSet(DOMAIN nodes)
    BY DEF TypeOK, IsMap
  <2>2. Cardinality(DOMAIN nodes') = Cardinality(DOMAIN nodes) - 1
    BY <1>3, <1>a, <2>1, FS_RemoveElement
  <2>3. numOf'.provisionned = numOf.provisionned + (-1) /\ numOf.provisionned \in Int
    <3>1. n[1] = "autoscaled"
      BY <1>3 DEF OpenInv, NameInv, Tracked
    <3>2. numOf' = [numOf EXCEPT !.provisionned = @ + (-1)]
      BY <1>1, <3>1 DEF Counted, n
    <3> QED
      BY <3>2 DEF TypeOK
  <2>4. numOf.provisionned = Cardinality(DOMAIN nodes)
    BY DEF OpenInv, VMInv
  <2>5. numOf'.provisionned = Cardinality(DOMAIN nodes')
    BY <2>2, <2>3, <2>4
  <2> QED
    BY <1>2, <1>a, <1>b, <2>5 DEF OpenInv, VMInv, n
<1>11. DoomedInv'
  <2> SUFFICES ASSUME NEW d \in Callers
               PROVE  /\ Doomed(d)' \subseteq DOMAIN nodes'
                      /\ \A e \in Callers : d # e => Doomed(d)' \cap Doomed(e)' = {}
                      /\ \A q \in Dying(d)' : /\ nodes'[node'[q].name] = q /\ node'[q].name \notin call'[d].victims
                                              /\ call'[d].run[q] \notin {"refused", "racing"}
    BY DEF DoomedInv
  <2>1. Doomed(d)' \subseteq Doomed(d) /\ n \notin Doomed(d)' /\ \A e \in Callers : Doomed(e)' \subseteq Doomed(e)
    BY <1>3, <1>7
  <2>2. Doomed(d) \subseteq DOMAIN nodes /\ \A e \in Callers : d # e => Doomed(d) \cap Doomed(e) = {}
    BY DEF OpenInv, DoomedInv
  <2>3. ASSUME NEW q \in Dying(d)'
        PROVE  /\ nodes'[node'[q].name] = q /\ node'[q].name \notin call'[d].victims
               /\ call'[d].run[q] \notin {"refused", "racing"}
    <3>1. d # c /\ q \in Dying(d) /\ call'[d] = call[d]
      BY <1>6, <1>7, <2>3
    <3>2. q \in Objects /\ node[q].name \in DOMAIN nodes /\ node[q].name \in Doomed(d)
      BY <3>1, DyingFacts DEF Doomed
    <3>3. node[q].name # n /\ node'[q].name = node[q].name
      BY <1>2, <1>3, <3>1, <3>2
    <3>4. /\ nodes[node[q].name] = q /\ node[q].name \notin call[d].victims
          /\ call[d].run[q] \notin {"refused", "racing"}
      BY <3>1 DEF OpenInv, DoomedInv
    <3> QED
      BY <1>a, <3>1, <3>2, <3>3, <3>4
  <2> QED
    BY <1>a, <2>1, <2>2, <2>3
<1>12. RunningInv'
  <2> SUFFICES ASSUME NEW m \in DOMAIN nodes'
               PROVE  node'[nodes'[m]].state \in {"Running", "Stopped"} \/ \E d \in Callers : nodes'[m] \in Dying(d)'
    BY DEF RunningInv
  <2>1. m \in DOMAIN nodes /\ m # n /\ nodes'[m] = nodes[m] /\ nodes[m] \in Objects
    BY <1>a, <1>c
  <2>2. nodes[m] # o
    BY <1>3, <2>1 DEF OpenInv, NameInv, n
  <2>3. node'[nodes[m]].state = node[nodes[m]].state /\ nodes[m] \notin Dying(c)
    BY <1>2, <1>3, <2>1, <2>2
  <2>4. node[nodes[m]].state \in {"Running", "Stopped"} \/ \E d \in Callers : nodes[m] \in Dying(d)
    BY <2>1 DEF OpenInv, RunningInv
  <2> QED
    BY <1>7, <2>1, <2>3, <2>4
<1>13. StaleInv'
  <2>1. targetSize' = targetSize - 1 /\ targetSize \in Nat
    <3>1. IsFiniteSet(DOMAIN nodes) /\ IsFiniteSet(DOMAIN pendingNodes)
      BY DEF TypeOK, IsMap
    <3>2. Cardinality(DOMAIN nodes') = Cardinality(DOMAIN nodes) - 1
      BY <1>3, <1>a, <3>1, FS_RemoveElement
    <3>3. Cardinality(DOMAIN nodes) \in Nat /\ Cardinality(DOMAIN pendingNodes) \in Nat
      BY <3>1, FS_CardinalityType
    <3> QED
      BY <1>a, <3>2, <3>3 DEF targetSize
  <2>2. \A d \in Callers : call[d].pc = "resize" => call'[d] = call[d]
    BY <1>1, <1>6
  <2>3. \A d \in Callers : call'[d].pc = call[d].pc /\ (Reserving(d)' <=> Reserving(d))
    BY <1>1, <1>5, <1>6 DEF Reserving
  <2>4. \A d \in Callers : call[d].size \in Int
    BY CallType DEF Call
  <2> SUFFICES ASSUME NEW d \in Callers, call[d].pc = "resize"
               PROVE  /\ call[d].size <= MaxNodeSize
                      /\ FrontEnd = "externalgrpc" =>
                           /\ call[d].size > targetSize'
                           /\ \A e \in Callers : call[e].pc = "resize" \/ Reserving(e) => e = d
    BY <2>2, <2>3 DEF StaleInv
  <2> QED
    BY <2>1, <2>4 DEF OpenInv, StaleInv
<1>14. LockInv'
  BY <1>1, <1>5, <1>6 DEF OpenInv, LockInv, TypeOK
<1> QED
  BY <1>8, <1>9, <1>10, <1>11, <1>12, <1>13, <1>14 DEF OpenInv

\* A request arrives: ...
LEMMA OpenRequest ==
  ASSUME Orderly, TypeOK, TypeOK', BasicInv, Open, OpenInv, NEW c \in Callers, Request(c)
  PROVE  OpenInv'
<1>0. call \in [Callers -> Call]
  BY DEF TypeOK
<1>1. /\ OthersStay(c) /\ call[c].pc = "idle" /\ call'[c].todo = {}
      /\ \A o \in Objects : call'[c].run[o] = "none"
      /\ UNCHANGED <<lock, node, vms, nodes, pendingNodes, numOf>>
  BY RequestFields
<1>2. Dying(c) = {} /\ Dying(c)' = {} /\ Live(c)' = {} /\ Doomed(c)' = call'[c].victims
  BY <1>1 DEF Dying, Live, Doomed
<1>3. lock # c
  <2>1. c # NoCaller
    BY NodeGroupAssumption
  <2> QED
    BY <1>1, <2>1 DEF OpenInv, LockInv, HasTurn
<1>4. targetSize \in Nat /\ targetSize <= MaxNodeSize
  <2>1. targetSize = Cardinality(Claimed) /\ IsFiniteSet(vms)
    BY SizeIsClaimed DEF OpenInv, VMInv, BasicInv, SizeInv
  <2> QED
    BY <2>1, ClaimedFinite DEF BasicInv, SizeInv
<1>5. ASSUME SizeRequestAllowed, call'[c].pc = "resize", call'[c].victims = {},
             call'[c].size <= MaxNodeSize,
             FrontEnd = "externalgrpc" => call'[c].size > targetSize
      PROVE  OpenInv'
  <2>1. FrontEnd = "externalgrpc" => \A d \in Callers : call[d].pc # "resize" /\ ~Reserving(d)
    <3>1. \A d \in Callers : call[d].pc = "resize" \/ Reserving(d) =>
            call[d].req \in {"increase", "decrease"} /\ ~Answered(d)
      BY DEF BasicInv, CallInv, CallOK, Answered, Reserving
    <3>2. FrontEnd = "externalgrpc" => "overlap" \notin Requests
      BY DEF Orderly
    <3> QED
      BY <1>5, <3>1, <3>2 DEF SizeRequestAllowed
  <2>2. Doomed(c)' = {} /\ ~Reserving(c)'
    BY <1>2, <1>5 DEF Reserving
  <2> QED
    BY <1>1, <1>2, <1>3, <1>5, <2>1, <2>2, OpenMoves
<1>6. ASSUME call'[c].pc \in {"delete", "drainWG"}, call'[c].victims \subseteq DOMAIN nodes,
             \A d \in Callers : \A n \in call'[c].victims :
               n \notin call[d].victims \cup {node[o].name : o \in Busy(d)}
      PROVE  OpenInv'
  <2>1. \A d \in Callers : Doomed(c)' \cap Doomed(d) = {}
    BY <1>2, <1>6 DEF Doomed, Dying, Busy
  <2>2. ~Reserving(c)' /\ call'[c].pc # "resize"
    BY <1>6 DEF Reserving
  <2> QED
    BY <1>1, <1>2, <1>3, <1>6, <2>1, <2>2, OpenMoves
<1>7. ASSUME NEW delta \in 1 .. MaxNodeSize, IncreaseSize(c, delta) PROVE OpenInv'
  <2>1. /\ call'[c].pc = "resize" /\ call'[c].victims = {} /\ call'[c].size = targetSize + delta
        /\ SizeRequestAllowed /\ targetSize + delta <= MaxNodeSize /\ delta > 0
    BY <1>0, <1>7 DEF IncreaseSize, NoCall
  <2>2. targetSize + delta > targetSize
    BY <1>4, <2>1
  <2> QED
    BY <1>5, <2>1, <2>2
<1>8. ASSUME NEW delta \in 1 .. MaxNodeSize, DecreaseTargetSize(c, -delta) PROVE OpenInv'
  <2>1. /\ call'[c].pc = "resize" /\ call'[c].victims = {} /\ call'[c].size = targetSize + (-delta)
        /\ SizeRequestAllowed
    BY <1>0, <1>8 DEF DecreaseTargetSize, NoCall
  <2>2. FrontEnd = "grpc"
    BY <1>8 DEF DecreaseTargetSize, Orderly
  <2>3. targetSize + (-delta) <= MaxNodeSize
    BY <1>4, NodeGroupAssumption
  <2> QED
    BY <1>5, <2>1, <2>2, <2>3
<1>9. ASSUME NEW names \in SUBSET DOMAIN nodes, DeleteNodes(c, names) PROVE OpenInv'
  <2>1. /\ call'[c].pc = "delete" /\ call'[c].victims = names
    BY <1>0, <1>9 DEF DeleteNodes, NoCall
  <2>2. \A n \in names : \A d \in Callers : n \notin call[d].victims \cup {node[o].name : o \in Busy(d)}
    BY <1>9 DEF DeleteNodes, Orderly
  <2> QED
    BY <1>6, <2>1, <2>2
<1>10. ASSUME Cleanup(c) PROVE OpenInv'
  <2>1. call'[c].pc = "drainWG" /\ call'[c].victims = {}
    BY <1>0, <1>10 DEF Cleanup, NoCall
  <2> QED
    BY <1>6, <2>1
<1>11. ASSUME NEW x, AddManagedNode(c, x) \/ DeleteManagedNode(c, x) PROVE FALSE
  BY <1>11 DEF AddManagedNode, DeleteManagedNode, Orderly
<1> QED
  BY <1>7, <1>8, <1>9, <1>10, <1>11, Zenon DEF Request

\* ... setNodeGroupSize gets the lock, ...
LEMMA OpenResize ==
  ASSUME Orderly, TypeOK, TypeOK', CleanupInv, BasicInv, Open, Open', OpenInv, NEW c \in Callers, Resize(c)
  PROVE  OpenInv'
<1>1. call[c].pc = "resize" /\ call[c].todo = {} /\ call[c].victims = {} /\ lock = NoCaller /\ c # NoCaller
  BY NodeGroupAssumption
     DEF Resize, GrowRefused, Grow, Keep, Shrink, ShrinkPanics, CanResize, BasicInv, CallInv, CallOK
<1>2. \A o \in Objects : call[c].run[o] = "none"
  BY <1>1, StillIdle
<1>3. FrontEnd = "externalgrpc" => Delta(c) > 0
  <2>1. FrontEnd = "externalgrpc" => call[c].size > targetSize
    BY <1>1 DEF OpenInv, StaleInv
  <2>2. call[c].size \in Int /\ targetSize \in Int
    BY CallType, SizeType DEF Call
  <2> QED
    BY <2>1, <2>2 DEF Delta
<1>a. Dying(c) = {}
  BY <1>1 DEF Dying
<1>b. Delta(c) \in Int
  <2>1. call[c].size \in Int /\ targetSize \in Int
    BY CallType, SizeType DEF Call
  <2> QED
    BY <2>1 DEF Delta
<1>4. CASE Grow(c)
  <2>1. /\ OthersStay(c) /\ call'[c].pc = "pick" /\ call'[c].run = call[c].run
        /\ call'[c].todo = {} /\ call'[c].victims = {}
        /\ UNCHANGED <<nodes, pendingNodes, numOf, node, vms>> /\ lock' = c
    BY <1>1, <1>4, GrowFields DEF group
  <2>2. Dying(c)' = {} /\ Live(c)' = {} /\ Doomed(c)' = {}
    BY <1>2, <2>1 DEF Dying, Live, Doomed
  <2>3. FrontEnd = "externalgrpc" => \A d \in Callers \ {c} : call[d].pc # "resize" /\ ~Reserving(d)
    BY <1>1 DEF OpenInv, StaleInv
  <2>4. call'[c].pc \in HasTurn /\ call'[c].pc # "resize"
    BY <2>1 DEF HasTurn
  <2> QED
    BY <1>a, <2>1, <2>2, <2>3, <2>4, OpenMoves
<1>5. CASE GrowRefused(c) \/ Keep(c)
  <2>1. Return(c) /\ UNCHANGED <<nodes, pendingNodes, numOf, node, vms, lock>>
    <3>1. CASE GrowRefused(c)
      BY <3>1 DEF GrowRefused, group
    <3>2. CASE Keep(c)
      <4>1. Delta(c) = 0
        BY <3>2 DEF Keep
      <4>2. FrontEnd = "grpc"
        BY <1>3, <4>1, NodeGroupAssumption
      <4> QED
        BY <3>2, <4>2 DEF Keep, group
    <3> QED
      BY <1>5, <3>1, <3>2
  <2>2. /\ OthersStay(c) /\ call'[c].pc = "idle"
        /\ call'[c].todo = {} /\ call'[c].victims = {}
        /\ \A o \in Objects : call'[c].run[o] = "none"
    BY <2>1, ReturnFields
  <2>3. Dying(c)' = {} /\ Live(c)' = {} /\ Doomed(c)' = {} /\ ~Reserving(c)' /\ call'[c].pc # "resize"
    BY <2>2 DEF Dying, Live, Doomed, Reserving
  <2> QED
    BY <1>1, <1>a, <2>1, <2>2, <2>3, OpenMoves
<1>6. ~Shrink(c)
  <2>1. Shrink(c) => Delta(c) < 0 /\ FrontEnd = "externalgrpc"
    BY DEF Shrink
  <2> QED
    BY <1>3, <1>b, <2>1
<1>7. ~ShrinkPanics(c)
  <2>1. ShrinkPanics(c) => call'[c].pc = "dead"
    BY CrashFields DEF ShrinkPanics
  <2> QED
    BY <2>1 DEF Open, crashed
<1> QED
  BY <1>4, <1>5, <1>6, <1>7 DEF Resize

\* ... a number and a name are picked, ...
LEMMA OpenPick ==
  ASSUME TypeOK, TypeOK', CleanupInv, BasicInv, Open, OpenInv, NEW c \in Callers, PickNode(c)
  PROVE  OpenInv'
<1>1. Reserving(c)
  BY DEF PickNode, Reserving
<1>2. FreeNumbers("autoscaled") # {} /\ KindOf(c) = "autoscaled"
  BY <1>1, NamesLeft
<1>3. /\ OthersStay(c)
      /\ call[c].pc = "pick" /\ call'[c].pc = "reserve"
      /\ call'[c].todo = call[c].todo /\ call'[c].victims = call[c].victims
      /\ call'[c].run = call[c].run
      /\ UNCHANGED <<nodes, pendingNodes, numOf, lock, node, vms>>
  BY <1>2, PickFields
<1>4. call[c].victims = {} /\ \A o \in Objects : call[c].run[o] = "none"
  BY <1>3, StillIdle DEF BasicInv, CallInv, CallOK
<1>5. Dying(c) = {} /\ Dying(c)' = {} /\ Live(c)' = Live(c) /\ Doomed(c)' = {}
  BY <1>3, <1>4 DEF Dying, Live, Doomed
<1>6. FrontEnd = "externalgrpc" => \A d \in Callers \ {c} : call[d].pc # "resize"
  BY <1>1 DEF OpenInv, StaleInv
<1>7. call'[c].pc \in HasTurn /\ call'[c].pc # "resize"
  BY <1>3 DEF HasTurn
<1> QED
  BY <1>3, <1>5, <1>6, <1>7, OpenMoves

\* ... and reserved for a new node.
LEMMA OpenReserve ==
  ASSUME Orderly, TypeOK, TypeOK', CleanupInv, BasicInv, Open, OpenInv, NEW c \in Callers, ReserveNode(c)
  PROVE  OpenInv'
<1>1. PICK o \in Objects : Allocates(c, o)
  BY ReserveFields
<1>2. /\ \A d \in Callers : d # c => call'[d] = call[d]
      /\ call[c].pc = "reserve" /\ call'[c].pc \in {"pick", "create", "destroy"}
      /\ call'[c].todo = call[c].todo \cup {o} /\ call'[c].victims = call[c].victims
      /\ call'[c].run = call[c].run
      /\ node[o].state = "Unallocated"
      /\ node'[o].name = call[c].name
      /\ \A q \in Objects : q # o => node'[q] = node[q]
      /\ UNCHANGED <<nodes, numOf, vms>>
  BY <1>1 DEF Allocates, OthersStay
<1> DEFINE n == call[c].name
<1>3. /\ DOMAIN pendingNodes' = DOMAIN pendingNodes \cup {n} /\ pendingNodes'[n] = o
      /\ \A m \in DOMAIN pendingNodes : m # n => pendingNodes'[m] = pendingNodes[m]
  BY <1>1 DEF Allocates
<1>4. n \notin Tracked /\ n[1] = "autoscaled" /\ lock = c /\ call[c].victims = {}
  BY <1>2 DEF BasicInv, CallInv, CallOK, Reserving, FreshInv, Claimed
<1>a. call'[c].pc \in {"pick", "create"}
  <2>1. call'[c].pc # "destroy"
    BY <1>1 DEF Allocates, BasicInv, CallInv, CallOK
  <2> QED
    BY <1>2, <2>1
<1>5. /\ \A m \in DOMAIN nodes : nodes[m] \in Objects /\ nodes[m] # o
      /\ \A m \in DOMAIN pendingNodes : pendingNodes[m] \in Objects /\ pendingNodes[m] # o
  BY <1>2 DEF BasicInv, AllocInv, TypeOK, IsMap
<1>6. \A d \in Callers : o \notin Live(d) /\ o \notin Dying(d)
  BY <1>2, InUse
<1>7. \A q \in Objects : call[c].run[q] = "none"
  BY <1>2, StillIdle
<1>8. /\ Live(c)' = Live(c) \cup {o} /\ Dying(c)' = {} /\ Dying(c) = {}
      /\ \A d \in Callers : d # c => Live(d)' = Live(d) /\ Dying(d)' = Dying(d)
  BY <1>2, <1>7, <1>a DEF Live, Dying
<1>9. \A d \in Callers : Doomed(d)' = Doomed(d) /\ \A q \in Dying(d) : q \in Objects /\ q # o
  BY <1>2, <1>6, <1>8 DEF Doomed, Dying
<1> HIDE DEF n
<1>b. Tracked' = Tracked \cup {n}
  BY <1>2, <1>3 DEF Tracked
<1>10. NameInv'
  <2>1. \A m \in DOMAIN nodes : node'[nodes[m]].name = m
    BY <1>2, <1>5 DEF OpenInv, NameInv
  <2>2. \A m \in DOMAIN pendingNodes' : node'[pendingNodes'[m]].name = m
    <3>1. \A m \in DOMAIN pendingNodes : node'[pendingNodes[m]].name = m
      BY <1>2, <1>5 DEF OpenInv, NameInv
    <3>2. node'[o].name = n
      BY <1>2 DEF n
    <3> QED
      BY <1>3, <3>1, <3>2
  <2>3. DOMAIN nodes \cap DOMAIN pendingNodes' = {}
    BY <1>3, <1>4 DEF OpenInv, NameInv, Tracked
  <2>4. \A m \in Tracked' : m[1] = "autoscaled"
    BY <1>4, <1>b DEF OpenInv, NameInv
  <2> QED
    BY <1>2, <2>1, <2>2, <2>3, <2>4 DEF NameInv
<1>11. LiveInv'
  <2> SUFFICES ASSUME NEW d \in Callers, NEW q \in Live(d)'
               PROVE  /\ node'[q].name \in DOMAIN pendingNodes' /\ pendingNodes'[node'[q].name] = q
                      /\ \A e \in Callers : q \in Live(e)' => d = e
                      /\ call'[d].run[q] \in {"creating", "booting"} => node'[q].state = "Creating"
                      /\ call'[d].run[q] = "joined" => node'[q].state \in {"Running", "Stopped"}
                      /\ call'[d].run[q] \in {"booting", "joined"} => node'[q].name \in vms'
                      /\ call'[d].run[q] = "refused" => node'[q].name \notin vms'
                      /\ call'[d].run[q] # "racing"
    BY DEF LiveInv
  <2>1. CASE q = o
    <3>1. d = c /\ \A e \in Callers : q \in Live(e)' => e = c
      BY <1>6, <1>8, <2>1
    <3>2. call'[d].run[q] = "none"
      BY <1>2, <1>7, <2>1, <3>1
    <3>3. node'[q].name = n
      BY <1>2, <2>1 DEF n
    <3> QED
      BY <1>3, <2>1, <3>1, <3>2, <3>3
  <2>2. CASE q # o
    <3>1. q \in Live(d) /\ \A e \in Callers : q \in Live(e)' => q \in Live(e)
      BY <1>8, <2>2
    <3>2. /\ q \in Objects /\ node[q].name \in DOMAIN pendingNodes /\ pendingNodes[node[q].name] = q
          /\ \A e \in Callers : q \in Live(e) => d = e
      BY <3>1, LiveFacts
    <3>3. node'[q] = node[q] /\ call'[d].run[q] = call[d].run[q] /\ node[q].name # n
      BY <1>2, <1>4, <2>2, <3>2 DEF Tracked
    <3> QED
      BY <1>2, <1>3, <3>1, <3>2, <3>3 DEF OpenInv, LiveInv
  <2> QED
    BY <2>1, <2>2
<1>12. DoomedInv'
  <2> SUFFICES ASSUME NEW d \in Callers
               PROVE  /\ Doomed(d) \subseteq DOMAIN nodes
                      /\ \A e \in Callers : d # e => Doomed(d) \cap Doomed(e) = {}
                      /\ \A q \in Dying(d) : /\ nodes[node'[q].name] = q /\ node'[q].name \notin call'[d].victims
                                             /\ call'[d].run[q] \notin {"refused", "racing"}
    BY <1>2, <1>8, <1>9 DEF DoomedInv
  <2>1. call'[d].victims = call[d].victims /\ call'[d].run = call[d].run
    BY <1>2
  <2>2. \A q \in Dying(d) : node'[q] = node[q]
    BY <1>2, <1>9
  <2> QED
    BY <2>1, <2>2 DEF OpenInv, DoomedInv
<1>13. RunningInv'
  <2>1. \A m \in DOMAIN nodes : node'[nodes[m]] = node[nodes[m]]
    BY <1>2, <1>5
  <2>2. \A d \in Callers : Dying(d)' = Dying(d)
    BY <1>8
  <2> QED
    BY <1>2, <2>1, <2>2 DEF OpenInv, RunningInv
<1>14. VMInv'
  BY <1>2, <1>b DEF OpenInv, VMInv
<1>15. StaleInv'
  <2>1. Reserving(c)
    BY <1>2 DEF Reserving
  <2>2. \A d \in Callers : call'[d].pc = "resize" => d # c /\ call'[d] = call[d]
    BY <1>2
  <2>3. FrontEnd = "externalgrpc" => \A d \in Callers : call'[d].pc # "resize"
    BY <2>1, <2>2 DEF OpenInv, StaleInv
  <2>4. \A d \in Callers : call'[d].pc = "resize" => call'[d].size <= MaxNodeSize
    BY <2>2 DEF OpenInv, StaleInv
  <2> QED
    BY <2>3, <2>4 DEF StaleInv
<1>16. LockInv'
  <2>1. lock' = (IF call[c].need = 1 /\ FrontEnd = "externalgrpc" THEN NoCaller ELSE c)
    BY <1>1, <1>4 DEF Allocates, Unlocked
  <2> QED
    BY <1>a, <2>1 DEF LockInv, HasTurn
<1> QED
  BY <1>10, <1>11, <1>12, <1>13, <1>14, <1>15, <1>16 DEF OpenInv

\* Refresh notes the power state of a node that is not being created.
LEMMA OpenRefresh ==
  ASSUME TypeOK, TypeOK', BasicInv, OpenInv, NEW o \in Objects, Refresh(o)
  PROVE  OpenInv'
<1>1. /\ UNCHANGED <<nodes, pendingNodes, numOf, lock, vms, call>>
      /\ node[o].state \notin {"Unallocated", "NotCreated", "Creating"}
  BY DEF Refresh, group
<1>2. \A q \in Objects : /\ node'[q].name = node[q].name
                         /\ q # o => node'[q].state = node[q].state
                         /\ q = o => node'[q].state \in {"Running", "Stopped"}
  <2>1. PICK s \in {"Running", "Stopped"} : SetState(o, s)
    BY DEF Refresh
  <2> QED
    BY <2>1, SetStateFields
<1>3. \A d \in Callers : /\ Live(d)' = Live(d) /\ Dying(d)' = Dying(d)
                         /\ \A q \in Live(d) \cup Dying(d) : q \in Objects
  BY <1>1 DEF Live, Dying
<1>4. \A d \in Callers : Doomed(d)' = Doomed(d)
  BY <1>1, <1>2, <1>3 DEF Doomed
<1>5. /\ \A m \in DOMAIN nodes : nodes[m] \in Objects
      /\ \A m \in DOMAIN pendingNodes : pendingNodes[m] \in Objects
  BY DEF TypeOK, IsMap
<1>6. NameInv'
  BY <1>1, <1>2, <1>5 DEF OpenInv, NameInv, Tracked
<1>7. LiveInv'
  <2> SUFFICES ASSUME NEW d \in Callers, NEW q \in Live(d)
               PROVE  /\ node[q].name \in DOMAIN pendingNodes /\ pendingNodes[node[q].name] = q
                      /\ \A e \in Callers : q \in Live(e) => d = e
                      /\ call[d].run[q] \in {"creating", "booting"} => node'[q].state = "Creating"
                      /\ call[d].run[q] = "joined" => node'[q].state \in {"Running", "Stopped"}
                      /\ call[d].run[q] \in {"booting", "joined"} => node[q].name \in vms
                      /\ call[d].run[q] = "refused" => node[q].name \notin vms
                      /\ call[d].run[q] # "racing"
    BY <1>1, <1>2, <1>3 DEF LiveInv
  <2>1. node'[q].state = node[q].state \/ (node[q].state # "Creating" /\ node'[q].state \in {"Running", "Stopped"})
    BY <1>1, <1>2, <1>3
  <2> QED
    BY <2>1 DEF OpenInv, LiveInv
<1>8. DoomedInv'
  BY <1>1, <1>2, <1>3, <1>4 DEF OpenInv, DoomedInv
<1>9. RunningInv'
  BY <1>1, <1>2, <1>3, <1>5 DEF OpenInv, RunningInv
<1>10. VMInv'
  BY <1>1 DEF OpenInv, VMInv, Tracked
<1>11. StaleInv'
  <2>1. targetSize' = targetSize
    BY <1>1 DEF targetSize
  <2> QED
    BY <1>1, <2>1 DEF OpenInv, StaleInv, Reserving
<1>12. LockInv'
  BY <1>1 DEF OpenInv, LockInv
<1> QED
  BY <1>6, <1>7, <1>8, <1>9, <1>10, <1>11, <1>12 DEF OpenInv

\* A step that changes no call and none of the books.
LEMMA OpenSame ==
  ASSUME OpenInv, UNCHANGED <<nodes, pendingNodes, numOf, node, vms, lock, call>>
  PROVE  OpenInv'
<1>1. \A d \in Callers : /\ Live(d)' = Live(d) /\ Dying(d)' = Dying(d) /\ Doomed(d)' = Doomed(d)
                         /\ (Reserving(d)' <=> Reserving(d))
  BY DEF Live, Dying, Doomed, Reserving
<1>2. targetSize' = targetSize /\ Tracked' = Tracked
  BY DEF targetSize, Tracked
<1>3. NameInv' /\ VMInv' /\ LockInv'
  BY <1>2 DEF OpenInv, NameInv, VMInv, LockInv
<1>4. LiveInv'
  BY <1>1 DEF OpenInv, LiveInv
<1>5. DoomedInv' /\ RunningInv'
  BY <1>1 DEF OpenInv, DoomedInv, RunningInv
<1>6. StaleInv'
  BY <1>1, <1>2 DEF OpenInv, StaleInv
<1> QED
  BY <1>3, <1>4, <1>5, <1>6 DEF OpenInv

\* createNodes launches the nodes, some at a time, and waits.
LEMMA OpenCreates ==
  ASSUME TypeOK, TypeOK', CleanupInv, BasicInv, Open, OpenInv, NEW c \in Callers,
         CreateNodes(c) \/ StartCycle(c) \/ CreateNodesEnds(c)
  PROVE  OpenInv'
<1>1. /\ call[c].pc \in {"create", "launch"}
      /\ UNCHANGED <<nodes, pendingNodes, numOf, node, vms, lock>>
  BY DEF CreateNodes, StartCycle, CreateNodesEnds, group
<1>2. call[c].victims = {} /\ Dying(c) = {}
  BY <1>1 DEF BasicInv, CallInv, CallOK, Dying
<1>3. /\ OthersStay(c) /\ call'[c].pc \in {"launch", "wait"} /\ call'[c].victims = {}
      /\ \A o \in Live(c)' : o \in Live(c) /\ call'[c].run[o] \in {call[c].run[o], "start", "none"}
  <2>1. CASE CreateNodes(c) \/ CreateNodesEnds(c)
    <3>1. /\ OthersStay(c) /\ call'[c].pc \in {"launch", "wait"} /\ call'[c].todo = call[c].todo
          /\ call'[c].victims = call[c].victims /\ call'[c].run = call[c].run
      BY <2>1, GotoFields DEF CreateNodes, CreateNodesEnds
    <3>2. \A o \in Live(c)' : o \in Live(c)
      <4>1. CASE call[c].pc = "create"
        <5>1. \A o \in Objects : call[c].run[o] = "none"
          BY <4>1, StillIdle
        <5> QED
          BY <3>1, <4>1, <5>1 DEF Live
      <4>2. CASE call[c].pc = "launch"
        BY <3>1, <4>2 DEF Live
      <4> QED
        BY <1>1, <4>1, <4>2
    <3> QED
      BY <1>2, <3>1, <3>2
  <2>2. CASE StartCycle(c)
    <3>1. PICK cycle \in SUBSET call[c].todo :
            call' = [call EXCEPT ![c].todo = @ \ cycle,
                                 ![c].run = [o \in Objects |-> IF o \in cycle THEN "start" ELSE "none"]]
      BY <2>2 DEF StartCycle
    <3>2. call \in [Callers -> Call] /\ call[c] \in Call /\ call[c].pc = "launch"
      BY <2>2, CallType DEF TypeOK, StartCycle
    <3>3. /\ OthersStay(c) /\ call'[c].pc = "launch"
          /\ call'[c].victims = call[c].victims /\ call'[c].todo = call[c].todo \ cycle
          /\ \A o \in Objects : call'[c].run[o] = IF o \in cycle THEN "start" ELSE "none"
      BY <3>1, <3>2 DEF OthersStay, Call
    <3>4. \A o \in Live(c)' : o \in Live(c) /\ call'[c].run[o] \in {"start", "none"}
      BY <3>2, <3>3 DEF Live
    <3> QED
      BY <1>2, <3>3, <3>4
  <2> QED
    BY <2>1, <2>2
<1>4. Dying(c)' = {} /\ Doomed(c)' = {} /\ ~Reserving(c)' /\ call'[c].pc # "resize"
  BY <1>3 DEF Dying, Doomed, Reserving
<1>5. call'[c].pc \in HasTurn
  BY <1>3 DEF HasTurn
<1> QED
  BY <1>1, <1>2, <1>3, <1>4, <1>5, OpenMoves

\* A request ends.
LEMMA OpenReturns ==
  ASSUME TypeOK, TypeOK', CleanupInv, BasicInv, Open, OpenInv, NEW c \in Callers,
         CreateNodesReturns(c) \/ DestroyNodesReturns(c) \/ DeleteNodesReturns(c)
  PROVE  OpenInv'
<1>1. /\ Return(c) /\ call[c].pc \in {"wait", "delete"}
      /\ UNCHANGED <<nodes, pendingNodes, numOf, node, vms>>
      /\ call[c].pc = "wait" => lock' = Unlocked(c)
      /\ call[c].pc = "delete" => lock' = lock /\ Busy(c) = {}
  BY DEF CreateNodesReturns, DestroyNodesReturns, DeleteNodesReturns, group, BasicInv, CallInv, CallOK
<1>2. /\ OthersStay(c) /\ call'[c].pc = "idle" /\ call'[c].victims = {} /\ call'[c].todo = {}
      /\ \A o \in Objects : call'[c].run[o] = "none"
  BY <1>1, ReturnFields
<1>3. Dying(c) = {}
  BY <1>1 DEF Dying, Busy
<1>4. Dying(c)' = {} /\ Doomed(c)' = {} /\ Live(c)' = {} /\ ~Reserving(c)' /\ call'[c].pc # "resize"
  BY <1>2 DEF Dying, Doomed, Live, Reserving
<1>5. lock' \in {lock, NoCaller} /\ lock' # c
  <2>1. c # NoCaller
    BY NodeGroupAssumption
  <2>2. call[c].pc = "delete" => lock # c
    BY <2>1 DEF OpenInv, LockInv, HasTurn
  <2> QED
    BY <1>1, <2>1, <2>2 DEF Unlocked
<1> QED
  BY <1>1, <1>2, <1>3, <1>4, <1>5, OpenMoves

\* deleteNode finds a node that can be deleted.
LEMMA OpenDeletes ==
  ASSUME TypeOK, TypeOK', CleanupInv, BasicInv, Open, OpenInv, NEW c \in Callers,
         NEW n \in call[c].victims, DeleteNodeByName(c, n)
  PROVE  OpenInv'
<1>1. /\ call[c].pc = "delete" /\ Busy(c) = {} /\ StartDeleteVM(c, Named(n))
      /\ UNCHANGED <<nodes, pendingNodes, numOf, node, vms, lock>>
  BY DEF DeleteNodeByName, StartDelete
<1>2. Dying(c) = {} /\ Doomed(c) = call[c].victims
  BY <1>1 DEF Dying, Busy, Doomed
<1>3. n \in DOMAIN nodes /\ \A d \in Callers : c # d => n \notin Doomed(d)
  BY <1>2 DEF OpenInv, DoomedInv
<1> DEFINE o == nodes[n]
<1>4. o \in Objects /\ Named(n) = o /\ node[o].name = n
  BY <1>3 DEF TypeOK, IsMap, Named, OpenInv, NameInv
<1> HIDE DEF o
<1>5. \A d \in Callers : o \notin Dying(d)
  <2>1. \A d \in Callers : o \in Dying(d) => n \in Doomed(d)
    BY <1>4 DEF Doomed
  <2> QED
    BY <1>2, <1>3, <2>1
<1>6. node[o].state \in {"Running", "Stopped"}
  <2>1. RunningInv
    BY DEF OpenInv
  <2> QED
    BY <1>3, <1>5, <2>1 DEF RunningInv, o
<1>7. CheckNotDeleting(o) = "checked"
  BY <1>6 DEF CheckNotDeleting
<1>8. /\ OthersStay(c) /\ call'[c].pc = "delete"
      /\ call'[c].victims = call[c].victims \ {n}
      /\ \A q \in Objects : call'[c].run[q] = IF q = o THEN "checked" ELSE call[c].run[q]
  BY <1>1, <1>4, <1>7, StartDeleteVMFields
<1>9. Dying(c)' = {o} /\ Live(c)' = {} /\ ~Reserving(c)' /\ call'[c].pc # "resize"
  BY <1>1, <1>4, <1>8 DEF Dying, Live, Reserving, Busy
<1>10. Doomed(c)' = Doomed(c)
  BY <1>1, <1>2, <1>4, <1>8, <1>9 DEF Doomed
<1>11. /\ Doomed(c)' \subseteq DOMAIN nodes
       /\ \A d \in Callers \ {c} : Doomed(c)' \cap Doomed(d) = {}
  BY <1>10 DEF OpenInv, DoomedInv
<1>12. \A q \in Dying(c)' : /\ nodes[node[q].name] = q /\ node[q].name \notin call'[c].victims
                            /\ call'[c].run[q] \notin {"refused", "racing"}
  BY <1>4, <1>8, <1>9 DEF o
<1>13. lock # c
  <2>1. c # NoCaller
    BY NodeGroupAssumption
  <2> QED
    BY <1>1, <2>1 DEF OpenInv, LockInv, HasTurn
<1> QED
  BY <1>1, <1>2, <1>8, <1>9, <1>11, <1>12, <1>13, OpenMoves

LEMMA NoDeleteRefused ==
  ASSUME BasicInv, OpenInv, NEW c \in Callers, NEW n \in call[c].victims
  PROVE  ~DeleteNodeRefused(c, n)
<1>1. n \in Doomed(c)
  BY DEF Doomed
<1>2. n \in Tracked /\ n[1] = "autoscaled"
  BY <1>1 DEF OpenInv, DoomedInv, NameInv, Tracked
<1> QED
  BY <1>2 DEF DeleteNodeRefused

\* The goroutine of a node makes a step.
LEMMA OpenNodeStep ==
  ASSUME Orderly, TypeOK, TypeOK', CleanupInv, BasicInv, Open, OpenInv, NEW c \in Callers,
         NEW o \in Objects, NodeStep(c, o)
  PROVE  OpenInv'
<1>a. /\ call[c].run[o] \in LaunchPhase => call[c].pc = "launch"
      /\ call[c].pc = "delete" => call[c].run[o] \notin LaunchPhase
      /\ call[c].run[o] # "none" => /\ call[c].pc = "launch" => o \in Live(c)
                                    /\ call[c].pc = "delete" => o \in Dying(c)
  <2>1. call[c].run[o] \in LaunchPhase => call[c].pc = "launch"
    BY DEF CleanupInv, WorkInv
  <2> QED
    BY <2>1 DEF Live, Dying
<1>b. call[c].pc # "destroy" /\ call[c].pc # "cleanup"
  BY DEF BasicInv, CallInv, CallOK, Open
<1>c. UNCHANGED node => SameObjects /\ \A q \in Objects : /\ node'[q].name = node[q].name
                                                            /\ node'[q].state = node[q].state
  BY DEF SameObjects
<1>d. ASSUME NEW s \in {"Creating", "Running", "Stopped", "Deleting"}, SetState(o, s)
      PROVE  /\ SameObjects /\ node'[o].state = s
             /\ \A q \in Objects : /\ node'[q].name = node[q].name
                                   /\ q # o => node'[q].state = node[q].state
  BY <1>d, SetStateFields DEF SameObjects
<1>1. CASE LaunchVM(c, o)
  <2>1. /\ call[c].run[o] = "start" /\ SetState(o, "Creating") /\ SetPhase(c, o, "creating")
        /\ UNCHANGED <<nodes, pendingNodes, numOf, lock, vms>>
    BY <1>1 DEF LaunchVM, group
  <2>2. call[c].pc = "launch"
    BY <1>a, <2>1, PhaseSets
  <2> QED
    BY <1>d, <2>1, <2>2, OpenPhase
<1>2. CASE InstanceCreate(c, o)
  <2>1. /\ call[c].run[o] = "creating" /\ vms' = vms \cup {node[o].name} /\ SetPhase(c, o, "booting")
        /\ UNCHANGED <<nodes, pendingNodes, numOf, lock, node>>
    BY <1>2 DEF InstanceCreate, group
  <2>2. call[c].pc = "launch" /\ o \in Live(c)
    BY <1>a, <2>1, PhaseSets
  <2>3. node[o].state = "Creating"
    BY <2>1, <2>2 DEF OpenInv, LiveInv
  <2> QED
    BY <1>c, <2>1, <2>2, <2>3, OpenPhase
<1>3. CASE NodeJoins(c, o)
  <2>1. /\ call[c].run[o] = "booting" /\ SetState(o, "Running") /\ SetPhase(c, o, "joined")
        /\ UNCHANGED <<nodes, pendingNodes, numOf, lock, vms>>
    BY <1>3 DEF NodeJoins, group
  <2>2. call[c].pc = "launch" /\ o \in Live(c)
    BY <1>a, <2>1, PhaseSets
  <2>3. node[o].name \in vms
    BY <2>1, <2>2 DEF OpenInv, LiveInv
  <2> QED
    BY <1>d, <2>1, <2>2, <2>3, OpenPhase
<1>4. CASE LaunchFails(c, o)
  <2>1. /\ call[c].run[o] \in {"start", "creating", "booting", "joined"} /\ CleanOnLaunchError(c, o)
        /\ UNCHANGED <<nodes, pendingNodes, numOf, lock, vms>>
    BY <1>4 DEF LaunchFails, CleanOnLaunchError, group
  <2>2. call[c].pc = "launch"
    BY <1>a, <2>1, PhaseSets
  <2>3. CASE \E s \in {"Running", "Stopped"} : SetState(o, s) /\ SetPhase(c, o, "checked")
    BY <1>d, <2>1, <2>2, <2>3, OpenPhase
  <2>4. CASE node[o].name \notin vms /\ UNCHANGED node /\ SetPhase(c, o, CheckNotDeleting(o))
    <3>1. CheckNotDeleting(o) \in {"refused", "checked"}
      BY DEF CheckNotDeleting
    <3> DEFINE p == CheckNotDeleting(o)
    <3>2. SetPhase(c, o, p) /\ p \in {"refused", "checked"} /\ p # "none"
      BY <2>4, <3>1
    <3> HIDE DEF p
    <3> QED
      BY <1>c, <2>1, <2>2, <2>4, <3>2, OpenPhase
  <2> QED
    BY <2>1, <2>3, <2>4 DEF CleanOnLaunchError, Orderly
<1>5. CASE InstanceStatus(c, o)
  <2>1. /\ call[c].run[o] = "checked"
        /\ UNCHANGED <<nodes, pendingNodes, numOf, lock, vms>>
    BY <1>5 DEF InstanceStatus, group
  <2>2. CASE SetState(o, "Deleting") /\ SetPhase(c, o, IF LaunchUnderWay(c, o) THEN "racing" ELSE "deleting")
    <3>1. ~LaunchUnderWay(c, o)
      <4> SUFFICES ASSUME NEW d \in Callers, d # c, call[d].run[o] \in {"booting", "joined"} PROVE FALSE
        BY DEF LaunchUnderWay
      <4>1. call[d].pc = "launch"
        BY PhaseSets DEF CleanupInv, WorkInv
      <4>2. o \in Live(d)
        BY <4>1 DEF Live
      <4>3. o \in Live(c) \/ o \in Dying(c)
        BY <2>1, AtWork
      <4> QED
        BY <4>2, <4>3, LiveFacts, DyingFacts
    <3> QED
      BY <1>d, <2>1, <2>2, <3>1, OpenPhase
  <2>3. CASE node[o].name \notin vms /\ UNCHANGED node /\ SetPhase(c, o, "refused")
    <3>1. call[c].pc # "delete"
      <4>1. call[c].pc = "delete" => node[o].name \in vms
        BY <1>a, <2>1, DyingFacts
      <4> QED
        BY <2>3, <4>1
    <3> QED
      BY <1>c, <2>1, <2>3, <3>1, OpenPhase
  <2> QED
    BY <1>5, <2>2, <2>3 DEF InstanceStatus, Orderly
<1>6. CASE InstancePowerOff(c, o)
  <2>1. /\ call[c].run[o] # "none" /\ SetState(o, "Stopped") /\ SetPhase(c, o, "stopped")
        /\ UNCHANGED <<nodes, pendingNodes, numOf, lock, vms>>
    BY <1>6 DEF InstancePowerOff, group
  <2> QED
    BY <1>d, <2>1, OpenPhase
<1>7. CASE DestroyNode(c, o) \/ NodeDestroyed(c, o) \/ CleanupNode(c, o) \/ CleanupNodeEnds(c, o)
  BY <1>b, <1>7 DEF DestroyNode, NodeDestroyed, CleanupNode, CleanupNodeEnds
<1> QED
  BY <1>1, <1>2, <1>3, <1>4, <1>5, <1>6, <1>7, OpenRefused, OpenSucceeds, OpenCleaned, OpenDeleted DEF NodeStep

\* A step of c concerns no other caller, or is a panic.
Moves(c) == OthersStay(c) /\ (call'[c].pc = "dead" => call[c].pc = "dead")

LEMMA StepStays ==
  ASSUME TypeOK, NEW c \in Callers, Request(c) \/ Step(c)
  PROVE  Moves(c) \/ Crash
<1>0. call \in [Callers -> Call] /\ call[c] \in Call
  BY CallType DEF TypeOK
<1>1. ASSUME NEW o \in Objects, NEW p, SetPhase(c, o, p) PROVE Moves(c)
  BY <1>1, SetPhaseFields DEF Moves
<1>2. ASSUME NEW o, StartDeleteVM(c, o) PROVE Moves(c)
  BY <1>0, <1>2 DEF StartDeleteVM, OthersStay, Moves, Call
<1>3. ASSUME NEW n, DeleteError(c, n), call[c].pc = "delete" PROVE Moves(c)
  BY <1>3, DeleteErrorFields DEF Moves
<1>4. ASSUME Return(c) PROVE Moves(c)
  BY <1>4, ReturnFields DEF Moves
<1>5. ASSUME NEW label, Goto(c, label), label # "dead" PROVE Moves(c)
  BY <1>5, GotoFields DEF Moves
<1>6. ASSUME NEW S, WorkOn(c, S) PROVE Moves(c)
  BY <1>6, WorkOnFields DEF Moves
<1>7. ASSUME NEW o \in Objects, NodeStep(c, o) PROVE Moves(c)
  <2>1. \/ \E p : SetPhase(c, o, p)
        \/ StartDeleteVM(c, o) \/ (call[c].pc = "delete" /\ DeleteError(c, node[o].name))
    <3>1. LaunchFails(c, o) => \E p : SetPhase(c, o, p)
      BY DEF LaunchFails, CleanOnLaunchError
    <3>2. InstanceStatus(c, o) => \E p : SetPhase(c, o, p)
      BY DEF InstanceStatus
    <3>3. NodeDeleted(c, o) => (\E p : SetPhase(c, o, p)) \/ (call[c].pc = "delete" /\ DeleteError(c, node[o].name))
      BY DEF NodeDeleted
    <3>4. DestroyNode(c, o) \/ CleanupNode(c, o) => StartDeleteVM(c, o)
      BY DEF DestroyNode, CleanupNode, StartDelete
    <3>5. CreateNodeRefused(c, o) \/ LaunchVM(c, o) \/ InstanceCreate(c, o) \/ NodeJoins(c, o)
            => \E p : SetPhase(c, o, p)
      BY DEF CreateNodeRefused, LaunchVM, InstanceCreate, NodeJoins
    <3>6. LaunchSucceeds(c, o) \/ LaunchCleaned(c, o) \/ InstancePowerOff(c, o) \/ NodeDestroyed(c, o)
          \/ CleanupNodeEnds(c, o) => \E p : SetPhase(c, o, p)
      BY DEF LaunchSucceeds, LaunchCleaned, InstancePowerOff, NodeDestroyed, CleanupNodeEnds
    <3> QED
      BY <1>7, <3>1, <3>2, <3>3, <3>4, <3>5, <3>6 DEF NodeStep
  <2> QED
    BY <1>1, <1>2, <1>3, <2>1
<1>8. ASSUME Resize(c) PROVE Moves(c) \/ Crash
  <2>1. CASE Grow(c)
    BY <2>1, GrowFields DEF Moves
  <2> QED
    BY <1>4, <1>6, <1>8, <2>1 DEF Resize, GrowRefused, Keep, Shrink, ShrinkPanics
<1>9. ASSUME PickNode(c) PROVE Moves(c)
  BY <1>0, <1>9 DEF PickNode, OthersStay, Call, Moves
<1>10. ASSUME ReserveNode(c) PROVE Moves(c)
  BY <1>10, ReserveFields DEF Allocates, Moves
<1>11. ASSUME StartCycle(c) \/ CleanupWaited(c) PROVE Moves(c)
  BY <1>0, <1>11 DEF StartCycle, CleanupWaited, OthersStay, Call, Moves
<1>12. ASSUME Wait(c) PROVE Moves(c)
  BY <1>12 DEF Wait, OthersStay, Moves
<1>13. ASSUME NEW n \in call[c].victims, DeleteNodeByName(c, n) \/ DeleteNodeRefused(c, n) PROVE Moves(c)
  <2>1. StartDeleteVM(c, Named(n)) \/ (call[c].pc = "delete" /\ DeleteError(c, n))
    BY <1>13 DEF DeleteNodeByName, StartDelete, DeleteNodeRefused
  <2> QED
    BY <1>2, <1>3, <2>1
<1>14. ASSUME ReserveFails(c) \/ CreateNodesReturns(c) \/ DestroyNodesReturns(c) \/ DeleteNodesReturns(c) \/ CleanupReturns(c)
       PROVE Moves(c)
  BY <1>4, <1>14 DEF ReserveFails, CreateNodesReturns, DestroyNodesReturns, DeleteNodesReturns, CleanupReturns
<1>15. ASSUME CreateNodes(c) \/ CreateNodesEnds(c) PROVE Moves(c)
  BY <1>5, <1>15 DEF CreateNodes, CreateNodesEnds
<1>16. ASSUME Request(c) PROVE Moves(c)
  <2>1. OthersStay(c)
    BY <1>16, RequestFields
  <2>2. ASSUME NEW delta, IncreaseSize(c, delta) \/ DecreaseTargetSize(c, delta) PROVE call'[c].pc # "dead"
    BY <1>0, <2>2 DEF IncreaseSize, DecreaseTargetSize, NoCall
  <2>3. ASSUME NEW names, DeleteNodes(c, names) PROVE call'[c].pc # "dead"
    BY <1>0, <2>3 DEF DeleteNodes, NoCall
  <2>4. ASSUME NEW x, AddManagedNode(c, x) \/ DeleteManagedNode(c, x) PROVE call'[c].pc # "dead"
    BY <1>0, <2>4 DEF AddManagedNode, DeleteManagedNode, NoCall
  <2>5. ASSUME Cleanup(c) PROVE call'[c].pc # "dead"
    BY <1>0, <2>5 DEF Cleanup, NoCall
  <2>6. call'[c].pc # "dead"
    BY <1>16, <2>2, <2>3, <2>4, <2>5, Zenon DEF Request
  <2> QED
    BY <2>1, <2>6 DEF Moves
<1> QED
  BY <1>7, <1>8, <1>9, <1>10, <1>11, <1>12, <1>13, <1>14, <1>15, <1>16 DEF Step

\* Only cleanup changes the status.
LEMMA StatusMoves ==
  ASSUME [Next]_vars
  PROVE  status' = status \/ (status = "Created" /\ status' = "Deleting") \/ status' = "Deleted"
<1>1. ASSUME NEW c \in Callers, NEW o \in Objects, NodeStep(c, o) PROVE status' = status
  BY <1>1 DEF NodeStep, CreateNodeRefused, LaunchVM, InstanceCreate, NodeJoins, LaunchFails, CleanOnLaunchError,
              LaunchSucceeds, LaunchCleaned, InstanceStatus, InstancePowerOff, DestroyNode, StartDelete,
              NodeDestroyed, NodeDeleted, CleanupNode, CleanupNodeEnds, group
<1>2. ASSUME NEW c \in Callers, Resize(c) PROVE status' = status
  BY <1>2 DEF Resize, GrowRefused, Grow, Keep, Shrink, ShrinkPanics, Crash, group
<1>3. ASSUME NEW c \in Callers, PickNode(c) \/ ReserveNode(c) \/ ReserveFails(c) PROVE status' = status
  BY <1>3 DEF PickNode, ReserveNode, ReserveFails
<1>4. ASSUME NEW c \in Callers, Step(c) PROVE status' = status \/ status' = "Deleted"
  <2>1. CASE CreateNodes(c) \/ StartCycle(c) \/ CreateNodesEnds(c) \/ Wait(c) \/ CreateNodesReturns(c)
    BY <2>1 DEF CreateNodes, StartCycle, CreateNodesEnds, Wait, CreateNodesReturns, group
  <2>2. ASSUME NEW n, DeleteNodeByName(c, n) \/ DeleteNodeRefused(c, n) PROVE status' = status
    BY <2>2 DEF DeleteNodeByName, DeleteNodeRefused, StartDelete, group
  <2>3. CASE DestroyNodesReturns(c) \/ DeleteNodesReturns(c) \/ CleanupWaited(c) \/ CleanupReturns(c)
    BY <2>3 DEF DestroyNodesReturns, DeleteNodesReturns, CleanupWaited, CleanupReturns, group
  <2> QED
    BY <1>1, <1>2, <1>3, <1>4, <2>1, <2>2, <2>3 DEF Step
<1>5. ASSUME NEW c \in Callers, Request(c)
      PROVE  status' = status \/ (status = "Created" /\ status' = "Deleting")
  BY <1>5 DEF Request, IncreaseSize, DecreaseTargetSize, DeleteNodes, AddManagedNode, DeleteManagedNode, Cleanup, group
<1>6. ASSUME NEW c \in Callers, Panic(c) PROVE status' = status
  BY <1>6 DEF Panic, CreateNodesPanics, WaitPanics, Crash, group
<1>7. ASSUME NEW o \in Objects, Refresh(o) PROVE status' = status
  BY <1>7 DEF Refresh, group
<1> QED
  BY <1>4, <1>5, <1>6, <1>7 DEF Next, vars

\* A group that is being cleaned up is closed, whatever else is going on, until it is deleted.
LEMMA CleanupGoesOn ==
  ASSUME TypeOK, NEW c \in Callers, call[c].pc = "cleanup", Step(c)
  PROVE  call'[c].pc = "cleanup" \/ status' = "Deleted"
<1>1. ASSUME NEW o \in Objects, NodeStep(c, o) PROVE call'[c].pc = call[c].pc
  <2>1. (\E p : SetPhase(c, o, p)) \/ StartDeleteVM(c, o)
    <3>1. LaunchFails(c, o) => \E p : SetPhase(c, o, p)
      BY DEF LaunchFails, CleanOnLaunchError
    <3>2. InstanceStatus(c, o) => \E p : SetPhase(c, o, p)
      BY DEF InstanceStatus
    <3>3. ~NodeDeleted(c, o)
      BY DEF NodeDeleted
    <3>4. DestroyNode(c, o) \/ CleanupNode(c, o) => StartDeleteVM(c, o)
      BY DEF DestroyNode, CleanupNode, StartDelete
    <3>5. CreateNodeRefused(c, o) \/ LaunchVM(c, o) \/ InstanceCreate(c, o) \/ NodeJoins(c, o)
            => \E p : SetPhase(c, o, p)
      BY DEF CreateNodeRefused, LaunchVM, InstanceCreate, NodeJoins
    <3>6. LaunchSucceeds(c, o) \/ LaunchCleaned(c, o) \/ InstancePowerOff(c, o) \/ NodeDestroyed(c, o)
          \/ CleanupNodeEnds(c, o) => \E p : SetPhase(c, o, p)
      BY DEF LaunchSucceeds, LaunchCleaned, InstancePowerOff, NodeDestroyed, CleanupNodeEnds
    <3> QED
      BY <1>1, <3>1, <3>2, <3>3, <3>4, <3>5, <3>6 DEF NodeStep
  <2> QED
    BY <2>1, SetPhaseFields, StartDeleteVMFields
<1>2. CleanupReturns(c) => status' = "Deleted"
  BY DEF CleanupReturns
<1>3. CleanupReturns(c) \/ \E o \in Objects : NodeStep(c, o)
  BY DEF Step, Resize, GrowRefused, Grow, Keep, Shrink, ShrinkPanics, CanResize, PickNode, ReserveNode,
         ReserveFails, CreateNodes, StartCycle, CreateNodesEnds, Wait, AtWait, Waited,
         CreateNodesReturns, DeleteNodeByName, DeleteNodeRefused, DestroyNodesReturns,
         DeleteNodesReturns, CleanupWaited
<1> QED
  BY <1>1, <1>2, <1>3

\* A process that has died does nothing any more.
LEMMA DeadStep ==
  ASSUME TypeOK, CleanupInv, crashed, [Next]_vars
  PROVE  UNCHANGED vars
<1>1. \A c \in Callers : call[c].pc = "dead" /\ \A o \in Objects : call[c].run[o] = "none"
  BY StillIdle DEF CleanupInv, DeadInv
<1>2. \A c \in Callers : ~Request(c)
  BY <1>1, RequestFields
<1>3. \A c \in Callers, o \in Objects : ~NodeStep(c, o)
  BY <1>1 DEF NodeStep, CreateNodeRefused, LaunchVM, InstanceCreate, NodeJoins, LaunchFails,
              LaunchSucceeds, LaunchCleaned, InstanceStatus, InstancePowerOff, DestroyNode,
              NodeDestroyed, NodeDeleted, CleanupNode, CleanupNodeEnds
<1>4. \A c \in Callers : ~Step(c)
  BY <1>1, <1>3
     DEF Step, Resize, GrowRefused, Grow, Keep, Shrink, ShrinkPanics, CanResize, PickNode, ReserveNode,
         ReserveFails, CreateNodes, StartCycle, CreateNodesEnds, Wait, AtWait, Waited,
         CreateNodesReturns, DeleteNodeByName, DeleteNodeRefused, DestroyNodesReturns,
         DeleteNodesReturns, CleanupWaited, CleanupReturns
<1>5. \A c \in Callers : ~Panic(c)
  BY <1>1 DEF Panic, CreateNodesPanics, WaitPanics, AtWait
<1>6. \A o \in Objects : ~Refresh(o)
  BY DEF Refresh
<1> QED
  BY <1>2, <1>4, <1>5, <1>6 DEF Next

\* A group that cleanup has closed stays closed.
LEMMA StillClosed ==
  ASSUME TypeOK, CleanupInv, ~Open, [Next]_vars
  PROVE  ~Open'
<1>1. ASSUME NEW c \in Callers, Crash PROVE ~Open'
  BY <1>1, CrashFields DEF Open, crashed
<1>2. CASE crashed
  <2>1. call' = call
    BY <1>2, DeadStep DEF vars
  <2> QED
    BY <1>2, <2>1 DEF crashed, Open
<1>3. CASE status = "Deleted"
  <2>1. status' = "Deleted"
    BY <1>3, StatusMoves
  <2> QED
    BY <2>1 DEF Open
<1>4. ASSUME NEW c \in Callers, call[c].pc = "cleanup" PROVE ~Open'
  <2>1. ASSUME Crash PROVE ~Open'
    BY <1>1, <2>1
  <2>2. ASSUME call'[c].pc = "cleanup" \/ status' = "Deleted" PROVE ~Open'
    BY <2>2 DEF Open
  <2>3. ASSUME NEW d \in Callers, Request(d) \/ Step(d) PROVE ~Open'
    <3>1. CASE d = c
      <4>1. ~Request(c)
        BY <1>4, RequestFields
      <4> QED
        BY <1>4, <2>2, <2>3, <3>1, <4>1, CleanupGoesOn
    <3>2. CASE d # c
      <4>1. OthersStay(d) \/ Crash
        BY <2>3, StepStays DEF Moves
      <4> QED
        BY <1>4, <2>1, <2>2, <3>2, <4>1 DEF OthersStay
    <3> QED
      BY <3>1, <3>2
  <2>4. ASSUME NEW d \in Callers, Panic(d) PROVE ~Open'
    BY <2>1, <2>4 DEF Panic, CreateNodesPanics, WaitPanics
  <2>5. ASSUME UNCHANGED call PROVE ~Open'
    BY <1>4, <2>2, <2>5
  <2>6. ASSUME NEW o \in Objects, Refresh(o) PROVE ~Open'
    BY <2>5, <2>6 DEF Refresh
  <2>7. CASE UNCHANGED vars
    BY <2>5, <2>7 DEF vars
  <2> QED
    BY <2>3, <2>4, <2>6, <2>7 DEF Next
<1> QED
  BY <1>2, <1>3, <1>4 DEF Open

LEMMA OpenNext == Books /\ TypeOK' /\ [Next]_vars => (Open' => OpenInv')
<1> SUFFICES ASSUME Books, TypeOK', [Next]_vars, Open' PROVE OpenInv'
  OBVIOUS
<1>0. Orderly /\ TypeOK /\ CleanupInv /\ BasicInv /\ Open /\ OpenInv
  <2>1. Open
    BY StillClosed DEF Books
  <2> QED
    BY <2>1 DEF Books
<1>1. ASSUME NEW c \in Callers, Crash PROVE FALSE
  BY <1>0, <1>1, CrashFields DEF Open, crashed
<1>2. ASSUME NEW c \in Callers, Step(c) PROVE OpenInv'
  <2>1. ASSUME NEW n \in call[c].victims, DeleteNodeByName(c, n) \/ DeleteNodeRefused(c, n) PROVE OpenInv'
    BY <1>0, <2>1, OpenDeletes, NoDeleteRefused
  <2>2. ASSUME NEW o \in Objects, NodeStep(c, o) PROVE OpenInv'
    BY <1>0, <2>2, OpenNodeStep
  <2>3. CASE Wait(c)
    BY <1>0, <2>3, OpenSame DEF Wait, group
  <2>4. CASE CleanupWaited(c) \/ CleanupReturns(c)
    <3>1. CleanupWaited(c) => call'[c].pc = "cleanup"
      <4>1. call \in [Callers -> Call] /\ call[c] \in Call
        BY <1>0, CallType DEF TypeOK
      <4> QED
        BY <4>1 DEF CleanupWaited, Call
    <3> QED
      BY <1>0, <2>4, <3>1 DEF CleanupReturns, Open
  <2>5. CASE Resize(c)
    BY <1>0, <2>5, OpenResize
  <2>6. CASE PickNode(c) \/ ReserveNode(c) \/ ReserveFails(c)
    BY <1>0, <2>6, OpenPick, OpenReserve, NoReserveFails
  <2>7. CASE CreateNodes(c) \/ StartCycle(c) \/ CreateNodesEnds(c)
    BY <1>0, <2>7, OpenCreates
  <2>8. CASE CreateNodesReturns(c) \/ DestroyNodesReturns(c) \/ DeleteNodesReturns(c)
    BY <1>0, <2>8, OpenReturns
  <2> QED
    BY <1>2, <2>1, <2>2, <2>3, <2>4, <2>5, <2>6, <2>7, <2>8 DEF Step
<1>3. ASSUME NEW c \in Callers, Panic(c) PROVE FALSE
  BY <1>1, <1>3 DEF Panic, CreateNodesPanics, WaitPanics
<1>4. CASE UNCHANGED vars
  BY <1>0, <1>4, OpenSame DEF vars
<1> QED
  BY <1>0, <1>2, <1>3, <1>4, OpenRequest, OpenRefresh DEF Next

-----------------------------------------------------------------------------
(* The indexes of a group that is not being cleaned up *)

LEMMA PutTaken ==
  ASSUME NEW i, NEW s, runningNodes' = Put(runningNodes, i, s), s \in {Deleted, Creating, Running, Deleting}
  PROVE  \A k : Taken(k)' <=> IF k = i THEN s # Deleted ELSE Taken(k)
<1>1. \A k : /\ k \in DOMAIN runningNodes' <=> k = i \/ k \in DOMAIN runningNodes
             /\ k \in DOMAIN runningNodes' => runningNodes'[k] = IF k = i THEN s ELSE runningNodes[k]
  BY DEF Put
<1> QED
  BY <1>1 DEF Taken, Deleted, Creating, Running, Deleting

\* A step of c that leaves the nodes and the indexes alone, ...
LEMMA IndexKept ==
  ASSUME IndexInv, NEW c \in Callers, OthersStay(c), AllNodes' = AllNodes,
         \A o \in AllNodes : node'[o].index = node[o].index,
         \A i : Taken(i)' <=> Taken(i),
         \A n \in DOMAIN pendingNodes' :
           /\ n \in DOMAIN pendingNodes /\ pendingNodes'[n] = pendingNodes[n]
           /\ pendingNodes[n] \in Live(c) => pendingNodes[n] \in Live(c)',
         call'[c].pc = "reserve" => ~Taken(call'[c].index)
  PROVE  IndexInv'
<1>1. \A d \in Callers : d # c => call'[d] = call[d] /\ Live(d)' = Live(d)
  BY DEF OthersStay, Live
<1>2. \A i \in DOMAIN runningNodes' : Taken(i)' => i \in DOMAIN runningNodes /\ Taken(i)
  BY DEF Taken
<1>3. \A o \in AllNodes' : Taken(node[o].index)'
  BY DEF IndexInv
<1>4. \A i \in DOMAIN runningNodes' : Taken(i)' => \E o \in AllNodes' : node'[o].index = i
  BY <1>2 DEF IndexInv
<1>5. \A o, p \in AllNodes' : node'[o].index = node'[p].index => o = p
  BY DEF IndexInv
<1>6. \A d \in Callers : call'[d].pc = "reserve" => ~Taken(call[d].index)'
  BY <1>1 DEF IndexInv
<1>7. \A n \in DOMAIN pendingNodes' : \E d \in Callers : pendingNodes'[n] \in Live(d)'
  BY <1>1 DEF IndexInv
<1> QED
  BY <1>3, <1>4, <1>5, <1>6, <1>7 DEF IndexInv

LEMMA IndexSame ==
  ASSUME TypeOK, BasicInv, IndexInv, NEW c \in Callers, OthersStay(c), SameObjects,
         UNCHANGED <<nodes, pendingNodes, runningNodes>>,
         Live(c) \subseteq Live(c)',
         call'[c].pc # "reserve"
  PROVE  IndexInv'
<1>1. AllNodes' = AllNodes /\ \A i : Taken(i)' <=> Taken(i)
  BY DEF AllNodes, PendingObjects, Taken
<1>2. \A o \in AllNodes : node'[o].index = node[o].index
  BY InUse DEF SameObjects
<1> QED
  BY <1>1, <1>2, IndexKept

\* ... or forgets a node.
LEMMA IndexForgets ==
  ASSUME IndexInv, NEW c \in Callers, OthersStay(c), NEW o \in AllNodes, AllNodes' = AllNodes \ {o},
         \A p \in AllNodes : node'[p].index = node[p].index,
         runningNodes' = Put(runningNodes, node[o].index, Deleted),
         \A n \in DOMAIN pendingNodes' :
           n \in DOMAIN pendingNodes /\ pendingNodes'[n] = pendingNodes[n],
         Live(c) \ {o} \subseteq Live(c)',
         call'[c].pc # "reserve"
  PROVE  IndexInv'
<1>1. \A d \in Callers : d # c => call'[d] = call[d] /\ Live(d)' = Live(d)
  BY DEF OthersStay, Live
<1>2. \A i : Taken(i)' <=> Taken(i) /\ i # node[o].index
  BY PutTaken
<1>3. \A p \in AllNodes' : Taken(node[p].index)'
  BY <1>2 DEF IndexInv
<1>4. \A i \in DOMAIN runningNodes' : Taken(i)' => \E p \in AllNodes' : node'[p].index = i
  <2> SUFFICES ASSUME NEW i \in DOMAIN runningNodes', Taken(i)' PROVE \E p \in AllNodes' : node'[p].index = i
    OBVIOUS
  <2>1. Taken(i) /\ i # node[o].index /\ i \in DOMAIN runningNodes
    BY <1>2 DEF Taken
  <2>2. PICK p \in AllNodes : node[p].index = i
    BY <2>1 DEF IndexInv
  <2> QED
    BY <2>1, <2>2
<1>5. \A p, q \in AllNodes' : node'[p].index = node'[q].index => p = q
  BY DEF IndexInv
<1>6. \A d \in Callers : call'[d].pc = "reserve" => ~Taken(call[d].index)'
  BY <1>1, <1>2 DEF IndexInv
<1>7. \A n \in DOMAIN pendingNodes' : \E d \in Callers : pendingNodes'[n] \in Live(d)'
  <2> SUFFICES ASSUME NEW n \in DOMAIN pendingNodes' PROVE \E d \in Callers : pendingNodes'[n] \in Live(d)'
    OBVIOUS
  <2>1. pendingNodes'[n] \in AllNodes'
    BY DEF AllNodes, PendingObjects
  <2>2. pendingNodes'[n] # o
    BY <2>1
  <2>3. PICK d \in Callers : pendingNodes[n] \in Live(d)
    BY DEF IndexInv
  <2> QED
    BY <1>1, <2>2, <2>3
<1> QED
  BY <1>3, <1>4, <1>5, <1>6, <1>7 DEF IndexInv

\* While names are left, so are indexes: there are no more nodes than names.
LEMMA IndexesLeft ==
  ASSUME TypeOK, BasicInv, NameInv, IndexInv, NEW c \in Callers, Reserving(c)
  PROVE  FreeIndexes # {}
<1> SUFFICES ASSUME FreeIndexes = {} PROVE FALSE
  OBVIOUS
<1> DEFINE S == 0 .. MaxNodeSize - 1
           T == {node[o].index : o \in AllNodes}
           f == [n \in Tracked |-> node[Named(n)].index]
<1>1. IsFiniteSet(S) /\ Cardinality(S) = MaxNodeSize
  BY FS_Interval, NodeGroupAssumption
<1>2. S \subseteq T
  <2> SUFFICES ASSUME NEW i \in S PROVE i \in T
    OBVIOUS
  <2>1. i \in DOMAIN runningNodes /\ ~(runningNodes[i] < Creating)
    BY DEF FreeIndexes
  <2>2. runningNodes[i] \in 0 .. 4
    BY <2>1 DEF TypeOK, IsMap, ServerNodeState
  <2>3. Taken(i)
    BY <2>1, <2>2 DEF Taken, Creating
  <2> QED
    BY <2>1, <2>3 DEF IndexInv
<1>3. f \in Surjection(Tracked, T)
  <2>1. \A n \in Tracked : Named(n) \in AllNodes
    BY DEF Named, Tracked, AllNodes, PendingObjects
  <2>2. \A o \in AllNodes : \E n \in Tracked : node[Named(n)].index = node[o].index
    <3> SUFFICES ASSUME NEW o \in AllNodes PROVE \E n \in Tracked : Named(n) = o
      OBVIOUS
    <3> QED
      BY DEF Named, Tracked, AllNodes, PendingObjects, NameInv
  <2> QED
    BY <2>1, <2>2 DEF Surjection
<1>4. IsFiniteSet(vms) /\ Cardinality(Claimed) + call[c].need <= MaxNodeSize /\ call[c].need >= 1
  BY DEF BasicInv, SizeInv, CallInv, CallOK
<1>5. call[c].need \in Int /\ Cardinality(Claimed) \in Nat /\ IsFiniteSet(Claimed) /\ IsFiniteSet(Tracked) /\ Cardinality(Tracked) \in Nat
  BY <1>4, CallType, ClaimedFinite DEF Call
<1>6. Cardinality(Tracked) <= Cardinality(Claimed)
  <2>1. Tracked \in SUBSET Claimed
    BY DEF Claimed
  <2> QED
    BY <1>5, <2>1, FS_Subset
<1> HIDE DEF S, T, f
<1>7. IsFiniteSet(T) /\ Cardinality(T) <= Cardinality(Tracked)
  BY <1>3, <1>5, FS_Surjection
<1>8. Cardinality(S) <= Cardinality(T) /\ Cardinality(T) \in Nat
  BY <1>2, <1>7, FS_Subset, FS_CardinalityType
<1> QED
  BY <1>1, <1>4, <1>5, <1>6, <1>7, <1>8, NodeGroupAssumption

LEMMA IndexPick ==
  ASSUME TypeOK, BasicInv, OpenInv, IndexInv, NEW c \in Callers, PickNode(c)
  PROVE  IndexInv'
<1>1. Reserving(c) /\ NameInv /\ vms \subseteq Tracked
  BY DEF PickNode, Reserving, OpenInv, VMInv
<1>2. FreeNumbers("autoscaled") # {} /\ KindOf(c) = "autoscaled" /\ FreeIndexes # {}
  BY <1>1, NamesLeft, IndexesLeft
<1>3. SkippedNumbers("autoscaled") = {}
  BY <1>1 DEF SkippedNumbers, UnusedNumbers, FreeNumbers
<1>4. Cardinality(SkippedNumbers("autoscaled")) = 0
  BY <1>3, FS_EmptySet
<1>5. findNextNodeIndex \in FreeIndexes /\ findNextNodeIndex \in Nat
  <2>1. FreeIndexes \in SUBSET Nat
    BY DEF FreeIndexes
  <2>2. Least(FreeIndexes) \in FreeIndexes
    BY <1>2, <2>1, LeastNatural
  <2> QED
    BY <1>2, <2>1, <2>2 DEF findNextNodeIndex
<1>6. /\ OthersStay(c) /\ call[c].pc = "pick" /\ call'[c].pc = "reserve"
      /\ call'[c].index = findNextNodeIndex + 0
      /\ call'[c].todo = call[c].todo /\ call'[c].run = call[c].run
      /\ UNCHANGED <<nodes, pendingNodes, node>>
  BY <1>2, <1>4, PickFields
<1>7. call'[c].index = findNextNodeIndex
  BY <1>5, <1>6
<1>8. runningNodes' = [i \in DOMAIN runningNodes \cup (findNextNodeIndex .. findNextNodeIndex + 0 - 1) |->
                         IF i \in findNextNodeIndex .. findNextNodeIndex + 0 - 1 THEN Running ELSE runningNodes[i]]
  BY <1>2, <1>4 DEF PickNode
<1>9. findNextNodeIndex .. findNextNodeIndex + 0 - 1 = {}
  BY <1>5
<1>10. /\ DOMAIN runningNodes' = DOMAIN runningNodes
       /\ \A i \in DOMAIN runningNodes : runningNodes'[i] = runningNodes[i]
  BY <1>8, <1>9
<1>11. \A i : Taken(i)' <=> Taken(i)
  BY <1>10 DEF Taken
<1>12. ~Taken(findNextNodeIndex)
  <2>1. findNextNodeIndex \in DOMAIN runningNodes => runningNodes[findNextNodeIndex] < Creating
    BY <1>5 DEF FreeIndexes
  <2>2. findNextNodeIndex \in DOMAIN runningNodes => runningNodes[findNextNodeIndex] \in 0 .. 4
    BY DEF TypeOK, IsMap, ServerNodeState
  <2> QED
    BY <2>1, <2>2 DEF Taken, Creating
<1>13. AllNodes' = AllNodes /\ Live(c)' = Live(c)
  BY <1>6 DEF AllNodes, PendingObjects, Live
<1> QED
  BY <1>6, <1>7, <1>11, <1>12, <1>13, IndexKept

LEMMA IndexReserve ==
  ASSUME TypeOK, CleanupInv, BasicInv, OpenInv, IndexInv, NEW c \in Callers, ReserveNode(c)
  PROVE  IndexInv'
<1>1. PICK o \in Objects : Allocates(c, o)
  BY ReserveFields
<1> DEFINE k == call[c].index
           n == call[c].name
<1>2. /\ \A d \in Callers : d # c => call'[d] = call[d]
      /\ call[c].pc = "reserve" /\ call'[c].pc \in {"pick", "create", "destroy"}
      /\ call'[c].todo = call[c].todo \cup {o}
      /\ call'[c].run = call[c].run
      /\ node[o].state = "Unallocated" /\ node'[o].index = k
      /\ \A q \in Objects : q # o => node'[q] = node[q]
      /\ nodes' = nodes /\ runningNodes' = Put(runningNodes, k, Creating)
  BY <1>1 DEF Allocates, OthersStay
<1>3. /\ DOMAIN pendingNodes' = DOMAIN pendingNodes \cup {n} /\ pendingNodes'[n] = o
      /\ \A m \in DOMAIN pendingNodes : m # n => pendingNodes'[m] = pendingNodes[m]
  BY <1>1 DEF Allocates
<1>4. n \notin DOMAIN pendingNodes /\ ~Taken(k) /\ Reserving(c)
  BY <1>2 DEF BasicInv, FreshInv, Claimed, Tracked, IndexInv, Reserving
<1>a. call'[c].pc \in {"pick", "create"}
  <2>1. call'[c].pc # "destroy"
    BY <1>1 DEF Allocates, BasicInv, CallInv, CallOK
  <2> QED
    BY <1>2, <2>1
<1>5. AllNodes' = AllNodes \cup {o} /\ o \notin AllNodes
  <2>1. o \notin AllNodes
    BY <1>2, InUse
  <2>2. PendingObjects' = PendingObjects \cup {o}
    BY <1>3, <1>4 DEF PendingObjects
  <2> QED
    BY <1>2, <2>1, <2>2 DEF AllNodes
<1> HIDE DEF k, n
<1>6. \A i : Taken(i)' <=> i = k \/ Taken(i)
  <2>1. Creating # Deleted
    BY DEF Creating, Deleted
  <2> QED
    BY <1>2, <2>1, PutTaken
<1>7. \A p \in AllNodes : node'[p] = node[p] /\ Taken(node[p].index) /\ node[p].index # k
  <2>1. \A p \in AllNodes : p \in Objects
    BY InUse
  <2> QED
    BY <1>2, <1>4, <1>5, <2>1 DEF IndexInv
<1>8. \A p \in AllNodes' : Taken(node[p].index)'
  BY <1>2, <1>5, <1>6, <1>7
<1>9. \A i \in DOMAIN runningNodes' : Taken(i)' => \E p \in AllNodes' : node'[p].index = i
  <2> SUFFICES ASSUME NEW i, Taken(i)' PROVE \E p \in AllNodes' : node'[p].index = i
    OBVIOUS
  <2>1. CASE i = k
    BY <1>2, <1>5, <2>1
  <2>2. CASE Taken(i)
    <3>1. i \in DOMAIN runningNodes
      BY <2>2 DEF Taken
    <3>2. PICK p \in AllNodes : node[p].index = i
      BY <2>2, <3>1 DEF IndexInv
    <3> QED
      BY <1>5, <1>7, <3>2
  <2> QED
    BY <1>6, <2>1, <2>2
<1>10. \A p, q \in AllNodes' : node'[p].index = node'[q].index => p = q
  BY <1>2, <1>5, <1>7 DEF IndexInv
<1>11. \A d \in Callers : call'[d].pc = "reserve" => ~Taken(call[d].index)'
  <2>1. \A d \in Callers : call'[d].pc # "reserve"
    <3>1. \A d \in Callers : d # c => ~Reserving(d)
      BY <1>4, OneReserves
    <3> QED
      BY <1>2, <3>1 DEF Reserving
  <2> QED
    BY <2>1
<1>12. \A m \in DOMAIN pendingNodes' : \E d \in Callers : pendingNodes'[m] \in Live(d)'
  <2>1. \A d \in Callers : Live(d) \subseteq Live(d)'
    BY <1>2, <1>a DEF Live
  <2>2. o \in Live(c)'
    BY <1>2, <1>a DEF Live
  <2>3. \A m \in DOMAIN pendingNodes : \E d \in Callers : pendingNodes[m] \in Live(d)
    BY DEF IndexInv
  <2> QED
    BY <1>3, <2>1, <2>2, <2>3
<1> QED
  BY <1>8, <1>9, <1>10, <1>11, <1>12 DEF IndexInv

LEMMA IndexDeletes ==
  ASSUME TypeOK, BasicInv, IndexInv, NEW c \in Callers, NEW n, DeleteNodeByName(c, n)
  PROVE  IndexInv'
<1>1. /\ call[c].pc = "delete" /\ StartDeleteVM(c, Named(n)) /\ n \in Tracked
      /\ UNCHANGED <<nodes, pendingNodes, node>>
      /\ runningNodes' = Put(runningNodes, node[Named(n)].index, Deleting)
  BY DEF DeleteNodeByName, StartDelete
<1>2. Named(n) \in AllNodes
  BY <1>1 DEF Named, Tracked, AllNodes, PendingObjects
<1>3. Named(n) \in Objects /\ Taken(node[Named(n)].index)
  BY <1>2, InUse DEF IndexInv
<1>4. \A i : Taken(i)' <=> Taken(i)
  <2>1. Deleting # Deleted
    BY DEF Deleting, Deleted
  <2> QED
    BY <1>1, <1>3, <2>1, PutTaken
<1>5. OthersStay(c) /\ call'[c].pc = "delete"
  BY <1>1, <1>3, StartDeleteVMFields
<1>6. Live(c) = {} /\ AllNodes' = AllNodes
  BY <1>1 DEF Live, AllNodes, PendingObjects
<1> QED
  BY <1>1, <1>4, <1>5, <1>6, IndexKept

LEMMA IndexSucceeds ==
  ASSUME TypeOK, TypeOK', CleanupInv, BasicInv, Open, OpenInv, IndexInv, NEW c \in Callers, NEW o \in Objects,
         LaunchSucceeds(c, o)
  PROVE  IndexInv'
<1>1. /\ call[c].run[o] = "joined" /\ SetPhase(c, o, "none")
      /\ UNCHANGED <<lock, node, vms>>
      /\ nodes' = Put(nodes, node[o].name, o) /\ pendingNodes' = Del(pendingNodes, node[o].name)
      /\ runningNodes' = Put(runningNodes, node[o].index, Running)
  BY DEF LaunchSucceeds
<1> DEFINE n == node[o].name
<1>2. call[c].pc = "launch"
  BY <1>1, PhaseSets DEF CleanupInv, WorkInv
<1>a. /\ DOMAIN nodes' = DOMAIN nodes \cup {n} /\ nodes'[n] = o
      /\ \A m \in DOMAIN nodes : m # n => nodes'[m] = nodes[m]
      /\ DOMAIN pendingNodes' = DOMAIN pendingNodes \ {n}
      /\ \A m \in DOMAIN pendingNodes' : pendingNodes'[m] = pendingNodes[m]
  BY <1>1 DEF Put, Del
<1>3. OthersStay(c) /\ o \in Live(c) /\ Live(c)' = Live(c) \ {o} /\ call'[c].pc = "launch"
  <2>1. \A m \in DOMAIN pendingNodes : m # n => m \in DOMAIN pendingNodes' /\ pendingNodes'[m] = pendingNodes[m]
    BY <1>a
  <2>2. SameObjects
    BY <1>1 DEF SameObjects
  <2> QED
    BY <1>1, <1>2, <2>1, <2>2, LiveEnds
<1>4. n \in DOMAIN pendingNodes /\ pendingNodes[n] = o /\ n \notin DOMAIN nodes
  BY <1>3, LiveFacts
<1>b. \A m \in DOMAIN pendingNodes : pendingNodes[m] = o => m = n
  BY DEF OpenInv, NameInv
<1> HIDE DEF n
<1>5. AllNodes' = AllNodes
  BY <1>4, <1>a DEF AllNodes, PendingObjects
<1>6. Taken(node[o].index)
  <2>1. o \in AllNodes
    BY <1>4 DEF AllNodes, PendingObjects
  <2> QED
    BY <2>1 DEF IndexInv
<1>7. \A i : Taken(i)' <=> Taken(i)
  <2>1. Running # Deleted
    BY DEF Running, Deleted
  <2> QED
    BY <1>1, <1>6, <2>1, PutTaken
<1>8. \A m \in DOMAIN pendingNodes' : m \in DOMAIN pendingNodes /\ pendingNodes'[m] = pendingNodes[m] /\ pendingNodes[m] # o
  BY <1>a, <1>b
<1> QED
  BY <1>1, <1>3, <1>5, <1>7, <1>8, IndexKept

LEMMA IndexCleaned ==
  ASSUME Orderly, TypeOK, TypeOK', CleanupInv, BasicInv, Open, OpenInv, IndexInv, NEW c \in Callers,
         NEW o \in Objects, LaunchCleaned(c, o)
  PROVE  IndexInv'
<1>1. /\ call[c].pc = "launch" /\ SetPhase(c, o, "none") /\ (VMDeleted(c, o) \/ VMNotDeleted(c, o))
      /\ nodes' = nodes /\ pendingNodes' = Del(pendingNodes, node[o].name)
      /\ runningNodes' = Put(runningNodes, node[o].index, Deleted)
  BY DEF LaunchCleaned
<1> DEFINE n == node[o].name
<1>2. /\ vms' = vms \ {n} /\ SameObjects
      /\ \A q \in Objects : /\ node'[q].name = node[q].name /\ node'[q].index = node[q].index
                            /\ q # o => node'[q].state = node[q].state
      /\ call[c].run[o] # "none"
  BY <1>1, VMIsGone
<1>a. /\ DOMAIN pendingNodes' = DOMAIN pendingNodes \ {n}
      /\ \A m \in DOMAIN pendingNodes' : pendingNodes'[m] = pendingNodes[m]
  BY <1>1 DEF Del
<1>3. OthersStay(c) /\ o \in Live(c) /\ Live(c)' = Live(c) \ {o} /\ call'[c].pc = "launch"
  <2>1. \A m \in DOMAIN pendingNodes : m # n => m \in DOMAIN pendingNodes' /\ pendingNodes'[m] = pendingNodes[m]
    BY <1>a
  <2>2. \A m : m # n => (m \in vms' <=> m \in vms)
    BY <1>2
  <2> QED
    BY <1>1, <1>2, <2>1, <2>2, LiveEnds
<1>4. n \in DOMAIN pendingNodes /\ pendingNodes[n] = o /\ \A m \in DOMAIN nodes : nodes[m] # o
  BY <1>3, LiveFacts
<1>b. \A m \in DOMAIN pendingNodes : pendingNodes[m] = o => m = n
  BY DEF OpenInv, NameInv
<1> HIDE DEF n
<1>5. o \in AllNodes /\ AllNodes' = AllNodes \ {o}
  <2>1. o \in PendingObjects /\ PendingObjects' = PendingObjects \ {o}
    BY <1>4, <1>a, <1>b DEF PendingObjects
  <2> QED
    BY <1>1, <1>4, <2>1 DEF AllNodes
<1>6. \A p \in AllNodes : node'[p].index = node[p].index
  BY <1>2, InUse
<1> QED
  BY <1>1, <1>3, <1>5, <1>6, <1>a, IndexForgets

LEMMA IndexDeleted ==
  ASSUME Orderly, TypeOK, TypeOK', CleanupInv, BasicInv, Open, OpenInv, IndexInv, NEW c \in Callers,
         NEW o \in Objects, NodeDeleted(c, o)
  PROVE  IndexInv'
<1>1. /\ call[c].pc = "delete" /\ SetPhase(c, o, "none") /\ o \in Dying(c) /\ (VMDeleted(c, o) \/ VMNotDeleted(c, o))
      /\ nodes' = Del(nodes, node[o].name) /\ pendingNodes' = Del(pendingNodes, node[o].name)
      /\ runningNodes' = Put(runningNodes, node[o].index, Deleted)
  BY DeletedFields DEF NodeDeleted, Forget
<1> DEFINE n == node[o].name
<1>2. \A q \in Objects : node'[q].name = node[q].name /\ node'[q].index = node[q].index
  BY <1>1, VMIsGone
<1>3. n \in DOMAIN nodes /\ n \notin DOMAIN pendingNodes /\ nodes[n] = o
  BY <1>1, DyingFacts
<1>a. /\ DOMAIN nodes' = DOMAIN nodes \ {n}
      /\ \A m \in DOMAIN nodes' : nodes'[m] = nodes[m]
      /\ DOMAIN pendingNodes' = DOMAIN pendingNodes
      /\ \A m \in DOMAIN pendingNodes : pendingNodes'[m] = pendingNodes[m]
  BY <1>1, <1>3 DEF Del
<1>b. /\ \A m \in DOMAIN nodes : nodes[m] = o => m = n
      /\ \A m \in DOMAIN pendingNodes : pendingNodes[m] # o
  BY <1>3 DEF OpenInv, NameInv
<1>4. OthersStay(c) /\ call'[c].pc = "delete"
  BY <1>1, SetPhaseFields
<1>5. Live(c) = {}
  BY <1>1 DEF Live
<1> HIDE DEF n
<1>6. o \in AllNodes /\ AllNodes' = AllNodes \ {o}
  BY <1>3, <1>a, <1>b DEF AllNodes, PendingObjects
<1>7. \A p \in AllNodes : node'[p].index = node[p].index
  BY <1>2, InUse
<1> QED
  BY <1>1, <1>4, <1>5, <1>6, <1>7, <1>a, IndexForgets

\* The other steps of the goroutine of a node.
LEMMA IndexPhase ==
  ASSUME TypeOK, BasicInv, IndexInv, NEW c \in Callers, NEW o \in Objects, NEW p, p # "none",
         SetPhase(c, o, p), call[c].run[o] # "none", CleanupInv, SameObjects,
         UNCHANGED <<nodes, pendingNodes, runningNodes>>
  PROVE  IndexInv'
<1>1. /\ OthersStay(c) /\ call'[c].pc = call[c].pc /\ call'[c].todo = call[c].todo
      /\ \A q \in Objects : call'[c].run[q] = IF q = o THEN p ELSE call[c].run[q]
  BY SetPhaseFields
<1>2. call'[c].pc # "reserve"
  BY <1>1 DEF CleanupInv, WorkInv
<1>3. Live(c) \subseteq Live(c)'
  BY <1>1 DEF Live
<1> QED
  BY <1>1, <1>2, <1>3, IndexSame

LEMMA IndexNodeStep ==
  ASSUME Orderly, TypeOK, TypeOK', CleanupInv, BasicInv, Open, OpenInv, IndexInv, status = "Created",
         NEW c \in Callers, NEW o \in Objects, NodeStep(c, o)
  PROVE  IndexInv'
<1>1. call[c].pc # "destroy" /\ call[c].pc # "cleanup"
  BY DEF BasicInv, CallInv, CallOK, Open
<1>2. ASSUME NEW s \in {"Creating", "Running", "Stopped", "Deleting"}, SetState(o, s) PROVE SameObjects
  BY <1>2, SetStateFields DEF SameObjects
<1>3. UNCHANGED node => SameObjects
  BY DEF SameObjects
<1>4. ~(CreateNodeRefused(c, o) \/ DestroyNode(c, o) \/ NodeDestroyed(c, o) \/ CleanupNode(c, o) \/ CleanupNodeEnds(c, o))
  BY <1>1 DEF CreateNodeRefused, DestroyNode, NodeDestroyed, CleanupNode, CleanupNodeEnds
<1>5. CASE LaunchVM(c, o) \/ NodeJoins(c, o) \/ InstancePowerOff(c, o)
  <2>1. /\ \E p \in {"creating", "joined", "stopped"} : SetPhase(c, o, p)
        /\ \E s \in {"Creating", "Running", "Stopped", "Deleting"} : SetState(o, s)
        /\ call[c].run[o] # "none" /\ UNCHANGED <<nodes, pendingNodes, runningNodes>>
    BY <1>5 DEF LaunchVM, NodeJoins, InstancePowerOff, group
  <2> QED
    BY <1>2, <2>1, IndexPhase
<1>6. CASE InstanceCreate(c, o)
  <2>1. /\ SetPhase(c, o, "booting") /\ UNCHANGED node
        /\ call[c].run[o] # "none" /\ UNCHANGED <<nodes, pendingNodes, runningNodes>>
    BY <1>6 DEF InstanceCreate, group
  <2> QED
    BY <1>3, <2>1, IndexPhase
<1>7. CASE LaunchFails(c, o) \/ InstanceStatus(c, o)
  <2>1. /\ \E p \in {"checked", "refused", "racing", "deleting"} : SetPhase(c, o, p)
        /\ UNCHANGED node \/ \E s \in {"Creating", "Running", "Stopped", "Deleting"} : SetState(o, s)
        /\ call[c].run[o] # "none" /\ UNCHANGED <<nodes, pendingNodes, runningNodes>>
    <3>1. CASE LaunchFails(c, o)
      <4>1. CleanOnLaunchError(c, o) /\ call[c].run[o] # "none"
        BY <3>1 DEF LaunchFails
      <4>2. CheckNotDeleting(o) \in {"checked", "refused"}
        BY DEF CheckNotDeleting
      <4> DEFINE p == CheckNotDeleting(o)
      <4>3. SetPhase(c, o, "checked") \/ SetPhase(c, o, p)
        BY <4>1 DEF CleanOnLaunchError
      <4>4. p \in {"checked", "refused"}
        BY <4>2
      <4> HIDE DEF p
      <4>5. \E q \in {"checked", "refused", "racing", "deleting"} : SetPhase(c, o, q)
        BY <4>3, <4>4
      <4> QED
        BY <4>1, <4>5 DEF CleanOnLaunchError, group
    <3>2. CASE InstanceStatus(c, o)
      BY <3>2 DEF InstanceStatus, group
    <3> QED
      BY <1>7, <3>1, <3>2
  <2> QED
    BY <1>2, <1>3, <2>1, IndexPhase
<1> QED
  BY <1>4, <1>5, <1>6, <1>7, IndexSucceeds, IndexCleaned, IndexDeleted DEF NodeStep

LEMMA IndexUnchanged ==
  ASSUME TypeOK, BasicInv, IndexInv, UNCHANGED <<nodes, pendingNodes, runningNodes, call>>, SameObjects
  PROVE  IndexInv'
<1>1. AllNodes' = AllNodes /\ \A i : Taken(i)' <=> Taken(i)
  BY DEF AllNodes, PendingObjects, Taken
<1>2. \A o \in AllNodes : node'[o].index = node[o].index
  BY InUse DEF SameObjects
<1>3. \A d \in Callers : Live(d)' = Live(d)
  BY DEF Live
<1>4. \A o \in AllNodes' : Taken(node[o].index)'
  BY <1>1, <1>2 DEF IndexInv
<1>5. \A i \in DOMAIN runningNodes' : Taken(i)' => \E o \in AllNodes' : node'[o].index = i
  BY <1>1, <1>2 DEF IndexInv
<1>6. \A o, p \in AllNodes' : node'[o].index = node'[p].index => o = p
  BY <1>1, <1>2 DEF IndexInv
<1>7. \A d \in Callers : call'[d].pc = "reserve" => ~Taken(call[d].index)'
  BY <1>1 DEF IndexInv
<1>8. \A n \in DOMAIN pendingNodes' : \E d \in Callers : pendingNodes'[n] \in Live(d)'
  BY <1>3 DEF IndexInv
<1> QED
  BY <1>4, <1>5, <1>6, <1>7, <1>8 DEF IndexInv

LEMMA IndexStep ==
  ASSUME Orderly, TypeOK, TypeOK', CleanupInv, BasicInv, Open, Open', OpenInv, IndexInv, status = "Created",
         NEW c \in Callers, Step(c)
  PROVE  IndexInv'
<1>0. call \in [Callers -> Call] /\ call[c] \in Call
  BY CallType DEF TypeOK
<1>1. ASSUME OthersStay(c), UNCHANGED <<nodes, pendingNodes, runningNodes, node>>,
             Live(c) = {}, call'[c].pc # "reserve"
      PROVE  IndexInv'
  BY <1>1, IndexSame DEF SameObjects
<1>2. CASE Resize(c)
  <2>1. /\ call[c].pc = "resize"
        /\ UNCHANGED <<nodes, pendingNodes, runningNodes, node>>
    BY <1>2 DEF Resize, GrowRefused, Grow, Keep, Shrink, ShrinkPanics, CanResize, Crash, group
  <2>2. OthersStay(c)
    <3>1. ~Crash
      BY CrashFields DEF Open, crashed
    <3> QED
      BY <3>1, StepStays DEF Moves
  <2>3. call'[c].pc # "reserve"
    <3>1. ASSUME Return(c) PROVE call'[c].pc # "reserve"
      BY <3>1, ReturnFields
    <3>2. ASSUME NEW S, WorkOn(c, S) PROVE call'[c].pc # "reserve"
      BY <3>2, WorkOnFields
    <3>3. ASSUME Crash PROVE call'[c].pc # "reserve"
      BY <3>3, CrashFields
    <3> QED
      BY <1>2, <3>1, <3>2, <3>3, GrowFields DEF Resize, GrowRefused, Keep, Shrink, ShrinkPanics
  <2>4. Live(c) = {}
    BY <2>1, StillIdle DEF Live
  <2> QED
    BY <1>1, <2>1, <2>2, <2>3, <2>4
<1>3. CASE CreateNodes(c)
  <2>1. /\ OthersStay(c) /\ call'[c].pc = "launch" /\ call'[c].todo = call[c].todo /\ call'[c].run = call[c].run
        /\ UNCHANGED <<nodes, pendingNodes, runningNodes, node>>
    BY <1>3, GotoFields DEF CreateNodes, group
  <2>2. Live(c) \subseteq Live(c)'
    BY <2>1 DEF Live
  <2> QED
    BY <2>1, <2>2, IndexSame DEF SameObjects
<1>4. CASE StartCycle(c)
  <2>1. PICK cycle \in SUBSET call[c].todo :
          call' = [call EXCEPT ![c].todo = @ \ cycle,
                               ![c].run = [o \in Objects |-> IF o \in cycle THEN "start" ELSE "none"]]
    BY <1>4 DEF StartCycle
  <2>2. /\ call[c].pc = "launch" /\ Busy(c) = {}
        /\ UNCHANGED <<nodes, pendingNodes, runningNodes, node>>
    BY <1>4 DEF StartCycle, group
  <2>3. /\ OthersStay(c) /\ call'[c].pc = "launch" /\ call'[c].todo = call[c].todo \ cycle
        /\ \A o \in Objects : call'[c].run[o] = IF o \in cycle THEN "start" ELSE "none"
    BY <1>0, <2>1, <2>2 DEF OthersStay, Call
  <2>4. Live(c) \subseteq Live(c)'
    BY <2>2, <2>3 DEF Live, Busy
  <2> QED
    BY <2>2, <2>3, <2>4, IndexSame DEF SameObjects
<1>5. CASE CreateNodesEnds(c)
  <2>1. /\ call[c].pc = "launch" /\ Busy(c) = {} /\ call[c].todo = {}
        /\ OthersStay(c) /\ call'[c].pc = "wait"
        /\ UNCHANGED <<nodes, pendingNodes, runningNodes, node>>
    BY <1>5, GotoFields DEF CreateNodesEnds, group
  <2>2. Live(c) = {}
    BY <2>1 DEF Live, Busy
  <2> QED
    BY <1>1, <2>1, <2>2
<1>6. CASE Wait(c)
  BY <1>6, IndexUnchanged DEF Wait, group, SameObjects
<1>7. CASE CreateNodesReturns(c) \/ DestroyNodesReturns(c) \/ DeleteNodesReturns(c)
  <2>1. /\ call[c].pc \in {"wait", "destroy", "delete"} /\ Return(c)
        /\ UNCHANGED <<nodes, pendingNodes, runningNodes, node>>
    BY <1>7 DEF CreateNodesReturns, DestroyNodesReturns, DeleteNodesReturns, group
  <2>2. OthersStay(c) /\ call'[c].pc = "idle" /\ Live(c) = {}
    BY <2>1, ReturnFields DEF Live
  <2> QED
    BY <1>1, <2>1, <2>2
<1>8. ~CleanupWaited(c) /\ ~CleanupReturns(c)
  <2>1. CleanupWaited(c) => call'[c].pc = "cleanup"
    BY <1>0 DEF CleanupWaited, Call
  <2> QED
    BY <2>1 DEF CleanupReturns, Open
<1>9. ASSUME NEW n \in call[c].victims, DeleteNodeByName(c, n) \/ DeleteNodeRefused(c, n) PROVE IndexInv'
  BY <1>9, IndexDeletes, NoDeleteRefused
<1> QED
  BY <1>2, <1>3, <1>4, <1>5, <1>6, <1>7, <1>8, <1>9, IndexPick, IndexReserve, NoReserveFails, IndexNodeStep DEF Step

LEMMA IndexNext ==
  ASSUME Books, Open => (status = "Created" => IndexInv), TypeOK', [Next]_vars, Open', status' = "Created"
  PROVE  IndexInv'
<1>0. Orderly /\ TypeOK /\ CleanupInv /\ BasicInv /\ Open /\ OpenInv /\ IndexInv /\ status = "Created"
  <2>1. Open
    BY StillClosed DEF Books
  <2>2. status = "Created"
    BY StatusMoves
  <2> QED
    BY <2>1, <2>2 DEF Books
<1>1. ASSUME NEW c \in Callers, Request(c) PROVE IndexInv'
  <2>1. /\ OthersStay(c) /\ call[c].pc = "idle"
        /\ UNCHANGED <<nodes, pendingNodes, runningNodes, node>>
    BY <1>0, <1>1, RequestFields
  <2>2. Live(c) = {}
    BY <2>1 DEF Live
  <2>3. call'[c].pc # "reserve"
    <3>1. call \in [Callers -> Call]
      BY <1>0 DEF TypeOK
    <3>2. ~(\E x : AddManagedNode(c, x) \/ DeleteManagedNode(c, x))
      BY <1>0 DEF Orderly, AddManagedNode, DeleteManagedNode
    <3>3. ASSUME NEW delta, IncreaseSize(c, delta) \/ DecreaseTargetSize(c, delta) PROVE call'[c].pc # "reserve"
      BY <3>1, <3>3 DEF IncreaseSize, DecreaseTargetSize, NoCall
    <3>4. ASSUME NEW names, DeleteNodes(c, names) PROVE call'[c].pc # "reserve"
      BY <3>1, <3>4 DEF DeleteNodes, NoCall
    <3>5. ASSUME Cleanup(c) PROVE call'[c].pc # "reserve"
      BY <3>1, <3>5 DEF Cleanup, NoCall
    <3> QED
      BY <1>1, <3>2, <3>3, <3>4, <3>5, Zenon DEF Request
  <2> QED
    BY <1>0, <2>1, <2>2, <2>3, IndexSame DEF SameObjects
<1>2. ASSUME NEW c \in Callers, Step(c) PROVE IndexInv'
  BY <1>0, <1>2, IndexStep
<1>3. ASSUME NEW c \in Callers, Panic(c) PROVE FALSE
  <2>1. Crash
    BY <1>3 DEF Panic, CreateNodesPanics, WaitPanics
  <2> QED
    BY <1>0, <2>1, CrashFields DEF Open, crashed
<1>4. ASSUME NEW o \in Objects, Refresh(o) PROVE IndexInv'
  <2>1. SameObjects /\ UNCHANGED <<nodes, pendingNodes, runningNodes, call>>
    BY <1>0, <1>4, SetStateFields DEF Refresh, SameObjects, group
  <2> QED
    BY <1>0, <2>1, IndexUnchanged
<1>5. CASE UNCHANGED vars
  BY <1>0, <1>5, IndexUnchanged DEF vars, SameObjects
<1> QED
  BY <1>1, <1>2, <1>3, <1>4, <1>5 DEF Next

-----------------------------------------------------------------------------
(* The invariant *)

Kept == (Open /\ status = "Created" => IndexInv) /\ NoVMLost /\ DistinctIndexes

LEMMA GroupInit == Init => (Open => OpenInv) /\ Kept
<1> SUFFICES ASSUME Init PROVE (Open => OpenInv) /\ Kept
  OBVIOUS
<1>1. /\ DOMAIN nodes = {} /\ DOMAIN pendingNodes = {} /\ DOMAIN runningNodes = {} /\ vms = {}
      /\ lock = NoCaller /\ numOf.provisionned = 0
  BY DEF Init, EmptyMap
<1>2. \A d \in Callers : /\ call[d].pc = "idle" /\ call[d].todo = {} /\ call[d].victims = {}
                         /\ \A o \in Objects : call[d].run[o] = "none"
  BY DEF Init, NoCall
<1>3. \A d \in Callers : Live(d) = {} /\ Dying(d) = {}
  BY <1>2 DEF Live, Dying
<1>4. \A d \in Callers : Doomed(d) = {}
  BY <1>2, <1>3 DEF Doomed
<1>5. NameInv /\ VMInv
  BY <1>1, FS_EmptySet DEF NameInv, VMInv, Tracked
<1>6. LiveInv /\ DoomedInv /\ RunningInv
  BY <1>1, <1>3, <1>4 DEF LiveInv, DoomedInv, RunningInv
<1>7. StaleInv /\ LockInv
  BY <1>1, <1>2 DEF StaleInv, LockInv
<1>8. IndexInv
  <2>1. AllNodes = {}
    BY <1>1 DEF AllNodes, PendingObjects
  <2> QED
    BY <1>1, <1>2, <2>1 DEF IndexInv
<1>9. OpenInv
  BY <1>5, <1>6, <1>7 DEF OpenInv
<1>10. NoVMLost /\ DistinctIndexes
  <2>1. AllNodes = {}
    BY <1>1 DEF AllNodes, PendingObjects
  <2> QED
    BY <1>1, <2>1 DEF NoVMLost, DistinctIndexes
<1> QED
  BY <1>8, <1>9, <1>10 DEF Kept

\* A panic leaves the group as it is.
LEMMA KeptByCrash ==
  ASSUME UNCHANGED <<nodes, pendingNodes, status, vms>>, node' = node, NoVMLost, DistinctIndexes
  PROVE  NoVMLost' /\ DistinctIndexes'
BY DEF NoVMLost, DistinctIndexes, Tracked, AllNodes, PendingObjects

LEMMA KeptNext ==
  ASSUME Books, Kept, TypeOK', CleanupInv', [Next]_vars
  PROVE  Kept'
<1>0. Orderly /\ TypeOK /\ CleanupInv /\ BasicInv
  BY DEF Books
<1>1. CASE Open'
  <2>1. OpenInv'
    BY <1>1, OpenNext
  <2>2. status' = "Created" => IndexInv'
    BY <1>1, IndexNext DEF Kept
  <2>3. NoVMLost' /\ DistinctIndexes'
    BY <2>1, <2>2 DEF OpenInv, VMInv, NoVMLost, IndexInv, DistinctIndexes
  <2> QED
    BY <2>2, <2>3 DEF Kept
<1>2. CASE ~Open' /\ status' # "Created"
  BY <1>2 DEF Kept, NoVMLost, DistinctIndexes
<1>3. CASE ~Open' /\ status' = "Created"
  <2>1. crashed'
    BY <1>3 DEF Open, CleanupInv, StatusInv
  <2>2. \A c \in Callers : call'[c].pc = "dead"
    BY <2>1 DEF CleanupInv, DeadInv
  <2>3. UNCHANGED <<nodes, pendingNodes, status, vms, node>>
    <3>1. CASE crashed
      BY <1>0, <3>1, DeadStep DEF vars
    <3>2. ASSUME ~crashed, NEW c \in Callers, Request(c) \/ Step(c) PROVE Crash
      <4>1. ~Moves(c)
        BY <2>2, <3>2 DEF Moves, crashed
      <4> QED
        BY <1>0, <3>2, <4>1, StepStays
    <3>3. ASSUME NEW c \in Callers, Panic(c) PROVE Crash
      BY <3>3 DEF Panic, CreateNodesPanics, WaitPanics
    <3>4. ASSUME call' = call PROVE crashed
      BY <2>1, <3>4 DEF crashed
    <3>5. Crash => UNCHANGED <<nodes, pendingNodes, status, vms, node>>
      BY DEF Crash, group
    <3>6. (\E o \in Objects : Refresh(o)) => call' = call
      BY DEF Refresh
    <3>7. UNCHANGED vars => call' = call
      BY DEF vars
    <3> QED
      BY <3>1, <3>2, <3>3, <3>4, <3>5, <3>6, <3>7 DEF Next
  <2>4. NoVMLost' /\ DistinctIndexes'
    BY <2>3, KeptByCrash DEF Kept
  <2> QED
    BY <1>3, <2>4 DEF Kept
<1> QED
  BY <1>1, <1>2, <1>3

-----------------------------------------------------------------------------
(* Cleanup *)

\* What the goroutine of a node does to its caller.
LEMMA NodeStepKinds ==
  ASSUME NEW c \in Callers, NEW o \in Objects, NodeStep(c, o)
  PROVE  /\ status' = status
         /\ \/ \E p : SetPhase(c, o, p)
            \/ Busy(c) = {} /\ StartDeleteVM(c, o) /\ (call[c].pc = "destroy" \/ CleanupNode(c, o))
            \/ call[c].pc = "delete" /\ call[c].run[o] # "none" /\ DeleteError(c, node[o].name)
<1>1. CASE CreateNodeRefused(c, o) \/ LaunchVM(c, o) \/ InstanceCreate(c, o) \/ NodeJoins(c, o)
  BY <1>1 DEF CreateNodeRefused, LaunchVM, InstanceCreate, NodeJoins, group
<1>2. CASE LaunchFails(c, o)
  BY <1>2 DEF LaunchFails, CleanOnLaunchError, group
<1>3. CASE LaunchSucceeds(c, o) \/ LaunchCleaned(c, o) \/ NodeDestroyed(c, o) \/ CleanupNodeEnds(c, o)
  BY <1>3 DEF LaunchSucceeds, LaunchCleaned, NodeDestroyed, CleanupNodeEnds, group
<1>4. CASE InstanceStatus(c, o) \/ InstancePowerOff(c, o)
  BY <1>4 DEF InstanceStatus, InstancePowerOff, group
<1>5. CASE DestroyNode(c, o) \/ CleanupNode(c, o)
  BY <1>5 DEF DestroyNode, CleanupNode, StartDelete, group
<1>6. CASE NodeDeleted(c, o)
  BY <1>6 DEF NodeDeleted, VMNotDeleted
<1> QED
  BY <1>1, <1>2, <1>3, <1>4, <1>5, <1>6 DEF NodeStep

\* Cleanup alone begins or ends a cleanup, and takes nodes off its list one by one.
CleanupKept(c) ==
  /\ status' = status /\ OthersStay(c)
  /\ call'[c].pc \in {"drainWG", "cleanup"} => call'[c].pc = call[c].pc
  /\ call[c].pc = "cleanup" =>
       /\ call'[c].pc = "cleanup"
       /\ \/ call'[c].todo = call[c].todo
          \/ \E o \in Objects : CleanupNode(c, o) /\ call'[c].todo = call[c].todo \ {o}

LEMMA CleanupMoves ==
  ASSUME TypeOK, NEW c \in Callers, Step(c)
  PROVE  Crash \/ CleanupWaited(c) \/ CleanupReturns(c) \/ CleanupKept(c)
<1>1. ASSUME NEW o \in Objects, NodeStep(c, o) PROVE CleanupKept(c)
  <2>1. CASE \E p : SetPhase(c, o, p)
    BY <1>1, <2>1, NodeStepKinds, SetPhaseFields DEF CleanupKept
  <2>2. CASE Busy(c) = {} /\ StartDeleteVM(c, o) /\ (call[c].pc = "destroy" \/ CleanupNode(c, o))
    <3>1. /\ OthersStay(c) /\ call'[c].pc = call[c].pc
          /\ call'[c].todo = call[c].todo \ {o}
      BY <2>2, StartDeleteVMFields
    <3> QED
      BY <1>1, <2>2, <3>1, NodeStepKinds DEF CleanupKept
  <2>3. CASE call[c].pc = "delete" /\ DeleteError(c, node[o].name)
    BY <1>1, <2>3, NodeStepKinds, DeleteErrorFields DEF CleanupKept
  <2> QED
    BY <1>1, <2>1, <2>2, <2>3, NodeStepKinds
<1>2. ASSUME Return(c), call[c].pc # "cleanup", status' = status PROVE CleanupKept(c)
  BY <1>2, ReturnFields DEF CleanupKept
<1>3. CASE Resize(c)
  <2>1. CASE Grow(c)
    BY <2>1, GrowFields DEF CleanupKept, group
  <2>2. ASSUME NEW S, WorkOn(c, S), call[c].pc = "resize", status' = status PROVE CleanupKept(c)
    BY <2>2, WorkOnFields DEF CleanupKept
  <2> QED
    BY <1>2, <1>3, <2>1, <2>2
       DEF Resize, GrowRefused, Keep, Shrink, ShrinkPanics, CanResize, group
<1>4. CASE PickNode(c) \/ ReserveNode(c)
  <2>1. /\ OthersStay(c) /\ call[c].pc \in {"pick", "reserve"}
        /\ call'[c].pc \in {"pick", "reserve", "create", "destroy"} /\ status' = status
    <3>1. CASE PickNode(c)
      <4>1. call \in [Callers -> Call] /\ call[c] \in Call
        BY CallType DEF TypeOK
      <4> QED
        BY <3>1, <4>1 DEF PickNode, OthersStay, Call
    <3>2. CASE ReserveNode(c)
      BY <3>2, ReserveFields DEF Allocates, ReserveNode
    <3> QED
      BY <1>4, <3>1, <3>2
  <2> QED
    BY <2>1 DEF CleanupKept
<1>5. CASE ReserveFails(c) \/ CreateNodesReturns(c) \/ DestroyNodesReturns(c) \/ DeleteNodesReturns(c)
  BY <1>2, <1>5 DEF ReserveFails, CreateNodesReturns, DestroyNodesReturns, DeleteNodesReturns, group
<1>6. CASE CreateNodes(c) \/ CreateNodesEnds(c)
  <2>1. /\ \E label \in {"launch", "wait"} : Goto(c, label)
        /\ call[c].pc \in {"create", "launch"} /\ status' = status
    BY <1>6 DEF CreateNodes, CreateNodesEnds, group
  <2> QED
    BY <2>1, GotoFields DEF CleanupKept
<1>7. CASE StartCycle(c)
  <2>1. call \in [Callers -> Call] /\ call[c] \in Call
    BY CallType DEF TypeOK
  <2>2. OthersStay(c) /\ call[c].pc = "launch" /\ call'[c].pc = "launch" /\ status' = status
    BY <1>7, <2>1 DEF StartCycle, OthersStay, Call, group
  <2> QED
    BY <2>2 DEF CleanupKept
<1>8. CASE Wait(c)
  BY <1>8 DEF Wait, CleanupKept, OthersStay, group
<1>9. ASSUME NEW n \in call[c].victims, DeleteNodeByName(c, n) \/ DeleteNodeRefused(c, n) PROVE CleanupKept(c)
  <2>1. call[c].pc = "delete" /\ status' = status
    BY <1>9 DEF DeleteNodeByName, DeleteNodeRefused, StartDelete, group
  <2>2. CASE DeleteNodeRefused(c, n)
    BY <2>1, <2>2, DeleteErrorFields DEF CleanupKept, DeleteNodeRefused
  <2>3. CASE DeleteNodeByName(c, n)
    <3>1. StartDeleteVM(c, Named(n)) /\ Named(n) \in Objects
      <4>1. n \in Tracked
        BY <2>3 DEF DeleteNodeByName
      <4> QED
        BY <2>3, <4>1 DEF DeleteNodeByName, StartDelete, Named, Tracked, TypeOK, IsMap
    <3> QED
      BY <2>1, <3>1, StartDeleteVMFields DEF CleanupKept
  <2> QED
    BY <1>9, <2>2, <2>3
<1> QED
  BY <1>1, <1>3, <1>4, <1>5, <1>6, <1>7, <1>8, <1>9 DEF Step

\* Cleanups come one at a time: the second one finds the group no longer Created.
LEMMA CleanerNext ==
  ASSUME TypeOK, CleanupInv, CleanerInv, [Next]_vars
  PROVE  CleanerInv'
<1> DEFINE Cleans == {"drainWG", "cleanup"}
<1>1. ASSUME Crash PROVE CleanerInv'
  BY <1>1, CrashFields DEF CleanerInv
<1>2. ASSUME NEW c \in Callers, CleanupKept(c) PROVE CleanerInv'
  <2>1. \A d \in Callers : call'[d].pc \in Cleans => call[d].pc \in Cleans
    BY <1>2 DEF CleanupKept, OthersStay
  <2> QED
    BY <1>2, <2>1 DEF CleanupKept, CleanerInv
<1>3. ASSUME NEW c \in Callers, CleanupWaited(c) PROVE CleanerInv'
  <2>1. call \in [Callers -> Call] /\ call[c] \in Call
    BY CallType DEF TypeOK
  <2>2. OthersStay(c) /\ call[c].pc = "drainWG" /\ status' = status
    BY <1>3, <2>1 DEF CleanupWaited, OthersStay, group
  <2>3. \A d \in Callers : call'[d].pc \in Cleans => call[d].pc \in Cleans
    BY <2>2 DEF OthersStay
  <2> QED
    BY <2>2, <2>3 DEF CleanerInv
<1>4. ASSUME NEW c \in Callers, CleanupReturns(c) PROVE CleanerInv'
  <2>1. OthersStay(c) /\ call'[c].pc = "idle" /\ call[c].pc = "cleanup"
    BY <1>4, ReturnFields DEF CleanupReturns
  <2>2. \A d \in Callers : call'[d].pc \notin Cleans
    BY <2>1 DEF CleanerInv, OthersStay
  <2> QED
    BY <2>2 DEF CleanerInv
<1>5. ASSUME NEW c \in Callers, Request(c) PROVE CleanerInv'
  <2>1. call \in [Callers -> Call] /\ call[c] \in Call
    BY CallType DEF TypeOK
  <2>2. OthersStay(c) /\ call[c].pc = "idle"
    BY <1>5, RequestFields
  <2>3. CASE Cleanup(c)
    <3>1. status = "Created" /\ status' = "Deleting"
      BY <2>3 DEF Cleanup
    <3>2. \A d \in Callers : call[d].pc \notin Cleans
      BY <3>1 DEF CleanupInv, StatusInv
    <3> QED
      BY <2>2, <3>1, <3>2 DEF CleanerInv, OthersStay
  <2>4. CASE ~Cleanup(c)
    <3>1. ASSUME NEW delta, IncreaseSize(c, delta) \/ DecreaseTargetSize(c, delta)
          PROVE  call'[c].pc \notin Cleans /\ status' = status
      BY <2>1, <3>1 DEF IncreaseSize, DecreaseTargetSize, NoCall, group
    <3>2. ASSUME NEW names, DeleteNodes(c, names) PROVE call'[c].pc \notin Cleans /\ status' = status
      BY <2>1, <3>2 DEF DeleteNodes, NoCall, group
    <3>3. ASSUME NEW x, AddManagedNode(c, x) \/ DeleteManagedNode(c, x)
          PROVE  call'[c].pc \notin Cleans /\ status' = status
      BY <2>1, <3>3 DEF AddManagedNode, DeleteManagedNode, NoCall, group
    <3> HIDE DEF Cleans
    <3>4. call'[c].pc \notin Cleans /\ status' = status
      BY <1>5, <2>4, <3>1, <3>2, <3>3, Zenon DEF Request
    <3> QED
      BY <2>2, <3>4 DEF CleanerInv, OthersStay, Cleans
  <2> QED
    BY <2>3, <2>4
<1>6. ASSUME UNCHANGED <<call, status>> PROVE CleanerInv'
  BY <1>6 DEF CleanerInv
<1>7. ASSUME NEW c \in Callers, Panic(c) PROVE CleanerInv'
  BY <1>1, <1>7 DEF Panic, CreateNodesPanics, WaitPanics
<1>8. ASSUME NEW o \in Objects, Refresh(o) PROVE CleanerInv'
  BY <1>6, <1>8 DEF Refresh, group
<1>9. ASSUME NEW c \in Callers, Step(c) PROVE CleanerInv'
  BY <1>1, <1>2, <1>3, <1>4, <1>9, CleanupMoves
<1>10. CASE UNCHANGED vars
  BY <1>6, <1>10 DEF vars
<1> QED
  BY <1>5, <1>7, <1>8, <1>9, <1>10 DEF Next

\* What a step does to the node objects; only InstanceStatus marks one Deleting.
LEMMA NodeEffect ==
  ASSUME NEW c \in Callers, Step(c)
  PROVE  \/ node' = node
         \/ ReserveNode(c)
         \/ \E o \in Objects, s \in {"Creating", "Running", "Stopped", "Deleted"} : SetState(o, s)
         \/ \E o \in Objects : SetState(o, "Deleting") /\ InstanceStatus(c, o)
<1>1. ASSUME NEW o \in Objects, NodeStep(c, o)
      PROVE  \/ node' = node
             \/ \E s \in {"Creating", "Running", "Stopped", "Deleted"} : SetState(o, s)
             \/ SetState(o, "Deleting") /\ InstanceStatus(c, o)
  <2>1. CASE CreateNodeRefused(c, o) \/ LaunchVM(c, o) \/ InstanceCreate(c, o) \/ NodeJoins(c, o)
    BY <2>1 DEF CreateNodeRefused, LaunchVM, InstanceCreate, NodeJoins
  <2>2. CASE LaunchFails(c, o)
    BY <2>2 DEF LaunchFails, CleanOnLaunchError
  <2>3. CASE LaunchSucceeds(c, o) \/ DestroyNode(c, o) \/ CleanupNode(c, o)
    BY <2>3 DEF LaunchSucceeds, DestroyNode, CleanupNode, StartDelete
  <2>4. CASE LaunchCleaned(c, o) \/ NodeDestroyed(c, o) \/ CleanupNodeEnds(c, o) \/ NodeDeleted(c, o)
    BY <2>4 DEF LaunchCleaned, NodeDestroyed, CleanupNodeEnds, NodeDeleted, VMDeleted, VMNotDeleted
  <2>5. CASE InstanceStatus(c, o)
    BY <2>5 DEF InstanceStatus
  <2>6. CASE InstancePowerOff(c, o)
    BY <2>6 DEF InstancePowerOff
  <2> QED
    BY <1>1, <2>1, <2>2, <2>3, <2>4, <2>5, <2>6 DEF NodeStep
<1>2. Resize(c) => node' = node
  BY DEF Resize, GrowRefused, Grow, Keep, Shrink, ShrinkPanics, Crash
<1>3. PickNode(c) \/ ReserveFails(c) \/ CreateNodes(c) \/ StartCycle(c) \/ CreateNodesEnds(c) \/ Wait(c) => node' = node
  BY DEF PickNode, ReserveFails, CreateNodes, StartCycle, CreateNodesEnds, Wait
<1>4. CreateNodesReturns(c) \/ DestroyNodesReturns(c) \/ DeleteNodesReturns(c) => node' = node
  BY DEF CreateNodesReturns, DestroyNodesReturns, DeleteNodesReturns
<1>5. CleanupWaited(c) \/ CleanupReturns(c) => node' = node
  BY DEF CleanupWaited, CleanupReturns
<1>6. ASSUME NEW n, DeleteNodeByName(c, n) \/ DeleteNodeRefused(c, n) PROVE node' = node
  BY <1>6 DEF DeleteNodeByName, DeleteNodeRefused, StartDelete
<1> QED
  BY <1>1, <1>2, <1>3, <1>4, <1>5, <1>6 DEF Step

\* A node keeps its name and its index for good.
LEMMA NamesStay ==
  ASSUME TypeOK, [Next]_vars
  PROVE  SameObjects
<1>1. node' = node => SameObjects
  BY DEF SameObjects
<1>2. ASSUME NEW o \in Objects, NEW s, SetState(o, s), s # "Unallocated" PROVE SameObjects
  BY <1>2, SetStateFields DEF SameObjects
<1>3. ASSUME NEW c \in Callers, ReserveNode(c) PROVE SameObjects
  <2>1. PICK o \in Objects : Allocates(c, o)
    BY <1>3, ReserveFields
  <2>2. node[o].state = "Unallocated" /\ \A q \in Objects : q # o => node'[q] = node[q]
    BY <2>1 DEF Allocates
  <2> QED
    BY <2>2 DEF SameObjects
<1>4. ASSUME NEW c \in Callers, Step(c) PROVE SameObjects
  BY <1>1, <1>2, <1>3, <1>4, NodeEffect
<1>5. ASSUME NEW c \in Callers, Request(c) PROVE SameObjects
  BY <1>1, <1>5, RequestFields
<1>6. ASSUME NEW c \in Callers, Panic(c) PROVE SameObjects
  BY <1>1, <1>6 DEF Panic, CreateNodesPanics, WaitPanics, Crash
<1>7. ASSUME NEW o \in Objects, Refresh(o) PROVE SameObjects
  BY <1>2, <1>7 DEF Refresh
<1>8. UNCHANGED vars => SameObjects
  BY <1>1 DEF vars
<1> QED
  BY <1>4, <1>5, <1>6, <1>7, <1>8 DEF Next

\* A node that deleteVM has found undeleted is launched by nobody else: so InstanceStatus
\* marks it for a deletion that no launch can upset.
NoRace == \A c \in Callers, o \in Objects : call[c].run[o] = "checked" => ~LaunchUnderWay(c, o)

LEMMA NoRaceOpen ==
  ASSUME TypeOK, CleanupInv, BasicInv, Open, OpenInv
  PROVE  NoRace
<1> SUFFICES ASSUME NEW c \in Callers, NEW o \in Objects, call[c].run[o] = "checked",
                    NEW d \in Callers, d # c, call[d].run[o] \in {"booting", "joined"}
             PROVE  FALSE
  BY DEF NoRace, LaunchUnderWay
<1>1. call[d].pc = "launch"
  BY PhaseSets DEF CleanupInv, WorkInv
<1>2. o \in Live(d)
  BY <1>1 DEF Live
<1>3. o \in Live(c) \/ o \in Dying(c)
  BY AtWork
<1> QED
  BY <1>2, <1>3, LiveFacts, DyingFacts

LEMMA NoRaceClosed ==
  ASSUME CleanupInv, Closing
  PROVE  NoRace
BY DEF CleanupInv, NoLaunchInv, Closing, NoRace, LaunchUnderWay

LEMMA NodeStatus ==
  ASSUME Orderly, TypeOK, NoRace, NEW c \in Callers, NEW o \in Objects, InstanceStatus(c, o)
  PROVE  /\ \A q \in Objects : node'[q].name = node[q].name
         /\ OthersStay(c) /\ vms' = vms
         /\ node[o].name \in vms => call'[c].run[o] = "deleting"
         /\ SetState(o, "Deleting") => call'[c].run[o] = "deleting" \/ node' = node
<1>1. call[c].run[o] = "checked" /\ ~LaunchUnderWay(c, o) /\ vms' = vms
  BY DEF InstanceStatus, NoRace
<1>2. CASE SetState(o, "Deleting") /\ SetPhase(c, o, IF LaunchUnderWay(c, o) THEN "racing" ELSE "deleting")
  <2>1. SetPhase(c, o, "deleting")
    BY <1>1, <1>2
  <2>2. OthersStay(c) /\ call'[c].run[o] = "deleting"
    BY <2>1, SetPhaseFields
  <2>3. \A q \in Objects : node'[q].name = node[q].name
    BY <1>2, SetStateFields
  <2> QED
    BY <1>1, <2>2, <2>3
<1>3. CASE node[o].name \notin vms /\ UNCHANGED node /\ SetPhase(c, o, "refused")
  BY <1>1, <1>3, SetPhaseFields
<1> QED
  BY <1>2, <1>3 DEF InstanceStatus, Orderly

\* A deletion under way goes on until its VM is gone.
LEMMA EndingStays ==
  ASSUME Orderly, TypeOK, CleanupInv, BasicInv, NoRace, SameObjects, NEW c \in Callers, Step(c), ~Crash,
         NEW n \in vms, n \in vms', Ending(n)
  PROVE  Ending(n)'
<1> DEFINE P == {"checked", "deleting", "stopped"}
<1>1. PICK d \in Callers, q \in Objects : call[d].run[q] \in P /\ node[q].name = n
  BY DEF Ending
<1>2. node'[q].name = n
  <2>1. node[q].state # "Unallocated"
    BY <1>1 DEF BasicInv, AllocInv
  <2> QED
    BY <1>1, <2>1 DEF SameObjects
<1>3. OthersStay(c)
  BY StepStays DEF Moves
<1>4. call'[d].run[q] \in P => Ending(n)'
  BY <1>2 DEF Ending
<1>5. CASE d # c
  BY <1>1, <1>3, <1>4, <1>5 DEF OthersStay
<1>6. CASE d = c
  <2>1. call[c].run[q] \in P /\ q \in Busy(c)
    BY <1>1, <1>6 DEF Busy
  <2>2. /\ call[c].pc \in {"launch", "destroy", "delete", "cleanup"}
        /\ call[c].run[q] \notin LaunchPhase
    BY <2>1 DEF CleanupInv, WorkInv, LaunchPhase
  <2>3. ASSUME call'[c].run[q] = call[c].run[q] PROVE Ending(n)'
    BY <1>4, <1>6, <2>1, <2>3
  <2>4. ASSUME NEW o \in Objects, NodeStep(c, o), o # q PROVE call'[c].run[q] = call[c].run[q]
    <3>1. ASSUME NEW p, SetPhase(c, o, p) PROVE call'[c].run[q] = call[c].run[q]
      BY <2>4, <3>1, SetPhaseFields
    <3>2. CASE Busy(c) = {}
      BY <2>1, <3>2
    <3>3. CASE call[c].pc = "delete" /\ call[c].run[o] # "none"
      <4>1. o \in Dying(c) /\ q \in Dying(c)
        BY <2>1, <3>3 DEF Dying
      <4> QED
        BY <2>4, <4>1 DEF BasicInv, CallInv, CallOK
    <3> QED
      BY <2>4, <3>1, <3>2, <3>3, NodeStepKinds
  <2>5. ASSUME NodeStep(c, q) PROVE Ending(n)'
    <3>1. ~(CreateNodeRefused(c, q) \/ LaunchVM(c, q) \/ InstanceCreate(c, q) \/ NodeJoins(c, q)
            \/ LaunchFails(c, q) \/ LaunchSucceeds(c, q))
      BY <2>1 DEF CreateNodeRefused, LaunchVM, InstanceCreate, NodeJoins, LaunchFails, LaunchSucceeds
    <3>2. ~(DestroyNode(c, q) \/ CleanupNode(c, q))
      BY <2>1 DEF DestroyNode, StartDelete, CleanupNode
    <3>3. CASE InstanceStatus(c, q)
      <4>1. call'[c].run[q] = "deleting"
        BY <1>1, <3>3, NodeStatus
      <4> QED
        BY <1>4, <1>6, <4>1
    <3>4. CASE InstancePowerOff(c, q)
      <4>1. call'[c].run[q] = "stopped"
        BY <3>4, SetPhaseFields DEF InstancePowerOff
      <4> QED
        BY <1>4, <1>6, <4>1
    <3>5. CASE LaunchCleaned(c, q) \/ NodeDestroyed(c, q) \/ NodeDeleted(c, q) \/ CleanupNodeEnds(c, q)
      <4>1. VMDeleted(c, q) \/ VMNotDeleted(c, q)
        BY <3>5 DEF LaunchCleaned, NodeDestroyed, NodeDeleted, CleanupNodeEnds
      <4>2. ~VMDeleted(c, q)
        BY <1>1 DEF VMDeleted
      <4>3. PoweredOff(c, q)
        BY <1>1, <2>1, <4>1, <4>2 DEF VMNotDeleted, Orderly
      <4>4. PICK e \in Callers, p \in Objects : e # c /\ call[e].run[p] = "stopped" /\ node[p].name = n
        BY <1>1, <4>3 DEF PoweredOff
      <4>5. node[p].state # "Unallocated"
        BY <4>4 DEF BasicInv, AllocInv
      <4>6. call'[e].run[p] = "stopped" /\ node'[p].name = n
        BY <1>3, <4>4, <4>5 DEF OthersStay, SameObjects
      <4> QED
        BY <4>6 DEF Ending
    <3> QED
      BY <2>5, <3>1, <3>2, <3>3, <3>4, <3>5 DEF NodeStep
  <2>6. \/ \E o \in Objects : NodeStep(c, o)
        \/ call' = call
    BY <2>1, <2>2
       DEF Step, Resize, GrowRefused, Grow, Keep, Shrink, ShrinkPanics, CanResize, PickNode, ReserveNode,
           ReserveFails, CreateNodes, StartCycle, CreateNodesEnds, Wait, CreateNodesReturns, DeleteNodeByName,
           DeleteNodeRefused, DestroyNodesReturns, DeleteNodesReturns, CleanupWaited, CleanupReturns
  <2> QED
    BY <2>3, <2>4, <2>5, <2>6
<1> QED
  BY <1>5, <1>6

\* Whoever marks a node Deleting deletes its VM.
LEMMA MarkedNow ==
  ASSUME Orderly, TypeOK, NoRace, NEW c \in Callers, Step(c), ~Crash, NEW o \in Objects,
         node[o].state \notin {"Unallocated", "Deleting"}, node'[o].state = "Deleting"
  PROVE  Ending(node[o].name)'
<1>1. ~ReserveNode(c)
  <2> SUFFICES ASSUME NEW p \in Objects, Allocates(c, p) PROVE FALSE
    BY ReserveFields
  <2>1. node[p].state = "Unallocated" /\ \A q \in Objects : q # p => node'[q] = node[q]
    BY DEF Allocates
  <2> QED
    BY <2>1
<1>2. ASSUME NEW p \in Objects, NEW s \in {"Creating", "Running", "Stopped", "Deleted"}, SetState(p, s) PROVE FALSE
  <2>1. node'[o].state = IF o = p THEN s ELSE node[o].state
    BY <1>2, SetStateFields
  <2> QED
    BY <1>2, <2>1
<1>3. PICK p \in Objects : SetState(p, "Deleting") /\ InstanceStatus(c, p)
  BY <1>1, <1>2, NodeEffect
<1>4. p = o
  <2>1. node'[o].state = IF o = p THEN "Deleting" ELSE node[o].state
    BY <1>3, SetStateFields
  <2> QED
    BY <2>1
<1>5. call'[c].run[o] = "deleting" /\ node'[o].name = node[o].name
  BY <1>3, <1>4, NodeStatus
<1> QED
  BY <1>5 DEF Ending

LEMMA NewVMs ==
  ASSUME NEW c \in Callers, Step(c)
  PROVE  vms' \subseteq vms \/ \E o \in Objects : InstanceCreate(c, o)
<1>1. ASSUME NEW o \in Objects, NodeStep(c, o) PROVE vms' \subseteq vms \/ InstanceCreate(c, o)
  BY <1>1
     DEF NodeStep, CreateNodeRefused, LaunchVM, NodeJoins, LaunchFails, CleanOnLaunchError, LaunchSucceeds,
         LaunchCleaned, InstanceStatus, InstancePowerOff, DestroyNode, StartDelete, NodeDestroyed,
         NodeDeleted, CleanupNode, CleanupNodeEnds, VMDeleted, VMNotDeleted
<1>2. Resize(c) => vms' = vms
  BY DEF Resize, GrowRefused, Grow, Keep, Shrink, ShrinkPanics, Crash
<1>3. PickNode(c) \/ ReserveNode(c) \/ ReserveFails(c) \/ CreateNodes(c) \/ StartCycle(c) => vms' = vms
  BY DEF PickNode, ReserveNode, ReserveFails, CreateNodes, StartCycle
<1>4. CreateNodesEnds(c) \/ Wait(c) \/ CreateNodesReturns(c) \/ DestroyNodesReturns(c) => vms' = vms
  BY DEF CreateNodesEnds, Wait, CreateNodesReturns, DestroyNodesReturns
<1>5. DeleteNodesReturns(c) \/ CleanupWaited(c) \/ CleanupReturns(c) => vms' = vms
  BY DEF DeleteNodesReturns, CleanupWaited, CleanupReturns
<1>6. ASSUME NEW n, DeleteNodeByName(c, n) \/ DeleteNodeRefused(c, n) PROVE vms' = vms
  BY <1>6 DEF DeleteNodeByName, DeleteNodeRefused, StartDelete
<1> QED
  BY <1>1, <1>2, <1>3, <1>4, <1>5, <1>6 DEF Step

\* Only ReserveNode adds a node to the group.
LEMMA NewNodes ==
  ASSUME TypeOK, CleanupInv, BasicInv, Open, OpenInv, NEW c \in Callers, Step(c)
  PROVE  AllNodes' \subseteq AllNodes \/ ReserveNode(c)
<1>1. UNCHANGED <<nodes, pendingNodes>> => AllNodes' \subseteq AllNodes
  BY DEF AllNodes, PendingObjects
<1>2. ASSUME NEW n, nodes' \in {nodes, Del(nodes, n)}, pendingNodes' \in {pendingNodes, Del(pendingNodes, n)}
      PROVE  AllNodes' \subseteq AllNodes
  <2>1. /\ DOMAIN nodes' \subseteq DOMAIN nodes /\ \A m \in DOMAIN nodes' : nodes'[m] = nodes[m]
    BY <1>2 DEF Del
  <2>2. /\ DOMAIN pendingNodes' \subseteq DOMAIN pendingNodes
        /\ \A m \in DOMAIN pendingNodes' : pendingNodes'[m] = pendingNodes[m]
    BY <1>2 DEF Del
  <2> QED
    BY <2>1, <2>2 DEF AllNodes, PendingObjects
<1>3. ASSUME NEW o \in Objects, NodeStep(c, o) PROVE AllNodes' \subseteq AllNodes
  <2>1. CASE CreateNodeRefused(c, o) \/ LaunchVM(c, o) \/ InstanceCreate(c, o) \/ NodeJoins(c, o)
    BY <1>1, <2>1 DEF CreateNodeRefused, LaunchVM, InstanceCreate, NodeJoins, group
  <2>2. CASE LaunchFails(c, o) \/ InstanceStatus(c, o) \/ InstancePowerOff(c, o)
    BY <1>1, <2>2 DEF LaunchFails, CleanOnLaunchError, InstanceStatus, InstancePowerOff, group
  <2>3. CASE DestroyNode(c, o) \/ CleanupNode(c, o) \/ CleanupNodeEnds(c, o)
    BY <1>1, <2>3 DEF DestroyNode, StartDelete, CleanupNode, CleanupNodeEnds, group
  <2>4. CASE LaunchCleaned(c, o) \/ NodeDestroyed(c, o) \/ NodeDeleted(c, o)
    <3>1. /\ nodes' \in {nodes, Del(nodes, node[o].name)}
          /\ pendingNodes' \in {pendingNodes, Del(pendingNodes, node[o].name)}
      BY <2>4 DEF LaunchCleaned, NodeDestroyed, NodeDeleted, Forget
    <3> QED
      BY <1>2, <3>1
  <2>5. CASE LaunchSucceeds(c, o)
    <3>1. /\ call[c].run[o] = "joined"
          /\ nodes' = Put(nodes, node[o].name, o) /\ pendingNodes' = Del(pendingNodes, node[o].name)
      BY <2>5 DEF LaunchSucceeds
    <3>2. call[c].pc = "launch"
      BY <3>1, PhaseSets DEF CleanupInv, WorkInv
    <3>3. o \in Live(c)
      BY <3>1, <3>2 DEF Live
    <3>4. node[o].name \in DOMAIN pendingNodes /\ pendingNodes[node[o].name] = o
      BY <3>3, LiveFacts
    <3>5. o \in AllNodes
      BY <3>4 DEF AllNodes, PendingObjects
    <3>6. \A m \in DOMAIN nodes' : nodes'[m] = o \/ (m \in DOMAIN nodes /\ nodes'[m] = nodes[m])
      BY <3>1 DEF Put
    <3>7. \A m \in DOMAIN pendingNodes' : m \in DOMAIN pendingNodes /\ pendingNodes'[m] = pendingNodes[m]
      BY <3>1 DEF Del
    <3> QED
      BY <3>5, <3>6, <3>7 DEF AllNodes, PendingObjects
  <2> QED
    BY <1>3, <2>1, <2>2, <2>3, <2>4, <2>5 DEF NodeStep
<1>4. Resize(c) => UNCHANGED <<nodes, pendingNodes>>
  BY DEF Resize, GrowRefused, Grow, Keep, Shrink, ShrinkPanics, Crash, group
<1>5. PickNode(c) \/ CreateNodes(c) \/ StartCycle(c) => UNCHANGED <<nodes, pendingNodes>>
  BY DEF PickNode, CreateNodes, StartCycle, group
<1>6. ReserveFails(c) \/ CleanupReturns(c) => AllNodes' \subseteq AllNodes
  <2>1. CASE ReserveFails(c)
    <3>1. /\ nodes' = nodes /\ DOMAIN pendingNodes' \subseteq DOMAIN pendingNodes
          /\ \A m \in DOMAIN pendingNodes' : pendingNodes'[m] = pendingNodes[m]
      BY <2>1 DEF ReserveFails, EmptyMap
    <3> QED
      BY <3>1 DEF AllNodes, PendingObjects
  <2>2. CASE CleanupReturns(c)
    BY <2>2 DEF CleanupReturns, Open
  <2> QED
    BY <2>1, <2>2
<1>7. CreateNodesEnds(c) \/ Wait(c) \/ CreateNodesReturns(c) \/ DestroyNodesReturns(c) => UNCHANGED <<nodes, pendingNodes>>
  BY DEF CreateNodesEnds, Wait, CreateNodesReturns, DestroyNodesReturns, group
<1>8. DeleteNodesReturns(c) \/ CleanupWaited(c) => UNCHANGED <<nodes, pendingNodes>>
  BY DEF DeleteNodesReturns, CleanupWaited, group
<1>9. ASSUME NEW n, DeleteNodeByName(c, n) \/ DeleteNodeRefused(c, n) PROVE UNCHANGED <<nodes, pendingNodes>>
  BY <1>9 DEF DeleteNodeByName, DeleteNodeRefused, StartDelete, group
<1> QED
  BY <1>1, <1>3, <1>4, <1>5, <1>6, <1>7, <1>8, <1>9 DEF Step

LEMMA MarkNext ==
  ASSUME Books, TypeOK', MarkInv, [Next]_vars, Open'
  PROVE  MarkInv'
<1>0. Orderly /\ TypeOK /\ CleanupInv /\ BasicInv /\ Open /\ OpenInv
  <2>1. Open
    BY StillClosed DEF Books
  <2> QED
    BY <2>1 DEF Books
<1>1. NoRace /\ SameObjects
  BY <1>0, NoRaceOpen, NamesStay
<1>a. ASSUME NEW c \in Callers PROVE ~Crash
  BY <1>0, CrashFields DEF Open, crashed
<1>2. ASSUME NEW c \in Callers, Step(c) PROVE MarkInv'
  <2> SUFFICES ASSUME NEW o \in AllNodes', node'[o].state = "Deleting", node'[o].name \in vms'
               PROVE  Ending(node[o].name)'
    BY DEF MarkInv
  <2>1. o \in AllNodes
    <3>1. CASE ReserveNode(c)
      <4>1. PICK p \in Objects : Allocates(c, p)
        BY <1>0, <3>1, ReserveFields
      <4>2. /\ node'[p].state = "NotCreated" /\ nodes' = nodes
            /\ \A m \in DOMAIN pendingNodes' : pendingNodes'[m] = p \/ (m \in DOMAIN pendingNodes /\ pendingNodes'[m] = pendingNodes[m])
        BY <4>1 DEF Allocates
      <4>3. o # p
        BY <4>2
      <4> QED
        BY <4>2, <4>3 DEF AllNodes, PendingObjects
    <3> QED
      BY <1>0, <1>2, <3>1, NewNodes
  <2>2. o \in Objects /\ node[o].state # "Unallocated"
    BY <1>0, <2>1, InUse
  <2>a. PICK n : n = node[o].name
    OBVIOUS
  <2>3. node'[o].name = n
    BY <1>1, <2>2, <2>a DEF SameObjects
  <2>4. n \in vms \/ node[o].state # "Deleting"
    <3>1. CASE \E p \in Objects : InstanceCreate(c, p)
      <4>1. PICK p \in Objects : InstanceCreate(c, p)
        BY <3>1
      <4>2. call[c].run[p] = "creating" /\ vms' = vms \cup {node[p].name}
        BY <4>1 DEF InstanceCreate
      <4>3. p \in Live(c)
        <5>1. call[c].pc = "launch"
          BY <4>2, PhaseSets, <1>0 DEF CleanupInv, WorkInv
        <5> QED
          BY <4>2, <5>1 DEF Live
      <4>4. node[p].state = "Creating"
        BY <1>0, <4>2, <4>3 DEF OpenInv, LiveInv
      <4>5. node[o].name = node[p].name => o = p
        <5>1. node[p].name \in DOMAIN pendingNodes /\ pendingNodes[node[p].name] = p /\ node[p].name \notin DOMAIN nodes
          BY <1>0, <4>3, LiveFacts
        <5>2. (o \in PendingObjects /\ pendingNodes[node[o].name] = o) \/ node[o].name \in DOMAIN nodes
          BY <1>0, <2>1 DEF AllNodes, PendingObjects, OpenInv, NameInv
        <5> QED
          BY <5>1, <5>2
      <4> QED
        BY <2>3, <2>a, <4>2, <4>4, <4>5
    <3>2. CASE vms' \subseteq vms
      BY <2>3, <3>2
    <3> QED
      BY <1>2, <3>1, <3>2, NewVMs
  <2>5. CASE node[o].state = "Deleting"
    <3>1. n \in vms /\ n \in vms' /\ Ending(n)
      BY <2>1, <2>3, <2>4, <2>5, <2>a DEF MarkInv
    <3>2. Ending(n)'
      BY <1>0, <1>1, <1>a, <1>2, <3>1, EndingStays
    <3> QED
      BY <2>3, <3>2 DEF Ending
  <2>6. CASE node[o].state # "Deleting"
    BY <1>0, <1>1, <1>a, <1>2, <2>2, <2>6, MarkedNow
  <2> QED
    BY <2>5, <2>6
<1>3. ASSUME NEW o \in Objects, Refresh(o) PROVE MarkInv'
  <2>1. /\ UNCHANGED <<nodes, pendingNodes, vms, call>>
        /\ \E s \in {"Running", "Stopped"} : SetState(o, s)
    BY <1>3 DEF Refresh, group
  <2>2. \A q \in Objects : /\ node'[q].name = node[q].name
                           /\ node'[q].state \in {node[q].state, "Running", "Stopped"}
    BY <1>0, <2>1, SetStateFields
  <2>3. AllNodes' = AllNodes /\ \A q \in AllNodes : q \in Objects
    BY <1>0, <2>1, InUse DEF AllNodes, PendingObjects
  <2>4. \A n : Ending(n) => Ending(n)'
    BY <2>1, <2>2 DEF Ending
  <2>5. \A q \in AllNodes' : node'[q].state = "Deleting" => node[q].state = "Deleting"
    BY <2>2, <2>3
  <2>6. \A q \in AllNodes' : node'[q].state = "Deleting" /\ node'[q].name \in vms' => Ending(node[q].name)'
    BY <2>1, <2>2, <2>3, <2>4, <2>5 DEF MarkInv
  <2> QED
    BY <2>2, <2>3, <2>6 DEF MarkInv, Ending
<1>4. ASSUME NEW c \in Callers, Request(c) PROVE MarkInv'
  <2>1. /\ OthersStay(c) /\ call[c].pc = "idle" /\ UNCHANGED <<nodes, pendingNodes, node, vms>>
    BY <1>0, <1>4, RequestFields
  <2>2. \A o \in Objects : call[c].run[o] = "none"
    BY <1>0, <2>1 DEF CleanupInv, WorkInv
  <2>3. \A n : Ending(n) => Ending(n)'
    BY <2>1, <2>2 DEF Ending, OthersStay
  <2>4. AllNodes' = AllNodes
    BY <2>1 DEF AllNodes, PendingObjects
  <2>5. \A q \in AllNodes' : node'[q].state = "Deleting" /\ node'[q].name \in vms' => Ending(node[q].name)'
    BY <2>1, <2>3, <2>4 DEF MarkInv
  <2> QED
    BY <2>1, <2>5 DEF MarkInv, Ending
<1>5. ASSUME NEW c \in Callers, Panic(c) PROVE FALSE
  BY <1>a, <1>5 DEF Panic, CreateNodesPanics, WaitPanics
<1>6. CASE UNCHANGED vars
  BY <1>6 DEF vars, MarkInv, AllNodes, PendingObjects, Ending
<1> QED
  BY <1>2, <1>3, <1>4, <1>5, <1>6 DEF Next

\* cleanup lists every autoscaled node once the creations have ended.
LEMMA Closes ==
  ASSUME TypeOK, BasicInv, Open, OpenInv, MarkInv, NEW c \in Callers, CleanupWaited(c)
  PROVE  ClosedInv'
<1>1. call \in [Callers -> Call] /\ call[c] \in Call
  BY CallType DEF TypeOK
<1>2. /\ OthersStay(c) /\ call'[c].pc = "cleanup" /\ call'[c].run = call[c].run
      /\ call'[c].todo = {o \in AllNodes : node[o].name[1] = "autoscaled"}
      /\ UNCHANGED <<node, vms>>
  BY <1>1 DEF CleanupWaited, OthersStay, Call
<1>3. \A n : Ending(n) => Ending(n)'
  BY <1>2 DEF Ending, OthersStay
<1>4. \A n \in vms' : n[1] = "autoscaled" => \E o \in Objects : ToClean(o)' /\ node'[o].name = n
  <2> SUFFICES ASSUME NEW n \in vms, n[1] = "autoscaled"
               PROVE  \E o \in Objects : ToClean(o)' /\ node'[o].name = n
    BY <1>2
  <2>1. n \in Tracked
    BY DEF OpenInv, VMInv
  <2>2. PICK o \in AllNodes : node[o].name = n
    BY <2>1 DEF Tracked, AllNodes, PendingObjects, OpenInv, NameInv
  <2>3. o \in Objects
    BY InUse
  <2>4. ToClean(o)'
    BY <1>2, <2>2 DEF ToClean
  <2> QED
    BY <1>2, <2>2, <2>3, <2>4
<1>5. \A o \in Objects : ToClean(o)' => o \in AllNodes
  BY <1>2 DEF ToClean, Open, OthersStay
<1>6. \A o \in Objects : ToClean(o)' /\ node'[o].state = "Deleting" /\ node'[o].name \in vms' => Ending(node[o].name)'
  <2> SUFFICES ASSUME NEW o \in Objects, ToClean(o)', node[o].state = "Deleting", node[o].name \in vms
               PROVE  Ending(node[o].name)'
    BY <1>2
  <2>1. Ending(node[o].name)
    BY <1>5 DEF MarkInv
  <2> QED
    BY <1>2, <1>3, <2>1 DEF Ending
<1> QED
  BY <1>4, <1>6 DEF ClosedInv

\* Only the wait for the creations begins to close a group that is open.
LEMMA OpenEnds ==
  ASSUME TypeOK, Open, [Next]_vars, Closing'
  PROVE  \E c \in Callers : CleanupWaited(c)
<1>1. ~(UNCHANGED <<status, call>>)
  BY DEF Open, Closing, crashed
<1>2. ASSUME NEW c \in Callers, Crash PROVE FALSE
  BY <1>2, CrashFields DEF Closing, crashed
<1>3. ASSUME NEW c \in Callers, Step(c) PROVE CleanupWaited(c)
  <2>1. ~CleanupReturns(c)
    BY DEF CleanupReturns, Open
  <2>2. ASSUME CleanupKept(c) PROVE FALSE
    <3>1. \A d \in Callers : call'[d].pc # "cleanup"
      BY <2>2 DEF CleanupKept, OthersStay, Open
    <3> QED
      BY <2>2, <3>1 DEF CleanupKept, Closing, Open
  <2> QED
    BY <1>2, <1>3, <2>1, <2>2, CleanupMoves
<1>4. ASSUME NEW c \in Callers, Request(c) PROVE FALSE
  <2>1. call \in [Callers -> Call] /\ call[c] \in Call
    BY CallType DEF TypeOK
  <2>2. OthersStay(c)
    BY <1>4, RequestFields
  <2>3. status' # "Deleted"
    BY <1>4 DEF Request, IncreaseSize, DecreaseTargetSize, DeleteNodes, AddManagedNode, DeleteManagedNode, Cleanup, group, Open
  <2>4. call'[c].pc # "cleanup"
    <3>1. ASSUME NEW delta, IncreaseSize(c, delta) \/ DecreaseTargetSize(c, delta) PROVE call'[c].pc # "cleanup"
      BY <2>1, <3>1 DEF IncreaseSize, DecreaseTargetSize, NoCall
    <3>2. ASSUME NEW names, DeleteNodes(c, names) PROVE call'[c].pc # "cleanup"
      BY <2>1, <3>2 DEF DeleteNodes, NoCall
    <3>3. ASSUME NEW x, AddManagedNode(c, x) \/ DeleteManagedNode(c, x) PROVE call'[c].pc # "cleanup"
      BY <2>1, <3>3 DEF AddManagedNode, DeleteManagedNode, NoCall
    <3>4. ASSUME Cleanup(c) PROVE call'[c].pc # "cleanup"
      BY <2>1, <3>4 DEF Cleanup, NoCall
    <3> QED
      BY <1>4, <3>1, <3>2, <3>3, <3>4, Zenon DEF Request
  <2> QED
    BY <2>2, <2>3, <2>4 DEF Closing, Open, OthersStay
<1>5. \A o \in Objects : ~Refresh(o)
  BY <1>1 DEF Refresh, group
<1>6. \A c \in Callers : ~Panic(c)
  BY <1>2 DEF Panic, CreateNodesPanics, WaitPanics
<1>7. ~(UNCHANGED vars)
  BY <1>1 DEF vars
<1> QED
  BY <1>3, <1>4, <1>5, <1>6, <1>7 DEF Next

\* What cleanup has on its list it deletes, or finds under deletion.
LEMMA CleanStep ==
  ASSUME Orderly, TypeOK, CleanupInv, BasicInv, CleanerInv, Closing, ClosedInv, NEW c \in Callers, Step(c), ~Crash,
         SameObjects
  PROVE  ClosedInv'
<1>1. NoRace
  BY NoRaceClosed
<1>2. vms' \subseteq vms
  <2>1. \A o \in Objects : ~InstanceCreate(c, o)
    BY DEF CleanupInv, NoLaunchInv, Closing, InstanceCreate
  <2> QED
    BY <2>1, NewVMs
<1>3. \A n \in vms' : Ending(n) => Ending(n)'
  BY <1>1, <1>2, EndingStays
<1>4. \A o \in Objects : ToClean(o) => node[o].state # "Unallocated" /\ node'[o].name = node[o].name
  <2>1. \A o \in Objects : ToClean(o) => node[o].state # "Unallocated"
    BY DEF ToClean, BasicInv, AllocInv
  <2> QED
    BY <2>1 DEF SameObjects
<1>a. ~CleanupWaited(c)
  BY DEF CleanupWaited, Closing, CleanerInv
<1>b. CleanupKept(c) \/ CleanupReturns(c)
  BY <1>a, CleanupMoves
<1>5. \A o \in Objects : ToClean(o)' => ToClean(o)
  <2>1. CASE CleanupKept(c)
    BY <2>1 DEF CleanupKept, OthersStay, ToClean
  <2>2. CASE CleanupReturns(c)
    <3>1. OthersStay(c) /\ call'[c].todo = {}
      BY <2>2, ReturnFields DEF CleanupReturns
    <3> QED
      BY <3>1 DEF OthersStay, ToClean
  <2> QED
    BY <1>b, <2>1, <2>2
<1>6. \A o \in Objects : ToClean(o) => ToClean(o)' \/ CleanupNode(c, o)
  <2> SUFFICES ASSUME NEW o \in Objects, ToClean(o) PROVE ToClean(o)' \/ CleanupNode(c, o)
    OBVIOUS
  <2>1. PICK d \in Callers : call[d].pc = "cleanup" /\ o \in call[d].todo
    BY DEF ToClean
  <2>2. CASE d # c
    <3>1. call'[d] = call[d]
      BY <2>2, StepStays DEF Moves, OthersStay
    <3> QED
      BY <2>1, <3>1 DEF ToClean
  <2>3. CASE d = c
    <3>1. ~CleanupReturns(c)
      BY <2>1, <2>3 DEF CleanupReturns
    <3>2. CleanupKept(c)
      BY <1>b, <3>1
    <3> QED
      BY <2>1, <2>3, <3>2 DEF CleanupKept, ToClean
  <2> QED
    BY <2>2, <2>3
<1>7. \A o \in Objects : CleanupNode(c, o) /\ node[o].name \in vms' => Ending(node[o].name)'
  <2> SUFFICES ASSUME NEW o \in Objects, CleanupNode(c, o), node[o].name \in vms' PROVE Ending(node[o].name)'
    OBVIOUS
  <2>1. StartDeleteVM(c, o) /\ ToClean(o) /\ node' = node
    BY DEF CleanupNode, ToClean
  <2>2. CASE node[o].state = "Deleting"
    <3>1. PICK n : n = node[o].name
      OBVIOUS
    <3>2. Ending(n)
      BY <1>2, <2>1, <2>2, <3>1 DEF ClosedInv
    <3>3. Ending(n)'
      BY <1>3, <3>1, <3>2
    <3> QED
      BY <2>1, <3>1, <3>3 DEF Ending
  <2>3. CASE node[o].state # "Deleting"
    <3>1. call'[c].run[o] = "checked"
      BY <2>1, <2>3, StartDeleteVMFields DEF CheckNotDeleting
    <3> QED
      BY <3>1 DEF Ending
  <2> QED
    BY <2>2, <2>3
<1>8. \A n \in vms' : n[1] = "autoscaled" => Ending(n)' \/ \E o \in Objects : ToClean(o)' /\ node'[o].name = n
  <2> SUFFICES ASSUME NEW n \in vms', n[1] = "autoscaled"
               PROVE  Ending(n)' \/ \E o \in Objects : ToClean(o)' /\ node'[o].name = n
    OBVIOUS
  <2>1. CASE Ending(n)
    BY <1>3, <2>1
  <2>2. ASSUME NEW o \in Objects, ToClean(o), node[o].name = n
        PROVE  Ending(n)' \/ (ToClean(o)' /\ node'[o].name = n)
    <3>1. CASE CleanupNode(c, o)
      <4>1. Ending(node[o].name)' /\ node' = node
        BY <1>7, <2>2, <3>1 DEF CleanupNode
      <4> QED
        BY <2>2, <4>1 DEF Ending
    <3>2. CASE ToClean(o)'
      BY <1>4, <2>2, <3>2
    <3> QED
      BY <1>6, <2>2, <3>1, <3>2
  <2> QED
    BY <1>2, <2>1, <2>2 DEF ClosedInv
<1>9. \A o \in Objects : ToClean(o)' /\ node'[o].state = "Deleting" /\ node'[o].name \in vms' => Ending(node[o].name)'
  <2> SUFFICES ASSUME NEW o \in Objects, ToClean(o)', node'[o].state = "Deleting", node'[o].name \in vms'
               PROVE  Ending(node[o].name)'
    OBVIOUS
  <2>1. ToClean(o) /\ node[o].state # "Unallocated" /\ node'[o].name = node[o].name
    BY <1>4, <1>5
  <2>2. CASE node[o].state = "Deleting"
    <3>1. PICK n : n = node[o].name
      OBVIOUS
    <3>2. n \in vms' /\ Ending(n)
      BY <1>2, <2>1, <2>2, <3>1 DEF ClosedInv
    <3>3. Ending(n)'
      BY <1>3, <3>2
    <3> QED
      BY <2>1, <3>1, <3>3 DEF Ending
  <2>3. CASE node[o].state # "Deleting"
    BY <1>1, <2>1, <2>3, MarkedNow
  <2> QED
    BY <2>2, <2>3
<1> QED
  BY <1>8, <1>9 DEF ClosedInv

Cleaned == CleanerInv /\ (Open => MarkInv) /\ (Closing => ClosedInv)

LEMMA CleanedInit == Init => Cleaned
<1> SUFFICES ASSUME Init PROVE Cleaned
  OBVIOUS
<1>1. \A c \in Callers : call[c].pc = "idle"
  BY DEF Init, NoCall
<1>2. ~Closing
  BY <1>1 DEF Init, Closing
<1>3. AllNodes = {}
  BY DEF Init, EmptyMap, AllNodes, PendingObjects
<1> QED
  BY <1>1, <1>2, <1>3 DEF Cleaned, CleanerInv, MarkInv

LEMMA ClosedNext ==
  ASSUME Books, Cleaned, [Next]_vars, Closing'
  PROVE  ClosedInv'
<1>0. Orderly /\ TypeOK /\ CleanupInv /\ BasicInv /\ CleanerInv
  BY DEF Books, Cleaned
<1>1. CASE Open
  <2>1. OpenInv /\ MarkInv
    BY <1>1 DEF Books, Cleaned
  <2> QED
    BY <1>0, <1>1, <2>1, OpenEnds, Closes
<1>2. CASE ~Open
  <2>1. ~crashed
    <3>1. crashed => UNCHANGED vars
      BY <1>0, DeadStep
    <3>2. UNCHANGED vars => (crashed <=> crashed')
      BY DEF vars, crashed
    <3> QED
      BY <3>1, <3>2 DEF Closing
  <2>2. Closing /\ ClosedInv /\ SameObjects
    BY <1>0, <1>2, <2>1, NamesStay DEF Open, Closing, Cleaned
  <2>3. ASSUME NEW c \in Callers, Crash PROVE FALSE
    BY <1>0, <2>3, CrashFields DEF Closing, crashed
  <2>4. ASSUME NEW c \in Callers, Step(c) PROVE ClosedInv'
    BY <1>0, <2>2, <2>3, <2>4, CleanStep
  <2>5. ASSUME UNCHANGED vms,
               \A n : Ending(n) => Ending(n)',
               \A o \in Objects : ToClean(o)' <=> ToClean(o),
               \A o \in Objects : node'[o].name = node[o].name,
               \A o \in Objects : node'[o].state = "Deleting" => node[o].state = "Deleting"
        PROVE  ClosedInv'
    <3>1. \A n \in vms' : n[1] = "autoscaled" => Ending(n)' \/ \E o \in Objects : ToClean(o)' /\ node'[o].name = n
      BY <2>2, <2>5 DEF ClosedInv
    <3>2. \A o \in Objects : ToClean(o)' /\ node'[o].state = "Deleting" /\ node'[o].name \in vms' => Ending(node[o].name)'
      <4> SUFFICES ASSUME NEW o \in Objects, ToClean(o), node[o].state = "Deleting", node[o].name \in vms
                   PROVE  Ending(node[o].name)'
        BY <2>5
      <4>1. PICK n : n = node[o].name
        OBVIOUS
      <4>2. Ending(n)'
        BY <2>2, <2>5, <4>1 DEF ClosedInv
      <4> QED
        BY <2>5, <4>1, <4>2 DEF Ending
    <3> QED
      BY <3>1, <3>2 DEF ClosedInv
  <2>6. ASSUME NEW c \in Callers, Request(c) PROVE ClosedInv'
    <3>1. /\ OthersStay(c) /\ call[c].pc = "idle" /\ call'[c].todo = {}
          /\ UNCHANGED <<node, vms>>
      BY <1>0, <2>6, RequestFields
    <3>2. \A o \in Objects : call[c].run[o] = "none"
      BY <1>0, <3>1 DEF CleanupInv, WorkInv
    <3>3. \A n : Ending(n) => Ending(n)'
      BY <3>1, <3>2 DEF Ending, OthersStay
    <3>4. \A o \in Objects : ToClean(o)' <=> ToClean(o)
      BY <3>1 DEF ToClean, OthersStay
    <3> QED
      BY <2>5, <3>1, <3>3, <3>4
  <2>7. ASSUME NEW o \in Objects, Refresh(o) PROVE ClosedInv'
    <3>1. /\ UNCHANGED <<vms, call>> /\ \E s \in {"Running", "Stopped"} : SetState(o, s)
      BY <2>7 DEF Refresh
    <3>2. \A q \in Objects : /\ node'[q].name = node[q].name
                             /\ node'[q].state \in {node[q].state, "Running", "Stopped"}
      BY <1>0, <3>1, SetStateFields
    <3>3. \A n : Ending(n) => Ending(n)'
      BY <3>1, <3>2 DEF Ending
    <3>4. \A q \in Objects : ToClean(q)' <=> ToClean(q)
      BY <3>1 DEF ToClean
    <3> QED
      BY <2>5, <3>1, <3>2, <3>3, <3>4
  <2>8. ASSUME NEW c \in Callers, Panic(c) PROVE FALSE
    BY <2>3, <2>8 DEF Panic, CreateNodesPanics, WaitPanics
  <2>9. CASE UNCHANGED vars
    BY <2>2, <2>9 DEF vars, ClosedInv, Ending, ToClean
  <2> QED
    BY <2>4, <2>6, <2>7, <2>8, <2>9 DEF Next
<1> QED
  BY <1>1, <1>2

LEMMA CleanedNext ==
  ASSUME Books, Cleaned, TypeOK', [Next]_vars
  PROVE  Cleaned'
<1>1. TypeOK /\ CleanupInv /\ CleanerInv
  BY DEF Books, Cleaned
<1>2. CleanerInv'
  BY <1>1, CleanerNext
<1>3. Open' => MarkInv'
  <2>1. Open' => Open
    BY <1>1, StillClosed
  <2> QED
    BY <2>1, MarkNext DEF Cleaned
<1> QED
  BY <1>2, <1>3, ClosedNext DEF Cleaned

LEMMA GroupInvariant == Spec => []GroupInv
<1> DEFINE Inv == Orderly => BasicInv /\ (Open => OpenInv) /\ Kept /\ Cleaned
<1>1. Init => Inv
  BY BasicInit, GroupInit, CleanedInit
<1>2. Inv /\ TypeOK /\ TypeOK' /\ CleanupInv /\ CleanupInv' /\ [Next]_vars => Inv'
  <2> SUFFICES ASSUME Inv, TypeOK, TypeOK', CleanupInv, CleanupInv', [Next]_vars, Orderly
               PROVE  BasicInv' /\ (Open' => OpenInv') /\ Kept' /\ Cleaned'
    BY DEF Orderly
  <2>1. Books /\ Kept /\ Cleaned
    BY DEF Books
  <2> QED
    BY <2>1, BasicNext, OpenNext, KeptNext, CleanedNext
<1>3. Inv => GroupInv
  BY DEF GroupInv, Kept, Cleaned, BasicInv
<1> HIDE DEF Inv
<1>4. Spec => []Inv
  BY <1>1, <1>2, TypeCorrect, CleanupInvariant, PTL DEF Spec
<1> QED
  BY <1>3, <1>4, PTL

-----------------------------------------------------------------------------
(* What follows from it *)

\* setNodeGroupSize, createNodes, deleteNode and cleanup keep the maps, the indexes, the counter
\* and the VMs consistent with each other and with the work under way, as long as
\* nothing but launches fails and no two deletions are asked for the same node.
THEOREM NodeGroupBooks == Spec => []GroupInv
BY GroupInvariant

\* nodeName always finds a number in its loop: the code after the loop, marked "Should
\* never reach this code", is not reached.
THEOREM NodeGroupNameFound == Spec => [](Orderly => NameLoopFinds)
<1>1. TypeOK /\ GroupInv => (Orderly => NameLoopFinds)
  <2> SUFFICES ASSUME TypeOK, GroupInv, Orderly, NEW c \in Callers, call[c].pc = "pick"
               PROVE  FreeNumbers(KindOf(c)) # {}
    BY DEF NameLoopFinds
  <2>1. BasicInv /\ Reserving(c)
    BY DEF GroupInv, BasicInv, Reserving
  <2> QED
    BY <2>1, NamesLeft
<1> QED
  BY <1>1, TypeCorrect, GroupInvariant, PTL

\* Until cleanup begins, every VM that was made belongs to a node of the group, pending
\* or registered, whatever launch failed.
THEOREM NodeGroupLosesNoVM == Spec => [](Orderly => NoVMLost)
<1>1. GroupInv => (Orderly => NoVMLost)
  BY DEF GroupInv
<1> QED
  BY <1>1, GroupInvariant, PTL

\* findNextNodeIndex never gives two nodes the same index.
THEOREM NodeGroupIndexesDistinct == Spec => [](Orderly => DistinctIndexes)
<1>1. GroupInv => (Orderly => DistinctIndexes)
  BY DEF GroupInv
<1> QED
  BY <1>1, GroupInvariant, PTL

\* The group never has more than MaxNodeSize autoscaled nodes, though the size is
\* checked before the lock is held.
THEOREM NodeGroupBounded == Spec => [](Orderly => AutoscaledBound)
<1>1. TypeOK /\ GroupInv => (Orderly => AutoscaledBound)
  <2> SUFFICES ASSUME TypeOK, GroupInv, Orderly PROVE Cardinality(AutoscaledNames) <= MaxNodeSize
    BY DEF AutoscaledBound
  <2>1. IsFiniteSet(vms) /\ Cardinality(Claimed) <= MaxNodeSize
    BY DEF GroupInv, SizeInv
  <2>2. IsFiniteSet(Claimed) /\ Cardinality(Claimed) \in Nat
    BY <2>1, ClaimedFinite
  <2>3. AutoscaledNames \in SUBSET Claimed
    BY DEF AutoscaledNames, Claimed
  <2>4. Cardinality(AutoscaledNames) <= Cardinality(Claimed) /\ IsFiniteSet(AutoscaledNames)
    BY <2>2, <2>3, FS_Subset
  <2>5. Cardinality(AutoscaledNames) \in Nat
    BY <2>4, FS_CardinalityType
  <2> QED
    BY <2>1, <2>2, <2>4, <2>5, NodeGroupAssumption
<1> QED
  BY <1>1, TypeCorrect, GroupInvariant, PTL

\* Once every request has ended the books agree: no node is pending, nobody holds the
\* lock or is waited for, an index is taken iff a node has it, the counter
\* counts the nodes and the VMs are theirs.
THEOREM NodeGroupConsistentAtRest == Spec => [](Orderly => QuiescentConsistent)
<1>1. TypeOK /\ CleanupInv /\ GroupInv => (Orderly => QuiescentConsistent)
  <2> SUFFICES ASSUME TypeOK, CleanupInv, GroupInv, Orderly, Quiescent, status = "Created"
               PROVE  /\ pendingNodes = EmptyMap /\ pendingNodesWG = {} /\ lock = NoCaller
                      /\ {i \in DOMAIN runningNodes : runningNodes[i] >= Creating} = {node[o].index : o \in AllNodes}
                      /\ numOf.provisionned = Cardinality(AutoscaledNames)
                      /\ vms = DOMAIN nodes
    BY DEF QuiescentConsistent
  <2>1. Open
    BY DEF Quiescent, Open, crashed
  <2>2. OpenInv /\ IndexInv
    BY <2>1 DEF GroupInv
  <2>3. \A c \in Callers : Live(c) = {}
    BY StillIdle DEF Quiescent, Live
  <2>4. DOMAIN pendingNodes = {}
    BY <2>2, <2>3 DEF IndexInv
  <2>5. pendingNodes = EmptyMap
    BY <2>4 DEF TypeOK, IsMap, EmptyMap
  <2>6. pendingNodesWG = {}
    BY <2>1 DEF CleanupInv, WaitGroupBalanced, Open, Quiescent
  <2>7. lock = NoCaller
    BY <2>2 DEF OpenInv, LockInv, HasTurn, Quiescent, TypeOK
  <2>8. {i \in DOMAIN runningNodes : runningNodes[i] >= Creating} = {node[o].index : o \in AllNodes}
    BY <2>2 DEF IndexInv, Taken
  <2>9. Tracked = DOMAIN nodes
    BY <2>4 DEF Tracked
  <2>10. vms = DOMAIN nodes
    BY <2>2, <2>9 DEF OpenInv, VMInv
  <2>11. AutoscaledNames = DOMAIN nodes
    BY <2>2, <2>9 DEF OpenInv, NameInv, AutoscaledNames
  <2>12. numOf.provisionned = Cardinality(AutoscaledNames)
    BY <2>2, <2>11 DEF OpenInv, VMInv
  <2> QED
    BY <2>5, <2>6, <2>7, <2>8, <2>10, <2>12
<1> QED
  BY <1>1, TypeCorrect, CleanupInvariant, GroupInvariant, PTL

\* cleanup leaves no autoscaled VM behind, but for the ones that a DeleteNodes under way
\* is deleting: whatever was launched, or half deleted, when it began.
THEOREM NodeGroupCleanupComplete == Spec => [](Orderly => CleanupLeavesNothing)
<1>1. GroupInv => (Orderly => CleanupLeavesNothing)
  <2> SUFFICES ASSUME GroupInv, Orderly, status = "Deleted", ~crashed,
                      NEW n \in vms, n[1] = "autoscaled"
               PROVE  Ending(n)
    BY DEF CleanupLeavesNothing, Ending
  <2>1. ClosedInv
    BY DEF GroupInv, Closing
  <2>2. \A o \in Objects : ~ToClean(o)
    BY DEF GroupInv, CleanerInv, ToClean
  <2> QED
    BY <2>1, <2>2 DEF ClosedInv
<1> QED
  BY <1>1, GroupInvariant, PTL
=============================================================================
