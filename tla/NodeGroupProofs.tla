-------------------------- MODULE NodeGroupProofs --------------------------
(***************************************************************************)
(* Proofs about one node group, for any number of callers, of nodes and any *)
(* MaxNodeSize, whatever is asked and whatever fails: type correctness, and *)
(* then that the creations of the group and its cleanup keep clear of each  *)
(* other, since the wait group counts the creations under way and nothing   *)
(* is launched once cleanup has ended.                                      *)
(***************************************************************************)
EXTENDS NodeGroupInv, FiniteSetTheorems, TLAPS

-----------------------------------------------------------------------------
(* Go maps *)

\* Storing a value in a map.
LEMMA PutMap ==
  ASSUME NEW f, NEW K, NEW V, IsMap(f, K, V), NEW k \in K, NEW v \in V
  PROVE  /\ IsMap(Put(f, k, v), K, V)
         /\ DOMAIN Put(f, k, v) = DOMAIN f \cup {k}
         /\ \A x \in DOMAIN f \cup {k} : Put(f, k, v)[x] = IF x = k THEN v ELSE f[x]
<1>1. DOMAIN Put(f, k, v) = DOMAIN f \cup {k}
  BY DEF Put
<1>2. IsFiniteSet(DOMAIN f \cup {k})
  BY FS_AddElement DEF IsMap
<1> QED
  BY <1>1, <1>2 DEF Put, IsMap

\* Deleting a key of a map, whether it is there or not.
LEMMA DelMap ==
  ASSUME NEW f, NEW K, NEW V, IsMap(f, K, V), NEW k
  PROVE  /\ IsMap(Del(f, k), K, V)
         /\ DOMAIN Del(f, k) = DOMAIN f \ {k}
         /\ \A x \in DOMAIN f \ {k} : Del(f, k)[x] = f[x]
<1>1. DOMAIN Del(f, k) = DOMAIN f \ {k}
  BY DEF Del
<1>2. IsFiniteSet(DOMAIN f \ {k})
  BY FS_RemoveElement DEF IsMap
<1> QED
  BY <1>1, <1>2 DEF Del, IsMap

LEMMA EmptyIsMap ==
  ASSUME NEW K, NEW V
  PROVE  IsMap(EmptyMap, K, V) /\ DOMAIN EmptyMap = {}
BY FS_EmptySet DEF EmptyMap, IsMap

\* A set of naturals that is not empty has a least element: what the loops of
\* findNextNodeIndex and nodeName stop at.
LEMMA LeastNatural ==
  ASSUME NEW S \in SUBSET Nat, S # {}
  PROVE  Least(S) \in S /\ Least(S) \in Int /\ \A y \in S : Least(S) <= y
<1> DEFINE R == StrictSubsetOrdering(Nat)
           T == {0 .. x : x \in S}
<1>1. T \subseteq FiniteSubsetsOf(Nat) /\ T # {}
  <2>1. \A x \in S : 0 .. x \in SUBSET Nat /\ IsFiniteSet(0 .. x)
    BY FS_Interval
  <2> QED
    BY <2>1 DEF FiniteSubsetsOf
<1>2. \E t \in T : \A u \in T : ~ (<<u, t>> \in R)
  <2> HIDE DEF T
  <2> QED
    BY <1>1, WFMin, FS_StrictSubsetOrderingWellFounded
<1>3. PICK x \in S : \A y \in S : ~ (<<0 .. y, 0 .. x>> \in R)
  BY <1>2
<1>4. \A y \in S : x <= y
  <2> SUFFICES ASSUME NEW y \in S, y < x PROVE FALSE
    OBVIOUS
  <2>1. 0 .. y \subseteq 0 .. x /\ x \in 0 .. x /\ x \notin 0 .. y
    OBVIOUS
  <2>2. <<0 .. y, 0 .. x>> \in R
    BY <2>1 DEF StrictSubsetOrdering
  <2> QED
    BY <2>2, <1>3
<1>5. Least(S) \in S /\ \A y \in S : Least(S) <= y
  BY <1>4 DEF Least
<1>6. \A y \in S : y \in Int
  OBVIOUS
<1> QED
  BY <1>5, <1>6, Zenon

-----------------------------------------------------------------------------
(* Type correctness *)

\* What a step may write into the record of a caller.
LEMMA CallType ==
  ASSUME TypeOK, NEW c \in Callers
  PROVE  /\ NoCall \in Call
         /\ call[c] \in Call
         /\ \A p \in Label : [call EXCEPT ![c].pc = p] \in [Callers -> Call]
         /\ \A r \in Call : [call EXCEPT ![c] = r] \in [Callers -> Call]
         /\ \A o \in Objects, p \in Phase : [call EXCEPT ![c].run[o] = p] \in [Callers -> Call]
<1>1. NoCall \in Call
  BY DEF NoCall, Call, Label, RequestKinds, Names, Kinds, NoName, Phase
<1>2. call \in [Callers -> Call]
  BY DEF TypeOK
<1>3. call[c] \in Call
  BY <1>2
<1>4. \A r \in Call : [call EXCEPT ![c] = r] \in [Callers -> Call]
  BY <1>2
<1>5. \A p \in Label : [call EXCEPT ![c].pc = p] \in [Callers -> Call]
  BY <1>2, <1>3 DEF Call
<1>6. \A o \in Objects, p \in Phase : [call EXCEPT ![c].run[o] = p] \in [Callers -> Call]
  BY <1>2, <1>3 DEF Call
<1> QED
  BY <1>1, <1>3, <1>4, <1>5, <1>6

\* What a step may write into a node object.
LEMMA NodeType ==
  ASSUME TypeOK, NEW o \in Objects
  PROVE  /\ node[o].name \in Names /\ node[o].index \in Int /\ node[o].state \in NodeState
         /\ \A s \in NodeState : [node EXCEPT ![o].state = s] \in [Objects -> NodeObject]
         /\ \A r \in NodeObject : [node EXCEPT ![o] = r] \in [Objects -> NodeObject]
<1>1. node \in [Objects -> NodeObject]
  BY DEF TypeOK
<1>2. node[o] \in NodeObject
  BY <1>1
<1> QED
  BY <1>1, <1>2 DEF NodeObject

LEMMA SizeType ==
  ASSUME TypeOK
  PROVE  targetSize \in Nat
BY FS_CardinalityType DEF TypeOK, IsMap, targetSize

LEMMA InitType == Init => TypeOK
<1> SUFFICES ASSUME Init PROVE TypeOK
  OBVIOUS
<1>1. /\ IsMap(nodes, Names, Objects) /\ IsMap(pendingNodes, Names, Objects)
      /\ IsMap(runningNodes, Int, ServerNodeState)
  BY EmptyIsMap DEF Init
<1>2. node \in [Objects -> NodeObject]
  BY DEF Init, NodeObject, Names, Kinds, NoName, NodeState
<1>3. call \in [Callers -> Call]
  BY DEF Init, NoCall, Call, Label, RequestKinds, Names, Kinds, NoName, Phase
<1> QED
  BY <1>1, <1>2, <1>3 DEF Init, TypeOK, NodeGroupState

\* What findNextNodeIndex and nodeName return.
LEMMA NameType ==
  ASSUME TypeOK, NEW kind \in Kinds, NEW index \in Int
  PROVE  /\ findNextNodeIndex \in Int
         /\ Cardinality(SkippedNumbers(kind)) \in Nat
         /\ nodeName(kind, index) \in Names
<1>1. MaxNodeSize \in Nat
  BY NodeGroupAssumption
<1>2. FirstNumber(kind) \in Nat
  BY DEF FirstNumber
<1>3. findNextNodeIndex \in Int
  <2>1. FreeIndexes \in SUBSET Nat
    BY <1>1 DEF FreeIndexes
  <2>2. FreeIndexes # {} => Least(FreeIndexes) \in Int
    BY <2>1, LeastNatural
  <2>3. lastCreatedNodeIndex + 1 \in Int
    BY DEF TypeOK
  <2> QED
    BY <2>2, <2>3 DEF findNextNodeIndex
<1>4. Cardinality(SkippedNumbers(kind)) \in Nat
  <2>1. SkippedNumbers(kind) \in SUBSET (FirstNumber(kind) .. MaxNodeSize)
    BY DEF SkippedNumbers, UnusedNumbers
  <2>2. IsFiniteSet(FirstNumber(kind) .. MaxNodeSize)
    BY <1>1, <1>2, FS_Interval
  <2>3. IsFiniteSet(SkippedNumbers(kind))
    BY <2>1, <2>2, FS_Subset
  <2> QED
    BY <2>3, FS_CardinalityType
<1>5. nodeName(kind, index) \in Names
  <2>1. FreeNumbers(kind) \in SUBSET Nat
    BY <1>1, <1>2 DEF FreeNumbers, UnusedNumbers
  <2>2. FreeNumbers(kind) # {} => Least(FreeNumbers(kind)) \in Int
    BY <2>1, LeastNatural
  <2>3. FallbackNumber(kind, index) \in Int
    BY DEF FallbackNumber, TypeOK, Kinds
  <2> QED
    BY <2>2, <2>3 DEF nodeName, Names
<1> QED
  BY <1>3, <1>4, <1>5

\* Selecting pending nodes.
LEMMA SelectionType ==
  ASSUME TypeOK, NEW k, NEW S \in prepareDeleteNodes(k)
  PROVE  S \in SUBSET Objects
<1>1. PendingObjects \subseteq Objects
  BY DEF PendingObjects, TypeOK, IsMap
<1> QED
  BY <1>1 DEF prepareDeleteNodes

\* A step of a caller that leaves the group and the provider alone.
LEMMA CallStepType ==
  ASSUME TypeOK, call' \in [Callers -> Call], UNCHANGED <<group, waitGroup, lock, node, vms>>
  PROVE  TypeOK'
BY DEF TypeOK, group, waitGroup

\* Every request leaves the types right.
LEMMA RequestType ==
  ASSUME TypeOK, NEW c \in Callers, Request(c)
  PROVE  TypeOK'
<1>0. NoCall \in Call /\ \A r \in Call : [call EXCEPT ![c] = r] \in [Callers -> Call]
  BY CallType
<1>1. ASSUME NEW delta \in 1 .. MaxNodeSize, IncreaseSize(c, delta)
      PROVE  TypeOK'
  <2>0. targetSize + delta \in Int
    BY NodeGroupAssumption, SizeType
  <2>1. [NoCall EXCEPT !.pc = "resize", !.req = "increase", !.size = targetSize + delta] \in Call
    BY <1>0, <2>0 DEF Call, Label, RequestKinds
  <2> QED
    BY <1>0, <1>1, <2>1, CallStepType DEF IncreaseSize
<1>2. ASSUME NEW delta \in 1 .. MaxNodeSize, DecreaseTargetSize(c, -delta)
      PROVE  TypeOK'
  <2>0. targetSize + (-delta) \in Int
    BY NodeGroupAssumption, SizeType
  <2>1. [NoCall EXCEPT !.pc = "resize", !.req = "decrease", !.size = targetSize + (-delta)] \in Call
    BY <1>0, <2>0 DEF Call, Label, RequestKinds
  <2> QED
    BY <1>0, <1>2, <2>1, CallStepType DEF DecreaseTargetSize
<1>3. ASSUME NEW names \in SUBSET DOMAIN nodes, DeleteNodes(c, names)
      PROVE  TypeOK'
  <2>1. names \in SUBSET Names
    BY DEF TypeOK, IsMap
  <2>2. [NoCall EXCEPT !.pc = "delete", !.req = "delete", !.victims = names] \in Call
    BY <1>0, <2>1 DEF Call, Label, RequestKinds
  <2> QED
    BY <1>0, <1>3, <2>2, CallStepType DEF DeleteNodes
<1>4. ASSUME NEW kind \in {"worker", "master"}, AddManagedNode(c, kind)
      PROVE  TypeOK'
  <2>1. <<kind, 0>> \in Names
    BY DEF Names, Kinds
  <2>2. ASSUME NEW name \in Names
        PROVE  [NoCall EXCEPT !.pc = "pick", !.req = "managed", !.need = 1, !.name = name] \in Call
    <3>1. "pick" \in Label /\ "managed" \in RequestKinds \cup {"none"} /\ 1 \in Int
      BY DEF Label, RequestKinds
    <3> QED
      BY <1>0, <3>1 DEF Call
  <2> QED
    BY <1>0, <1>4, <2>1, <2>2, CallStepType DEF AddManagedNode
<1>5. ASSUME NEW n \in Tracked, DeleteManagedNode(c, n)
      PROVE  TypeOK'
  <2>1. n \in Names
    BY DEF TypeOK, IsMap, Tracked
  <2>2. [NoCall EXCEPT !.pc = "delete", !.req = "managed", !.victims = {n}] \in Call
    BY <1>0, <2>1 DEF Call, Label, RequestKinds
  <2> QED
    BY <1>0, <1>5, <2>2, CallStepType DEF DeleteManagedNode
<1>6. ASSUME Cleanup(c)
      PROVE  TypeOK'
  <2>1. [NoCall EXCEPT !.pc = "drainWG", !.req = "cleanup"] \in Call
    BY <1>0 DEF Call, Label, RequestKinds
  <2> QED
    BY <1>0, <1>6, <2>1 DEF Cleanup, TypeOK, waitGroup, NodeGroupState
<1> QED
  BY <1>1, <1>2, <1>3, <1>4, <1>5, <1>6 DEF Request
LEMMA DoneType ==
  ASSUME TypeOK, NEW c \in Callers, NEW o \in Objects, Done(c, o)
  PROVE  /\ pendingNodesWG' \subseteq Callers \X Objects
         /\ waiters' \subseteq Callers /\ released' \subseteq Callers
BY DEF TypeOK, Done

LEMMA SetPhaseType ==
  ASSUME TypeOK, NEW c \in Callers, NEW o \in Objects, NEW p \in Phase, SetPhase(c, o, p)
  PROVE  call' \in [Callers -> Call]
BY CallType DEF SetPhase

LEMMA SetStateType ==
  ASSUME TypeOK, NEW o \in Objects, NEW s \in NodeState, SetState(o, s)
  PROVE  node' \in [Objects -> NodeObject]
BY NodeType DEF SetState

LEMMA ReturnType ==
  ASSUME TypeOK, NEW c \in Callers, Return(c)
  PROVE  call' \in [Callers -> Call]
BY CallType DEF Return

LEMMA GotoType ==
  ASSUME TypeOK, NEW c \in Callers, NEW p \in Label, Goto(c, p)
  PROVE  call' \in [Callers -> Call]
BY CallType DEF Goto

LEMMA CrashType ==
  ASSUME TypeOK, Crash
  PROVE  TypeOK'
<1>1. call' \in [Callers -> Call]
  <2>1. \A c \in Callers : NoCall \in Call
    BY CallType
  <2>2. \A c \in Callers : [NoCall EXCEPT !.pc = "dead"] \in Call
    BY <2>1 DEF Call, Label
  <2> QED
    BY <2>2 DEF Crash
<1> QED
  BY <1>1, CallStepType DEF Crash

\* The states a map of indexes may be given.
LEMMA RunningType ==
  ASSUME TypeOK, NEW o \in Objects
  PROVE  \A s \in ServerNodeState : IsMap(Put(runningNodes, node[o].index, s), Int, ServerNodeState)
BY PutMap, NodeType DEF TypeOK

LEMMA ForgetType ==
  ASSUME TypeOK, NEW o \in Objects, Forget(o)
  PROVE  /\ IsMap(nodes', Names, Objects) /\ IsMap(pendingNodes', Names, Objects)
         /\ IsMap(runningNodes', Int, ServerNodeState)
<1>1. Deleted \in ServerNodeState
  BY DEF Deleted, ServerNodeState
<1> QED
  BY <1>1, RunningType, DelMap DEF Forget, TypeOK

LEMMA CountedType ==
  ASSUME TypeOK, NEW n, NEW by \in Int
  PROVE  Counted(n, by) \in [provisionned : Int, managed : Int, controlPlanes : Int]
<1>1. [numOf EXCEPT !.provisionned = @ + by] \in [provisionned : Int, managed : Int, controlPlanes : Int]
  BY DEF TypeOK
<1>2. [numOf EXCEPT !.managed = @ + by] \in [provisionned : Int, managed : Int, controlPlanes : Int]
  BY DEF TypeOK
<1>3. [numOf EXCEPT !.managed = @ + by, !.controlPlanes = @ + by]
        \in [provisionned : Int, managed : Int, controlPlanes : Int]
  <2>1. \A x, y \in Int : [numOf EXCEPT !.managed = x, !.controlPlanes = y]
                          \in [provisionned : Int, managed : Int, controlPlanes : Int]
    BY DEF TypeOK
  <2>2. numOf.managed + by \in Int /\ numOf.controlPlanes + by \in Int
    BY DEF TypeOK
  <2> QED
    BY <2>1, <2>2
<1> QED
  BY <1>1, <1>2, <1>3, Zenon DEF Counted

LEMMA VMDeletedType ==
  ASSUME TypeOK, NEW c \in Callers, NEW o \in Objects, VMDeleted(c, o) \/ VMNotDeleted(c, o)
  PROVE  node' \in [Objects -> NodeObject] /\ vms' \subseteq Names
<1>1. CASE VMDeleted(c, o)
  <2>1. node' \in [Objects -> NodeObject]
    BY <1>1, SetStateType DEF VMDeleted, NodeState
  <2> QED
    BY <1>1, <2>1 DEF VMDeleted, TypeOK
<1>2. CASE VMNotDeleted(c, o)
  BY <1>2 DEF VMNotDeleted, TypeOK
<1> QED
  BY <1>1, <1>2

LEMMA CheckNotDeletingType ==
  ASSUME NEW o PROVE CheckNotDeleting(o) \in Phase /\ CheckNotDeleting(o) \in {"checked", "refused"}
BY DEF CheckNotDeleting, Phase

LEMMA StartDeleteVMType ==
  ASSUME TypeOK, NEW c \in Callers, NEW o \in Objects, StartDeleteVM(c, o)
  PROVE  call' \in [Callers -> Call]
<1>1. \A p \in Phase :
        [call EXCEPT ![c].run[o] = p, ![c].todo = @ \ {o}, ![c].victims = @ \ {node[o].name}]
          \in [Callers -> Call]
  <2>1. call \in [Callers -> Call] /\ call[c] \in Call
    BY DEF TypeOK
  <2> QED
    BY <2>1 DEF Call
<1> QED
  BY <1>1, CheckNotDeletingType DEF StartDeleteVM

LEMMA StartDeleteType ==
  ASSUME TypeOK, NEW c \in Callers, NEW o \in Objects, StartDelete(c, o)
  PROVE  TypeOK'
<1>1. Deleting \in ServerNodeState
  BY DEF Deleting, ServerNodeState
<1>2. IsMap(runningNodes', Int, ServerNodeState)
  BY <1>1, RunningType DEF StartDelete
<1>3. call' \in [Callers -> Call]
  BY StartDeleteVMType DEF StartDelete
<1> QED
  BY <1>2, <1>3 DEF StartDelete, TypeOK, waitGroup

\* The steps on one node.
LEMMA NodeStepType ==
  ASSUME TypeOK, NEW c \in Callers, NEW o \in Objects, NodeStep(c, o)
  PROVE  TypeOK'
<1>0. /\ {"none", "creating", "booting", "joined", "checked", "deleting", "racing", "stopped", "refused"} \subseteq Phase
      /\ {"Creating", "Running", "Stopped", "Deleting", "Deleted"} \subseteq NodeState
      /\ NotRunning \in ServerNodeState /\ Deleted \in ServerNodeState /\ Running \in ServerNodeState
      /\ node[o].name \in Names
  <2>1. {"none", "creating", "booting", "joined", "checked", "deleting", "racing", "stopped", "refused"} \subseteq Phase
    BY DEF Phase
  <2>2. {"Creating", "Running", "Stopped", "Deleting", "Deleted"} \subseteq NodeState
    BY DEF NodeState
  <2>3. NotRunning \in ServerNodeState /\ Deleted \in ServerNodeState /\ Running \in ServerNodeState
    BY DEF NotRunning, Deleted, Running, ServerNodeState
  <2> QED
    BY <2>1, <2>2, <2>3, NodeType
<1>1. ASSUME CreateNodeRefused(c, o) PROVE TypeOK'
  <2>1. IsMap(runningNodes', Int, ServerNodeState)
    BY <1>0, <1>1, RunningType DEF CreateNodeRefused
  <2>2. call' \in [Callers -> Call]
    BY <1>0, <1>1, SetPhaseType DEF CreateNodeRefused
  <2> QED
    BY <1>1, <2>1, <2>2, DoneType DEF CreateNodeRefused, TypeOK
<1>2. ASSUME LaunchVM(c, o) PROVE TypeOK'
  <2>1. node' \in [Objects -> NodeObject] /\ call' \in [Callers -> Call]
    BY <1>0, <1>2, SetPhaseType, SetStateType DEF LaunchVM
  <2> QED
    BY <1>2, <2>1 DEF LaunchVM, TypeOK, group, waitGroup
<1>3. ASSUME InstanceCreate(c, o) PROVE TypeOK'
  <2>1. call' \in [Callers -> Call]
    BY <1>0, <1>3, SetPhaseType DEF InstanceCreate
  <2> QED
    BY <1>0, <1>3, <2>1 DEF InstanceCreate, TypeOK, group, waitGroup
<1>4. ASSUME LaunchFails(c, o) PROVE TypeOK'
  <2>1. CleanOnLaunchError(c, o)
    BY <1>4 DEF LaunchFails
  <2>2. call' \in [Callers -> Call]
    <3>1. CASE SetPhase(c, o, "checked")
      BY <1>0, <3>1, SetPhaseType
    <3>2. CASE SetPhase(c, o, CheckNotDeleting(o))
      BY <3>2, SetPhaseType, CheckNotDeletingType
    <3> QED
      BY <2>1, <3>1, <3>2 DEF CleanOnLaunchError
  <2>3. node' \in [Objects -> NodeObject]
    <3>1. CASE \E t \in {"Running", "Stopped"} : SetState(o, t)
      BY <1>0, <3>1, SetStateType
    <3>2. CASE UNCHANGED node
      BY <3>2 DEF TypeOK
    <3> QED
      BY <2>1, <3>1, <3>2 DEF CleanOnLaunchError
  <2> QED
    BY <2>1, <2>2, <2>3 DEF CleanOnLaunchError, TypeOK, group, waitGroup
<1>5. ASSUME LaunchSucceeds(c, o) PROVE TypeOK'
  <2>1. call' \in [Callers -> Call]
    BY <1>0, <1>5, SetPhaseType DEF LaunchSucceeds
  <2>2. node' \in [Objects -> NodeObject]
    BY <1>5 DEF LaunchSucceeds, TypeOK
  <2>3. /\ IsMap(nodes', Names, Objects) /\ IsMap(pendingNodes', Names, Objects)
        /\ IsMap(runningNodes', Int, ServerNodeState)
    BY <1>0, <1>5, PutMap, DelMap, RunningType DEF LaunchSucceeds, TypeOK
  <2>4. numOf' \in [provisionned : Int, managed : Int, controlPlanes : Int]
    BY <1>5, CountedType DEF LaunchSucceeds
  <2> QED
    BY <1>5, <2>1, <2>2, <2>3, <2>4, DoneType DEF LaunchSucceeds, TypeOK
<1>6. ASSUME LaunchCleaned(c, o) PROVE TypeOK'
  <2>1. call' \in [Callers -> Call]
    BY <1>0, <1>6, SetPhaseType DEF LaunchCleaned
  <2>2. node' \in [Objects -> NodeObject] /\ vms' \subseteq Names
    BY <1>6, VMDeletedType DEF LaunchCleaned
  <2>3. IsMap(pendingNodes', Names, Objects) /\ IsMap(runningNodes', Int, ServerNodeState)
    BY <1>0, <1>6, DelMap, RunningType DEF LaunchCleaned, TypeOK
  <2> QED
    BY <1>6, <2>1, <2>2, <2>3, DoneType DEF LaunchCleaned, TypeOK
<1>7. ASSUME InstancePowerOff(c, o) PROVE TypeOK'
  <2>1. node' \in [Objects -> NodeObject] /\ call' \in [Callers -> Call]
    BY <1>0, <1>7, SetPhaseType, SetStateType DEF InstancePowerOff
  <2> QED
    BY <1>7, <2>1 DEF InstancePowerOff, TypeOK, group, waitGroup
<1>8. ASSUME DestroyNode(c, o) PROVE TypeOK'
  BY <1>8, StartDeleteType DEF DestroyNode
<1>9. ASSUME NodeDestroyed(c, o) PROVE TypeOK'
  <2>1. call' \in [Callers -> Call]
    BY <1>0, <1>9, SetPhaseType DEF NodeDestroyed
  <2>2. node' \in [Objects -> NodeObject] /\ vms' \subseteq Names
    BY <1>9, VMDeletedType DEF NodeDestroyed
  <2> QED
    BY <1>9, <2>1, <2>2, ForgetType DEF NodeDestroyed, TypeOK, waitGroup
<1>10. ASSUME NodeDeleted(c, o) PROVE TypeOK'
  <2>1. call' \in [Callers -> Call]
    <3>1. CASE SetPhase(c, o, "none")
      BY <1>0, <3>1, SetPhaseType
    <3>2. CASE DeleteError(c, node[o].name)
      <4>1. CASE Return(c)
        BY <4>1, ReturnType
      <4>2. CASE call' = [call EXCEPT ![c].victims = @ \ {node[o].name}, ![c].run = NoCall.run]
        <5>1. call \in [Callers -> Call] /\ call[c] \in Call /\ NoCall \in Call
          BY CallType DEF TypeOK
        <5> QED
          BY <4>2, <5>1 DEF Call
      <4> QED
        BY <3>2, <4>1, <4>2 DEF DeleteError
    <3> QED
      BY <1>10, <3>1, <3>2 DEF NodeDeleted
  <2>2. node' \in [Objects -> NodeObject] /\ vms' \subseteq Names
    BY <1>10, VMDeletedType DEF NodeDeleted
  <2>3. numOf' \in [provisionned : Int, managed : Int, controlPlanes : Int]
    BY <1>10, CountedType DEF NodeDeleted
  <2> QED
    BY <1>10, <2>1, <2>2, <2>3, ForgetType DEF NodeDeleted, TypeOK, waitGroup
<1>11. ASSUME CleanupNode(c, o) PROVE TypeOK'
  <2>1. call' \in [Callers -> Call]
    BY <1>11, StartDeleteVMType DEF CleanupNode
  <2> QED
    BY <1>11, <2>1 DEF CleanupNode, TypeOK, group, waitGroup
<1>12. ASSUME CleanupNodeEnds(c, o) PROVE TypeOK'
  <2>1. call' \in [Callers -> Call]
    BY <1>0, <1>12, SetPhaseType DEF CleanupNodeEnds
  <2>2. node' \in [Objects -> NodeObject] /\ vms' \subseteq Names
    BY <1>12, VMDeletedType DEF CleanupNodeEnds
  <2> QED
    BY <1>12, <2>1, <2>2 DEF CleanupNodeEnds, TypeOK, group, waitGroup
<1>13. ASSUME NodeJoins(c, o) PROVE TypeOK'
  <2>1. node' \in [Objects -> NodeObject] /\ call' \in [Callers -> Call]
    BY <1>0, <1>13, SetPhaseType, SetStateType DEF NodeJoins
  <2> QED
    BY <1>13, <2>1 DEF NodeJoins, TypeOK, group, waitGroup
<1>14. ASSUME InstanceStatus(c, o) PROVE TypeOK'
  <2>1. call' \in [Callers -> Call]
    BY <1>0, <1>14, SetPhaseType DEF InstanceStatus
  <2>2. node' \in [Objects -> NodeObject]
    <3>1. CASE SetState(o, "Deleting")
      BY <1>0, <3>1, SetStateType
    <3>2. CASE UNCHANGED node
      BY <3>2 DEF TypeOK
    <3> QED
      BY <1>14, <3>1, <3>2 DEF InstanceStatus
  <2> QED
    BY <1>14, <2>1, <2>2 DEF InstanceStatus, TypeOK, group, waitGroup
<1> QED
  BY <1>1, <1>2, <1>3, <1>4, <1>5, <1>6, <1>7, <1>8, <1>9, <1>10, <1>11, <1>12, <1>13, <1>14
     DEF NodeStep
\* The steps of a caller.
LEMMA StepType ==
  ASSUME TypeOK, NEW c \in Callers, Step(c)
  PROVE  TypeOK'
<1>0. call \in [Callers -> Call] /\ call[c] \in Call /\ NoCall \in Call
  BY CallType DEF TypeOK
<1>1. ASSUME Resize(c) PROVE TypeOK'
  <2>1. CASE GrowRefused(c)
    BY <2>1, ReturnType, CallStepType DEF GrowRefused
  <2>2. CASE Grow(c)
    <3>1. call[c].size - targetSize \in Int
      BY <1>0, SizeType DEF Call
    <3>2. "pick" \in Label
      BY DEF Label
    <3>3. call' \in [Callers -> Call]
      BY <1>0, <2>2, <3>1, <3>2 DEF Grow, Delta, Call
    <3> QED
      BY <2>2, <3>3 DEF Grow, TypeOK, group, waitGroup
  <2>3. ASSUME NEW S \in SUBSET Objects, WorkOn(c, S) PROVE call' \in [Callers -> Call]
    <3>1. "create" \in Label /\ "destroy" \in Label
      BY DEF Label
    <3> QED
      BY <1>0, <2>3, <3>1 DEF WorkOn, Call
  <2>4. CASE Keep(c)
    <3>1. call' \in [Callers -> Call]
      BY <2>3, <2>4, ReturnType DEF Keep
    <3> QED
      BY <2>4, <3>1, CallStepType DEF Keep
  <2>5. CASE Shrink(c)
    <3>1. call' \in [Callers -> Call]
      BY <2>3, <2>5, SelectionType DEF Shrink
    <3> QED
      BY <2>5, <3>1, CallStepType DEF Shrink
  <2>6. CASE ShrinkPanics(c)
    BY <2>6, CrashType DEF ShrinkPanics
  <2> QED
    BY <1>1, <2>1, <2>2, <2>4, <2>5, <2>6 DEF Resize
<1>2. ASSUME PickNode(c) PROVE TypeOK'
  <2> DEFINE kind    == KindOf(c)
             index   == findNextNodeIndex
             skipped == Cardinality(SkippedNumbers(kind))
             name    == nodeName(kind, index + skipped)
  <2>1. kind \in Kinds
    BY <1>0 DEF KindOf, Call, Names
  <2>2. index \in Int /\ skipped \in Nat
    BY <2>1, NameType
  <2>3. index + skipped \in Int
    BY <2>2
  <2>4. name \in Names
    BY <2>1, <2>3, NameType
  <2>5. lastCreatedNodeIndex' \in Nat
    BY <1>2 DEF PickNode, TypeOK
  <2>6. IsMap(runningNodes', Int, ServerNodeState)
    <3> DEFINE I == index .. index + skipped - 1
    <3>1. IsFiniteSet(I) /\ I \subseteq Int
      BY <2>2, FS_Interval
    <3>2. IsFiniteSet(DOMAIN runningNodes \cup I)
      BY <3>1, FS_Union DEF TypeOK, IsMap
    <3>3. Running \in ServerNodeState
      BY DEF Running, ServerNodeState
    <3>4. runningNodes' = [i \in DOMAIN runningNodes \cup I |->
                             IF i \in I THEN Running ELSE runningNodes[i]]
      BY <1>2 DEF PickNode
    <3> HIDE DEF I
    <3> QED
      BY <3>1, <3>2, <3>3, <3>4 DEF TypeOK, IsMap
  <2>7. call' \in [Callers -> Call]
    <3>1. "reserve" \in Label
      BY DEF Label
    <3>2. call' = [call EXCEPT ![c].pc = "reserve", ![c].name = name, ![c].index = index + skipped]
      BY <1>2 DEF PickNode
    <3> HIDE DEF kind, index, skipped, name
    <3> QED
      BY <1>0, <2>3, <2>4, <3>1, <3>2 DEF Call
  <2> QED
    BY <1>2, <2>5, <2>6, <2>7 DEF PickNode, TypeOK, waitGroup
<1>3. ASSUME ReserveNode(c) PROVE TypeOK'
  <2>1. PICK o \in Objects :
          /\ runningNodes' = Put(runningNodes, call[c].index, Creating)
          /\ node' = [node EXCEPT ![o] = [name |-> call[c].name, index |-> call[c].index,
                                          state |-> "NotCreated"]]
          /\ pendingNodes' = Put(pendingNodes, call[c].name, o)
          /\ \E next \in {"pick", "destroy", "create"} :
               call' = [call EXCEPT ![c].pc = next, ![c].need = @ - 1, ![c].todo = @ \cup {o}]
          /\ lock' \in {Unlocked(c), lock}
    <3>1. (CHOOSE x \in FreeObjects : TRUE) \in Objects
      BY <1>3 DEF ReserveNode, FreeObjects
    <3> QED
      BY <1>3, <3>1 DEF ReserveNode
  <2>2. call[c].index \in Int /\ call[c].name \in Names /\ call[c].need - 1 \in Int
    BY <1>0 DEF Call
  <2>3. IsMap(runningNodes', Int, ServerNodeState) /\ IsMap(pendingNodes', Names, Objects)
    <3>1. Creating \in ServerNodeState
      BY DEF Creating, ServerNodeState
    <3> QED
      BY <2>1, <2>2, <3>1, PutMap DEF TypeOK
  <2>4. node' \in [Objects -> NodeObject]
    <3>1. "NotCreated" \in NodeState
      BY DEF NodeState
    <3>2. [name |-> call[c].name, index |-> call[c].index, state |-> "NotCreated"] \in NodeObject
      BY <2>2, <3>1 DEF NodeObject
    <3> QED
      BY <2>1, <3>2, NodeType
  <2>5. call' \in [Callers -> Call]
    <3>1. {"pick", "destroy", "create"} \subseteq Label
      BY DEF Label
    <3> QED
      BY <1>0, <2>1, <2>2, <3>1 DEF Call
  <2>6. lock' \in Callers \cup {NoCaller}
    BY <2>1 DEF Unlocked, TypeOK
  <2> QED
    BY <1>3, <2>3, <2>4, <2>5, <2>6 DEF ReserveNode, TypeOK, waitGroup
<1>4. ASSUME ReserveFails(c) PROVE TypeOK'
  <2>1. IsMap(pendingNodes', Names, Objects)
    BY <1>4, EmptyIsMap DEF ReserveFails, TypeOK
  <2>2. call' \in [Callers -> Call]
    BY <1>4, ReturnType DEF ReserveFails
  <2> QED
    BY <1>4, <2>1, <2>2 DEF ReserveFails, Unlocked, TypeOK, waitGroup
<1>5. ASSUME CreateNodes(c) PROVE TypeOK'
  <2>1. call' \in [Callers -> Call]
    BY <1>5, GotoType DEF CreateNodes, Label
  <2>2. call[c].todo \subseteq Objects
    BY <1>0 DEF Call
  <2>3. pendingNodesWG' \subseteq Callers \X Objects
    BY <1>5, <2>2 DEF CreateNodes, TypeOK
  <2> QED
    BY <1>5, <2>1, <2>3 DEF CreateNodes, TypeOK, group
<1>6. ASSUME StartCycle(c) PROVE TypeOK'
  <2>1. PICK cycle \in SUBSET call[c].todo :
          call' = [call EXCEPT ![c].todo = @ \ cycle,
                               ![c].run = [o \in Objects |-> IF o \in cycle THEN "start" ELSE "none"]]
    BY <1>6 DEF StartCycle
  <2>2. [o \in Objects |-> IF o \in cycle THEN "start" ELSE "none"] \in [Objects -> Phase]
    BY DEF Phase
  <2>3. call' \in [Callers -> Call]
    BY <1>0, <2>1, <2>2 DEF Call
  <2> QED
    BY <1>6, <2>3, CallStepType DEF StartCycle
<1>7. ASSUME CreateNodesEnds(c) PROVE TypeOK'
  <2>1. call' \in [Callers -> Call]
    BY <1>7, GotoType DEF CreateNodesEnds, Label
  <2> QED
    BY <1>7, <2>1, CallStepType DEF CreateNodesEnds
<1>8. ASSUME Wait(c) PROVE TypeOK'
  BY <1>8 DEF Wait, TypeOK, group
<1>9. ASSUME CreateNodesReturns(c) PROVE TypeOK'
  <2>1. call' \in [Callers -> Call]
    BY <1>9, ReturnType DEF CreateNodesReturns
  <2> QED
    BY <1>9, <2>1 DEF CreateNodesReturns, Waited, Unlocked, TypeOK, group
<1>10. ASSUME NEW n \in call[c].victims, DeleteNodeByName(c, n) PROVE TypeOK'
  <2>1. Named(n) \in Objects
    BY <1>10 DEF DeleteNodeByName, Named, Tracked, TypeOK, IsMap
  <2> QED
    BY <1>10, <2>1, StartDeleteType DEF DeleteNodeByName
<1>11. ASSUME NEW n \in call[c].victims, DeleteNodeRefused(c, n) PROVE TypeOK'
  <2>1. call' \in [Callers -> Call]
    <3>1. CASE Return(c)
      BY <3>1, ReturnType
    <3>2. CASE call' = [call EXCEPT ![c].victims = @ \ {n}, ![c].run = NoCall.run]
      BY <1>0, <3>2 DEF Call
    <3> QED
      BY <1>11, <3>1, <3>2 DEF DeleteNodeRefused, DeleteError
  <2> QED
    BY <1>11, <2>1, CallStepType DEF DeleteNodeRefused
<1>12. ASSUME DestroyNodesReturns(c) \/ DeleteNodesReturns(c) PROVE TypeOK'
  BY <1>12, ReturnType, CallStepType DEF DestroyNodesReturns, DeleteNodesReturns
<1>13. ASSUME CleanupWaited(c) PROVE TypeOK'
  <2>1. {o \in AllNodes : node[o].name[1] = "autoscaled"} \in SUBSET Objects
    BY DEF AllNodes, PendingObjects, TypeOK, IsMap
  <2>2. "cleanup" \in Label
    BY DEF Label
  <2>3. call' \in [Callers -> Call]
    BY <1>0, <1>13, <2>1, <2>2 DEF CleanupWaited, Call
  <2> QED
    BY <1>13, <2>3 DEF CleanupWaited, Waited, TypeOK, group
<1>14. ASSUME CleanupReturns(c) PROVE TypeOK'
  <2>1. call' \in [Callers -> Call]
    BY <1>14, ReturnType DEF CleanupReturns
  <2>2. /\ IsMap(nodes', Names, Objects) /\ IsMap(pendingNodes', Names, Objects)
        /\ IsMap(runningNodes', Int, ServerNodeState)
    BY <1>14, EmptyIsMap DEF CleanupReturns
  <2> QED
    BY <1>14, <2>1, <2>2 DEF CleanupReturns, TypeOK, NodeGroupState, waitGroup
<1> QED
  BY <1>1, <1>2, <1>3, <1>4, <1>5, <1>6, <1>7, <1>8, <1>9, <1>10, <1>11, <1>12, <1>13, <1>14,
     NodeStepType DEF Step

LEMMA NextType == TypeOK /\ [Next]_vars => TypeOK'
<1>1. ASSUME TypeOK, NEW c \in Callers, Panic(c) PROVE TypeOK'
  BY <1>1, CrashType DEF Panic, CreateNodesPanics, WaitPanics
<1>2. ASSUME TypeOK, NEW o \in Objects, Refresh(o) PROVE TypeOK'
  <2>1. node' \in [Objects -> NodeObject]
    BY <1>2, SetStateType DEF Refresh, NodeState
  <2> QED
    BY <1>2, <2>1 DEF Refresh, TypeOK, group, waitGroup
<1>3. ASSUME TypeOK, UNCHANGED vars PROVE TypeOK'
  BY <1>3 DEF TypeOK, vars
<1> QED
  BY <1>1, <1>2, <1>3, RequestType, StepType DEF Next

\* Whatever is asked and whatever fails, the variables keep their types: the maps
\* of the group hold nodes under names, every index a known state.
THEOREM TypeCorrect == Spec => []TypeOK
BY InitType, NextType, PTL DEF Spec

-----------------------------------------------------------------------------
(* Creations and cleanup *)

\* Everyone but c stays as it is.
OthersStay(c) == \A d \in Callers \ {c} : call'[d] = call[d]

\* A step of c outside of createNodes leaves the invariant alone.
LEMMA QuietStep ==
  ASSUME CleanupInv, NEW c \in Callers, OthersStay(c),
         UNCHANGED <<status, pendingNodesWG>>,
         call[c].pc \notin {"launch", "dead"}, call'[c].pc \notin {"launch", "dead"},
         call'[c].pc \in {"drainWG", "cleanup"} => call'[c].pc = call[c].pc,
         \A o \in Objects : /\ call'[c].run[o] # "none" =>
                                 call'[c].pc \in {"launch", "destroy", "delete", "cleanup"}
                            /\ call'[c].run[o] \notin LaunchPhase
  PROVE  CleanupInv'
<1>1. \A d \in Callers : d # c => call'[d] = call[d]
  BY DEF OthersStay
<1>d. DeadInv'
  BY <1>1 DEF CleanupInv, DeadInv, crashed
<1>2. WorkInv'
  BY <1>1 DEF CleanupInv, WorkInv
<1>3. WaitGroupBalanced'
  <2>1. crashed' <=> crashed
    BY <1>1 DEF crashed
  <2>2. \A p \in Callers \X Objects :
          (call'[p[1]].pc = "launch" /\ p[2] \in call'[p[1]].todo \cup Busy(p[1])')
            <=> (call[p[1]].pc = "launch" /\ p[2] \in call[p[1]].todo \cup Busy(p[1]))
    BY <1>1 DEF Busy
  <2> QED
    BY <2>1, <2>2 DEF CleanupInv, WaitGroupBalanced
<1>4. StatusInv'
  BY <1>1 DEF CleanupInv, StatusInv
<1>5. NoLaunchInv'
  <2>1. \A o \in Objects : call'[c].run[o] \notin {"creating", "booting", "joined"}
    BY DEF LaunchPhase
  <2> QED
    BY <1>1, <2>1 DEF CleanupInv, NoLaunchInv
<1> QED
  BY <1>d, <1>2, <1>3, <1>4, <1>5 DEF CleanupInv

\* SetPhase changes nothing but the phase.
LEMMA SetPhaseCall ==
  ASSUME TypeOK, NEW c \in Callers, NEW o \in Objects, NEW p, SetPhase(c, o, p)
  PROVE  /\ OthersStay(c)
         /\ call'[c].pc = call[c].pc /\ call'[c].todo = call[c].todo
         /\ \A q \in Objects : call'[c].run[q] = IF q = o THEN p ELSE call[c].run[q]
<1>1. call \in [Callers -> Call] /\ call[c] \in Call
  BY CallType DEF TypeOK
<1> QED
  BY <1>1 DEF SetPhase, OthersStay, Call

\* A node in creation goes from one phase to the next.
LEMMA LaunchPhaseStep ==
  ASSUME TypeOK, CleanupInv, NEW c \in Callers, NEW o \in Objects, NEW p, p # "none", SetPhase(c, o, p),
         UNCHANGED <<status, pendingNodesWG>>,
         call[c].pc = "launch", call[c].run[o] # "none",
         p \in {"creating", "booting", "joined"} => call[c].run[o] \in {"creating", "booting", "joined"} \/ status = "Created"
  PROVE  CleanupInv'
<1>0. OthersStay(c) /\ call'[c].pc = "launch" /\ call'[c].todo = call[c].todo
  BY SetPhaseCall
<1>1. \A d \in Callers : d # c => call'[d] = call[d]
  BY <1>0 DEF OthersStay
<1>2. /\ \A q \in Objects : q # o => call'[c].run[q] = call[c].run[q]
      /\ call'[c].run[o] = p
  BY SetPhaseCall
<1>d. DeadInv'
  BY <1>0, <1>1 DEF CleanupInv, DeadInv, crashed
<1>3. WorkInv'
  <2>1. \A q \in Objects : call[c].run[q] # "none" => q \notin call[c].todo
    BY DEF CleanupInv, WorkInv
  <2> QED
    BY <1>0, <1>1, <1>2, <2>1 DEF CleanupInv, WorkInv
<1>4. WaitGroupBalanced'
  <2>1. crashed' <=> crashed
    BY <1>0, <1>1 DEF crashed
  <2>2. \A d \in Callers : Busy(d)' = Busy(d)
    BY <1>0, <1>1, <1>2 DEF Busy
  <2> QED
    BY <1>0, <1>1, <2>1, <2>2 DEF CleanupInv, WaitGroupBalanced
<1>5. StatusInv'
  BY <1>0, <1>1 DEF CleanupInv, StatusInv
<1>6. NoLaunchInv'
  <2>1. SUFFICES ASSUME status = "Deleted" \/ (\E d \in Callers : call'[d].pc = "cleanup")
                 PROVE  p \notin {"creating", "booting", "joined"} /\
                        \A d \in Callers, q \in Objects : call[d].run[q] \notin {"creating", "booting", "joined"}
    BY <1>0, <1>1, <1>2 DEF NoLaunchInv
  <2>2. status = "Deleted" \/ (\E d \in Callers : call[d].pc = "cleanup")
    BY <1>0, <1>1, <2>1
  <2>3. \A d \in Callers, q \in Objects : call[d].run[q] \notin {"creating", "booting", "joined"}
    BY <2>2 DEF CleanupInv, NoLaunchInv
  <2>4. status # "Created"
    BY <2>2 DEF CleanupInv, StatusInv
  <2> QED
    BY <2>3, <2>4
<1> QED
  BY <1>d, <1>3, <1>4, <1>5, <1>6 DEF CleanupInv

\* The creation of a node ends.
LEMMA LaunchEndStep ==
  ASSUME TypeOK, CleanupInv, NEW c \in Callers, NEW o \in Objects, SetPhase(c, o, "none"),
         UNCHANGED status, Done(c, o),
         call[c].pc = "launch", call[c].run[o] # "none"
  PROVE  CleanupInv'
<1>0. OthersStay(c) /\ call'[c].pc = "launch" /\ call'[c].todo = call[c].todo
  BY SetPhaseCall
<1>1. \A d \in Callers : d # c => call'[d] = call[d]
  BY <1>0 DEF OthersStay
<1>2. /\ \A q \in Objects : q # o => call'[c].run[q] = call[c].run[q]
      /\ call'[c].run[o] = "none"
  BY SetPhaseCall
<1>3. o \notin call[c].todo
  BY DEF CleanupInv, WorkInv
<1>d. DeadInv'
  BY <1>0, <1>1 DEF CleanupInv, DeadInv, crashed
<1>4. WorkInv'
  <2>1. \A q \in Objects : call[c].run[q] # "none" => q \notin call[c].todo
    BY DEF CleanupInv, WorkInv
  <2>2. "none" \notin LaunchPhase
    BY DEF LaunchPhase
  <2> QED
    BY <1>0, <1>1, <1>2, <2>1, <2>2 DEF CleanupInv, WorkInv
<1>5. WaitGroupBalanced'
  <2>1. crashed' <=> crashed
    BY <1>0, <1>1 DEF crashed
  <2>2. Busy(c)' = Busy(c) \ {o}
    BY <1>2 DEF Busy
  <2>3. \A d \in Callers : d # c => Busy(d)' = Busy(d)
    BY <1>0, <1>1 DEF Busy
  <2>4. pendingNodesWG' = pendingNodesWG \ {<<c, o>>}
    BY DEF Done
  <2>5. SUFFICES ASSUME ~crashed, NEW d \in Callers, NEW q \in Objects
                 PROVE  <<d, q>> \in pendingNodesWG' <=>
                          call'[d].pc = "launch" /\ q \in call'[d].todo \cup Busy(d)'
    <3>1. ~crashed => pendingNodesWG \subseteq Callers \X Objects
      BY DEF CleanupInv, WaitGroupBalanced
    <3> QED
      BY <2>1, <2>4, <3>1 DEF WaitGroupBalanced
  <2>6. <<d, q>> \in pendingNodesWG <=> call[d].pc = "launch" /\ q \in call[d].todo \cup Busy(d)
    BY <2>5 DEF CleanupInv, WaitGroupBalanced
  <2>7. CASE d = c
    BY <1>0, <1>3, <2>2, <2>4, <2>6, <2>7
  <2>8. CASE d # c
    BY <1>0, <1>1, <2>3, <2>4, <2>6, <2>8
  <2> QED
    BY <2>7, <2>8
<1>6. StatusInv'
  BY <1>0, <1>1 DEF CleanupInv, StatusInv
<1>7. NoLaunchInv'
  BY <1>0, <1>1, <1>2 DEF CleanupInv, NoLaunchInv
<1> QED
  BY <1>d, <1>4, <1>5, <1>6, <1>7 DEF CleanupInv

-----------------------------------------------------------------------------
(* What the building blocks of the actions do to a call *)

LEMMA ReturnCall ==
  ASSUME TypeOK, NEW c \in Callers, Return(c)
  PROVE  /\ OthersStay(c)
         /\ call'[c].pc = "idle" /\ call'[c].todo = {}
         /\ \A o \in Objects : call'[c].run[o] = "none"
<1>1. call \in [Callers -> Call]
  BY DEF TypeOK
<1> QED
  BY <1>1 DEF Return, OthersStay, NoCall

LEMMA GotoCall ==
  ASSUME TypeOK, NEW c \in Callers, NEW label, Goto(c, label)
  PROVE  /\ OthersStay(c)
         /\ call'[c].pc = label /\ call'[c].todo = call[c].todo
         /\ call'[c].run = call[c].run
<1>1. call \in [Callers -> Call] /\ call[c] \in Call
  BY CallType DEF TypeOK
<1> QED
  BY <1>1 DEF Goto, OthersStay, Call

LEMMA StartDeleteVMCall ==
  ASSUME TypeOK, NEW c \in Callers, NEW o \in Objects, StartDeleteVM(c, o)
  PROVE  /\ OthersStay(c)
         /\ call'[c].pc = call[c].pc
         /\ \E p \in {"checked", "refused"} : call'[c].run = [call[c].run EXCEPT ![o] = p]
         /\ call[c].run \in [Objects -> Phase]
<1>1. call \in [Callers -> Call] /\ call[c] \in Call
  BY CallType DEF TypeOK
<1> QED
  BY <1>1, CheckNotDeletingType DEF StartDeleteVM, OthersStay, Call

LEMMA WorkOnCall ==
  ASSUME TypeOK, NEW c \in Callers, NEW S, WorkOn(c, S)
  PROVE  /\ OthersStay(c)
         /\ call'[c].pc \in {"create", "destroy"}
         /\ call'[c].run = call[c].run
<1>1. call \in [Callers -> Call] /\ call[c] \in Call
  BY CallType DEF TypeOK
<1> QED
  BY <1>1 DEF WorkOn, OthersStay, Call

LEMMA DeleteErrorCall ==
  ASSUME TypeOK, NEW c \in Callers, NEW n, DeleteError(c, n)
  PROVE  /\ OthersStay(c)
         /\ call'[c].pc \in {"idle", call[c].pc}
         /\ \A o \in Objects : call'[c].run[o] = "none"
<1>1. call \in [Callers -> Call] /\ call[c] \in Call
  BY CallType DEF TypeOK
<1>2. CASE Return(c)
  BY <1>2, ReturnCall
<1>3. CASE call' = [call EXCEPT ![c].victims = @ \ {n}, ![c].run = NoCall.run]
  BY <1>1, <1>3 DEF OthersStay, Call, NoCall
<1> QED
  BY <1>2, <1>3 DEF DeleteError

\* A request that c does not serve yet.
LEMMA StillIdle ==
  ASSUME CleanupInv, NEW c \in Callers,
         call[c].pc \notin {"launch", "destroy", "delete", "cleanup"}
  PROVE  \A o \in Objects : call[c].run[o] = "none"
BY DEF CleanupInv, WorkInv

LEMMA PhaseSets ==
  /\ "none" \notin LaunchPhase /\ "checked" \notin LaunchPhase /\ "deleting" \notin LaunchPhase /\ "racing" \notin LaunchPhase
  /\ "stopped" \notin LaunchPhase /\ "refused" \notin LaunchPhase
  /\ "start" \in LaunchPhase /\ "creating" \in LaunchPhase /\ "booting" \in LaunchPhase
  /\ "joined" \in LaunchPhase
  /\ {"start", "creating", "booting", "joined", "checked", "deleting", "racing", "stopped", "refused"} \subseteq Phase \ {"none"}
<1>1. {"start", "creating", "booting", "joined", "checked", "deleting", "racing", "stopped", "refused"} \subseteq Phase \ {"none"}
  BY DEF Phase
<1> QED
  BY <1>1 DEF LaunchPhase

-----------------------------------------------------------------------------
(* The actions *)

LEMMA InitCleanup == Init => CleanupInv
<1> SUFFICES ASSUME Init PROVE CleanupInv
  OBVIOUS
<1>1. \A c \in Callers : call[c] = NoCall
  BY DEF Init
<1>2. \A c \in Callers : call[c].pc = "idle" /\ call[c].todo = {}
  BY <1>1 DEF NoCall
<1>3. \A c \in Callers, o \in Objects : call[c].run[o] = "none"
  BY <1>1 DEF NoCall
<1>4. WorkInv
  BY <1>2, <1>3, PhaseSets DEF WorkInv
<1>5. WaitGroupBalanced
  BY <1>2 DEF WaitGroupBalanced, Init
<1> QED
  BY <1>2, <1>3, <1>4, <1>5 DEF CleanupInv, DeadInv, crashed, StatusInv, NoLaunchInv

LEMMA RequestCleanup ==
  ASSUME TypeOK, CleanupInv, NEW c \in Callers, Request(c)
  PROVE  CleanupInv'
<1>0. call \in [Callers -> Call] /\ call[c] \in Call /\ call[c].pc = "idle"
  BY CallType DEF TypeOK, Request, IncreaseSize, DecreaseTargetSize, DeleteNodes, AddManagedNode,
     DeleteManagedNode, Cleanup
<1>1. CASE Cleanup(c)
  <2>1. /\ OthersStay(c) /\ call'[c].pc = "drainWG" /\ status = "Created" /\ status' = "Deleting"
        /\ \A o \in Objects : call'[c].run[o] = "none"
    BY <1>0, <1>1 DEF Cleanup, OthersStay, NoCall
  <2>2. \A d \in Callers : d # c => call'[d] = call[d]
    BY <2>1 DEF OthersStay
  <2>d. DeadInv'
    BY <1>0, <2>1, <2>2 DEF CleanupInv, DeadInv, crashed
  <2>3. WorkInv'
    BY <2>1, <2>2, PhaseSets DEF CleanupInv, WorkInv
  <2>4. WaitGroupBalanced'
    <3>1. crashed' <=> crashed
      BY <1>0, <2>1, <2>2 DEF crashed
    <3>2. \A d \in Callers : d # c => Busy(d)' = Busy(d)
      BY <2>2 DEF Busy
    <3>3. pendingNodesWG' = pendingNodesWG
      BY <1>1 DEF Cleanup, waitGroup
    <3> QED
      BY <1>0, <2>1, <2>2, <3>1, <3>2, <3>3 DEF CleanupInv, WaitGroupBalanced
  <2>5. StatusInv'
    BY <2>1 DEF StatusInv
  <2>6. NoLaunchInv'
    BY <2>1, <2>2 DEF CleanupInv, NoLaunchInv
  <2> QED
    BY <2>d, <2>3, <2>4, <2>5, <2>6 DEF CleanupInv
<1>2. CASE ~Cleanup(c)
  <2> DEFINE Serves == /\ OthersStay(c) /\ call'[c].pc \in {"resize", "delete", "pick"}
                       /\ \A o \in Objects : call'[c].run[o] = "none"
  <2>a. ASSUME NEW delta, IncreaseSize(c, delta) PROVE Serves
    BY <1>0, <2>a DEF IncreaseSize, OthersStay, NoCall
  <2>b. ASSUME NEW delta, DecreaseTargetSize(c, delta) PROVE Serves
    BY <1>0, <2>b DEF DecreaseTargetSize, OthersStay, NoCall
  <2>c. ASSUME NEW names, DeleteNodes(c, names) PROVE Serves
    BY <1>0, <2>c DEF DeleteNodes, OthersStay, NoCall
  <2>d. ASSUME NEW kind, AddManagedNode(c, kind) PROVE Serves
    BY <1>0, <2>d DEF AddManagedNode, OthersStay, NoCall
  <2>e. ASSUME NEW n, DeleteManagedNode(c, n) PROVE Serves
    BY <1>0, <2>e DEF DeleteManagedNode, OthersStay, NoCall
  <2>1. Serves
    BY <1>2, <2>a, <2>b, <2>c, <2>d, <2>e DEF Request
  <2>2. UNCHANGED <<status, pendingNodesWG>>
    BY <1>2 DEF Request, IncreaseSize, DecreaseTargetSize, DeleteNodes, AddManagedNode,
       DeleteManagedNode, group, waitGroup
  <2> QED
    BY <1>0, <2>1, <2>2, QuietStep, PhaseSets
<1> QED
  BY <1>1, <1>2

\* deleteVM goes on, in a deletion or after a launch that failed.
LEMMA DeletePhaseStep ==
  ASSUME TypeOK, CleanupInv, NEW c \in Callers, NEW o \in Objects,
         NEW p \in {"deleting", "racing", "stopped", "refused"}, SetPhase(c, o, p),
         UNCHANGED <<status, pendingNodesWG>>, call[c].run[o] \in {"checked", "deleting", "racing"}
  PROVE  CleanupInv'
<1>0. \A q \in Objects : /\ call[c].run[q] \in LaunchPhase => call[c].pc = "launch"
                         /\ call[c].run[q] # "none" =>
                              call[c].pc \in {"launch", "destroy", "delete", "cleanup"}
  BY DEF CleanupInv, WorkInv
<1>1. p # "none" /\ p \notin {"creating", "booting", "joined"} /\ call[c].run[o] # "none"
  OBVIOUS
<1>2. CASE call[c].pc = "launch"
  BY <1>1, <1>2, LaunchPhaseStep
<1>3. CASE call[c].pc # "launch"
  <2>1. call[c].pc \in {"destroy", "delete", "cleanup"}
    BY <1>0, <1>1, <1>3
  <2>2. \A q \in Objects : call'[c].run[q] \in {call[c].run[q], p}
    BY SetPhaseCall
  <2>3. \A q \in Objects : call'[c].run[q] \notin LaunchPhase
    BY <1>0, <1>3, <2>2, PhaseSets
  <2> QED
    BY <2>1, <2>3, SetPhaseCall, QuietStep
<1> QED
  BY <1>2, <1>3

\* The steps of a goroutine that works on one node.
LEMMA NodeStepCleanup ==
  ASSUME TypeOK, CleanupInv, NEW c \in Callers, NEW o \in Objects, NodeStep(c, o)
  PROVE  CleanupInv'
<1>0. \A q \in Objects : /\ call[c].run[q] \in LaunchPhase => call[c].pc = "launch"
                         /\ call[c].run[q] # "none" =>
                              call[c].pc \in {"launch", "destroy", "delete", "cleanup"}
  BY DEF CleanupInv, WorkInv
<1>1. CASE CreateNodeRefused(c, o)
  <2>1. UNCHANGED status /\ Done(c, o) /\ call[c].run[o] = "start" /\ SetPhase(c, o, "none")
    BY <1>1 DEF CreateNodeRefused
  <2> QED
    BY <1>0, <2>1, LaunchEndStep, PhaseSets
<1>2. CASE LaunchVM(c, o)
  <2>1. /\ UNCHANGED <<status, pendingNodesWG>> /\ status = "Created"
        /\ call[c].run[o] = "start" /\ SetPhase(c, o, "creating")
    BY <1>2 DEF LaunchVM, group, waitGroup
  <2> QED
    BY <1>0, <2>1, LaunchPhaseStep, PhaseSets
<1>3. CASE InstanceCreate(c, o)
  <2>1. /\ UNCHANGED <<status, pendingNodesWG>>
        /\ call[c].run[o] = "creating" /\ SetPhase(c, o, "booting")
    BY <1>3 DEF InstanceCreate, group, waitGroup
  <2> QED
    BY <1>0, <2>1, LaunchPhaseStep, PhaseSets
<1>4. CASE LaunchFails(c, o)
  <2>1. /\ UNCHANGED <<status, pendingNodesWG>> /\ call[c].run[o] \in LaunchPhase
        /\ SetPhase(c, o, "checked") \/ SetPhase(c, o, "refused")
    BY <1>4, PhaseSets, CheckNotDeletingType DEF LaunchFails, CleanOnLaunchError, group, waitGroup
  <2>2. call[c].run[o] # "none" /\ call[c].pc = "launch"
    BY <1>0, <2>1, PhaseSets
  <2>3. CASE SetPhase(c, o, "checked")
    BY <2>1, <2>2, <2>3, LaunchPhaseStep, PhaseSets
  <2>4. CASE SetPhase(c, o, "refused")
    BY <2>1, <2>2, <2>4, LaunchPhaseStep, PhaseSets
  <2> QED
    BY <2>1, <2>3, <2>4
<1>5. CASE LaunchSucceeds(c, o)
  <2>1. UNCHANGED status /\ Done(c, o) /\ call[c].run[o] = "joined" /\ SetPhase(c, o, "none")
    BY <1>5 DEF LaunchSucceeds
  <2> QED
    BY <1>0, <2>1, LaunchEndStep, PhaseSets
<1>6. CASE LaunchCleaned(c, o)
  <2>1. /\ UNCHANGED status /\ Done(c, o) /\ call[c].pc = "launch"
        /\ call[c].run[o] \in {"deleting", "racing", "stopped", "refused"} /\ SetPhase(c, o, "none")
    BY <1>6 DEF LaunchCleaned, VMDeleted, VMNotDeleted
  <2> QED
    BY <2>1, LaunchEndStep
<1>7. CASE InstanceStatus(c, o) \/ InstancePowerOff(c, o)
  <2>1. /\ UNCHANGED <<status, pendingNodesWG>> /\ call[c].run[o] \in {"checked", "deleting", "racing"}
        /\ \E p \in {"deleting", "racing", "stopped", "refused"} : SetPhase(c, o, p)
    BY <1>7 DEF InstanceStatus, InstancePowerOff, group, waitGroup
  <2> QED
    BY <2>1, DeletePhaseStep
<1>8. CASE DestroyNode(c, o) \/ CleanupNode(c, o)
  <2>1. /\ UNCHANGED <<status, pendingNodesWG>>
        /\ call[c].pc \in {"destroy", "cleanup"} /\ StartDeleteVM(c, o)
    BY <1>8 DEF DestroyNode, CleanupNode, StartDelete, group, waitGroup
  <2>2. \A q \in Objects : call'[c].run[q] \in {call[c].run[q], "checked", "refused"}
    BY <2>1, StartDeleteVMCall
  <2>3. \A q \in Objects : call'[c].run[q] \notin LaunchPhase
    BY <1>0, <2>1, <2>2, PhaseSets
  <2> QED
    BY <2>1, <2>3, StartDeleteVMCall, QuietStep
<1>9. CASE NodeDestroyed(c, o) \/ CleanupNodeEnds(c, o)
  <2>1. /\ UNCHANGED <<status, pendingNodesWG>>
        /\ call[c].pc \in {"destroy", "cleanup"} /\ SetPhase(c, o, "none")
    BY <1>9 DEF NodeDestroyed, CleanupNodeEnds, group, waitGroup
  <2>2. \A q \in Objects : call'[c].run[q] \in {call[c].run[q], "none"}
    BY <2>1, SetPhaseCall
  <2>3. \A q \in Objects : call'[c].run[q] \notin LaunchPhase
    BY <1>0, <2>1, <2>2, PhaseSets
  <2> QED
    BY <2>1, <2>3, SetPhaseCall, QuietStep
<1>10. CASE NodeDeleted(c, o)
  <2>1. UNCHANGED <<status, pendingNodesWG>> /\ call[c].pc = "delete"
    BY <1>10 DEF NodeDeleted, waitGroup
  <2>2. CASE SetPhase(c, o, "none")
    <3>1. \A q \in Objects : call'[c].run[q] \in {call[c].run[q], "none"}
      BY <2>2, SetPhaseCall
    <3>2. \A q \in Objects : call'[c].run[q] \notin LaunchPhase
      BY <1>0, <2>1, <3>1, PhaseSets
    <3> QED
      BY <2>1, <2>2, <3>2, SetPhaseCall, QuietStep
  <2>3. CASE DeleteError(c, node[o].name)
    BY <2>1, <2>3, DeleteErrorCall, QuietStep, PhaseSets
  <2> QED
    BY <1>10, <2>2, <2>3 DEF NodeDeleted
<1>11. CASE NodeJoins(c, o)
  <2>1. /\ UNCHANGED <<status, pendingNodesWG>>
        /\ call[c].run[o] = "booting" /\ SetPhase(c, o, "joined")
    BY <1>11 DEF NodeJoins, group, waitGroup
  <2> QED
    BY <1>0, <2>1, LaunchPhaseStep, PhaseSets
<1> QED
  BY <1>1, <1>2, <1>3, <1>4, <1>5, <1>6, <1>7, <1>8, <1>9, <1>10, <1>11 DEF NodeStep

LEMMA CrashCleanup ==
  ASSUME TypeOK, CleanupInv, Crash, NEW c \in Callers
  PROVE  CleanupInv'
<1>1. \A d \in Callers : call'[d].pc = "dead" /\ \A o \in Objects : call'[d].run[o] = "none"
  BY DEF Crash, NoCall
<1>2. crashed'
  BY <1>1 DEF crashed
<1> QED
  BY <1>1, <1>2, PhaseSets DEF CleanupInv, DeadInv, WorkInv, WaitGroupBalanced, StatusInv, NoLaunchInv

\* createNodes takes the next nodes of its list, or its whole list is counted.
LEMMA CreateNodesCleanup ==
  ASSUME TypeOK, CleanupInv, NEW c \in Callers, CreateNodes(c) \/ StartCycle(c) \/ CreateNodesEnds(c)
  PROVE  CleanupInv'
<1>0. call \in [Callers -> Call] /\ call[c] \in Call
  BY CallType DEF TypeOK
<1>1. CASE CreateNodes(c)
  <2>1. /\ OthersStay(c) /\ call[c].pc = "create" /\ call'[c].pc = "launch"
        /\ call'[c].todo = call[c].todo /\ call'[c].run = call[c].run /\ status' = status
    BY <1>1, GotoCall DEF CreateNodes, group
  <2>2. \A d \in Callers : d # c => call'[d] = call[d]
    BY <2>1 DEF OthersStay
  <2>3. \A o \in Objects : call[c].run[o] = "none"
    BY <2>1, StillIdle
  <2>d. DeadInv'
    BY <2>1, <2>2 DEF CleanupInv, DeadInv, crashed
  <2>4. WorkInv'
    BY <2>1, <2>2, <2>3, PhaseSets DEF CleanupInv, WorkInv
  <2>5. WaitGroupBalanced'
    <3>1. crashed' <=> crashed
      BY <2>1, <2>2 DEF crashed
    <3>2. pendingNodesWG' = pendingNodesWG \cup {<<c, o>> : o \in call[c].todo}
      BY <1>1 DEF CreateNodes
    <3>3. call[c].todo \subseteq Objects
      BY <1>0 DEF Call
    <3>4. Busy(c)' = {} /\ \A d \in Callers : d # c => Busy(d)' = Busy(d)
      BY <2>1, <2>2, <2>3 DEF Busy
    <3>5. SUFFICES ASSUME ~crashed, NEW d \in Callers, NEW q \in Objects
                   PROVE  <<d, q>> \in pendingNodesWG' <=>
                            call'[d].pc = "launch" /\ q \in call'[d].todo \cup Busy(d)'
      <4>1. ~crashed => pendingNodesWG' \subseteq Callers \X Objects
        BY <3>2, <3>3 DEF CleanupInv, WaitGroupBalanced
      <4> QED
        BY <3>1, <4>1 DEF WaitGroupBalanced
    <3>6. <<d, q>> \in pendingNodesWG <=> call[d].pc = "launch" /\ q \in call[d].todo \cup Busy(d)
      BY <3>5 DEF CleanupInv, WaitGroupBalanced
    <3>7. CASE d = c
      BY <2>1, <3>2, <3>4, <3>6, <3>7
    <3>8. CASE d # c
      BY <2>2, <3>2, <3>4, <3>6, <3>8
    <3> QED
      BY <3>7, <3>8
  <2>6. StatusInv'
    BY <2>1, <2>2 DEF CleanupInv, StatusInv
  <2>7. NoLaunchInv'
    BY <2>1, <2>2, <2>3 DEF CleanupInv, NoLaunchInv
  <2> QED
    BY <2>d, <2>4, <2>5, <2>6, <2>7 DEF CleanupInv
<1>2. CASE StartCycle(c)
  <2>1. PICK cycle \in SUBSET call[c].todo :
          call' = [call EXCEPT ![c].todo = @ \ cycle,
                               ![c].run = [o \in Objects |-> IF o \in cycle THEN "start" ELSE "none"]]
    BY <1>2 DEF StartCycle
  <2>2. /\ OthersStay(c) /\ call'[c].pc = call[c].pc /\ call'[c].todo = call[c].todo \ cycle
        /\ \A o \in Objects : call'[c].run[o] = IF o \in cycle THEN "start" ELSE "none"
    BY <1>0, <2>1 DEF OthersStay, Call
  <2>3. \A d \in Callers : d # c => call'[d] = call[d]
    BY <2>2 DEF OthersStay
  <2>4. /\ call[c].pc = "launch" /\ Busy(c) = {} /\ UNCHANGED <<status, pendingNodesWG>>
    BY <1>2 DEF StartCycle, group, waitGroup
  <2>d. DeadInv'
    BY <2>1, <2>2, <2>3, <2>4 DEF CleanupInv, DeadInv, crashed
  <2>5. WorkInv'
    <3>1. \A o \in Objects : o \in cycle => o \notin call'[c].todo
      BY <2>2
    <3> QED
      BY <2>2, <2>3, <2>4, <3>1, PhaseSets DEF CleanupInv, WorkInv
  <2>6. WaitGroupBalanced'
    <3>1. crashed' <=> crashed
      BY <2>2, <2>3 DEF crashed
    <3>2. call[c].todo \subseteq Objects
      BY <1>0 DEF Call
    <3>3. Busy(c)' = cycle
      BY <2>2, <3>2 DEF Busy
    <3>4. \A d \in Callers : call'[d].todo \cup Busy(d)' = call[d].todo \cup Busy(d)
      BY <2>2, <2>3, <2>4, <3>3 DEF Busy
    <3>5. \A d \in Callers : call'[d].pc = call[d].pc
      BY <2>2, <2>3
    <3> QED
      BY <2>4, <3>1, <3>4, <3>5 DEF CleanupInv, WaitGroupBalanced
  <2>7. StatusInv'
    BY <2>2, <2>3, <2>4 DEF CleanupInv, StatusInv
  <2>8. NoLaunchInv'
    BY <2>2, <2>3, <2>4 DEF CleanupInv, NoLaunchInv
  <2> QED
    BY <2>d, <2>5, <2>6, <2>7, <2>8 DEF CleanupInv
<1>3. CASE CreateNodesEnds(c)
  <2>1. /\ OthersStay(c) /\ call'[c].pc = "wait"
        /\ call'[c].todo = call[c].todo /\ call'[c].run = call[c].run
    BY <1>3, GotoCall DEF CreateNodesEnds
  <2>2. \A d \in Callers : d # c => call'[d] = call[d]
    BY <2>1 DEF OthersStay
  <2>3. /\ call[c].pc = "launch" /\ Busy(c) = {} /\ call[c].todo = {}
        /\ UNCHANGED <<status, pendingNodesWG>>
    BY <1>3 DEF CreateNodesEnds, group, waitGroup
  <2>4. \A o \in Objects : call'[c].run[o] = "none"
    BY <2>1, <2>3 DEF Busy
  <2>d. DeadInv'
    BY <2>1, <2>2, <2>3, <2>4 DEF CleanupInv, DeadInv, crashed
  <2>5. WorkInv'
    BY <2>1, <2>2, <2>4, PhaseSets DEF CleanupInv, WorkInv
  <2>6. WaitGroupBalanced'
    <3>1. crashed' <=> crashed
      BY <2>1, <2>2, <2>3 DEF crashed
    <3>2. \A d \in Callers : d # c => Busy(d)' = Busy(d)
      BY <2>2 DEF Busy
    <3> QED
      BY <2>1, <2>2, <2>3, <3>1, <3>2 DEF CleanupInv, WaitGroupBalanced
  <2>7. StatusInv'
    BY <2>1, <2>2, <2>3 DEF CleanupInv, StatusInv
  <2>8. NoLaunchInv'
    BY <2>1, <2>2, <2>3, <2>4 DEF CleanupInv, NoLaunchInv
  <2> QED
    BY <2>d, <2>5, <2>6, <2>7, <2>8 DEF CleanupInv
<1> QED
  BY <1>1, <1>2, <1>3

\* cleanup goes on once the wait group is empty, and ends.
LEMMA CleanupCleanup ==
  ASSUME TypeOK, CleanupInv, NEW c \in Callers, CleanupWaited(c) \/ CleanupReturns(c)
  PROVE  CleanupInv'
<1>0. call \in [Callers -> Call] /\ call[c] \in Call
  BY CallType DEF TypeOK
<1>1. /\ OthersStay(c) /\ call[c].pc \in {"drainWG", "cleanup"} /\ call'[c].pc \in {"cleanup", "idle"}
      /\ pendingNodesWG' = pendingNodesWG
      /\ \A o \in Objects : call'[c].run[o] = "none"
  <2>1. CASE CleanupWaited(c)
    <3>1. /\ OthersStay(c) /\ call[c].pc = "drainWG" /\ call'[c].pc = "cleanup"
          /\ call'[c].run = call[c].run
      BY <1>0, <2>1 DEF CleanupWaited, OthersStay, Call
    <3>2. pendingNodesWG' = pendingNodesWG
      BY <2>1 DEF CleanupWaited, Waited
    <3> QED
      BY <3>1, <3>2, StillIdle
  <2>2. CASE CleanupReturns(c)
    BY <2>2, ReturnCall DEF CleanupReturns, waitGroup
  <2> QED
    BY <2>1, <2>2
<1>2. \A d \in Callers : d # c => call'[d] = call[d]
  BY <1>1 DEF OthersStay
<1>d. DeadInv'
  BY <1>1, <1>2 DEF CleanupInv, DeadInv, crashed
<1>3. WorkInv'
  BY <1>1, <1>2, PhaseSets DEF CleanupInv, WorkInv
<1>4. WaitGroupBalanced'
  <2>1. crashed' <=> crashed
    BY <1>1, <1>2 DEF crashed
  <2>2. \A d \in Callers : d # c => Busy(d)' = Busy(d)
    BY <1>2 DEF Busy
  <2> QED
    BY <1>1, <1>2, <2>1, <2>2 DEF CleanupInv, WaitGroupBalanced
<1>5. status' \in {status, "Deleted"}
  BY DEF CleanupWaited, CleanupReturns, group
<1>6. StatusInv'
  BY <1>1, <1>2, <1>5 DEF CleanupInv, StatusInv
<1>7. NoLaunchInv'
  <2>1. \A d \in Callers, o \in Objects : call[d].run[o] \notin {"creating", "booting", "joined"}
    <3>1. CASE call[c].pc = "cleanup"
      BY <3>1 DEF CleanupInv, NoLaunchInv
    <3>2. CASE CleanupWaited(c)
      <4>1. pendingNodesWG = {}
        BY <3>2 DEF CleanupWaited, Waited
      <4>2. ~crashed
        BY <1>1 DEF CleanupInv, DeadInv
      <4>3. ASSUME NEW d \in Callers, NEW o \in Objects, call[d].pc = "launch" PROVE call[d].run[o] = "none"
        <5>1. <<d, o>> \in Callers \X Objects /\ <<d, o>> \notin pendingNodesWG
          BY <4>1
        <5>2. ~(call[<<d, o>>[1]].pc = "launch" /\ <<d, o>>[2] \in call[<<d, o>>[1]].todo \cup Busy(<<d, o>>[1]))
          BY <4>2, <5>1 DEF CleanupInv, WaitGroupBalanced
        <5> QED
          BY <4>3, <5>2 DEF Busy
      <4> QED
        BY <4>3, PhaseSets DEF CleanupInv, WorkInv
    <3> QED
      BY <3>1, <3>2 DEF CleanupReturns
  <2> QED
    BY <1>1, <1>2, <2>1 DEF NoLaunchInv
<1> QED
  BY <1>d, <1>3, <1>4, <1>6, <1>7 DEF CleanupInv

LEMMA StepCleanup ==
  ASSUME TypeOK, CleanupInv, NEW c \in Callers, Step(c)
  PROVE  CleanupInv'
<1>0. call \in [Callers -> Call] /\ call[c] \in Call
  BY CallType DEF TypeOK
<1>1. ASSUME Resize(c) PROVE CleanupInv'
  <2>1. call[c].pc = "resize" /\ \A o \in Objects : call[c].run[o] = "none"
    BY <1>1, StillIdle DEF Resize, GrowRefused, Grow, Keep, Shrink, ShrinkPanics, CanResize
  <2>2. CASE ShrinkPanics(c)
    BY <2>2, CrashCleanup DEF ShrinkPanics
  <2>3. CASE ~ShrinkPanics(c)
    <3>1. UNCHANGED <<status, pendingNodesWG>>
      BY <1>1, <2>3 DEF Resize, GrowRefused, Grow, Keep, Shrink, group, waitGroup
    <3>2. CASE Return(c)
      BY <2>1, <3>1, <3>2, ReturnCall, QuietStep, PhaseSets
    <3>3. ASSUME NEW S, WorkOn(c, S) PROVE CleanupInv'
      BY <2>1, <3>1, <3>3, WorkOnCall, QuietStep, PhaseSets
    <3>4. CASE Grow(c)
      <4>1. OthersStay(c) /\ call'[c].pc = "pick" /\ call'[c].run = call[c].run
        BY <1>0, <3>4 DEF Grow, OthersStay, Call
      <4> QED
        BY <2>1, <3>1, <4>1, QuietStep, PhaseSets
    <3> QED
      BY <1>1, <2>3, <3>2, <3>3, <3>4 DEF Resize, GrowRefused, Keep, Shrink
  <2> QED
    BY <2>2, <2>3
<1>2. ASSUME PickNode(c) PROVE CleanupInv'
  <2>1. /\ call[c].pc = "pick" /\ call'[c].pc = "reserve" /\ OthersStay(c)
        /\ call'[c].run = call[c].run
    BY <1>0, <1>2 DEF PickNode, OthersStay, Call
  <2>2. UNCHANGED <<status, pendingNodesWG>>
    BY <1>2 DEF PickNode, waitGroup
  <2> QED
    BY <2>1, <2>2, StillIdle, QuietStep, PhaseSets
<1>3. ASSUME ReserveNode(c) PROVE CleanupInv'
  <2>1. PICK o \in Objects : \E next \in {"pick", "destroy", "create"} :
          call' = [call EXCEPT ![c].pc = next, ![c].need = @ - 1, ![c].todo = @ \cup {o}]
    <3>1. (CHOOSE x \in FreeObjects : TRUE) \in Objects
      BY <1>3 DEF ReserveNode, FreeObjects
    <3> QED
      BY <1>3, <3>1 DEF ReserveNode
  <2>2. /\ call[c].pc = "reserve" /\ call'[c].pc \in {"pick", "destroy", "create"} /\ OthersStay(c)
        /\ call'[c].run = call[c].run
    BY <1>0, <1>3, <2>1 DEF ReserveNode, OthersStay, Call
  <2>3. UNCHANGED <<status, pendingNodesWG>>
    BY <1>3 DEF ReserveNode, waitGroup
  <2> QED
    BY <2>2, <2>3, StillIdle, QuietStep, PhaseSets
<1>4. ASSUME ReserveFails(c) PROVE CleanupInv'
  <2>1. call[c].pc = "reserve" /\ Return(c) /\ UNCHANGED <<status, pendingNodesWG>>
    BY <1>4 DEF ReserveFails, waitGroup
  <2> QED
    BY <2>1, ReturnCall, QuietStep, PhaseSets
<1>5. ASSUME CreateNodesReturns(c) \/ DestroyNodesReturns(c) \/ DeleteNodesReturns(c) PROVE CleanupInv'
  <2>1. /\ call[c].pc \in {"wait", "destroy", "delete"} /\ Return(c)
        /\ UNCHANGED <<status, pendingNodesWG>>
    BY <1>5 DEF CreateNodesReturns, DestroyNodesReturns, DeleteNodesReturns, Waited, group, waitGroup
  <2> QED
    BY <2>1, ReturnCall, QuietStep, PhaseSets
<1>6. ASSUME Wait(c) PROVE CleanupInv'
  BY <1>6 DEF Wait, group, CleanupInv, DeadInv, crashed, WorkInv, WaitGroupBalanced, Busy,
     StatusInv, NoLaunchInv
<1>7. ASSUME NEW n \in call[c].victims, DeleteNodeByName(c, n) PROVE CleanupInv'
  <2>1. Named(n) \in Objects
    BY <1>7 DEF DeleteNodeByName, Named, Tracked, TypeOK, IsMap
  <2>2. /\ call[c].pc = "delete" /\ StartDeleteVM(c, Named(n)) /\ Busy(c) = {}
        /\ UNCHANGED <<status, pendingNodesWG>>
    BY <1>7 DEF DeleteNodeByName, StartDelete, waitGroup
  <2>3. \A q \in Objects : call'[c].run[q] \in {"none", "checked", "refused"}
    BY <2>1, <2>2, StartDeleteVMCall DEF Busy
  <2>4. OthersStay(c) /\ call'[c].pc = "delete"
    BY <2>1, <2>2, StartDeleteVMCall
  <2> QED
    BY <2>2, <2>3, <2>4, QuietStep, PhaseSets
<1>8. ASSUME NEW n \in call[c].victims, DeleteNodeRefused(c, n) PROVE CleanupInv'
  <2>1. call[c].pc = "delete" /\ DeleteError(c, n) /\ UNCHANGED <<status, pendingNodesWG>>
    BY <1>8 DEF DeleteNodeRefused, group, waitGroup
  <2> QED
    BY <2>1, DeleteErrorCall, QuietStep, PhaseSets
<1> QED
  BY <1>1, <1>2, <1>3, <1>4, <1>5, <1>6, <1>7, <1>8, CreateNodesCleanup, CleanupCleanup,
     NodeStepCleanup DEF Step

LEMMA NextCleanup == TypeOK /\ CleanupInv /\ [Next]_vars => CleanupInv'
<1> SUFFICES ASSUME TypeOK, CleanupInv, [Next]_vars PROVE CleanupInv'
  OBVIOUS
<1>1. ASSUME NEW c \in Callers, Panic(c) PROVE CleanupInv'
  BY <1>1, CrashCleanup DEF Panic, CreateNodesPanics, WaitPanics
<1>2. ASSUME UNCHANGED <<call, status, pendingNodesWG>> PROVE CleanupInv'
  BY <1>2 DEF CleanupInv, DeadInv, crashed, WorkInv, WaitGroupBalanced, Busy, StatusInv, NoLaunchInv
<1>3. ASSUME NEW o \in Objects, Refresh(o) PROVE CleanupInv'
  BY <1>2, <1>3 DEF Refresh, group, waitGroup
<1>4. ASSUME UNCHANGED vars PROVE CleanupInv'
  BY <1>2, <1>4 DEF vars
<1> QED
  BY <1>1, <1>3, <1>4, RequestCleanup, StepCleanup DEF Next

-----------------------------------------------------------------------------

LEMMA CleanupInvariant == Spec => []CleanupInv
<1>1. TypeOK /\ CleanupInv /\ [Next]_vars => CleanupInv'
  BY NextCleanup
<1> QED
  BY <1>1, InitCleanup, TypeCorrect, PTL DEF Spec

\* The wait group of a node group counts, at any time, exactly the nodes whose
\* creation has not ended (the Add of createNodes and the Done of every createNode),
\* for any number of requests at a time and whichever external call fails.
THEOREM CreationsCounted == Spec => []WaitGroupBalanced
<1>1. CleanupInv => WaitGroupBalanced
  BY DEF CleanupInv
<1> QED
  BY <1>1, CleanupInvariant, PTL

\* Once cleanup has ended no VM of the group is being launched: those under way
\* were waited for, and a createNode that comes later finds the group deleted.
THEOREM CleanupIsFinal == Spec => []NoLaunchOnceDeleted
<1>1. CleanupInv => NoLaunchOnceDeleted
  BY DEF CleanupInv, NoLaunchInv, NoLaunchOnceDeleted
<1> QED
  BY <1>1, CleanupInvariant, PTL
=============================================================================
