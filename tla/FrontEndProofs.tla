--------------------------- MODULE FrontEndProofs ---------------------------
(***************************************************************************)
(* FrontInv is inductive.  The steps are sorted by what they are about: one  *)
(* of a clean-up (Begins, Empties, Forgets say what it does, in facts without*)
(* EXCEPT) or one of the others, of which TasksKept, StatusKept and          *)
(* PhaseOthers say once and for all how little they do to a clean-up.        *)
(***************************************************************************)
EXTENDS FrontEndInv, FiniteSetTheorems, TLAPS

-----------------------------------------------------------------------------
(* Types *)

LEMMA CallFields ==
  ASSUME Types, NEW c \in Callers
  PROVE  /\ call[c] \in Call
         /\ call[c].pc \in {"idle", "launch", "delete", "deleting", "cleanup", "waiting"}
         /\ call[c].method \in {"none", "IncreaseSize", "DeleteNodes", "Delete", "Cleanup"}
         /\ call[c].group \in GroupIds \cup {""} /\ call[c].todo \subseteq Nodes
         /\ call[c].docs \in Seq(Documents) /\ call[c].groups \subseteq GroupIds /\ call[c].ok \in BOOLEAN
BY DEF Types, Call

LEMMA GroupFields ==
  ASSUME Types, NEW id \in GroupIds
  PROVE  /\ groups[id] \in Group
         /\ groups[id].status \in {"absent", "NotCreated", "Created", "Deleting", "Deleted"}
         /\ groups[id].min \in {0, 1} /\ groups[id].auto \in BOOLEAN
         /\ groups[id].nodes \subseteq Nodes /\ groups[id].pending \subseteq Nodes
BY DEF Types, Group

LEMMA ConfFields ==
  ASSUME Types
  PROVE  conf.overlap \in BOOLEAN /\ conf.mins \subseteq {0, 1}
BY FrontEndAssumption DEF Types

LEMMA NoCallTyped == NoCall \in Call
BY DEF NoCall, Call

LEMMA HeadAndTail ==
  ASSUME NEW S, NEW s \in Seq(S), s # <<>>
  PROVE  Head(s) \in S /\ Tail(s) \in Seq(S)
OBVIOUS

\* The calls that begin, field by field.
LEMMA LaunchCall ==
  ASSUME NEW r \in Call, NEW id \in GroupIds, NEW new \in SUBSET Nodes
  PROVE  LET k == [r EXCEPT !.pc = "launch", !.method = "IncreaseSize", !.group = id, !.todo = new] IN
         /\ k \in Call /\ k.pc = "launch" /\ k.method = "IncreaseSize" /\ k.group = id /\ k.todo = new
BY DEF Call

LEMMA DeleteNodesCall ==
  ASSUME NEW r \in Call, NEW id \in GroupIds, NEW docs \in Seq(Documents)
  PROVE  LET k == [r EXCEPT !.pc = "delete", !.method = "DeleteNodes", !.group = id, !.docs = docs, !.ok = TRUE] IN
         /\ k \in Call /\ k.pc = "delete" /\ k.method = "DeleteNodes" /\ k.group = id /\ k.docs = docs /\ k.ok
BY DEF Call

LEMMA DeleteCall ==
  ASSUME NEW r \in Call, NEW id \in GroupIds
  PROVE  LET k == [r EXCEPT !.pc = "cleanup", !.method = "Delete", !.group = id, !.groups = {id}, !.ok = TRUE] IN
         /\ k \in Call /\ k.pc = "cleanup" /\ k.method = "Delete" /\ k.group = id /\ k.groups = {id} /\ k.ok
BY DEF Call

LEMMA CleanupCall ==
  ASSUME NEW r \in Call, NEW all \in SUBSET GroupIds
  PROVE  LET k == [r EXCEPT !.pc = "cleanup", !.method = "Cleanup", !.ok = TRUE, !.groups = all] IN
         /\ k \in Call /\ k.pc = "cleanup" /\ k.method = "Cleanup" /\ k.groups = all /\ k.ok
BY DEF Call

LEMMA AbsentTyped == Absent \in Group
BY DEF Absent, Group

LEMMA DeletionsTyped ==
  ASSUME NEW id \in GroupIds, NEW docs \in SomeDeletions(id)
  PROVE  docs \in Seq(Documents) /\ docs # <<>>
<1>1. \A n \in Nodes, g \in Annotated : Document(n, g) \in Documents
  BY FrontEndAssumption DEF Document, Documents
<1>2. id \in Annotated /\ "" \in Annotated /\ \A n \in Nodes : Owner[n] \in Annotated
  BY FrontEndAssumption DEF Annotated
<1>3. (\E n \in Nodes : docs = <<Document(n, Owner[n])>> \/ docs = <<Document(n, "")>>) \/ docs \in TwoDocuments(id)
  BY DEF SomeDeletions, Settled
<1>5. docs \in TwoDocuments(id) => \E n, k \in Nodes : docs = <<Document(n, id), Document(k, id)>>
  BY DEF TwoDocuments, Settled
<1>4. \A d, e \in Documents : <<d>> \in Seq(Documents) /\ <<d, e>> \in Seq(Documents) /\ <<d>> # <<>> /\ <<d, e>> # <<>>
  OBVIOUS
<1> QED  BY <1>1, <1>2, <1>3, <1>4, <1>5

\* The state is well formed to begin with ...
LEMMA InitTypes == ASSUME Init PROVE Types
<1>1. NoCall \in Call /\ Absent \in Group /\ Provisioned \in Group
  BY NoCallTyped, AbsentTyped DEF Provisioned, Absent, Group
<1> QED  BY <1>1 DEF Init, Types

\* ... and each action leaves it so.
LEMMA ConnectTypes ==
  ASSUME Types, NEW id \in GroupIds, NEW min \in conf.mins, Connect(id, min) \/ NewNodeGroup(id, min)
  PROVE  Types'
<1>1. min \in {0, 1}
  BY ConfFields
<1>2. \A auto \in BOOLEAN : [Absent EXCEPT !.status = "NotCreated", !.min = min, !.auto = auto] \in Group
  BY <1>1 DEF Absent, Group
<1>3. [Absent EXCEPT !.status = "NotCreated", !.min = min] \in Group
  BY <1>1 DEF Absent, Group
<1>4. \A g \in Group : CreateNodeGroup(g) \in Group
  BY DEF CreateNodeGroup, Group
<1> QED  BY <1>2, <1>3, <1>4 DEF Types, Connect, NewNodeGroup

LEMMA CreateTypes == ASSUME Types, NEW id \in GroupIds, Create(id) PROVE Types'
<1>1. \A g \in Group : CreateNodeGroup(g) \in Group
  BY DEF CreateNodeGroup, Group
<1> QED  BY <1>1 DEF Types, Create

LEMMA LaunchTypes ==
  ASSUME Types, NEW n \in Nodes,
         LaunchStarts(n) \/ LaunchRegisters(n) \/ LaunchEnds(n) \/ LaunchFails(n) \/ StrayEnds(n) \/ HasInstance(n)
  PROVE  Types'
<1>1. Owner[n] \in GroupIds
  BY FrontEndAssumption
<1>2. CASE LaunchStarts(n)
  BY <1>2 DEF LaunchStarts, Types
<1>3. CASE LaunchRegisters(n)
  <2>1. [groups[Owner[n]] EXCEPT !.nodes = @ \cup {n}] \in Group
    BY <1>1, GroupFields DEF Group
  <2>2. \A c \in Callers : [call[c] EXCEPT !.ok = TRUE] \in Call
    BY CallFields DEF Call
  <2> QED  BY <1>1, <1>3, <2>1, <2>2 DEF LaunchRegisters, Types
<1>4. CASE LaunchEnds(n)
  <2>1. [groups[Owner[n]] EXCEPT !.pending = @ \ {n}] \in Group
    BY <1>1, GroupFields DEF Group
  <2> QED  BY <1>1, <1>4, <2>1 DEF LaunchEnds, Types
<1>5. CASE LaunchFails(n)
  <2>1. [groups[Owner[n]] EXCEPT !.pending = @ \ {n}] \in Group
    BY <1>1, GroupFields DEF Group
  <2> QED  BY <1>1, <1>5, <2>1 DEF LaunchFails, Types, Dropped
<1>6. CASE StrayEnds(n)
  BY <1>6 DEF StrayEnds, Types
<1>7. CASE HasInstance(n)
  BY <1>7 DEF HasInstance, Types, StatusVM
<1> QED  BY <1>2, <1>3, <1>4, <1>5, <1>6, <1>7

LEMMA RefreshTypes == ASSUME Types, Refresh PROVE Types'
BY DEF Refresh, Types, StatusVM

LEMMA IncreaseTypes ==
  ASSUME Types, NEW c \in Callers, NEW id \in GroupIds, NEW delta \in 1 .. MaxNodeSize, IncreaseSize(c, id, delta)
  PROVE  Types'
<1> PICK new \in SUBSET Unused(id) :
      /\ groups' = [groups EXCEPT ![id].pending = @ \cup new]
      /\ phase' = [n \in Nodes |-> IF n \in new THEN "reserved" ELSE phase[n]]
      /\ state' = [n \in Nodes |-> IF n \in new THEN "NotCreated" ELSE state[n]]
      /\ call' = IF Grpc THEN [call EXCEPT ![c] = [NoCall EXCEPT !.pc = "launch", !.method = "IncreaseSize",
                                                               !.group = id, !.todo = new]]
                 ELSE call
  BY DEF IncreaseSize
<1>1. new \subseteq Nodes
  BY DEF Unused
<1>2. [groups[id] EXCEPT !.pending = @ \cup new] \in Group
  BY <1>1, GroupFields DEF Group
<1>3. [NoCall EXCEPT !.pc = "launch", !.method = "IncreaseSize", !.group = id, !.todo = new] \in Call
  BY <1>1, NoCallTyped, LaunchCall
<1> QED  BY <1>2, <1>3 DEF Types, IncreaseSize

LEMMA HandlerTypes ==
  ASSUME Types, NEW c \in Callers,
         \/ IncreaseEnds(c) \/ DeleteSkips(c) \/ DeletePanics(c) \/ DeleteStarts(c) \/ DeleteEnds(c) \/ Cleanup(c)
         \/ \E id \in GroupIds : Delete(c, id) \/ CleanupStarts(c, id) \/ \E docs \in SomeDeletions(id) : DeleteNodes(c, id, docs)
  PROVE  Types'
<1>1. CASE IncreaseEnds(c) \/ DeleteEnds(c)
  BY <1>1, NoCallTyped DEF IncreaseEnds, DeleteEnds, Types
<1>2. CASE DeleteSkips(c)
  <2>1. call[c].docs # <<>> => Tail(call[c].docs) \in Seq(Documents)
    BY CallFields, HeadAndTail
  <2>2. call[c].docs # <<>> => [call[c] EXCEPT !.docs = Tail(@)] \in Call
    BY <2>1, CallFields DEF Call
  <2> QED  BY <1>2, <2>2, NoCallTyped DEF DeleteSkips, Skipped, Types
<1>3. CASE DeletePanics(c)
  BY <1>3 DEF DeletePanics, Types
<1>4. CASE DeleteStarts(c)
  <2>1. [call[c] EXCEPT !.pc = "deleting"] \in Call
    BY CallFields DEF Call
  <2> QED  BY <1>4, <2>1 DEF DeleteStarts, Types
<1>5. CASE Cleanup(c)
  <2>1. [NoCall EXCEPT !.pc = "cleanup", !.method = "Cleanup", !.ok = TRUE, !.groups = {id \in GroupIds : Exists(id)}] \in Call
    BY NoCallTyped, CleanupCall
  <2> QED  BY <1>5, <2>1 DEF Cleanup, Types
<1>6. ASSUME NEW id \in GroupIds, Delete(c, id) PROVE Types'
  <2>1. [NoCall EXCEPT !.pc = "cleanup", !.method = "Delete", !.group = id, !.groups = {id}, !.ok = TRUE] \in Call
    BY NoCallTyped, DeleteCall
  <2> QED  BY <1>6, <2>1 DEF Delete, Types
<1>7. ASSUME NEW id \in GroupIds, CleanupStarts(c, id) PROVE Types'
  <2>1. [call[c] EXCEPT !.pc = "waiting", !.group = id] \in Call
    BY CallFields DEF Call
  <2>2. [groups[id] EXCEPT !.status = "Deleting"] \in Group
    BY GroupFields DEF Group
  <2> QED  BY <1>7, <2>1, <2>2 DEF CleanupStarts, Types
<1>8. ASSUME NEW id \in GroupIds, NEW docs \in SomeDeletions(id), DeleteNodes(c, id, docs) PROVE Types'
  <2>1. [NoCall EXCEPT !.pc = "delete", !.method = "DeleteNodes", !.group = id, !.docs = docs, !.ok = TRUE] \in Call
    BY DeletionsTyped, NoCallTyped, DeleteNodesCall
  <2> QED  BY <1>8, <2>1 DEF DeleteNodes, Types
<1> QED  BY <1>1, <1>2, <1>3, <1>4, <1>5, <1>6, <1>7, <1>8

LEMMA DeletionTypes ==
  ASSUME Types, CallTrue, NEW c \in Callers, DeleteFails(c) \/ DeleteDone(c)
  PROVE  Types'
<1> DEFINE doc == Head(call[c].docs)
<1>1. \A g \in Group : Forgotten(g, doc.name) \in Group
  BY DEF Forgotten, Group
<1>2. groups' = [groups EXCEPT ![doc.group] = Forgotten(@, doc.name)]
  BY DEF DeleteFails, DeleteDone
<1>3. groups' \in [GroupIds -> Group]
  BY <1>1, <1>2 DEF Types
<1>4. NextDocument(c) \in Call
  <2>1. call[c].docs # <<>>
    BY DEF DeleteFails, DeleteDone, CallTrue
  <2>2. Tail(call[c].docs) \in Seq(Documents)
    BY <2>1, CallFields, HeadAndTail
  <2> QED  BY <2>2, CallFields DEF NextDocument, Call
<1>5. [NextDocument(c) EXCEPT !.ok = FALSE] \in Call
  BY <1>4 DEF Call
<1>6. call' \in [Callers -> Call]
  BY <1>4, <1>5, NoCallTyped DEF DeleteFails, DeleteDone, Failed, Types
<1>7. state' \in [Nodes -> {"NotCreated", "Creating", "Running", "Deleting", "Deleted"}]
  BY DEF DeleteFails, DeleteDone, Dropped, Types
<1>8. vm' \subseteq Nodes /\ UNCHANGED <<conf, down, phase>>
  BY DEF DeleteFails, DeleteDone, Types
<1> QED  BY <1>3, <1>6, <1>7, <1>8 DEF Types

LEMMA CleanupGroupTypes == ASSUME Types, CleanerTrue, NEW c \in Callers, CleanupGroup(c) PROVE Types'
<1>1. Emptied(groups[call[c].group]) \in Group
  <2>1. call[c].group \in GroupIds
    BY CallFields DEF CleanerTrue, CleanupGroup
  <2> QED  BY <2>1, GroupFields DEF Emptied, Group
<1>2. groups' = [groups EXCEPT ![call[c].group] = Emptied(@)]
  BY DEF CleanupGroup
<1>3. PICK last \in BOOLEAN :
        call' = [call EXCEPT ![c].pc = "cleanup", ![c].groups = @ \ {call[c].group},
                             ![c].ok = IF call[c].method = "Delete" THEN ~last ELSE @ /\ ~last]
  BY DEF CleanupGroup
<1>4. call' \in [Callers -> Call]
  <2>1. [call[c] EXCEPT !.pc = "cleanup", !.groups = @ \ {call[c].group},
                        !.ok = IF call[c].method = "Delete" THEN ~last ELSE @ /\ ~last] \in Call
    BY CallFields DEF Call
  <2> QED  BY <1>3, <2>1 DEF Types
<1>5. /\ state' \in [Nodes -> {"NotCreated", "Creating", "Running", "Deleting", "Deleted"}]
      /\ phase' \in [Nodes -> {"no", "reserved", "launching", "registered", "stray"}]
  BY DEF CleanupGroup, Dropped, Types
<1>6. vm' \subseteq Nodes /\ UNCHANGED <<conf, down>>
  BY DEF CleanupGroup, Types
<1> QED  BY <1>1, <1>2, <1>4, <1>5, <1>6 DEF Types

LEMMA CleanupEndsTypes == ASSUME Types, NEW c \in Callers, CleanupEnds(c) PROVE Types'
<1>1. Kept(c) \in [GroupIds -> Group]
  BY AbsentTyped DEF Kept, Types
<1> QED  BY <1>1, NoCallTyped DEF CleanupEnds, Types

-----------------------------------------------------------------------------
(* The books of the groups *)

\* A deletion takes a node from its group and leaves all else.
LEMMA DeletionShrinks ==
  ASSUME Types, NEW c \in Callers, DeleteFails(c) \/ DeleteDone(c), NEW id \in GroupIds
  PROVE  /\ groups'[id].status = groups[id].status
         /\ \A n : n \in groups'[id].nodes
                     <=> n \in groups[id].nodes /\ ~(id = Head(call[c].docs).group /\ n = Head(call[c].docs).name)
         /\ \A n : n \in groups'[id].pending
                     <=> n \in groups[id].pending /\ ~(id = Head(call[c].docs).group /\ n = Head(call[c].docs).name)
         /\ UNCHANGED <<conf, down, phase>>
<1> DEFINE doc == Head(call[c].docs)
<1>1. groups' = [groups EXCEPT ![doc.group] = Forgotten(@, doc.name)] /\ UNCHANGED <<conf, down, phase>>
  BY DEF DeleteFails, DeleteDone
<1>2. groups'[id] = IF id = doc.group THEN Forgotten(groups[id], doc.name) ELSE groups[id]
  BY <1>1 DEF Types
<1>3. /\ Forgotten(groups[id], doc.name).status = groups[id].status
      /\ Forgotten(groups[id], doc.name).nodes = groups[id].nodes \ {doc.name}
      /\ Forgotten(groups[id], doc.name).pending = groups[id].pending \ {doc.name}
  BY GroupFields DEF Forgotten, Group
<1> QED  BY <1>1, <1>2, <1>3

LEMMA BooksUnchanged == ASSUME Books, UNCHANGED <<groups, phase>> PROVE Books'
BY DEF Books, ListedOnce, OthersEmpty, Members, Busy

LEMMA DeletionBooks == ASSUME Types, Books, NEW c \in Callers, DeleteFails(c) \/ DeleteDone(c) PROVE Books'
<1>1. ListedOnce'
  BY DeletionShrinks DEF Books, ListedOnce, Members
<1>2. OthersEmpty'
  BY DeletionShrinks DEF Books, OthersEmpty, Members, Busy
<1> QED  BY <1>1, <1>2 DEF Books

\* What Create and Connect make of a group.
LEMMA CreateEffect ==
  ASSUME NEW g \in Group
  PROVE  LET new == CreateNodeGroup(g) IN
         /\ new.nodes = g.nodes /\ new.pending = g.pending /\ new.min = g.min
         /\ new.status = g.status \/ (g.status = "NotCreated" /\ new.status = "Created")
BY DEF CreateNodeGroup, Group

LEMMA NewGroupEffect ==
  ASSUME Types, NEW id \in GroupIds, NEW min \in conf.mins, Connect(id, min) \/ NewNodeGroup(id, min)
  PROVE  /\ Grpc /\ MaySend /\ groups[id].status = "absent"
         /\ groups' = [groups EXCEPT ![id] = groups'[id]]
         /\ groups'[id].status \in {"NotCreated", "Created"} /\ Members(id)' = {}
         /\ UNCHANGED <<conf, down, state, phase, vm, call>>
<1>1. min \in {0, 1}
  BY ConfFields
<1>2. CASE Connect(id, min)
  <2> DEFINE g == [Absent EXCEPT !.status = "NotCreated", !.min = min, !.auto = TRUE]
  <2>1. g \in Group /\ g.status = "NotCreated" /\ g.nodes = {} /\ g.pending = {}
    BY <1>1 DEF Absent, Group
  <2>2. groups' = [groups EXCEPT ![id] = CreateNodeGroup(g)]
    BY <1>2 DEF Connect
  <2> HIDE DEF g
  <2>3. groups'[id] = CreateNodeGroup(g)
    BY <2>2 DEF Types
  <2>4. groups'[id].nodes = {} /\ groups'[id].pending = {} /\ groups'[id].status \in {"NotCreated", "Created"}
    BY <2>1, <2>3, CreateEffect
  <2> QED  BY <1>2, <2>2, <2>3, <2>4 DEF Connect, Exists, Members
<1>3. CASE NewNodeGroup(id, min)
  <2> DEFINE g == [Absent EXCEPT !.status = "NotCreated", !.min = min]
  <2>1. g.status = "NotCreated" /\ g.nodes = {} /\ g.pending = {}
    BY <1>1 DEF Absent
  <2>2. groups' = [groups EXCEPT ![id] = g]
    BY <1>3 DEF NewNodeGroup
  <2> HIDE DEF g
  <2>3. groups'[id] = g
    BY <2>2 DEF Types
  <2> QED  BY <1>3, <2>1, <2>2, <2>3 DEF NewNodeGroup, Exists, Members
<1> QED  BY <1>2, <1>3

LEMMA NewGroupBooks ==
  ASSUME Types, Books, NEW id \in GroupIds, NEW min \in conf.mins, Connect(id, min) \/ NewNodeGroup(id, min)
  PROVE  Books'
<1>1. \A i \in GroupIds \ {id} : groups'[i] = groups[i]
  BY NewGroupEffect DEF Types
<1>2. ListedOnce'
  BY <1>1, NewGroupEffect DEF Books, ListedOnce, Members
<1>3. OthersEmpty'
  BY <1>1, NewGroupEffect DEF Books, OthersEmpty, Members, Busy
<1> QED  BY <1>2, <1>3 DEF Books

\* Create and the beginning of a clean-up change the status alone.
LEMMA StatusEffect ==
  ASSUME Types, NEW id \in GroupIds, Create(id) \/ \E c \in Callers : CleanupStarts(c, id)
  PROVE  /\ \A i \in GroupIds : groups'[i].nodes = groups[i].nodes /\ groups'[i].pending = groups[i].pending
         /\ \A i \in GroupIds \ {id} : groups'[i] = groups[i]
         /\ groups'[id].status = IF Create(id) THEN "Created" ELSE "Deleting"
         /\ UNCHANGED <<conf, down, state, phase, vm>>
<1>1. CASE Create(id)
  <2>1. groups'[id] = CreateNodeGroup(groups[id]) /\ CreateNodeGroup(groups[id]) # groups[id]
    BY <1>1 DEF Create, Types
  <2>2. groups'[id].status = "Created" /\ groups'[id].nodes = groups[id].nodes /\ groups'[id].pending = groups[id].pending
    BY <2>1, GroupFields DEF CreateNodeGroup, Group
  <2> QED  BY <1>1, <2>2 DEF Create, Types
<1>2. CASE ~Create(id)
  <2> PICK c \in Callers : CleanupStarts(c, id)
    BY <1>2
  <2>1. groups'[id] = [groups[id] EXCEPT !.status = "Deleting"]
    BY DEF CleanupStarts, Types
  <2>2. groups'[id].status = "Deleting" /\ groups'[id].nodes = groups[id].nodes /\ groups'[id].pending = groups[id].pending
    BY <2>1, GroupFields DEF Group
  <2> QED  BY <1>2, <2>2 DEF CleanupStarts, Types
<1> QED  BY <1>1, <1>2

LEMMA StatusBooks ==
  ASSUME Types, Books, NEW id \in GroupIds, Create(id) \/ \E c \in Callers : CleanupStarts(c, id)
  PROVE  Books'
<1>1. ListedOnce'
  BY StatusEffect DEF Books, ListedOnce, Members
<1>2. OthersEmpty'
  BY StatusEffect DEF Books, OthersEmpty, Members, Busy
<1> QED  BY <1>1, <1>2 DEF Books

LEMMA TargetSizeNat ==
  ASSUME Types, NEW id \in GroupIds
  PROVE  /\ IsFiniteSet(groups[id].nodes) /\ IsFiniteSet(groups[id].pending)
         /\ Cardinality(groups[id].nodes) \in Nat /\ Cardinality(groups[id].pending) \in Nat
         /\ TargetSize(groups[id]) \in Nat
<1>1. IsFiniteSet(groups[id].nodes) /\ IsFiniteSet(groups[id].pending)
  BY GroupFields, FrontEndAssumption, FS_Subset
<1> QED  BY <1>1, FS_CardinalityType DEF TargetSize

\* Names are given to nodes the group does not have; a group that gives names is Created.
Reserves(c, id, delta, new) ==
  /\ \A n \in new : Owner[n] = id /\ n \notin Members(id) /\ n \notin vm /\ phase[n] = "no"
  /\ Cardinality(new) = delta /\ TargetSize(groups[id]) + delta <= MaxNodeSize
  /\ groups[id].status = "Created" /\ groups'[id].status = "Created"
  /\ groups'[id].nodes = groups[id].nodes /\ groups'[id].pending = groups[id].pending \cup new
  /\ \A i \in GroupIds \ {id} : groups'[i] = groups[i]
  /\ \A n \in Nodes : phase'[n] = IF n \in new THEN "reserved" ELSE phase[n]
  /\ \A n \in Nodes : state'[n] = IF n \in new THEN "NotCreated" ELSE state[n]
  /\ \A d \in Callers \ {c} : call'[d] = call[d]
  /\ IF Grpc THEN call'[c].pc = "launch" /\ call'[c].method = "IncreaseSize" /\ call'[c].todo = new
     ELSE call' = call
  /\ call[c].pc = "idle" /\ MaySend
  /\ UNCHANGED <<conf, down, vm>>

LEMMA IncreaseEffect ==
  ASSUME Types, NEW c \in Callers, NEW id \in GroupIds, NEW delta \in 1 .. MaxNodeSize, IncreaseSize(c, id, delta)
  PROVE  \E new \in SUBSET Nodes : Reserves(c, id, delta, new)
<1> PICK new \in SUBSET Unused(id) :
      /\ Cardinality(new) = delta
      /\ groups' = [groups EXCEPT ![id].pending = @ \cup new]
      /\ phase' = [n \in Nodes |-> IF n \in new THEN "reserved" ELSE phase[n]]
      /\ state' = [n \in Nodes |-> IF n \in new THEN "NotCreated" ELSE state[n]]
      /\ call' = IF Grpc THEN [call EXCEPT ![c] = [NoCall EXCEPT !.pc = "launch", !.method = "IncreaseSize",
                                                               !.group = id, !.todo = new]]
                 ELSE call
  BY DEF IncreaseSize
<1>1. new \in SUBSET Nodes /\ \A n \in new : Owner[n] = id /\ n \notin Members(id) /\ n \notin vm /\ phase[n] = "no"
  BY DEF Unused, FindNamedNode, Members
<1>2. groups'[id] = [groups[id] EXCEPT !.pending = @ \cup new] /\ \A i \in GroupIds \ {id} : groups'[i] = groups[i]
  BY DEF Types
<1>3. /\ groups'[id].status = groups[id].status /\ groups'[id].nodes = groups[id].nodes
      /\ groups'[id].pending = groups[id].pending \cup new
  BY <1>2, GroupFields DEF Group
<1>4. /\ TargetSize(groups[id]) + delta <= MaxNodeSize /\ groups[id].status = "Created"
      /\ call[c].pc = "idle" /\ MaySend /\ UNCHANGED <<conf, down, vm>>
  <2>1. ~(TargetSize(groups[id]) + delta > MaxNodeSize) /\ groups[id].status = "Created"
    BY DEF IncreaseSize, IncreaseRefused
  <2>2. TargetSize(groups[id]) + delta <= MaxNodeSize
    <3>1. MaxNodeSize \in Nat /\ TargetSize(groups[id]) \in Nat
      BY TargetSizeNat, FrontEndAssumption
    <3> QED  BY <2>1, <3>1
  <2> QED  BY <2>1, <2>2 DEF IncreaseSize, Sends
<1>5. /\ \A d \in Callers \ {c} : call'[d] = call[d]
      /\ IF Grpc THEN call'[c].pc = "launch" /\ call'[c].method = "IncreaseSize" /\ call'[c].todo = new ELSE call' = call
  <2> DEFINE k == [NoCall EXCEPT !.pc = "launch", !.method = "IncreaseSize", !.group = id, !.todo = new]
  <2>1. k.pc = "launch" /\ k.method = "IncreaseSize" /\ k.todo = new
    BY DEF NoCall
  <2>2. call' = IF Grpc THEN [call EXCEPT ![c] = k] ELSE call
    OBVIOUS
  <2> HIDE DEF k
  <2> QED  BY <2>1, <2>2 DEF Types
<1> QED  BY <1>1, <1>2, <1>3, <1>4, <1>5 DEF Reserves

LEMMA IncreaseBooks ==
  ASSUME Types, Books, NEW c \in Callers, NEW id \in GroupIds, NEW delta \in 1 .. MaxNodeSize, IncreaseSize(c, id, delta)
  PROVE  Books'
<1> PICK new \in SUBSET Nodes : Reserves(c, id, delta, new)
  BY IncreaseEffect
<1>1. ListedOnce'
  BY GroupFields DEF Books, ListedOnce, Members, Reserves
<1>2. OthersEmpty'
  BY DEF Books, OthersEmpty, Members, Busy, Reserves
<1> QED  BY <1>1, <1>2 DEF Books

LEMMA LaunchBooks ==
  ASSUME Types, Books, NEW n \in Nodes,
         LaunchStarts(n) \/ LaunchRegisters(n) \/ LaunchEnds(n) \/ LaunchFails(n) \/ StrayEnds(n)
  PROVE  Books'
<1>1. Owner[n] \in GroupIds /\ phase \in [Nodes -> {"no", "reserved", "launching", "registered", "stray"}]
  BY FrontEndAssumption DEF Types
<1>2. CASE LaunchStarts(n)
  <2>1. /\ UNCHANGED groups /\ phase[n] = "reserved" /\ \A m \in Nodes \ {n} : phase'[m] = phase[m]
        /\ phase'[n] = IF groups[Owner[n]].status = "Created" THEN "launching" ELSE "no"
    BY <1>1, <1>2 DEF LaunchStarts
  <2>2. ListedOnce'
    BY <2>1, GroupFields DEF Books, ListedOnce, Members
  <2>3. OthersEmpty'
    BY <2>1 DEF Books, OthersEmpty, Members, Busy
  <2> QED  BY <2>2, <2>3 DEF Books
<1>3. CASE LaunchRegisters(n)
  <2>1. /\ phase[n] = "launching" /\ phase'[n] = "registered" /\ \A m \in Nodes \ {n} : phase'[m] = phase[m]
        /\ groups' = [groups EXCEPT ![Owner[n]].nodes = @ \cup {n}]
    BY <1>1, <1>3 DEF LaunchRegisters
  <2>2. /\ \A i \in GroupIds \ {Owner[n]} : groups'[i] = groups[i]
        /\ groups'[Owner[n]].status = groups[Owner[n]].status /\ groups'[Owner[n]].pending = groups[Owner[n]].pending
        /\ groups'[Owner[n]].nodes = groups[Owner[n]].nodes \cup {n}
    BY <1>1, <2>1, GroupFields DEF Types, Group
  <2>3. ListedOnce'
    BY <2>1, <2>2, GroupFields DEF Books, ListedOnce, Members
  <2>4. OthersEmpty'
    BY <1>1, <2>1, <2>2 DEF Books, OthersEmpty, Members, Busy
  <2> QED  BY <2>3, <2>4 DEF Books
<1>4. CASE LaunchEnds(n) \/ LaunchFails(n)
  <2>1. /\ phase[n] \in {"launching", "registered"} /\ phase'[n] = "no" /\ \A m \in Nodes \ {n} : phase'[m] = phase[m]
        /\ groups' = [groups EXCEPT ![Owner[n]].pending = @ \ {n}]
    BY <1>1, <1>4 DEF LaunchEnds, LaunchFails
  <2>2. /\ \A i \in GroupIds \ {Owner[n]} : groups'[i] = groups[i]
        /\ groups'[Owner[n]].status = groups[Owner[n]].status /\ groups'[Owner[n]].nodes = groups[Owner[n]].nodes
        /\ groups'[Owner[n]].pending = groups[Owner[n]].pending \ {n}
    BY <1>1, <2>1, GroupFields DEF Types, Group
  <2>3. ListedOnce'
    BY <2>1, <2>2, GroupFields DEF Books, ListedOnce, Members
  <2>4. OthersEmpty'
    BY <1>1, <2>1, <2>2 DEF Books, OthersEmpty, Members, Busy
  <2> QED  BY <2>3, <2>4 DEF Books
<1>5. CASE StrayEnds(n)
  <2>1. UNCHANGED groups /\ phase[n] = "stray" /\ phase'[n] = "no" /\ \A m \in Nodes \ {n} : phase'[m] = phase[m]
    BY <1>1, <1>5 DEF StrayEnds
  <2>2. ListedOnce'
    BY <2>1, GroupFields DEF Books, ListedOnce, Members
  <2>3. OthersEmpty'
    BY <2>1 DEF Books, OthersEmpty, Members, Busy
  <2> QED  BY <2>2, <2>3 DEF Books
<1> QED  BY <1>2, <1>3, <1>4, <1>5

\* A group that was cleaned up is empty, and its launches are at an end.
Empties(c, id) ==
  /\ id \in GroupIds /\ id = call[c].group /\ call[c].pc = "waiting"
  /\ groups'[id].status = "Deleted" /\ groups'[id].nodes = {} /\ groups'[id].pending = {}
  /\ \A i \in GroupIds \ {id} : groups'[i] = groups[i]
  /\ \A n \in Nodes : Owner[n] = id => phase[n] \notin {"launching", "registered"}
  /\ \A n \in Nodes : phase'[n] = IF Owner[n] = id /\ phase[n] # "stray" THEN "no" ELSE phase[n]
  /\ \A d \in Callers \ {c} : call'[d] = call[d]
  /\ call'[c].pc = "cleanup" /\ call'[c].method = call[c].method /\ call'[c].group = id
  /\ call'[c].groups = call[c].groups \ {id} /\ call'[c].docs = call[c].docs /\ call'[c].todo = call[c].todo
  /\ UNCHANGED <<conf, down>>

LEMMA CleanupGroupEffect ==
  ASSUME Types, CleanerTrue, NEW c \in Callers, CleanupGroup(c)
  PROVE  Empties(c, call[c].group)
<1> DEFINE id == call[c].group
<1>1. id \in GroupIds /\ call[c].pc = "waiting"
  BY CallFields DEF CleanerTrue, CleanupGroup
<1>2. groups' = [groups EXCEPT ![id] = Emptied(@)]
  BY DEF CleanupGroup
<1>3. /\ groups'[id].status = "Deleted" /\ groups'[id].nodes = {} /\ groups'[id].pending = {}
      /\ \A i \in GroupIds \ {id} : groups'[i] = groups[i]
  <2>1. groups'[id] = Emptied(groups[id]) /\ \A i \in GroupIds \ {id} : groups'[i] = groups[i]
    BY <1>1, <1>2 DEF Types
  <2> QED  BY <1>1, <2>1, GroupFields DEF Emptied, Group
<1>4. \A n \in Nodes : Owner[n] = id => phase[n] \notin {"launching", "registered"}
  BY DEF CleanupGroup, Waited, Launching
<1>5. \A n \in Nodes : phase'[n] = IF Owner[n] = id /\ phase[n] # "stray" THEN "no" ELSE phase[n]
  BY DEF CleanupGroup
<1>6. PICK last \in BOOLEAN :
        call' = [call EXCEPT ![c].pc = "cleanup", ![c].groups = @ \ {id},
                             ![c].ok = IF call[c].method = "Delete" THEN ~last ELSE @ /\ ~last]
  BY DEF CleanupGroup
<1>7. /\ \A d \in Callers \ {c} : call'[d] = call[d]
      /\ call'[c].pc = "cleanup" /\ call'[c].method = call[c].method /\ call'[c].group = id
      /\ call'[c].groups = call[c].groups \ {id} /\ call'[c].docs = call[c].docs /\ call'[c].todo = call[c].todo
  BY <1>6, CallFields DEF Types, Call
<1>8. UNCHANGED <<conf, down>>
  BY DEF CleanupGroup
<1> QED  BY <1>1, <1>3, <1>4, <1>5, <1>7, <1>8 DEF Empties

LEMMA CleanupGroupBooks ==
  ASSUME Types, CleanerTrue, Books, NEW c \in Callers, CleanupGroup(c)
  PROVE  Books'
<1>1. Empties(c, call[c].group)
  BY CleanupGroupEffect
<1>2. ListedOnce'
  BY <1>1, GroupFields DEF Empties, Books, ListedOnce, Members
<1>3. OthersEmpty'
  BY <1>1 DEF Empties, Books, OthersEmpty, Members, Busy
<1> QED  BY <1>2, <1>3 DEF Books

LEMMA CleanupEndsBooks == ASSUME Types, Books, NEW c \in Callers, CleanupEnds(c) PROVE Books'
<1>1. /\ \A i \in GroupIds : groups'[i] \in {groups[i], Absent}
      /\ \A n \in Nodes : phase'[n] = IF phase[n] # "no" /\ groups'[Owner[n]] = Absent THEN "stray" ELSE phase[n]
  BY FrontEndAssumption DEF CleanupEnds, Kept
<1>2. Absent.status = "absent" /\ Absent.nodes = {} /\ Absent.pending = {}
  BY DEF Absent
<1>3. \A n \in Nodes : Owner[n] \in GroupIds
  BY FrontEndAssumption
<1> HIDE DEF Absent
<1>4. ListedOnce'
  BY <1>1, <1>2, <1>3, GroupFields DEF Books, ListedOnce, Members
<1>5. OthersEmpty'
  BY <1>1, <1>2, <1>3 DEF Books, OthersEmpty, Members, Busy
<1> QED  BY <1>4, <1>5 DEF Books

-----------------------------------------------------------------------------
(* The handlers *)

\* A handler that goes on changes its own record.
LEMMA CallsUnchanged ==
  ASSUME Types, Calls, UNCHANGED <<conf, call>>
  PROVE  Calls'
BY DEF Calls, CleanerTrue, CallTrue, NoCall, Grpc

\* A record that stays in its method and keeps the group it is about.
LEMMA CallChanges ==
  ASSUME Types, Calls, UNCHANGED conf, NEW c \in Callers, call'[c] \in Call,
         \A d \in Callers \ {c} : call'[d] = call[d],
         call'[c].pc = "idle" => call'[c] = NoCall,
         call'[c].method \in {"Delete", "Cleanup"} <=> call'[c].pc \in {"cleanup", "waiting"},
         call'[c].method = "DeleteNodes" <=> call'[c].pc \in {"delete", "deleting"},
         call'[c].method = "IncreaseSize" <=> call'[c].pc = "launch",
         call'[c].pc = "launch" => Grpc,
         call'[c].pc = "deleting" => call'[c].docs # <<>> /\ Head(call'[c].docs).name \in Nodes,
         call'[c].method = "Delete" => Grpc /\ call'[c].group \in GroupIds /\ call'[c].groups \subseteq {call'[c].group}
                                       /\ "Delete" \notin conf.optionals,
         call'[c].pc = "waiting" => call'[c].group \in call'[c].groups,
         call'[c].method \in {"Delete", "Cleanup"} => ~CleaningUp \/ call[c].method \in {"Delete", "Cleanup"}
  PROVE  Calls'
<1>1. Grpc' = Grpc
  BY DEF Grpc
<1>2. CallTrue'
  BY <1>1 DEF Calls, CallTrue
<1>3. CleanerTrue'
  BY <1>1 DEF Calls, CleanerTrue, CleaningUp
<1> QED  BY <1>2, <1>3 DEF Calls

LEMMA HandlerBegins ==
  ASSUME Types, Calls, NEW c \in Callers,
         \/ Cleanup(c)
         \/ \E id \in GroupIds : Delete(c, id) \/ \E docs \in SomeDeletions(id) : DeleteNodes(c, id, docs)
  PROVE  Calls'
<1>1. \A k : call' = [call EXCEPT ![c] = k] => call'[c] = k /\ \A d \in Callers \ {c} : call'[d] = call[d]
  BY DEF Types
<1>2. CASE Cleanup(c)
  <2> DEFINE all == {id \in GroupIds : Exists(id)}
             k == [NoCall EXCEPT !.pc = "cleanup", !.method = "Cleanup", !.ok = TRUE, !.groups = all]
  <2>1. k \in Call /\ k.pc = "cleanup" /\ k.method = "Cleanup"
    BY NoCallTyped, CleanupCall
  <2>2. call' = [call EXCEPT ![c] = k] /\ ~CleaningUp /\ UNCHANGED conf
    BY <1>2 DEF Cleanup
  <2> HIDE DEF k
  <2>3. call'[c] = k /\ \A d \in Callers \ {c} : call'[d] = call[d]
    BY <1>1, <2>2
  <2> QED  BY <2>1, <2>2, <2>3, CallChanges
<1>3. ASSUME NEW id \in GroupIds, Delete(c, id) PROVE Calls'
  <2> DEFINE k == [NoCall EXCEPT !.pc = "cleanup", !.method = "Delete", !.group = id, !.groups = {id}, !.ok = TRUE]
  <2>1. k.pc = "cleanup" /\ k.method = "Delete" /\ k.group = id /\ k.groups = {id}
    BY DEF NoCall
  <2>4. k \in Call
    BY NoCallTyped, DeleteCall
  <2>2. call' = [call EXCEPT ![c] = k] /\ ~CleaningUp /\ Grpc /\ "Delete" \notin conf.optionals /\ UNCHANGED conf
    BY <1>3 DEF Delete
  <2> HIDE DEF k
  <2>3. call'[c] = k /\ \A d \in Callers \ {c} : call'[d] = call[d]
    BY <1>1, <2>2
  <2> QED  BY <2>1, <2>2, <2>3, <2>4, CallChanges
<1>4. ASSUME NEW id \in GroupIds, NEW docs \in SomeDeletions(id), DeleteNodes(c, id, docs) PROVE Calls'
  <2> DEFINE k == [NoCall EXCEPT !.pc = "delete", !.method = "DeleteNodes", !.group = id, !.docs = docs, !.ok = TRUE]
  <2>1. k.pc = "delete" /\ k.method = "DeleteNodes"
    BY DEF NoCall
  <2>4. k \in Call
    BY NoCallTyped, DeleteNodesCall, DeletionsTyped
  <2>2. call' = [call EXCEPT ![c] = k] /\ UNCHANGED conf
    BY <1>4 DEF DeleteNodes
  <2> HIDE DEF k
  <2>3. call'[c] = k /\ \A d \in Callers \ {c} : call'[d] = call[d]
    BY <1>1, <2>2
  <2> QED  BY <2>1, <2>2, <2>3, <2>4, CallChanges
<1> QED  BY <1>2, <1>3, <1>4

LEMMA IncreaseCalls ==
  ASSUME Types, Calls, NEW c \in Callers, NEW id \in GroupIds, NEW delta \in 1 .. MaxNodeSize, IncreaseSize(c, id, delta)
  PROVE  Calls'
<1> PICK new \in SUBSET Nodes : Reserves(c, id, delta, new)
  BY IncreaseEffect
<1>1. CASE Grpc
  <2>1. call'[c] \in Call
    BY IncreaseTypes DEF Types
  <2>2. /\ UNCHANGED conf /\ call'[c].pc = "launch" /\ call'[c].method = "IncreaseSize"
        /\ \A d \in Callers \ {c} : call'[d] = call[d]
    BY <1>1 DEF Reserves
  <2> QED  BY <1>1, <2>1, <2>2, CallChanges
<1>2. CASE ~Grpc
  BY <1>2, CallsUnchanged DEF Reserves
<1> QED  BY <1>1, <1>2

LEMMA HandlerEnds ==
  ASSUME Types, Calls, NEW c \in Callers, call' = [call EXCEPT ![c] = NoCall], UNCHANGED conf
  PROVE  Calls'
<1>1. call'[c] = NoCall /\ \A d \in Callers \ {c} : call'[d] = call[d]
  BY DEF Types
<1>2. NoCall.pc = "idle" /\ NoCall.method = "none"
  BY DEF NoCall
<1> QED  BY <1>1, <1>2, NoCallTyped, CallChanges

\* A handler that deletes nodes goes from one to the next.
Proceeds(c) ==
  \/ call' = [call EXCEPT ![c] = NoCall]
  \/ /\ \A d \in Callers \ {c} : call'[d] = call[d]
     /\ call'[c].pc = "delete" /\ call'[c].method = "DeleteNodes" /\ call'[c].docs = Tail(call[c].docs)

LEMMA DeletionProceeds ==
  ASSUME Types, CallTrue, NEW c \in Callers, DeleteSkips(c) \/ DeleteFails(c) \/ DeleteDone(c)
  PROVE  Proceeds(c) /\ call[c].docs # <<>> /\ call[c].pc \in {"delete", "deleting"} /\ UNCHANGED conf
<1>1. call[c].docs # <<>> /\ call[c].pc \in {"delete", "deleting"} /\ call[c].method = "DeleteNodes" /\ UNCHANGED conf
  BY DEF DeleteSkips, DeleteFails, DeleteDone, CallTrue
<1>2. /\ NextDocument(c).pc = "delete" /\ NextDocument(c).docs = Tail(call[c].docs) /\ NextDocument(c).method = "DeleteNodes"
      /\ [NextDocument(c) EXCEPT !.ok = FALSE].pc = "delete"
      /\ [NextDocument(c) EXCEPT !.ok = FALSE].docs = Tail(call[c].docs)
      /\ [NextDocument(c) EXCEPT !.ok = FALSE].method = "DeleteNodes"
  BY <1>1, CallFields DEF NextDocument, Call
<1>3. \A k : call' = [call EXCEPT ![c] = k] => call'[c] = k /\ \A d \in Callers \ {c} : call'[d] = call[d]
  BY DEF Types
<1>4. CASE DeleteSkips(c)
  <2>1. /\ [call[c] EXCEPT !.docs = Tail(@)].pc = call[c].pc
        /\ [call[c] EXCEPT !.docs = Tail(@)].docs = Tail(call[c].docs)
        /\ [call[c] EXCEPT !.docs = Tail(@)].method = call[c].method
    BY CallFields DEF Call
  <2> QED  BY <1>1, <1>3, <1>4, <2>1 DEF DeleteSkips, Skipped, Proceeds
<1>5. CASE DeleteFails(c)
  BY <1>1, <1>2, <1>3, <1>5 DEF DeleteFails, Failed, Proceeds
<1>6. CASE DeleteDone(c)
  BY <1>1, <1>2, <1>3, <1>6 DEF DeleteDone, Proceeds
<1> QED  BY <1>1, <1>4, <1>5, <1>6

LEMMA DeletionCalls ==
  ASSUME Types, Calls, NEW c \in Callers, Types', DeleteSkips(c) \/ DeleteFails(c) \/ DeleteDone(c)
  PROVE  Calls'
<1>1. Proceeds(c) /\ UNCHANGED conf
  BY DeletionProceeds DEF Calls
<1>2. CASE call' = [call EXCEPT ![c] = NoCall]
  BY <1>1, <1>2, HandlerEnds
<1>3. CASE call' # [call EXCEPT ![c] = NoCall]
  <2>1. /\ \A d \in Callers \ {c} : call'[d] = call[d]
        /\ call'[c].pc = "delete" /\ call'[c].method = "DeleteNodes" /\ call'[c] \in Call
    BY <1>1, <1>3 DEF Proceeds, Types
  <2> QED  BY <1>1, <2>1, CallChanges
<1> QED  BY <1>2, <1>3

LEMMA DeleteStartsEffect ==
  ASSUME Types, NEW c \in Callers, DeleteStarts(c)
  PROVE  /\ \A d \in Callers \ {c} : call'[d] = call[d]
         /\ call'[c] = [call[c] EXCEPT !.pc = "deleting"]
         /\ call'[c].pc = "deleting" /\ call'[c].method = call[c].method /\ call'[c].docs = call[c].docs
         /\ call[c].pc = "delete" /\ call[c].docs # <<>> /\ Head(call[c].docs).name \in vm
         /\ state' = [state EXCEPT ![Head(call[c].docs).name] = "Deleting"]
         /\ UNCHANGED <<conf, down, groups, phase, vm>>
<1>1. \A d \in Callers \ {c} : call'[d] = call[d]
  BY DEF DeleteStarts, Types
<1>2. call'[c] = [call[c] EXCEPT !.pc = "deleting"]
  BY DEF DeleteStarts, Types
<1>3. call'[c].pc = "deleting" /\ call'[c].method = call[c].method /\ call'[c].docs = call[c].docs
  BY <1>2, CallFields DEF Call
<1> QED  BY <1>1, <1>2, <1>3 DEF DeleteStarts, Deletable

LEMMA DeleteStartsCalls == ASSUME Types, Calls, Types', NEW c \in Callers, DeleteStarts(c) PROVE Calls'
<1>1. Head(call[c].docs).name \in Nodes
  BY DeleteStartsEffect DEF Types
<1>2. call'[c] \in Call
  BY DEF Types
<1>3. call[c].method = "DeleteNodes"
  BY DeleteStartsEffect DEF Calls, CallTrue
<1> QED  BY <1>1, <1>2, <1>3, DeleteStartsEffect, CallChanges

LEMMA CleanupStartsEffect ==
  ASSUME Types, NEW c \in Callers, NEW id \in GroupIds, CleanupStarts(c, id)
  PROVE  /\ \A d \in Callers \ {c} : call'[d] = call[d]
         /\ call'[c].pc = "waiting" /\ call'[c].group = id /\ call'[c].method = call[c].method
         /\ call'[c].groups = call[c].groups /\ call'[c].ok = call[c].ok
         /\ call[c].pc = "cleanup" /\ id \in call[c].groups
<1>1. call' = [call EXCEPT ![c] = [call[c] EXCEPT !.pc = "waiting", !.group = id]]
  BY DEF CleanupStarts
<1>2. (\A d \in Callers \ {c} : call'[d] = call[d]) /\ call'[c] = [call[c] EXCEPT !.pc = "waiting", !.group = id]
  BY <1>1 DEF Types
<1>3. /\ call'[c].pc = "waiting" /\ call'[c].group = id /\ call'[c].method = call[c].method
      /\ call'[c].groups = call[c].groups /\ call'[c].ok = call[c].ok
  BY <1>2, CallFields DEF Call
<1> QED  BY <1>2, <1>3 DEF CleanupStarts

LEMMA CleanupStartsCalls ==
  ASSUME Types, Calls, Types', NEW c \in Callers, NEW id \in GroupIds, CleanupStarts(c, id) PROVE Calls'
<1>1. call'[c] \in Call /\ UNCHANGED conf
  BY DEF Types, CleanupStarts
<1>2. call[c].method \in {"Delete", "Cleanup"} /\ call[c].pc = "cleanup" /\ id \in call[c].groups
  BY CleanupStartsEffect DEF Calls, CleanerTrue
<1>3. call[c].method = "Delete" => call[c].group = id /\ Grpc /\ "Delete" \notin conf.optionals /\ call[c].groups \subseteq {id}
  BY <1>2 DEF Calls, CleanerTrue
<1> QED  BY <1>1, <1>2, <1>3, CleanupStartsEffect, CallChanges

LEMMA CleanupGroupCalls == ASSUME Types, Calls, Types', NEW c \in Callers, CleanupGroup(c) PROVE Calls'
<1>1. Empties(c, call[c].group)
  BY CleanupGroupEffect DEF Calls
<1>2. call'[c] \in Call
  BY DEF Types
<1>3. call[c].method \in {"Delete", "Cleanup"}
  BY <1>1 DEF Empties, Calls, CleanerTrue
<1>4. /\ UNCHANGED conf /\ \A d \in Callers \ {c} : call'[d] = call[d]
      /\ call'[c].pc = "cleanup" /\ call'[c].method = call[c].method /\ call'[c].group = call[c].group
      /\ call'[c].groups \subseteq call[c].groups
  BY <1>1 DEF Empties
<1>5. call[c].method = "Delete" => Grpc /\ call[c].group \in GroupIds /\ call[c].groups \subseteq {call[c].group}
                                   /\ "Delete" \notin conf.optionals
  BY DEF Calls, CleanerTrue
<1>6. call'[c].method = "Delete" => Grpc /\ call'[c].group \in GroupIds /\ call'[c].groups \subseteq {call'[c].group}
                                    /\ "Delete" \notin conf.optionals
  BY <1>4, <1>5
<1> QED  BY <1>2, <1>3, <1>4, <1>6, CallChanges

-----------------------------------------------------------------------------
(* The steps, by what they are about *)

\* Steps that leave the groups and their launches alone.
Aside ==
  \/ \E c \in Callers, id \in GroupIds : Delete(c, id) \/ \E docs \in SomeDeletions(id) : DeleteNodes(c, id, docs)
  \/ \E c \in Callers : IncreaseEnds(c) \/ DeleteSkips(c) \/ DeletePanics(c) \/ DeleteStarts(c) \/ DeleteEnds(c) \/ Cleanup(c)
  \/ \E n \in Nodes : HasInstance(n)
  \/ Refresh
\* Steps that leave the handlers in their place.
Launches ==
  \E n \in Nodes : LaunchStarts(n) \/ LaunchRegisters(n) \/ LaunchEnds(n) \/ LaunchFails(n) \/ StrayEnds(n)
NewGroups == \E id \in GroupIds, min \in conf.mins : Connect(id, min) \/ NewNodeGroup(id, min)
Increases == \E c \in Callers, id \in GroupIds, delta \in 1 .. MaxNodeSize : IncreaseSize(c, id, delta)
Deletions == \E c \in Callers : DeleteFails(c) \/ DeleteDone(c)

LEMMA Steps ==
  ASSUME Next
  PROVE  /\ ~down
         /\ \/ Aside \/ Launches \/ NewGroups \/ Increases \/ Deletions
            \/ \E id \in GroupIds : Create(id)
            \/ \E c \in Callers, id \in GroupIds : CleanupStarts(c, id)
            \/ \E c \in Callers : CleanupGroup(c) \/ CleanupEnds(c)
BY DEF Next, Work, Aside, Launches, NewGroups, Increases, Deletions

LEMMA AsideUnchanged == ASSUME Aside PROVE UNCHANGED <<conf, groups, phase, vm>>
BY DEF Aside, Delete, DeleteNodes, IncreaseEnds, DeleteSkips, DeletePanics, DeleteStarts, DeleteEnds, Cleanup, HasInstance, Refresh

LEMMA LaunchUnchanged == ASSUME Launches PROVE UNCHANGED <<conf, down>>
BY DEF Launches, LaunchStarts, LaunchRegisters, LaunchEnds, LaunchFails, StrayEnds

\* A registration notes the success in the call that waits for it.
LEMMA LaunchCalls ==
  ASSUME Types, Calls, Launches, NEW c \in Callers
  PROVE  /\ UNCHANGED <<conf, down>>
         /\ call'[c] = call[c] \/ (call[c].pc # "idle" /\ call'[c] = [call[c] EXCEPT !.ok = TRUE])
         /\ call'[c].pc = call[c].pc /\ call'[c].method = call[c].method /\ call'[c].group = call[c].group
         /\ call'[c].groups = call[c].groups /\ call'[c].docs = call[c].docs /\ call'[c].todo = call[c].todo
         /\ call[c].ok => call'[c].ok
<1>1. PICK n \in Nodes : LaunchStarts(n) \/ LaunchRegisters(n) \/ LaunchEnds(n) \/ LaunchFails(n) \/ StrayEnds(n)
  BY DEF Launches
<1>2. UNCHANGED <<conf, down>> /\ (UNCHANGED call \/ LaunchRegisters(n))
  BY <1>1 DEF LaunchStarts, LaunchRegisters, LaunchEnds, LaunchFails, StrayEnds
<1>3. ASSUME LaunchRegisters(n)
      PROVE  call'[c] = call[c] \/ (call[c].pc # "idle" /\ call'[c] = [call[c] EXCEPT !.ok = TRUE])
  <2>1. NoCall.todo = {}
    BY DEF NoCall
  <2>2. call[c].pc = "idle" => call[c].todo = {}
    BY <2>1 DEF Calls, CallTrue
  <2> QED  BY <1>3, <2>2 DEF LaunchRegisters
<1>4. call'[c] = call[c] \/ (call[c].pc # "idle" /\ call'[c] = [call[c] EXCEPT !.ok = TRUE])
  BY <1>2, <1>3
<1> QED  BY <1>2, <1>4, CallFields DEF Call

LEMMA TypesKept == ASSUME Types, Calls, Next PROVE Types'
<1>1. CASE Aside
  BY <1>1, HandlerTypes, LaunchTypes, RefreshTypes DEF Aside
<1>2. CASE Launches
  BY <1>2, LaunchTypes DEF Launches
<1>3. CASE NewGroups
  BY <1>3, ConnectTypes DEF NewGroups
<1>4. CASE Increases
  BY <1>4, IncreaseTypes DEF Increases
<1>5. CASE Deletions
  BY <1>5, DeletionTypes DEF Deletions, Calls
<1> QED  BY <1>1, <1>2, <1>3, <1>4, <1>5, Steps, CreateTypes, HandlerTypes, CleanupGroupTypes, CleanupEndsTypes DEF Calls

LEMMA BooksKept == ASSUME Types, Calls, Books, Next PROVE Books'
<1>1. CASE Aside
  BY <1>1, AsideUnchanged, BooksUnchanged
<1>2. CASE Launches
  BY <1>2, LaunchBooks DEF Launches
<1>3. CASE NewGroups
  BY <1>3, NewGroupBooks DEF NewGroups
<1>4. CASE Increases
  BY <1>4, IncreaseBooks DEF Increases
<1>5. CASE Deletions
  BY <1>5, DeletionBooks DEF Deletions
<1> QED  BY <1>1, <1>2, <1>3, <1>4, <1>5, Steps, StatusBooks, CleanupGroupBooks, CleanupEndsBooks DEF Calls

LEMMA CallsKept == ASSUME Types, Types', Calls, Next PROVE Calls'
<1>1. CASE Aside
  <2>1. ASSUME NEW c \in Callers, IncreaseEnds(c) \/ DeleteEnds(c) PROVE Calls'
    BY <2>1, HandlerEnds DEF IncreaseEnds, DeleteEnds
  <2>2. ASSUME NEW c \in Callers, DeletePanics(c) PROVE Calls'
    BY <2>2, CallsUnchanged DEF DeletePanics
  <2>3. ASSUME Refresh \/ \E n \in Nodes : HasInstance(n) PROVE Calls'
    BY <2>3, CallsUnchanged DEF Refresh, HasInstance
  <2> QED  BY <1>1, <2>1, <2>2, <2>3, HandlerBegins, DeletionCalls, DeleteStartsCalls DEF Aside
<1>2. CASE Launches
  <2>1. \A c \in Callers : call[c].pc = "idle" => call'[c] = call[c]
    BY <1>2, LaunchCalls
  <2>2. UNCHANGED <<conf, Grpc>>
    BY <1>2, LaunchUnchanged DEF Grpc
  <2>3. \A c \in Callers :
          /\ call'[c].pc = call[c].pc /\ call'[c].method = call[c].method /\ call'[c].group = call[c].group
          /\ call'[c].groups = call[c].groups /\ call'[c].docs = call[c].docs
    BY <1>2, LaunchCalls
  <2>4. CallTrue'
    BY <2>1, <2>2, <2>3 DEF Calls, CallTrue
  <2>5. CleanerTrue'
    BY <2>2, <2>3 DEF Calls, CleanerTrue
  <2> QED  BY <2>4, <2>5 DEF Calls
<1>3. CASE NewGroups
  BY <1>3, NewGroupEffect, CallsUnchanged DEF NewGroups
<1>4. CASE Increases
  BY <1>4, IncreaseCalls DEF Increases
<1>5. CASE Deletions
  BY <1>5, DeletionCalls DEF Deletions
<1>6. ASSUME NEW id \in GroupIds, Create(id) PROVE Calls'
  BY <1>6, CallsUnchanged DEF Create
<1>7. ASSUME NEW c \in Callers, CleanupEnds(c) PROVE Calls'
  BY <1>7, HandlerEnds DEF CleanupEnds
<1> QED  BY <1>1, <1>2, <1>3, <1>4, <1>5, <1>6, <1>7, Steps, CleanupStartsCalls, CleanupGroupCalls

-----------------------------------------------------------------------------
(* Who cleans up, and what is the status of the groups *)

Cleans(d) == call[d].method \in {"Delete", "Cleanup"}

\* What a step that is none of a clean-up does to the record of a handler.
KeepsTask(d) ==
  \/ ~Cleans(d) /\ ~Cleans(d)'
  \/ /\ call'[d].method = call[d].method /\ call'[d].group = call[d].group
     /\ call'[d].groups = call[d].groups
     /\ call[d].ok => call'[d].ok
  \/ ~Cleans(d) /\ call'[d].method = "Delete" /\ call'[d].groups = {call'[d].group} /\ call'[d].ok
  \/ ~Cleans(d) /\ call'[d].method = "Cleanup" /\ call'[d].groups = {id \in GroupIds : Exists(id)} /\ UNCHANGED groups

\* ... and to the status of a group.
KeepsStatus(id) ==
  \/ groups'[id].status = groups[id].status
  \/ Grpc /\ MaySend /\ groups[id].status \in {"absent", "NotCreated"} /\ groups'[id].status \in {"NotCreated", "Created"}

OtherSteps ==
  Aside \/ Launches \/ NewGroups \/ Increases \/ Deletions \/ \E id \in GroupIds : Create(id)

LEMMA TasksKept ==
  ASSUME Types, Types', Calls, OtherSteps
  PROVE  \A d \in Callers : KeepsTask(d)
<1>0. ASSUME UNCHANGED call PROVE \A d \in Callers : KeepsTask(d)
  BY <1>0 DEF KeepsTask
<1>1. ASSUME NEW c \in Callers, ~Cleans(c), ~Cleans(c)', \A d \in Callers \ {c} : call'[d] = call[d]
      PROVE  \A d \in Callers : KeepsTask(d)
  BY <1>1 DEF KeepsTask
<1>2. ASSUME NEW c \in Callers, call' = [call EXCEPT ![c] = NoCall], ~Cleans(c) PROVE \A d \in Callers : KeepsTask(d)
  <2>1. NoCall.method = "none"
    BY DEF NoCall
  <2>2. call'[c] = NoCall /\ \A d \in Callers \ {c} : call'[d] = call[d]
    BY <1>2 DEF Types
  <2> QED  BY <1>1, <1>2, <2>1, <2>2 DEF Cleans
<1>3. CASE Aside
  <2>1. ASSUME NEW c \in Callers, Cleanup(c) PROVE \A d \in Callers : KeepsTask(d)
    <3> DEFINE all == {id \in GroupIds : Exists(id)}
               k == [NoCall EXCEPT !.pc = "cleanup", !.method = "Cleanup", !.ok = TRUE, !.groups = all]
    <3>1. k.method = "Cleanup" /\ k.groups = all
      BY DEF NoCall
    <3>2. call' = [call EXCEPT ![c] = k] /\ UNCHANGED groups /\ ~Cleans(c)
      BY <2>1 DEF Cleanup, CleaningUp, Cleans
    <3> HIDE DEF k
    <3>3. call'[c] = k /\ \A d \in Callers \ {c} : call'[d] = call[d]
      BY <3>2 DEF Types
    <3> QED  BY <3>1, <3>2, <3>3 DEF KeepsTask
  <2>2. ASSUME NEW c \in Callers, NEW id \in GroupIds, Delete(c, id) PROVE \A d \in Callers : KeepsTask(d)
    <3> DEFINE k == [NoCall EXCEPT !.pc = "cleanup", !.method = "Delete", !.group = id, !.groups = {id}, !.ok = TRUE]
    <3>1. k.method = "Delete" /\ k.groups = {id} /\ k.group = id /\ k.ok
      BY DEF NoCall
    <3>2. call' = [call EXCEPT ![c] = k] /\ ~Cleans(c)
      BY <2>2 DEF Delete, CleaningUp, Cleans
    <3> HIDE DEF k
    <3>3. call'[c] = k /\ \A d \in Callers \ {c} : call'[d] = call[d]
      BY <3>2 DEF Types
    <3> QED  BY <3>1, <3>2, <3>3 DEF KeepsTask
  <2>3. ASSUME NEW c \in Callers, NEW id \in GroupIds, NEW docs \in SomeDeletions(id), DeleteNodes(c, id, docs)
        PROVE  \A d \in Callers : KeepsTask(d)
    <3> DEFINE k == [NoCall EXCEPT !.pc = "delete", !.method = "DeleteNodes", !.group = id, !.docs = docs, !.ok = TRUE]
    <3>1. k.method = "DeleteNodes"
      BY DEF NoCall
    <3>2. call' = [call EXCEPT ![c] = k] /\ call[c].pc = "idle"
      BY <2>3 DEF DeleteNodes, Sends
    <3> HIDE DEF k
    <3>3. call'[c] = k /\ \A d \in Callers \ {c} : call'[d] = call[d]
      BY <3>2 DEF Types
    <3>4. ~Cleans(c)
      BY <3>2 DEF Calls, CleanerTrue, Cleans
    <3> QED  BY <1>1, <3>1, <3>3, <3>4 DEF Cleans
  <2>4. ASSUME NEW c \in Callers, IncreaseEnds(c) \/ DeleteEnds(c) PROVE \A d \in Callers : KeepsTask(d)
    <3>1. call[c].pc \in {"launch", "delete"} /\ call' = [call EXCEPT ![c] = NoCall]
      BY <2>4 DEF IncreaseEnds, DeleteEnds
    <3> QED  BY <1>2, <3>1 DEF Calls, CleanerTrue, Cleans
  <2>5. ASSUME NEW c \in Callers, DeleteSkips(c) PROVE \A d \in Callers : KeepsTask(d)
    <3>1. Proceeds(c) /\ call[c].pc \in {"delete", "deleting"}
      BY <2>5, DeletionProceeds DEF Calls
    <3>2. ~Cleans(c)
      BY <3>1 DEF Calls, CleanerTrue, Cleans
    <3> QED  BY <1>1, <1>2, <3>1, <3>2 DEF Proceeds, Cleans
  <2>6. ASSUME NEW c \in Callers, DeleteStarts(c) PROVE \A d \in Callers : KeepsTask(d)
    <3>1. ~Cleans(c)
      BY <2>6, DeleteStartsEffect DEF Calls, CleanerTrue, Cleans
    <3> QED  BY <1>1, <2>6, <3>1, DeleteStartsEffect DEF Cleans
  <2>7. ASSUME Refresh \/ (\E n \in Nodes : HasInstance(n)) \/ (\E c \in Callers : DeletePanics(c))
        PROVE  \A d \in Callers : KeepsTask(d)
    BY <1>0, <2>7 DEF Refresh, HasInstance, DeletePanics
  <2> QED  BY <1>3, <2>1, <2>2, <2>3, <2>4, <2>5, <2>6, <2>7 DEF Aside
<1>4. CASE Launches
  <2>1. \A d \in Callers : /\ call'[d].method = call[d].method /\ call'[d].group = call[d].group
                           /\ call'[d].groups = call[d].groups
                           /\ call[d].ok => call'[d].ok
    BY <1>4, LaunchCalls
  <2> QED  BY <2>1 DEF KeepsTask
<1>5. CASE NewGroups
  BY <1>0, <1>5, NewGroupEffect DEF NewGroups
<1>6. CASE Increases
  <2> PICK c \in Callers, id \in GroupIds, delta \in 1 .. MaxNodeSize : IncreaseSize(c, id, delta)
    BY <1>6 DEF Increases
  <2> PICK new \in SUBSET Nodes : Reserves(c, id, delta, new)
    BY IncreaseEffect
  <2>1. ~Cleans(c)
    BY DEF Reserves, Calls, CleanerTrue, Cleans
  <2> QED  BY <1>0, <1>1, <2>1 DEF Reserves, Cleans
<1>7. CASE Deletions
  <2> PICK c \in Callers : DeleteFails(c) \/ DeleteDone(c)
    BY <1>7 DEF Deletions
  <2>1. Proceeds(c) /\ call[c].pc \in {"delete", "deleting"}
    BY DeletionProceeds DEF Calls
  <2>2. ~Cleans(c)
    BY <2>1 DEF Calls, CleanerTrue, Cleans
  <2> QED  BY <1>1, <1>2, <2>1, <2>2 DEF Proceeds, Cleans
<1>8. ASSUME NEW id \in GroupIds, Create(id) PROVE \A d \in Callers : KeepsTask(d)
  BY <1>0, <1>8 DEF Create
<1> QED  BY <1>3, <1>4, <1>5, <1>6, <1>7, <1>8 DEF OtherSteps

\* Which launches a step can begin or go on with.
LEMMA PhaseOthers ==
  ASSUME Types, OtherSteps, NEW n \in Nodes
  PROVE  \/ phase'[n] = phase[n]
         \/ phase'[n] = "no" /\ phase[n] # "no"
         \/ phase[n] = "no" /\ phase'[n] = "reserved"
         \/ phase[n] = "reserved" /\ phase'[n] = "launching"
         \/ phase[n] = "launching" /\ phase'[n] = "registered"
<1>1. CASE Aside
  BY <1>1, AsideUnchanged
<1>2. CASE Launches
  BY <1>2 DEF Launches, LaunchStarts, LaunchRegisters, LaunchEnds, LaunchFails, StrayEnds, Types
<1>3. CASE NewGroups
  BY <1>3, NewGroupEffect DEF NewGroups
<1>4. CASE Increases
  BY <1>4, IncreaseEffect DEF Increases, Reserves
<1>5. CASE Deletions
  <2>1. UNCHANGED phase
    BY <1>5 DEF Deletions, DeleteFails, DeleteDone
  <2> QED  BY <2>1
<1>6. ASSUME NEW i \in GroupIds, Create(i) PROVE UNCHANGED phase
  BY <1>6 DEF Create
<1> QED  BY <1>1, <1>2, <1>3, <1>4, <1>5, <1>6 DEF OtherSteps

LEMMA StatusKept ==
  ASSUME Types, OtherSteps, NEW id \in GroupIds
  PROVE  KeepsStatus(id)
<1>1. CASE Aside
  BY <1>1, AsideUnchanged DEF KeepsStatus
<1>2. CASE Launches
  <2> PICK n \in Nodes : LaunchStarts(n) \/ LaunchRegisters(n) \/ LaunchEnds(n) \/ LaunchFails(n) \/ StrayEnds(n)
    BY <1>2 DEF Launches
  <2>1. \/ UNCHANGED groups
        \/ groups' = [groups EXCEPT ![Owner[n]].pending = @ \ {n}]
        \/ groups' = [groups EXCEPT ![Owner[n]].nodes = @ \cup {n}]
    BY DEF LaunchStarts, LaunchRegisters, LaunchEnds, LaunchFails, StrayEnds
  <2> QED  BY <2>1, GroupFields DEF KeepsStatus, Types, Group
<1>3. CASE NewGroups
  <2> PICK i \in GroupIds, min \in conf.mins : Connect(i, min) \/ NewNodeGroup(i, min)
    BY <1>3 DEF NewGroups
  <2>1. id # i => groups'[id] = groups[id]
    BY NewGroupEffect DEF Types
  <2> QED  BY <2>1, NewGroupEffect DEF KeepsStatus
<1>4. CASE Increases
  BY <1>4, IncreaseEffect DEF Increases, Reserves, KeepsStatus
<1>5. CASE Deletions
  BY <1>5, DeletionShrinks DEF Deletions, KeepsStatus
<1>6. ASSUME NEW i \in GroupIds, Create(i) PROVE KeepsStatus(id)
  <2>1. groups[i].status = "NotCreated" /\ Grpc /\ MaySend
    <3>1. CreateNodeGroup(groups[i]) # groups[i] /\ Grpc /\ MaySend
      BY <1>6 DEF Create
    <3> QED  BY <3>1 DEF CreateNodeGroup
  <2> QED  BY <1>6, <2>1, StatusEffect DEF KeepsStatus
<1> QED  BY <1>1, <1>2, <1>3, <1>4, <1>5, <1>6 DEF OtherSteps

\* The end of a clean-up, and what it does to the launches.
Forgets(c) ==
  /\ call[c].pc = "cleanup" /\ call[c].groups = {} /\ Cleans(c)
  /\ \A i \in GroupIds : groups'[i] = IF call[c].method = "Delete" /\ (i # call[c].group \/ ~call[c].ok)
                                      THEN groups[i] ELSE Absent
  /\ \A n \in Nodes : phase'[n] = IF phase[n] # "no" /\ groups'[Owner[n]] = Absent THEN "stray" ELSE phase[n]
  /\ \A d \in Callers \ {c} : call'[d] = call[d]
  /\ call'[c].method = "none" /\ call'[c].pc = "idle"
  /\ UNCHANGED <<conf, down, state, vm>>

LEMMA CleanupEndsEffect == ASSUME Types, Calls, NEW c \in Callers, CleanupEnds(c) PROVE Forgets(c)
<1>1. \A n \in Nodes : Owner[n] \in GroupIds
  BY FrontEndAssumption
<1>2. call'[c] = NoCall /\ \A d \in Callers \ {c} : call'[d] = call[d]
  BY DEF CleanupEnds, Types
<1>3. NoCall.method = "none" /\ NoCall.pc = "idle"
  BY DEF NoCall
<1>4. call[c].pc = "cleanup" /\ call[c].groups = {} /\ Cleans(c)
  BY DEF CleanupEnds, Calls, CleanerTrue, Cleans
<1>5. \A i \in GroupIds : groups'[i] = IF call[c].method = "Delete" /\ (i # call[c].group \/ ~call[c].ok)
                                       THEN groups[i] ELSE Absent
  BY DEF CleanupEnds, Kept
<1>6. \A n \in Nodes : phase'[n] = IF phase[n] # "no" /\ groups'[Owner[n]] = Absent THEN "stray" ELSE phase[n]
  BY <1>1 DEF CleanupEnds
<1> QED  BY <1>2, <1>3, <1>4, <1>5, <1>6 DEF CleanupEnds, Forgets

\* A clean-up begins with a group of its list.
Begins(c, id) ==
  /\ call[c].pc = "cleanup" /\ id \in call[c].groups /\ Cleans(c) /\ (call[c].method = "Delete" => call[c].group = id)
  /\ \A i \in GroupIds : groups'[i].nodes = groups[i].nodes /\ groups'[i].pending = groups[i].pending
  /\ \A i \in GroupIds \ {id} : groups'[i] = groups[i]
  /\ groups'[id].status = "Deleting"
  /\ \A d \in Callers \ {c} : call'[d] = call[d]
  /\ call'[c].pc = "waiting" /\ call'[c].group = id /\ call'[c].method = call[c].method
  /\ call'[c].groups = call[c].groups /\ call'[c].ok = call[c].ok
  /\ UNCHANGED <<conf, down, state, phase, vm>>

LEMMA CleanupBegins ==
  ASSUME Types, Calls, NEW c \in Callers, NEW id \in GroupIds, CleanupStarts(c, id)
  PROVE  Begins(c, id)
<1>1. ~Create(id)
  <2>1. groups'[id].status = "Deleting"
    BY GroupFields DEF CleanupStarts, Types, Group
  <2>2. Create(id) => groups'[id].status = "Created"
    BY StatusEffect
  <2> QED  BY <2>1, <2>2
<1>2. Cleans(c) /\ (call[c].method = "Delete" => call[c].group = id)
  BY CleanupStartsEffect DEF Calls, CleanerTrue, Cleans
<1> QED  BY <1>1, <1>2, CleanupStartsEffect, StatusEffect DEF Begins

LEMMA OneCleaner == ASSUME Calls, NEW c \in Callers, NEW d \in Callers, Cleans(c), Cleans(d) PROVE c = d
BY DEF Calls, CleanerTrue, Cleans

LEMMA StepsOf ==
  ASSUME Types, Calls, Next
  PROVE  /\ ~down
         /\ \/ OtherSteps
            \/ \E c \in Callers, id \in GroupIds : Begins(c, id)
            \/ \E c \in Callers : CleanupGroup(c) /\ Cleans(c) /\ Empties(c, call[c].group)
            \/ \E c \in Callers : Forgets(c)
<1>1. ASSUME NEW c \in Callers, CleanupGroup(c) PROVE Cleans(c) /\ Empties(c, call[c].group)
  BY <1>1, CleanupGroupEffect DEF Calls, CleanerTrue, Cleans, Empties
<1> QED  BY <1>1, Steps, CleanupBegins, CleanupEndsEffect DEF OtherSteps

LEMMA ConfUnchanged == ASSUME Next PROVE UNCHANGED conf
BY Zenon DEF Next, Work, Connect, NewNodeGroup, Create, IncreaseSize, DeleteNodes, Delete, CleanupStarts, IncreaseEnds,
             DeleteSkips, DeletePanics, DeleteStarts, DeleteFails, DeleteDone, DeleteEnds, Cleanup, CleanupGroup,
             CleanupEnds, LaunchStarts, LaunchRegisters, LaunchEnds, LaunchFails, StrayEnds, HasInstance, Refresh

LEMMA DeleteTrueKept == ASSUME Types, Types', Calls, DeleteTrue, Next PROVE DeleteTrue'
<1> SUFFICES ASSUME NEW d \in Callers, call'[d].method = "Delete", NEW id, id = call'[d].group, id \notin call'[d].groups
             PROVE  groups'[id].status = "Deleted"
  BY DEF DeleteTrue
<1>0. ASSUME call[d].method = "Delete", call[d].group = id, id \notin call[d].groups
      PROVE  id \in GroupIds /\ groups[id].status = "Deleted"
  BY <1>0 DEF DeleteTrue, Calls, CleanerTrue
<1>1. CASE OtherSteps
  <2>1. KeepsTask(d)
    BY <1>1, TasksKept
  <2>2. call[d].method = "Delete" /\ call[d].group = id /\ id \notin call[d].groups
    BY <2>1 DEF KeepsTask, Cleans
  <2> QED  BY <1>0, <1>1, <2>2, StatusKept DEF KeepsStatus
<1>2. ASSUME NEW c \in Callers, NEW i \in GroupIds, Begins(c, i) PROVE groups'[id].status = "Deleted"
  <2>1. Cleans(d)
    BY <1>2 DEF Begins, Cleans
  <2>2. c = d
    BY <1>2, <2>1, OneCleaner DEF Begins
  <2> QED  BY <1>2, <2>2 DEF Begins
<1>3. ASSUME NEW c \in Callers, Cleans(c), Empties(c, call[c].group) PROVE groups'[id].status = "Deleted"
  <2>1. Cleans(d)
    BY <1>3 DEF Empties, Cleans
  <2>2. c = d
    BY <1>3, <2>1, OneCleaner
  <2> QED  BY <1>3, <2>2 DEF Empties
<1>4. ASSUME NEW c \in Callers, Forgets(c) PROVE groups'[id].status = "Deleted"
  <2>1. c # d
    BY <1>4 DEF Forgets
  <2>2. Cleans(d)
    BY <1>4, <2>1 DEF Forgets, Cleans
  <2> QED  BY <1>4, <2>1, <2>2, OneCleaner DEF Forgets
<1> QED  BY <1>1, <1>2, <1>3, <1>4, StepsOf

\* With one request at a time a request waits for the clean-up.
LEMMA RequestsWait ==
  ASSUME Types, Calls, ~conf.overlap, Grpc, MaySend
  PROVE  \A c \in Callers : call[c].pc = "idle" /\ call[c].method = "none"
<1>1. \A c \in Callers : call[c].pc = "idle"
  BY DEF MaySend, Answered, Grpc
<1>2. NoCall.method = "none"
  BY DEF NoCall
<1> QED  BY <1>1, <1>2 DEF Calls, CallTrue

LEMMA CleanupTrueKept == ASSUME Types, Types', Calls, Books, DeleteTrue, CleanupTrue, Next PROVE CleanupTrue'
<1> SUFFICES ASSUME ~conf'.overlap
             PROVE  /\ \A d \in Callers : call'[d].method = "Cleanup" =>
                         \A id \in GroupIds \ call'[d].groups : groups'[id].status \in {"absent", "Deleted"}
                    /\ \A n \in Nodes : phase'[n] # "stray"
  BY DEF CleanupTrue
<1>0. UNCHANGED conf
  BY ConfUnchanged
<1>1. /\ \A d \in Callers : call[d].method = "Cleanup" =>
           \A id \in GroupIds \ call[d].groups : groups[id].status \in {"absent", "Deleted"}
      /\ \A n \in Nodes : phase[n] # "stray"
  BY <1>0 DEF CleanupTrue
<1>2. CASE OtherSteps
  <2>1. ASSUME NEW d \in Callers, call'[d].method = "Cleanup", NEW id \in GroupIds \ call'[d].groups
        PROVE  groups'[id].status \in {"absent", "Deleted"}
    <3>1. CASE call[d].method = "Cleanup" /\ id \notin call[d].groups
      <4>1. ~(Grpc /\ MaySend)
        BY <1>0, <3>1, RequestsWait
      <4> QED  BY <1>1, <1>2, <3>1, <4>1, StatusKept DEF KeepsStatus
    <3>2. CASE id \notin {i \in GroupIds : Exists(i)} /\ UNCHANGED groups
      BY <3>2 DEF Exists
    <3> QED  BY <1>2, <2>1, <3>1, <3>2, TasksKept DEF KeepsTask, Cleans
  <2>2. ASSUME NEW n \in Nodes PROVE phase'[n] # "stray"
    BY <1>1, <1>2, PhaseOthers
  <2> QED  BY <2>1, <2>2
<1>3. ASSUME NEW c \in Callers, NEW i \in GroupIds, Begins(c, i)
      PROVE  /\ \A d \in Callers : call'[d].method = "Cleanup" =>
                  \A id \in GroupIds \ call'[d].groups : groups'[id].status \in {"absent", "Deleted"}
             /\ \A n \in Nodes : phase'[n] # "stray"
  <2>1. \A d \in Callers : call'[d].method = "Cleanup" => d = c
    BY <1>3, OneCleaner DEF Begins, Cleans
  <2> QED  BY <1>1, <1>3, <2>1 DEF Begins
<1>4. ASSUME NEW c \in Callers, Cleans(c), Empties(c, call[c].group)
      PROVE  /\ \A d \in Callers : call'[d].method = "Cleanup" =>
                  \A id \in GroupIds \ call'[d].groups : groups'[id].status \in {"absent", "Deleted"}
             /\ \A n \in Nodes : phase'[n] # "stray"
  <2>1. \A d \in Callers : call'[d].method = "Cleanup" => d = c
    BY <1>4, OneCleaner DEF Empties, Cleans
  <2> QED  BY <1>1, <1>4, <2>1 DEF Empties
<1>5. ASSUME NEW c \in Callers, Forgets(c)
      PROVE  /\ \A d \in Callers : call'[d].method = "Cleanup" =>
                  \A id \in GroupIds \ call'[d].groups : groups'[id].status \in {"absent", "Deleted"}
             /\ \A n \in Nodes : phase'[n] # "stray"
  <2>1. \A d \in Callers : call'[d].method # "Cleanup"
    BY <1>5, OneCleaner DEF Forgets, Cleans
  <2>2. ASSUME NEW n \in Nodes, phase'[n] = "stray" PROVE FALSE
    <3>1. Owner[n] \in GroupIds /\ groups'[Owner[n]] = Absent /\ phase[n] # "no"
      BY <1>1, <1>5, <2>2, FrontEndAssumption DEF Forgets
    <3>2. groups[Owner[n]].status \in {"absent", "Deleted"}
      <4>1. CASE call[c].method = "Cleanup"
        BY <1>1, <1>5, <3>1, <4>1 DEF Forgets
      <4>2. CASE call[c].method = "Delete" /\ Owner[n] = call[c].group
        BY <1>5, <4>2 DEF Forgets, DeleteTrue
      <4>3. CASE groups[Owner[n]] = Absent
        BY <4>3 DEF Absent
      <4> QED  BY <1>5, <3>1, <4>1, <4>2, <4>3 DEF Forgets, Cleans
    <3>3. phase[n] \in {"no", "reserved", "launching", "registered", "stray"}
      BY DEF Types
    <3> QED  BY <1>1, <3>1, <3>2, <3>3 DEF Books, OthersEmpty, Busy
  <2> QED  BY <2>1, <2>2
<1> QED  BY <1>2, <1>3, <1>4, <1>5, StepsOf

-----------------------------------------------------------------------------
(* One request at a time *)

\* When a request may come nothing is going on, and with a handler that launches nothing neither.
LEMMA Quiet ==
  ASSUME Types, Calls, OneHandler, OneRequest
  PROVE  /\ MaySend => \A n \in Nodes : phase[n] = "no"
         /\ \A c \in Callers : call[c].pc \notin {"idle", "launch"} =>
              (\A n \in Nodes : phase[n] = "no") /\ \A d \in Callers \ {c} : call[d].pc = "idle"
<1>1. MaySend => \A c \in Callers : call[c].pc = "idle"
  BY RequestsWait DEF OneRequest
<1> QED  BY <1>1 DEF OneHandler, OneRequest

LEMMA OneHandlerKept == ASSUME Types, Types', Calls, Books, OneHandler, Next PROVE OneHandler'
<1>0. UNCHANGED <<conf, OneRequest>>
  BY ConfUnchanged DEF OneRequest, Grpc
<1> DEFINE One(d, e) == call[d].pc = "idle" \/ call[e].pc = "idle"
           At(n) == phase[n] # "no" =>
                      Busy(n) /\ n \in groups[Owner[n]].pending /\ \E c \in Callers : call[c].pc = "launch" /\ n \in call[c].todo
           Holds == (\A d, e \in Callers : d # e => One(d, e)) /\ \A n \in Nodes : At(n)
<1> SUFFICES ASSUME OneRequest PROVE Holds'
  BY <1>0 DEF OneHandler
<1>1. Holds
  BY DEF OneHandler
<1>2. /\ MaySend => (\A n \in Nodes : phase[n] = "no") /\ \A c \in Callers : call[c].pc = "idle"
      /\ \A c \in Callers : call[c].pc \notin {"idle", "launch"} =>
           (\A n \in Nodes : phase[n] = "no") /\ \A d \in Callers \ {c} : call[d].pc = "idle"
  BY Quiet, RequestsWait DEF OneRequest
<1>3. \A n \in Nodes : Owner[n] \in GroupIds
  BY FrontEndAssumption
\* Nothing is launched before or after, and the handler at work is the one.
<1>4. ASSUME NEW c \in Callers, \A d \in Callers \ {c} : call[d].pc = "idle" /\ call'[d] = call[d],
             \A n \in Nodes : phase'[n] = "no"
      PROVE  Holds'
  BY <1>4
<1>5. ASSUME UNCHANGED <<phase, call>>, \A n \in Nodes : phase[n] = "no" \/ groups' = groups PROVE Holds'
  BY <1>1, <1>5 DEF Busy
<1>6. CASE Aside
  <2>1. UNCHANGED <<phase, groups>>
    BY <1>6, AsideUnchanged
  <2>2. ASSUME NEW c \in Callers, Cleanup(c) \/ \E id \in GroupIds : Delete(c, id) \/ \E docs \in SomeDeletions(id) : DeleteNodes(c, id, docs)
        PROVE  Holds'
    <3>1. MaySend /\ \A d \in Callers \ {c} : call'[d] = call[d]
      BY <2>2 DEF Cleanup, Delete, DeleteNodes, Sends, Types
    <3> QED  BY <1>2, <1>4, <2>1, <3>1
  <2>3. ASSUME NEW c \in Callers, IncreaseEnds(c) PROVE Holds'
    <3>1. /\ call[c].pc = "launch" /\ \A n \in call[c].todo : phase[n] = "no"
          /\ \A d \in Callers \ {c} : call'[d] = call[d]
      BY <2>3 DEF IncreaseEnds, Types
    <3>2. \A d \in Callers \ {c} : call[d].pc = "idle"
      BY <1>1, <3>1
    <3>3. \A n \in Nodes : phase[n] = "no"
      BY <1>1, <3>1, <3>2
    <3> QED  BY <1>4, <2>1, <3>1, <3>2, <3>3
  <2>4. ASSUME NEW c \in Callers, DeleteSkips(c) \/ DeleteStarts(c) \/ DeleteEnds(c) PROVE Holds'
    <3>1. call[c].pc = "delete" /\ \A d \in Callers \ {c} : call'[d] = call[d]
      BY <2>4 DEF DeleteSkips, DeleteStarts, DeleteEnds, Types
    <3> QED  BY <1>2, <1>4, <2>1, <3>1
  <2>5. ASSUME Refresh \/ (\E n \in Nodes : HasInstance(n)) \/ (\E c \in Callers : DeletePanics(c)) PROVE Holds'
    BY <1>5, <2>1, <2>5 DEF Refresh, HasInstance, DeletePanics
  <2> QED  BY <1>6, <2>2, <2>3, <2>4, <2>5 DEF Aside
<1>7. CASE Launches
  <2> PICK n \in Nodes : LaunchStarts(n) \/ LaunchRegisters(n) \/ LaunchEnds(n) \/ LaunchFails(n) \/ StrayEnds(n)
    BY <1>7 DEF Launches
  <2>1. \A d \in Callers : call'[d].pc = call[d].pc /\ call'[d].todo = call[d].todo
    BY <1>7, LaunchCalls
  <2>2. phase[n] # "no" /\ phase'[n] # "stray" /\ \A m \in Nodes \ {n} : phase'[m] = phase[m]
    BY DEF LaunchStarts, LaunchRegisters, LaunchEnds, LaunchFails, StrayEnds, Types
  <2>3. \A m \in Nodes : m \in groups[Owner[m]].pending =>
          m \in groups'[Owner[m]].pending \/ (m = n /\ phase'[n] = "no")
    <3>1. CASE LaunchStarts(n) \/ StrayEnds(n)
      BY <3>1 DEF LaunchStarts, StrayEnds
    <3>2. CASE LaunchRegisters(n)
      BY <1>3, <3>2, GroupFields DEF LaunchRegisters, Types, Group
    <3>3. CASE LaunchEnds(n) \/ LaunchFails(n)
      <4>1. phase'[n] = "no" /\ groups' = [groups EXCEPT ![Owner[n]].pending = @ \ {n}]
        BY <3>3 DEF LaunchEnds, LaunchFails, Types
      <4> QED  BY <1>3, <4>1, GroupFields DEF Types, Group
    <3> QED  BY <3>1, <3>2, <3>3
  <2>4. \A m \in Nodes : phase'[m] \in {"no", "reserved", "launching", "registered", "stray"}
    BY DEF Types
  <2> QED  BY <1>1, <2>1, <2>2, <2>3, <2>4 DEF Busy
<1>8. CASE NewGroups
  <2>1. MaySend /\ UNCHANGED <<phase, call>>
    BY <1>8, NewGroupEffect DEF NewGroups
  <2> QED  BY <1>2, <1>5, <2>1
<1>9. ASSUME NEW id \in GroupIds, Create(id) PROVE Holds'
  BY <1>2, <1>5, <1>9 DEF Create
<1>10. CASE Increases
  <2> PICK c \in Callers, id \in GroupIds, delta \in 1 .. MaxNodeSize : IncreaseSize(c, id, delta)
    BY <1>10 DEF Increases
  <2> PICK new \in SUBSET Nodes : Reserves(c, id, delta, new)
    BY IncreaseEffect
  <2>1. (\A n \in Nodes : phase[n] = "no") /\ \A d \in Callers : call[d].pc = "idle"
    BY <1>2 DEF Reserves
  <2>2. call'[c].pc = "launch" /\ call'[c].todo = new /\ \A d \in Callers \ {c} : call'[d] = call[d]
    BY DEF Reserves, OneRequest
  <2>3. \A n \in Nodes : phase'[n] = (IF n \in new THEN "reserved" ELSE "no")
    BY <2>1 DEF Reserves
  <2>4. \A n \in new : n \in groups'[Owner[n]].pending
    BY DEF Reserves
  <2> QED  BY <2>1, <2>2, <2>3, <2>4 DEF Busy
<1>11. ASSUME NEW c \in Callers, DeleteFails(c) \/ DeleteDone(c) PROVE Holds'
  <2>1. call[c].pc \in {"delete", "deleting"} /\ UNCHANGED phase /\ \A d \in Callers \ {c} : call'[d] = call[d]
    BY <1>11 DEF DeleteFails, DeleteDone, Types
  <2> QED  BY <1>2, <1>4, <2>1
<1>12. ASSUME NEW c \in Callers, NEW id \in GroupIds, Begins(c, id) PROVE Holds'
  BY <1>2, <1>4, <1>12 DEF Begins
<1>13. ASSUME NEW c \in Callers, Empties(c, call[c].group) PROVE Holds'
  BY <1>2, <1>4, <1>13 DEF Empties
<1>14. ASSUME NEW c \in Callers, Forgets(c) PROVE Holds'
  BY <1>2, <1>4, <1>14 DEF Forgets
<1> QED  BY <1>6, <1>7, <1>8, <1>9, <1>10, <1>11, <1>12, <1>13, <1>14, StepsOf DEF OtherSteps, Deletions

LEMMA MembersFinite ==
  ASSUME Types, NEW id \in GroupIds
  PROVE  /\ IsFiniteSet(Members(id)) /\ Cardinality(Members(id)) \in Nat
         /\ Cardinality(Members(id)) <= TargetSize(groups[id])
         /\ TargetSize(groups[id]) = Cardinality(Members(id)) + Cardinality(groups[id].nodes \cap groups[id].pending)
<1>1. IsFiniteSet(groups[id].nodes) /\ IsFiniteSet(groups[id].pending)
  BY TargetSizeNat
<1>2. /\ IsFiniteSet(Members(id))
      /\ Cardinality(Members(id)) = Cardinality(groups[id].nodes) + Cardinality(groups[id].pending)
                                      - Cardinality(groups[id].nodes \cap groups[id].pending)
  BY <1>1, FS_Union DEF Members
<1>3. IsFiniteSet(groups[id].nodes \cap groups[id].pending)
  BY <1>1, FS_Intersection
<1>4. /\ Cardinality(Members(id)) \in Nat /\ Cardinality(groups[id].nodes) \in Nat /\ Cardinality(groups[id].pending) \in Nat
      /\ Cardinality(groups[id].nodes \cap groups[id].pending) \in Nat
  BY <1>1, <1>2, <1>3, FS_CardinalityType
<1> QED  BY <1>2, <1>4 DEF TargetSize

LEMMA SizeKept == ASSUME Types, Types', Calls, Books, OneHandler, SizeBounded, Next PROVE SizeBounded'
<1>0. UNCHANGED <<conf, OneRequest>>
  BY ConfUnchanged DEF OneRequest, Grpc
<1> SUFFICES ASSUME OneRequest, NEW id \in GroupIds PROVE Cardinality(Members(id)') <= MaxNodeSize
  BY <1>0 DEF SizeBounded, Members
<1>1. Cardinality(Members(id)) <= MaxNodeSize /\ MaxNodeSize \in Nat
  BY FrontEndAssumption DEF SizeBounded
<1>2. ASSUME Members(id)' \subseteq Members(id) PROVE Cardinality(Members(id)') <= MaxNodeSize
  <2>1. Cardinality(Members(id)') <= Cardinality(Members(id)) /\ Cardinality(Members(id)') \in Nat
    BY <1>2, MembersFinite, FS_Subset, FS_CardinalityType
  <2>2. Cardinality(Members(id)) \in Nat
    BY MembersFinite
  <2> QED  BY <1>1, <2>1, <2>2
<1>3. CASE Aside
  BY <1>2, <1>3, AsideUnchanged DEF Members
<1>4. CASE Launches
  <2> PICK n \in Nodes : LaunchStarts(n) \/ LaunchRegisters(n) \/ LaunchEnds(n) \/ LaunchFails(n) \/ StrayEnds(n)
    BY <1>4 DEF Launches
  <2>1. Owner[n] \in GroupIds
    BY FrontEndAssumption
  <2>2. n \in groups[Owner[n]].pending \/ StrayEnds(n)
    BY DEF OneHandler, LaunchStarts, LaunchRegisters, LaunchEnds, LaunchFails
  <2>3. \/ UNCHANGED groups
        \/ groups' = [groups EXCEPT ![Owner[n]].pending = @ \ {n}]
        \/ n \in groups[Owner[n]].pending /\ groups' = [groups EXCEPT ![Owner[n]].nodes = @ \cup {n}]
    BY <2>2 DEF LaunchStarts, LaunchRegisters, LaunchEnds, LaunchFails, StrayEnds
  <2>4. Members(id)' \subseteq Members(id)
    BY <2>1, <2>3, GroupFields DEF Members, Types, Group
  <2> QED  BY <1>2, <2>4
<1>5. CASE NewGroups
  <2> PICK i \in GroupIds, min \in conf.mins : Connect(i, min) \/ NewNodeGroup(i, min)
    BY <1>5 DEF NewGroups
  <2>1. Members(id)' \subseteq Members(id)
    BY NewGroupEffect DEF Members, Types
  <2> QED  BY <1>2, <2>1
<1>6. ASSUME NEW i \in GroupIds, Create(i) PROVE Cardinality(Members(id)') <= MaxNodeSize
  BY <1>2, <1>6, StatusEffect DEF Members
<1>7. CASE Increases
  <2> PICK c \in Callers, i \in GroupIds, delta \in 1 .. MaxNodeSize : IncreaseSize(c, i, delta)
    BY <1>7 DEF Increases
  <2> PICK new \in SUBSET Nodes : Reserves(c, i, delta, new)
    BY IncreaseEffect
  <2>1. CASE i # id
    BY <1>2, <2>1 DEF Reserves, Members
  <2>2. CASE i = id
    <3>1. Members(id)' = Members(id) \cup new /\ Cardinality(new) = delta /\ TargetSize(groups[id]) + delta <= MaxNodeSize
      BY <2>2 DEF Reserves, Members
    <3>2. IsFiniteSet(new)
      BY FrontEndAssumption, FS_Subset
    <3>3. Cardinality(Members(id) \cup new) = Cardinality(Members(id)) + Cardinality(new) - Cardinality(Members(id) \cap new)
      BY <3>2, MembersFinite, FS_Union
    <3>4. Cardinality(Members(id) \cap new) \in Nat
      BY <3>2, FS_Intersection, FS_CardinalityType
    <3>5. Cardinality(Members(id)) \in Nat /\ TargetSize(groups[id]) \in Nat /\ Cardinality(Members(id)) <= TargetSize(groups[id])
      BY MembersFinite, TargetSizeNat
    <3> QED  BY <1>1, <3>1, <3>3, <3>4, <3>5
  <2> QED  BY <2>1, <2>2
<1>8. ASSUME NEW c \in Callers, DeleteFails(c) \/ DeleteDone(c) PROVE Cardinality(Members(id)') <= MaxNodeSize
  <2>1. Members(id)' \subseteq Members(id)
    BY <1>8, DeletionShrinks DEF Members
  <2> QED  BY <1>2, <2>1
<1>9. ASSUME NEW c \in Callers, NEW i \in GroupIds, Begins(c, i) PROVE Cardinality(Members(id)') <= MaxNodeSize
  BY <1>2, <1>9 DEF Begins, Members
<1>10. ASSUME NEW c \in Callers, Empties(c, call[c].group) PROVE Cardinality(Members(id)') <= MaxNodeSize
  BY <1>2, <1>10 DEF Empties, Members
<1>11. ASSUME NEW c \in Callers, Forgets(c) PROVE Cardinality(Members(id)') <= MaxNodeSize
  <2>1. Absent.nodes = {} /\ Absent.pending = {}
    BY DEF Absent
  <2>2. Members(id)' \subseteq Members(id)
    BY <1>11, <2>1 DEF Forgets, Members
  <2> QED  BY <1>2, <2>2
<1> QED  BY <1>3, <1>4, <1>5, <1>6, <1>7, <1>8, <1>9, <1>10, <1>11, StepsOf DEF OtherSteps, Deletions

-----------------------------------------------------------------------------
(* Deletions *)

InDeletion(n) == \E c \in Callers : call[c].pc = "deleting" /\ Head(call[c].docs).name = n

LEMMA InDeletionStays ==
  ASSUME NEW n, InDeletion(n), NEW c \in Callers, call[c].pc # "deleting" \/ Head(call[c].docs).name # n,
         \A d \in Callers \ {c} : call'[d] = call[d]
  PROVE  InDeletion(n)'
BY DEF InDeletion

\* What DeleteFails and DeleteDone do to nodes and VMs.
LEMMA DeletionEffect ==
  ASSUME Types, Calls, NEW c \in Callers, DeleteFails(c) \/ DeleteDone(c), "delete" \notin conf.faults
  PROVE  LET m == Head(call[c].docs).name IN
         /\ \A d \in Callers \ {c} : call'[d] = call[d]
         /\ \A n \in Nodes : state'[n] = IF n = m THEN "NotCreated" ELSE state[n]
         /\ \/ call[c].pc = "delete" /\ (m \notin vm \/ state[m] = "Deleting") /\ Known(Head(call[c].docs)) /\ UNCHANGED vm
            \/ call[c].pc = "deleting" /\ vm' = vm \ {m}
<1>1. \A d \in Callers \ {c} : call'[d] = call[d]
  BY DEF DeleteFails, DeleteDone, Types
<1>2. CASE DeleteFails(c)
  BY <1>1, <1>2 DEF DeleteFails, Dropped, Deletable
<1>3. CASE DeleteDone(c)
  BY <1>1, <1>3 DEF DeleteDone, Dropped
<1> QED  BY <1>2, <1>3

\* Steps that leave the deletions in their place.
LEMMA AsideDeletions ==
  ASSUME Types, Calls, Aside, ~ \E c \in Callers : DeleteStarts(c), NEW n \in Nodes
  PROVE  /\ InDeletion(n) => InDeletion(n)'
         /\ state'[n] = "Deleting" => state[n] = "Deleting"
         /\ ~down' => ~down
<1>1. ASSUME NEW c \in Callers, call[c].pc # "deleting", \A d \in Callers \ {c} : call'[d] = call[d], UNCHANGED <<state, down>>
      PROVE  /\ InDeletion(n) => InDeletion(n)'
             /\ state'[n] = "Deleting" => state[n] = "Deleting"
             /\ ~down' => ~down
  BY <1>1, InDeletionStays
<1>2. ASSUME NEW c \in Callers, Cleanup(c) \/ \E id \in GroupIds : Delete(c, id) \/ \E docs \in SomeDeletions(id) : DeleteNodes(c, id, docs)
      PROVE  call[c].pc # "deleting" /\ (\A d \in Callers \ {c} : call'[d] = call[d]) /\ UNCHANGED <<state, down>>
  BY <1>2 DEF Cleanup, Delete, DeleteNodes, Sends, Types
<1>3. ASSUME NEW c \in Callers, IncreaseEnds(c) \/ DeleteSkips(c) \/ DeleteEnds(c)
      PROVE  call[c].pc # "deleting" /\ (\A d \in Callers \ {c} : call'[d] = call[d]) /\ UNCHANGED <<state, down>>
  BY <1>3 DEF IncreaseEnds, DeleteSkips, DeleteEnds, Types
<1>4. ASSUME Refresh \/ (\E m \in Nodes : HasInstance(m)) \/ (\E c \in Callers : DeletePanics(c))
      PROVE  UNCHANGED call /\ (state'[n] = "Deleting" => state[n] = "Deleting") /\ (~down' => ~down)
  BY <1>4 DEF Refresh, HasInstance, DeletePanics, StatusVM, Types
<1> QED  BY <1>1, <1>2, <1>3, <1>4 DEF Aside, InDeletion

LEMMA DeletingTrueKept == ASSUME Types, Types', Calls, Books, DeletingTrue, Next PROVE DeletingTrue'
<1> SUFFICES ASSUME ~down', NEW n \in Nodes, n \in vm', state'[n] = "Deleting", n \in Members(Owner[n])', "delete" \notin conf'.faults
             PROVE  InDeletion(n)'
  BY DEF DeletingTrue, InDeletion, Members
<1>0. "delete" \notin conf.faults /\ ~down /\ Owner[n] \in GroupIds
  BY ConfUnchanged, FrontEndAssumption DEF Next
<1>1. n \in vm /\ state[n] = "Deleting" /\ n \in Members(Owner[n]) => InDeletion(n)
  BY <1>0 DEF DeletingTrue, InDeletion
<1>2. CASE Aside
  <2>1. n \in vm /\ n \in Members(Owner[n])
    BY <1>2, AsideUnchanged DEF Members
  <2>2. ASSUME NEW c \in Callers, DeleteStarts(c) PROVE InDeletion(n)'
    <3>1. CASE n = Head(call[c].docs).name
      <4>1. call'[c].pc = "deleting" /\ Head(call'[c].docs).name = n
        BY <2>2, <3>1, DeleteStartsEffect
      <4> QED  BY <4>1 DEF InDeletion
    <3>2. CASE n # Head(call[c].docs).name
      <4>1. state[n] = "Deleting"
        BY <2>2, <3>2, DeleteStartsEffect DEF Types
      <4>2. InDeletion(n)
        BY <1>1, <2>1, <4>1
      <4> QED  BY <2>2, <3>2, <4>2, DeleteStartsEffect, InDeletionStays
    <3> QED  BY <3>1, <3>2
  <2> QED  BY <1>1, <1>2, <2>1, <2>2, AsideDeletions
<1>3. CASE Launches
  <2> PICK m \in Nodes : LaunchStarts(m) \/ LaunchRegisters(m) \/ LaunchEnds(m) \/ LaunchFails(m) \/ StrayEnds(m)
    BY <1>3 DEF Launches
  <2>1. \A d \in Callers : call'[d].pc = call[d].pc /\ call'[d].docs = call[d].docs
    BY <1>3, LaunchCalls
  <2>2. InDeletion(n) => InDeletion(n)'
    BY <2>1 DEF InDeletion
  <2>3. CASE LaunchStarts(m)
    BY <1>1, <2>2, <2>3 DEF LaunchStarts, Types, Members
  <2>4. CASE LaunchRegisters(m)
    <3>1. n # m /\ n \in vm /\ state[n] = "Deleting"
      BY <2>4 DEF LaunchRegisters, Types
    <3>2. n \in Members(Owner[n])
      BY <1>0, <2>4, <3>1, GroupFields DEF LaunchRegisters, Types, Members, Group
    <3> QED  BY <1>1, <2>2, <3>1, <3>2
  <2>5. CASE LaunchEnds(m) \/ LaunchFails(m)
    <3>1. n \in vm /\ state[n] = "Deleting"
      BY <2>5 DEF LaunchEnds, LaunchFails, Dropped, Types
    <3>2. groups' = [groups EXCEPT ![Owner[m]].pending = @ \ {m}]
      BY <2>5 DEF LaunchEnds, LaunchFails
    <3>3. n \in Members(Owner[n])
      BY <1>0, <3>2, GroupFields DEF Types, Members, Group
    <3> QED  BY <1>1, <2>2, <3>1, <3>3
  <2>6. CASE StrayEnds(m)
    <3>1. n \in Members(Owner[n]) /\ phase[m] = "stray" /\ state[n] = "Deleting"
      BY <2>6 DEF StrayEnds, Members
    <3>2. n # m
      BY <1>0, <3>1 DEF Books, ListedOnce
    <3>3. n \in vm
      BY <2>6, <3>2 DEF StrayEnds
    <3> QED  BY <1>1, <2>2, <3>1, <3>3
  <2> QED  BY <2>3, <2>4, <2>5, <2>6
<1>4. CASE NewGroups
  <2> PICK i \in GroupIds, min \in conf.mins : Connect(i, min) \/ NewNodeGroup(i, min)
    BY <1>4 DEF NewGroups
  <2>1. n \in Members(Owner[n])
    BY <1>0, NewGroupEffect DEF Members, Types
  <2>2. UNCHANGED <<call, vm, state>>
    BY NewGroupEffect
  <2> QED  BY <1>1, <2>1, <2>2 DEF InDeletion
<1>5. ASSUME NEW i \in GroupIds, Create(i) PROVE InDeletion(n)'
  <2>1. UNCHANGED <<call, vm, state>>
    BY <1>5 DEF Create
  <2>2. n \in Members(Owner[n])
    BY <1>0, <1>5, StatusEffect DEF Members
  <2> QED  BY <1>1, <2>1, <2>2 DEF InDeletion
<1>6. CASE Increases
  <2> PICK c \in Callers, i \in GroupIds, delta \in 1 .. MaxNodeSize : IncreaseSize(c, i, delta)
    BY <1>6 DEF Increases
  <2> PICK new \in SUBSET Nodes : Reserves(c, i, delta, new)
    BY IncreaseEffect
  <2>1. n \notin new /\ n \in vm /\ state[n] = "Deleting"
    BY DEF Reserves
  <2>2. n \in Members(Owner[n])
    BY <1>0, <2>1 DEF Reserves, Members
  <2>3. call[c].pc # "deleting" /\ \A d \in Callers \ {c} : call'[d] = call[d]
    BY DEF Reserves
  <2> QED  BY <1>1, <2>1, <2>2, <2>3, InDeletionStays
<1>7. ASSUME NEW c \in Callers, DeleteFails(c) \/ DeleteDone(c) PROVE InDeletion(n)'
  <2>1. n # Head(call[c].docs).name /\ n \in vm /\ state[n] = "Deleting" /\ \A d \in Callers \ {c} : call'[d] = call[d]
    BY <1>0, <1>7, DeletionEffect
  <2>2. n \in Members(Owner[n])
    BY <1>0, <1>7, DeletionShrinks DEF Members
  <2> QED  BY <1>1, <2>1, <2>2, InDeletionStays
<1>8. ASSUME NEW c \in Callers, NEW i \in GroupIds, Begins(c, i) PROVE InDeletion(n)'
  <2>1. n \in Members(Owner[n]) /\ n \in vm /\ state[n] = "Deleting"
    BY <1>0, <1>8 DEF Begins, Members
  <2>2. call[c].pc # "deleting" /\ \A d \in Callers \ {c} : call'[d] = call[d]
    BY <1>8 DEF Begins
  <2> QED  BY <1>1, <2>1, <2>2, InDeletionStays
<1>9. ASSUME NEW c \in Callers, CleanupGroup(c), Empties(c, call[c].group) PROVE InDeletion(n)'
  <2>1. Owner[n] # call[c].group /\ n \in Members(Owner[n])
    BY <1>0, <1>9 DEF Empties, Members
  <2>2. n \notin Members(call[c].group)
    BY <1>9, <2>1 DEF Books, ListedOnce, Empties
  <2>3. n \in vm /\ state[n] = "Deleting"
    BY <1>9, <2>2 DEF CleanupGroup, Dropped, Members
  <2>4. call[c].pc # "deleting" /\ \A d \in Callers \ {c} : call'[d] = call[d]
    BY <1>9 DEF Empties
  <2> QED  BY <1>1, <2>1, <2>3, <2>4, InDeletionStays
<1>10. ASSUME NEW c \in Callers, Forgets(c) PROVE InDeletion(n)'
  <2>1. Absent.nodes = {} /\ Absent.pending = {}
    BY DEF Absent
  <2>2. n \in Members(Owner[n]) /\ n \in vm /\ state[n] = "Deleting"
    BY <1>0, <1>10, <2>1 DEF Forgets, Members
  <2>3. call[c].pc # "deleting" /\ \A d \in Callers \ {c} : call'[d] = call[d]
    BY <1>10 DEF Forgets
  <2> QED  BY <1>1, <2>2, <2>3, InDeletionStays
<1> QED  BY <1>2, <1>3, <1>4, <1>5, <1>6, <1>7, <1>8, <1>9, <1>10, StepsOf DEF OtherSteps, Deletions

-----------------------------------------------------------------------------
(* Clean-ups *)

\* Where no deletion fails a clean-up leaves the VMs that other handlers delete.
LEMMA CleanupGroupVMs ==
  ASSUME Types, Calls, NEW c \in Callers, CleanupGroup(c), "delete" \notin conf.faults
  PROVE  LET mine == Members(call[c].group)
             refused == {n \in mine \cap vm : state[n] = "Deleting"} IN
         /\ vm' = vm \ (mine \ refused)
         /\ call[c].method = "Delete" /\ refused = {} => call'[c].ok
<1> DEFINE mine == Members(call[c].group)
           refused == {n \in mine \cap vm : state[n] = "Deleting"}
<1> PICK failed \in SUBSET (mine \cap vm), last \in BOOLEAN :
      /\ failed = refused \/ "delete" \in conf.faults
      /\ last => failed # {}
      /\ vm' = vm \ (mine \ failed)
      /\ call' = [call EXCEPT ![c].pc = "cleanup", ![c].groups = @ \ {call[c].group},
                             ![c].ok = IF call[c].method = "Delete" THEN ~last ELSE @ /\ ~last]
  BY DEF CleanupGroup, Members
<1>1. failed = refused
  OBVIOUS
<1>2. call[c].method = "Delete" => call'[c].ok = ~last
  BY CallFields DEF Types, Call
<1> QED  BY <1>1, <1>2

\* A Delete that waits finds no VM in deletion.
LEMMA NothingRefused ==
  ASSUME Types, Calls, Books, OneHandler, DeletingTrue, CleanDeletions, ~down,
         NEW c \in Callers, call[c].method = "Delete", call[c].pc = "waiting", NEW n \in Members(call[c].group), n \in vm
  PROVE  state[n] # "Deleting"
<1>1. OneRequest /\ call[c].group \in GroupIds
  <2>1. Grpc /\ "Delete" \notin conf.optionals /\ call[c].group \in GroupIds
    BY DEF Calls, CleanerTrue
  <2> QED  BY <2>1 DEF OneRequest, CleanDeletions
<1>2. n \in Nodes /\ Owner[n] = call[c].group
  BY <1>1, GroupFields DEF Books, ListedOnce, Members
<1>3. \A d \in Callers : call[d].pc # "deleting"
  BY <1>1, Quiet
<1> QED  BY <1>2, <1>3 DEF DeletingTrue, CleanDeletions

LEMMA UsableKept ==
  ASSUME Types, Types', Calls, Books, OneHandler, DeletingTrue, UsableTrue, Next
  PROVE  UsableTrue'
<1> DEFINE For(d, id) == call[d].method = "Cleanup" \/ (call[d].method = "Delete" /\ call[d].group = id)
<1>0. UNCHANGED conf /\ ~down
  BY ConfUnchanged DEF Next
<1> SUFFICES ASSUME CleanDeletions
             PROVE  /\ \A id \in GroupIds : groups'[id].status \in {"Deleting", "Deleted"} => \E d \in Callers : For(d, id)'
                    /\ \A d \in Callers : call'[d].method = "Delete" => call'[d].ok
  BY <1>0 DEF UsableTrue, CleanDeletions, Grpc
<1>1. /\ \A id \in GroupIds : groups[id].status \in {"Deleting", "Deleted"} => \E d \in Callers : For(d, id)
      /\ \A d \in Callers : call[d].method = "Delete" => call[d].ok
  BY DEF UsableTrue
<1>2. \A d \in Callers, id \in GroupIds : For(d, id) => Cleans(d)
  BY DEF Cleans
<1>3. ASSUME OtherSteps, NEW id \in GroupIds, groups'[id].status \in {"Deleting", "Deleted"} PROVE \E d \in Callers : For(d, id)'
  <2>1. groups[id].status \in {"Deleting", "Deleted"}
    BY <1>3, StatusKept DEF KeepsStatus
  <2> PICK d \in Callers : For(d, id)
    BY <1>1, <2>1
  <2>2. KeepsTask(d) /\ Cleans(d)
    BY <1>2, <1>3, TasksKept
  <2> QED  BY <2>2 DEF KeepsTask, Cleans
<1>4. ASSUME OtherSteps, NEW d \in Callers, call'[d].method = "Delete" PROVE call'[d].ok
  <2>1. KeepsTask(d)
    BY <1>4, TasksKept
  <2> QED  BY <1>1, <1>4, <2>1 DEF KeepsTask, Cleans
<1>5. ASSUME NEW c \in Callers, NEW i \in GroupIds, Begins(c, i), NEW id \in GroupIds,
             groups'[id].status \in {"Deleting", "Deleted"}
      PROVE  \E d \in Callers : For(d, id)'
  <2>1. CASE id = i
    <3>1. For(c, id)'
      BY <1>5, <2>1 DEF Begins, Cleans
    <3> QED  BY <3>1
  <2>2. CASE id # i
    <3> PICK d \in Callers : For(d, id)
      BY <1>1, <1>5, <2>2 DEF Begins
    <3>1. d = c
      BY <1>2, <1>5, OneCleaner DEF Begins
    <3>2. call'[c].method = "Cleanup"
      BY <1>5, <2>2, <3>1 DEF Begins
    <3> QED  BY <3>2
  <2> QED  BY <2>1, <2>2
<1>6. ASSUME NEW c \in Callers, NEW i \in GroupIds, Begins(c, i), NEW d \in Callers, call'[d].method = "Delete" PROVE call'[d].ok
  BY <1>1, <1>6 DEF Begins
<1>7. ASSUME NEW c \in Callers, Cleans(c), Empties(c, call[c].group), NEW id \in GroupIds,
             groups'[id].status \in {"Deleting", "Deleted"}
      PROVE  \E d \in Callers : For(d, id)'
  <2>1. For(c, id) => For(c, id)'
    BY <1>7 DEF Empties
  <2>2. CASE id = call[c].group
    BY <1>7, <2>1, <2>2 DEF Cleans
  <2>3. CASE id # call[c].group
    <3> PICK d \in Callers : For(d, id)
      BY <1>1, <1>7, <2>3 DEF Empties
    <3>1. d = c
      BY <1>2, <1>7, OneCleaner
    <3> QED  BY <2>1, <3>1
  <2> QED  BY <2>2, <2>3
<1>8. ASSUME NEW c \in Callers, CleanupGroup(c), Empties(c, call[c].group), NEW d \in Callers, call'[d].method = "Delete"
      PROVE  call'[d].ok
  <2>1. CASE d # c
    BY <1>1, <1>8, <2>1 DEF Empties
  <2>2. CASE d = c
    <3>1. call[c].method = "Delete" /\ call[c].pc = "waiting"
      BY <1>8, <2>2 DEF Empties
    <3>2. {n \in Members(call[c].group) \cap vm : state[n] = "Deleting"} = {}
      BY <1>0, <3>1, NothingRefused
    <3>3. "delete" \notin conf.faults
      BY DEF CleanDeletions
    <3> QED  BY <1>8, <2>2, <3>1, <3>2, <3>3, CleanupGroupVMs
  <2> QED  BY <2>1, <2>2
<1>9. ASSUME NEW c \in Callers, Forgets(c), NEW id \in GroupIds PROVE groups'[id].status \notin {"Deleting", "Deleted"}
  <2>1. Absent.status = "absent"
    BY DEF Absent
  <2>2. CASE call[c].method = "Delete" /\ id # call[c].group
    <3>1. ~ \E d \in Callers : For(d, id)
      BY <1>2, <1>9, <2>2, OneCleaner DEF Forgets
    <3> QED  BY <1>1, <1>9, <2>2, <3>1 DEF Forgets
  <2>3. CASE ~(call[c].method = "Delete" /\ id # call[c].group)
    BY <1>1, <1>9, <2>1, <2>3 DEF Forgets
  <2> QED  BY <2>2, <2>3
<1>10. ASSUME NEW c \in Callers, Forgets(c), NEW d \in Callers, call'[d].method = "Delete" PROVE call'[d].ok
  BY <1>1, <1>10 DEF Forgets
<1> QED  BY <1>3, <1>4, <1>5, <1>6, <1>7, <1>8, <1>9, <1>10, StepsOf

-----------------------------------------------------------------------------
(* No VM is forgotten *)

Listed(n) == groups[Owner[n]].status # "absent" /\ n \in Members(Owner[n])
Safe(n) == Listed(n) \/ phase[n] = "launching" \/ InDeletion(n)

LEMMA LaunchSafe ==
  ASSUME Types, Calls, Books, CleanupTrue, ~conf.overlap, Launches, NEW n \in Nodes, n \in vm', n \in vm => Safe(n)
  PROVE  Safe(n)'
<1> PICK m \in Nodes : LaunchStarts(m) \/ LaunchRegisters(m) \/ LaunchEnds(m) \/ LaunchFails(m) \/ StrayEnds(m)
  BY DEF Launches
<1>1. Owner[m] \in GroupIds /\ Owner[n] \in GroupIds
  BY FrontEndAssumption
<1>2. \A d \in Callers : call'[d].pc = call[d].pc /\ call'[d].docs = call[d].docs
  BY LaunchCalls
<1>3. InDeletion(n) => InDeletion(n)'
  BY <1>2 DEF InDeletion
<1>4. CASE LaunchStarts(m)
  <2>1. UNCHANGED groups /\ (n # m => phase'[n] = phase[n])
    BY <1>4 DEF LaunchStarts, Types
  <2>2. n \in vm \/ phase'[n] = "launching"
    BY <1>4 DEF LaunchStarts, Types
  <2>3. n = m => phase[n] = "reserved"
    BY <1>4 DEF LaunchStarts
  <2> QED  BY <1>3, <2>1, <2>2, <2>3 DEF Safe, Listed, Members
<1>5. CASE LaunchRegisters(m)
  <2>1. /\ phase[m] = "launching" /\ UNCHANGED vm /\ groups' = [groups EXCEPT ![Owner[m]].nodes = @ \cup {m}]
        /\ n # m => phase'[n] = phase[n]
    BY <1>5 DEF LaunchRegisters, Types
  <2>2. /\ \A i \in GroupIds \ {Owner[m]} : groups'[i] = groups[i]
        /\ groups'[Owner[m]].status = groups[Owner[m]].status /\ groups'[Owner[m]].pending = groups[Owner[m]].pending
        /\ groups'[Owner[m]].nodes = groups[Owner[m]].nodes \cup {m}
    BY <1>1, <2>1, GroupFields DEF Types, Group
  <2>3. groups[Owner[m]].status # "absent"
    BY <1>1, <2>1 DEF Books, OthersEmpty, Busy
  <2>4. Listed(m)'
    BY <2>2, <2>3 DEF Listed, Members
  <2>5. Listed(n) => Listed(n)'
    BY <1>1, <2>2 DEF Listed, Members
  <2> QED  BY <1>3, <2>1, <2>4, <2>5 DEF Safe
<1>6. CASE LaunchEnds(m)
  <2>1. /\ phase[m] = "registered" /\ UNCHANGED vm /\ groups' = [groups EXCEPT ![Owner[m]].pending = @ \ {m}]
        /\ n # m => phase'[n] = phase[n]
    BY <1>6 DEF LaunchEnds, Types
  <2>2. /\ \A i \in GroupIds \ {Owner[m]} : groups'[i] = groups[i]
        /\ groups'[Owner[m]].status = groups[Owner[m]].status /\ groups'[Owner[m]].nodes = groups[Owner[m]].nodes
        /\ groups'[Owner[m]].pending = groups[Owner[m]].pending \ {m}
    BY <1>1, <2>1, GroupFields DEF Types, Group
  <2>3. m \in Members(Owner[m]) => m \in groups[Owner[m]].nodes
    BY <1>1, <2>1 DEF Books, ListedOnce, Members
  <2>4. Listed(n) => Listed(n)'
    BY <1>1, <2>2, <2>3 DEF Listed, Members
  <2> QED  BY <1>3, <2>1, <2>4 DEF Safe
<1>7. CASE LaunchFails(m)
  <2>1. /\ n # m /\ n \in vm /\ groups' = [groups EXCEPT ![Owner[m]].pending = @ \ {m}] /\ phase'[n] = phase[n]
    BY <1>7 DEF LaunchFails, Types
  <2>2. /\ \A i \in GroupIds \ {Owner[m]} : groups'[i] = groups[i]
        /\ groups'[Owner[m]].status = groups[Owner[m]].status /\ groups'[Owner[m]].nodes = groups[Owner[m]].nodes
        /\ groups'[Owner[m]].pending = groups[Owner[m]].pending \ {m}
    BY <1>1, <2>1, GroupFields DEF Types, Group
  <2>3. Listed(n) => Listed(n)'
    BY <1>1, <2>1, <2>2 DEF Listed, Members
  <2> QED  BY <1>3, <2>1, <2>3 DEF Safe
<1>8. CASE StrayEnds(m)
  BY <1>8 DEF StrayEnds, CleanupTrue
<1> QED  BY <1>4, <1>5, <1>6, <1>7, <1>8

LEMMA DeletionSafe ==
  ASSUME Types, Calls, Books, DeletingTrue, ~down, "delete" \notin conf.faults,
         NEW c \in Callers, DeleteFails(c) \/ DeleteDone(c), NEW n \in Nodes, n \in vm', n \in vm => Safe(n)
  PROVE  Safe(n)'
<1> DEFINE doc == Head(call[c].docs)
<1>1. \A d \in Callers \ {c} : call'[d] = call[d]
  BY DeletionEffect
<1>2. n \in vm /\ phase'[n] = phase[n]
  BY DeletionEffect DEF DeleteFails, DeleteDone
<1>3. CASE n # doc.name
  <2>1. Listed(n) => Listed(n)'
    BY <1>3, DeletionShrinks, FrontEndAssumption DEF Listed, Members
  <2>2. InDeletion(n) => InDeletion(n)'
    BY <1>1, <1>3, InDeletionStays
  <2> QED  BY <1>2, <2>1, <2>2 DEF Safe
<1>4. CASE n = doc.name
  <2>1. call[c].pc = "delete" /\ state[n] = "Deleting" /\ Known(doc)
    BY <1>2, <1>4, DeletionEffect
  <2>2. doc.group \in GroupIds /\ n \in Members(doc.group)
    BY <1>4, <2>1 DEF Known, Exists, FindNamedNode, Members
  <2>3. n \in Members(Owner[n])
    BY <2>2 DEF Books, ListedOnce
  <2>4. InDeletion(n)
    BY <1>2, <2>1, <2>3 DEF DeletingTrue, InDeletion
  <2> QED  BY <1>1, <2>1, <2>4, InDeletionStays DEF Safe
<1> QED  BY <1>3, <1>4

LEMMA CleanupGroupSafe ==
  ASSUME Types, Calls, Books, DeletingTrue, ~down, "delete" \notin conf.faults,
         NEW c \in Callers, CleanupGroup(c), Empties(c, call[c].group), NEW n \in Nodes, n \in vm', n \in vm => Safe(n)
  PROVE  Safe(n)'
<1> DEFINE id == call[c].group
<1>1. n \in vm /\ (n \in Members(id) => state[n] = "Deleting")
  BY CleanupGroupVMs
<1>2. InDeletion(n) => InDeletion(n)'
  BY InDeletionStays DEF Empties
<1>3. CASE n \in Members(id)
  <2>1. Owner[n] = id
    BY <1>3 DEF Books, ListedOnce, Empties
  <2>2. InDeletion(n)
    BY <1>1, <1>3, <2>1 DEF DeletingTrue, InDeletion
  <2> QED  BY <1>2, <2>2 DEF Safe
<1>4. CASE n \notin Members(id)
  <2>1. CASE Owner[n] = id
    BY <1>1, <1>2, <1>4, <2>1 DEF Safe, Listed, Empties
  <2>2. CASE Owner[n] # id
    BY <1>1, <1>2, <2>2, FrontEndAssumption DEF Safe, Listed, Members, Empties
  <2> QED  BY <2>1, <2>2
<1> QED  BY <1>3, <1>4

LEMMA VMKept ==
  ASSUME Types, Types', Calls, Books, DeleteTrue, DeletingTrue, CleanupTrue, CleanupTrue', NoVMForgotten, Next
  PROVE  NoVMForgotten'
<1>0. UNCHANGED conf /\ ~down /\ vm' \subseteq Nodes
  BY ConfUnchanged DEF Next, Types
<1> SUFFICES ASSUME ~conf.overlap, "delete" \notin conf.faults, ~down', NEW n \in Nodes, n \in vm' PROVE Safe(n)'
  <2>1. \A n \in Nodes : Safe(n)' =>
          \/ Exists(Owner[n])' /\ FindNamedNode(groups'[Owner[n]], n)
          \/ phase'[n] = "launching"
          \/ \E c \in Callers : call'[c].pc = "deleting" /\ Head(call'[c].docs).name = n
    BY FrontEndAssumption DEF Safe, Listed, InDeletion, Exists, FindNamedNode, Members
  <2> QED  BY <1>0, <2>1 DEF NoVMForgotten
<1>1. Owner[n] \in GroupIds /\ (n \in vm => Safe(n))
  BY <1>0, FrontEndAssumption DEF NoVMForgotten, Safe, Listed, InDeletion, Exists, FindNamedNode, Members
<1>2. CASE Aside
  <2>1. UNCHANGED <<groups, phase, vm>>
    BY <1>2, AsideUnchanged
  <2>2. InDeletion(n) => InDeletion(n)'
    <3>1. ASSUME NEW c \in Callers, DeleteStarts(c), InDeletion(n) PROVE InDeletion(n)'
      BY <3>1, DeleteStartsEffect, InDeletionStays
    <3> QED  BY <1>2, <3>1, AsideDeletions
  <2> QED  BY <1>1, <2>1, <2>2 DEF Safe, Listed, Members
<1>3. CASE Launches
  BY <1>1, <1>3, LaunchSafe
<1>4. CASE NewGroups
  <2> PICK i \in GroupIds, min \in conf.mins : Connect(i, min) \/ NewNodeGroup(i, min)
    BY <1>4 DEF NewGroups
  <2>1. UNCHANGED <<call, vm, phase>>
    BY NewGroupEffect
  <2>2. Listed(n) => Listed(n)'
    BY <1>1, NewGroupEffect DEF Listed, Members, Types
  <2> QED  BY <1>1, <2>1, <2>2 DEF Safe, InDeletion
<1>5. ASSUME NEW i \in GroupIds, Create(i) PROVE Safe(n)'
  <2>1. UNCHANGED <<call, vm, phase>>
    BY <1>5 DEF Create
  <2>2. Listed(n) => Listed(n)'
    BY <1>1, <1>5, StatusEffect DEF Listed, Members
  <2> QED  BY <1>1, <2>1, <2>2 DEF Safe, InDeletion
<1>6. CASE Increases
  <2> PICK c \in Callers, i \in GroupIds, delta \in 1 .. MaxNodeSize : IncreaseSize(c, i, delta)
    BY <1>6 DEF Increases
  <2> PICK new \in SUBSET Nodes : Reserves(c, i, delta, new)
    BY IncreaseEffect
  <2>1. n \in vm /\ phase'[n] = phase[n]
    BY DEF Reserves
  <2>2. Listed(n) => Listed(n)'
    BY <1>1 DEF Reserves, Listed, Members
  <2>3. call[c].pc # "deleting" /\ \A d \in Callers \ {c} : call'[d] = call[d]
    BY DEF Reserves
  <2>4. InDeletion(n) => InDeletion(n)'
    BY <2>3, InDeletionStays
  <2> QED  BY <1>1, <2>1, <2>2, <2>4 DEF Safe
<1>7. ASSUME NEW c \in Callers, DeleteFails(c) \/ DeleteDone(c) PROVE Safe(n)'
  BY <1>0, <1>1, <1>7, DeletionSafe
<1>8. ASSUME NEW c \in Callers, NEW i \in GroupIds, Begins(c, i) PROVE Safe(n)'
  <2>1. n \in vm /\ phase'[n] = phase[n]
    BY <1>8 DEF Begins
  <2>2. Listed(n) => Listed(n)'
    BY <1>1, <1>8 DEF Begins, Listed, Members
  <2>3. InDeletion(n) => InDeletion(n)'
    BY <1>8, InDeletionStays DEF Begins
  <2> QED  BY <1>1, <2>1, <2>2, <2>3 DEF Safe
<1>9. ASSUME NEW c \in Callers, CleanupGroup(c), Empties(c, call[c].group) PROVE Safe(n)'
  BY <1>0, <1>1, <1>9, CleanupGroupSafe
<1>10. ASSUME NEW c \in Callers, Forgets(c) PROVE Safe(n)'
  <2>1. n \in vm /\ phase'[n] = phase[n]
    BY <1>0, <1>10 DEF Forgets, CleanupTrue
  <2>2. InDeletion(n) => InDeletion(n)'
    BY <1>10, InDeletionStays DEF Forgets
  <2>3. ASSUME Listed(n) PROVE Listed(n)'
    <3>1. groups[Owner[n]].status \notin {"absent", "Deleted"}
      BY <1>1, <2>3 DEF Listed, Books, OthersEmpty
    <3>2. call[c].method # "Cleanup"
      BY <1>1, <1>10, <3>1 DEF CleanupTrue, Forgets
    <3>3. Owner[n] # call[c].group
      BY <1>10, <3>1, <3>2 DEF Forgets, Cleans, DeleteTrue
    <3>4. groups'[Owner[n]] = groups[Owner[n]]
      BY <1>1, <1>10, <3>2, <3>3 DEF Forgets, Cleans
    <3> QED  BY <2>3, <3>4 DEF Listed, Members
  <2> QED  BY <1>1, <2>1, <2>2, <2>3 DEF Safe
<1> QED  BY <1>2, <1>3, <1>4, <1>5, <1>6, <1>7, <1>8, <1>9, <1>10, StepsOf DEF OtherSteps, Deletions

-----------------------------------------------------------------------------
(* The invariant and what it says *)

LEMMA FrontInit == ASSUME Init PROVE FrontInv
<1>1. Types
  BY InitTypes
<1>2. /\ NoCall.pc = "idle" /\ NoCall.method = "none" /\ NoCall.groups = {}
      /\ \A c \in Callers : call[c] = NoCall
      /\ \A n \in Nodes : phase[n] = "no" /\ state[n] = "NotCreated"
      /\ vm = {} /\ \A n \in Nodes : Owner[n] \in GroupIds
  BY FrontEndAssumption DEF Init, NoCall
<1>3. \A id \in GroupIds : groups[id].status \in {"absent", "Created"} /\ Members(id) = {}
  <2>1. \A id \in GroupIds : groups[id] = Absent \/ groups[id] = Provisioned
    BY DEF Init
  <2>2. Absent.status = "absent" /\ Absent.nodes = {} /\ Absent.pending = {}
    BY DEF Absent
  <2>3. Provisioned.status = "Created" /\ Provisioned.nodes = {} /\ Provisioned.pending = {}
    BY DEF Absent, Provisioned
  <2> QED  BY <2>1, <2>2, <2>3 DEF Members
<1>4. Books
  <2>1. ListedOnce
    BY <1>3 DEF ListedOnce, Members
  <2>2. OthersEmpty
    BY <1>2, <1>3 DEF OthersEmpty, Busy
  <2> QED  BY <2>1, <2>2 DEF Books
<1>5. Calls /\ DeleteTrue
  BY <1>2 DEF Calls, CleanerTrue, CallTrue, DeleteTrue
<1>6. OneHandler
  BY <1>2 DEF OneHandler
<1>7. SizeBounded
  <2>1. Cardinality({}) = 0 /\ MaxNodeSize \in Nat
    BY FS_EmptySet, FrontEndAssumption
  <2> QED  BY <1>3, <2>1 DEF SizeBounded
<1>8. VMInv
  BY <1>2 DEF VMInv, DeletingTrue, CleanupTrue, NoVMForgotten
<1>9. UsableTrue
  BY <1>2, <1>3 DEF UsableTrue
<1> QED  BY <1>1, <1>4, <1>5, <1>6, <1>7, <1>8, <1>9 DEF FrontInv, GroupsInv

LEMMA FrontStep == ASSUME FrontInv, [Next]_vars PROVE FrontInv'
<1>1. CASE Next
  <2>1. Types /\ Books /\ Calls /\ DeleteTrue /\ OneHandler /\ SizeBounded /\ DeletingTrue /\ CleanupTrue /\ NoVMForgotten /\ UsableTrue
    BY DEF FrontInv, GroupsInv, VMInv
  <2>2. Types' /\ Books'
    BY <1>1, <2>1, TypesKept, BooksKept
  <2>3. Calls' /\ DeleteTrue' /\ OneHandler' /\ SizeBounded'
    BY <1>1, <2>1, <2>2, CallsKept, DeleteTrueKept, OneHandlerKept, SizeKept
  <2>4. DeletingTrue' /\ CleanupTrue'
    BY <1>1, <2>1, <2>2, DeletingTrueKept, CleanupTrueKept
  <2>5. NoVMForgotten' /\ UsableTrue'
    BY <1>1, <2>1, <2>2, <2>4, VMKept, UsableKept
  <2> QED  BY <2>2, <2>3, <2>4, <2>5 DEF FrontInv, GroupsInv, VMInv
<1>2. CASE UNCHANGED vars
  <2>1. UNCHANGED <<conf, groups, state, phase, vm, call, down>>
    BY <1>2 DEF vars
  <2>2. Types' /\ Books' /\ Calls' /\ DeleteTrue'
    BY <2>1 DEF FrontInv, GroupsInv, Types, Books, ListedOnce, OthersEmpty, Members, Busy, Calls, CleanerTrue, CallTrue,
                DeleteTrue, Grpc
  <2>3. OneHandler' /\ SizeBounded' /\ UsableTrue'
    BY <2>1 DEF FrontInv, OneHandler, SizeBounded, UsableTrue, OneRequest, CleanDeletions, Grpc, Busy, Members
  <2>4. VMInv'
    BY <2>1 DEF FrontInv, VMInv, DeletingTrue, CleanupTrue, NoVMForgotten, Members, Exists, FindNamedNode
  <2> QED  BY <2>2, <2>3, <2>4 DEF FrontInv, GroupsInv
<1> QED  BY <1>1, <1>2

\* The books of the groups, the tasks of the handlers, and where the VMs are, in every state of
\* the front ends (grpc.go, externalgrpc.go), whatever the configuration.
THEOREM FrontEndInvariant == Spec => []FrontInv
<1>1. Init => FrontInv
  BY FrontInit
<1>2. FrontInv /\ [Next]_vars => FrontInv'
  BY FrontStep
<1> QED  BY <1>1, <1>2, PTL DEF Spec

LEMMA CountedHolds == ASSUME FrontInv PROVE InstancesCounted
<1>0. Types /\ ListedOnce /\ SizeBounded
  BY DEF FrontInv, GroupsInv, Books
<1> SUFFICES ASSUME NEW id \in GroupIds, Exists(id)
             PROVE  /\ \A n \in Members(id) : Owner[n] = id
                    /\ groups[id].nodes \cap groups[id].pending \subseteq {n \in Nodes : phase[n] = "registered"}
                    /\ GTargetSize(GroupRequest(id)).TargetSize
                         = Cardinality(Members(id)) + Cardinality(groups[id].nodes \cap groups[id].pending)
                    /\ Grpc /\ ~conf.overlap => Cardinality(Members(id)) <= MaxNodeSize
  BY DEF InstancesCounted, Members
<1>1. \A n \in Members(id) : Owner[n] = id
  BY <1>0 DEF ListedOnce
<1>2. groups[id].nodes \cap groups[id].pending \subseteq {n \in Nodes : phase[n] = "registered"}
  BY <1>0, GroupFields DEF ListedOnce
<1>3. GTargetSize(GroupRequest(id)).TargetSize = TargetSize(groups[id])
  <2> DEFINE r == GroupRequest(id)
  <2>1. r.ProviderID = ServiceIdentifier /\ r.NodeGroupID = id
    BY DEF GroupRequest
  <2> HIDE DEF r
  <2>2. GTargetSize(r) = [TargetSize |-> TargetSize(groups[id])]
    BY <2>1 DEF GTargetSize, ForGroup, Checked, IsCallDenied
  <2> QED  BY <2>2 DEF r
<1>4. TargetSize(groups[id]) = Cardinality(Members(id)) + Cardinality(groups[id].nodes \cap groups[id].pending)
  BY <1>0, MembersFinite
<1>5. Grpc /\ ~conf.overlap => Cardinality(Members(id)) <= MaxNodeSize
  BY <1>0 DEF SizeBounded, OneRequest
<1> QED  BY <1>1, <1>2, <1>3, <1>4, <1>5

\* A group lists its own nodes, each once but for the moment between its registration and the end
\* of its launch; its target size is the number of the instances it lists; with one request at a
\* time it has at most its maximum of nodes (increaseSize, createNodes, targetSize).
THEOREM FrontEndCounted == Spec => []InstancesCounted
BY FrontEndInvariant, CountedHolds, PTL

LEMMA UsableHolds == ASSUME FrontInv PROVE GroupsUsable
<1> SUFFICES ASSUME ~CleaningUp, CleanDeletions, NEW id \in GroupIds, Exists(id)
             PROVE  \/ groups[id].status = "Created"
                    \/ groups[id].status = "NotCreated" /\ Members(id) = {}
  BY DEF GroupsUsable, CleanDeletions, Members
<1>1. groups[id].status \in {"absent", "NotCreated", "Created", "Deleting", "Deleted"} /\ groups[id].status # "absent"
  BY GroupFields DEF FrontInv, GroupsInv, Exists
<1>2. groups[id].status \notin {"Deleting", "Deleted"}
  BY DEF FrontInv, UsableTrue, CleaningUp
<1>3. groups[id].status = "NotCreated" => Members(id) = {}
  BY DEF FrontInv, GroupsInv, Books, OthersEmpty
<1> QED  BY <1>1, <1>2, <1>3

\* When nothing is being cleaned up, every group a client finds can be used, or created: Delete and
\* Cleanup leave none behind that refuses everything, if the VMs could be deleted and no other
\* handler was deleting one of them (deleteNodeGroup, Cleanup).
THEOREM FrontEndUsable == Spec => []GroupsUsable
BY FrontEndInvariant, UsableHolds, PTL

\* With one request at a time and no VM that cannot be deleted, each VM is that of a node which its
\* group knows, or which is being launched or deleted (cleanup waits for the launches, deleteNodes
\* looks every node up).
THEOREM FrontEndNoVMForgotten == Spec => []NoVMForgotten
<1>1. FrontInv => NoVMForgotten
  BY DEF FrontInv, VMInv
<1> QED  BY <1>1, FrontEndInvariant, PTL

=============================================================================
