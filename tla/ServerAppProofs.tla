--------------------------- MODULE ServerAppProofs ---------------------------
(***************************************************************************)
(* Proofs about the life of the server process, for any number of nodes, of  *)
(* crashes and of connections, and for every configuration.                  *)
(*                                                                           *)
(* First the effects: what each step does to each field, without EXCEPT.     *)
(* Every part of the invariant is then preserved by each step for what that  *)
(* step does.                                                                *)
(***************************************************************************)
EXTENDS ServerAppInv, FiniteSetTheorems, TLAPS

-----------------------------------------------------------------------------
(* The fields of the records *)

LEMMA NodesFinite == IsFiniteSet(Nodes) /\ Cardinality(Nodes) \in Nat
<1>1. IsFiniteSet(AutoNames) /\ IsFiniteSet(ManagedNames)
  BY ServerAppAssumption
<1>2. IsFiniteSet(AutoNames \cup ManagedNames)
  BY <1>1, FS_Union
<1> QED
  BY <1>2, FS_CardinalityType DEF Nodes

Status == {"absent", "NotCreated", "Created", "Deleting", "Deleted"}

LEMMA GroupFields ==
  ASSUME NEW g \in Group
  PROVE  /\ g.status \in Status /\ g.nodes \in SUBSET Nodes /\ g.pending \in SUBSET Nodes
         /\ g.running \in SUBSET Indexes /\ g.nilRunning \in BOOLEAN /\ g.nilPending \in BOOLEAN
BY DEF Group, Status

LEMMA DiscoveryFields ==
  ASSUME NEW d \in Discovery
  PROVE  /\ d.pc \in {"idle", "list", "reset", "attach", "drop"}
         /\ d.by \in {"none", "load", "external", "connect"}
         /\ d.list \in SUBSET Nodes /\ d.former \in SUBSET Nodes /\ d.fresh \in SUBSET Nodes
         /\ d.unattached \in SUBSET Nodes /\ d.known \in BOOLEAN
BY DEF Discovery

LEMMA SavedFields ==
  ASSUME NEW f \in Saved
  PROVE  /\ f.is \in {"none", "truncated", "whole"} /\ f.group \in Group
         /\ f.defs \in {"none", "include", "ignore"} /\ f.auto \in BOOLEAN
         /\ f.limits \in {"config", "merged"}
BY DEF Saved

LEMMA AbsentFields ==
  /\ Absent \in Group /\ Absent.status = "absent"
  /\ Absent.nodes = {} /\ Absent.pending = {} /\ Absent.running = {}
  /\ Absent.nilRunning /\ Absent.nilPending /\ Missing(Absent)
BY DEF Absent, Group, Missing, NilMaps

LEMMA IdleFields ==
  /\ Idle \in Discovery /\ Idle.pc = "idle" /\ Idle.by = "none"
  /\ Idle.list = {} /\ Idle.former = {} /\ Idle.fresh = {} /\ Idle.unattached = {} /\ Idle.known = FALSE
BY DEF Idle, Discovery

\* What a step makes of the group, of the discovery, of a launch and of a deletion.
GroupBecomes(status, nodes, pending, running, nilRunning, nilPending) ==
  /\ group' \in Group /\ group'.status = status
  /\ group'.nodes = nodes /\ group'.pending = pending /\ group'.running = running
  /\ group'.nilRunning = nilRunning /\ group'.nilPending = nilPending

DiscBecomes(pc, by, list, former, fresh, known) ==
  /\ disc' \in Discovery /\ disc'.pc = pc /\ disc'.by = by
  /\ disc'.list = list /\ disc'.former = former /\ disc'.fresh = fresh /\ disc'.known = known

LaunchMoves(n, to) ==
  /\ launch' \in [Nodes -> {"no", "reserved", "created", "annotated", "registered"}]
  /\ launch'[n] = to /\ \A m \in Nodes \ {n} : launch'[m] = launch[m]

DeleteMoves(n, to) ==
  /\ delete' \in [Nodes -> {"no", "asked", "gone"}]
  /\ delete'[n] = to /\ \A m \in Nodes \ {n} : delete'[m] = delete[m]

-----------------------------------------------------------------------------
(* What happens to the file *)

LEMMA SnapshotFields ==
  ASSUME TypeOK
  PROVE  /\ Snapshot \in Saved /\ Snapshot.is = "whole"
         /\ Snapshot.auto = auto /\ Snapshot.defs = defs
         /\ Snapshot.group.pending = {} /\ Snapshot.group.nilPending
         /\ Snapshot.group.status = group.status /\ (Missing(group) => Missing(Snapshot.group))
<1> DEFINE g == [group EXCEPT !.pending = {}, !.nilPending = TRUE]
<1>1. group \in Group /\ defs \in {"none", "include", "ignore"} /\ auto \in BOOLEAN
      /\ limits \in {"config", "merged"}
  BY DEF TypeOK
<1>2. g \in Group /\ g.status = group.status /\ g.pending = {} /\ g.nilPending
  BY <1>1 DEF Group
<1>3. Missing(group) => Missing(g)
  BY <1>1 DEF Group, Missing, NilMaps
<1>4. Snapshot = [is |-> "whole", group |-> g, defs |-> defs, auto |-> auto, limits |-> limits]
  BY DEF Snapshot
<1> HIDE DEF g
<1> QED
  BY <1>1, <1>2, <1>3, <1>4 DEF Saved

LEMMA NoFileFields ==
  ASSUME NEW is \in {"none", "truncated"}
  PROVE  /\ NoFile(is) \in Saved /\ NoFile(is).is = is /\ NoFile(is).auto = FALSE
         /\ Missing(NoFile(is).group)
BY AbsentFields DEF NoFile, Saved, Missing, NilMaps

-----------------------------------------------------------------------------
(* The end of the process *)

\* A crash, an error that is fatal, or a panic.
LEMMA DiesEffect ==
  ASSUME TypeOK, Dies, panicked' \in BOOLEAN, crashes' \in 0 .. MaxCrashes
  PROVE  /\ TypeOK'
         /\ env' = env /\ main' = "down" /\ group' = Absent /\ auto' = FALSE /\ ~cleaning' /\ ~connected'
         /\ disc' = Idle /\ file' = file /\ vm' = vm /\ kube' = kube /\ index' = index
         /\ \A n \in Nodes : launch'[n] = "no" /\ delete'[n] = "no"
<1>1. /\ env' = env /\ main' = "down" /\ group' = Absent /\ defs' = "none" /\ auto' = FALSE /\ limits' = "config"
      /\ cleaning' = FALSE /\ connected' = FALSE /\ disc' = Idle /\ file' = file /\ vm' = vm /\ kube' = kube
      /\ index' = index /\ connects' = connects
  BY DEF Dies, cloud
<1>2. launch' = [n \in Nodes |-> "no"] /\ delete' = [n \in Nodes |-> "no"]
  BY DEF Dies
<1>3. /\ launch' \in [Nodes -> {"no", "reserved", "created", "annotated", "registered"}]
      /\ delete' \in [Nodes -> {"no", "asked", "gone"}]
      /\ \A n \in Nodes : launch'[n] = "no" /\ delete'[n] = "no"
  BY <1>2
<1>4. TypeOK'
  BY <1>1, <1>3, AbsentFields, IdleFields DEF TypeOK
<1> QED
  BY <1>1, <1>3, <1>4

\* What a fatal error comes from, ...
Exits ==
  /\ Dies /\ UNCHANGED <<panicked, crashes>>
  /\ \/ main = "listen" /\ env.front = "externalgrpc" /\ ~auto
     \/ disc.pc = "list" /\ May("list") /\ disc.by # "connect"

LEMMA CrashEffect ==
  ASSUME TypeOK, Crash
  PROVE  /\ Dies /\ panicked' = panicked /\ crashes' = crashes + 1 /\ crashes' \in 0 .. MaxCrashes
         /\ main # "down"
         /\ IF main \in {"encode", "syncEncode", "refreshEncode"} THEN May("savecrash") ELSE May("crash")
BY ServerAppAssumption DEF Crash, TypeOK

\* ... and a panic.
Panics ==
  /\ Panic
  /\ \/ Serving /\ MayRequest /\ group.status = "Created" /\ NilMaps(group)
     \/ Asked("managed")
     \/ \E n \in Nodes : delete[n] = "asked" /\ env.front = "externalgrpc" /\ group.status = "absent"

\* Nothing is left of what was in memory.
Forgotten ==
  /\ env' = env /\ main' = "down" /\ group' = Absent /\ auto' = FALSE /\ ~cleaning' /\ ~connected'
  /\ disc' = Idle /\ file' = file /\ vm' = vm /\ kube' = kube /\ index' = index
  /\ \A n \in Nodes : launch'[n] = "no" /\ delete'[n] = "no"

LEMMA DeathEffect ==
  ASSUME TypeOK, Crash \/ Exits \/ Panics
  PROVE  /\ TypeOK' /\ Forgotten
         /\ disc'.pc = "idle" /\ disc'.by = "none" /\ ~disc'.known /\ disc'.list = {} /\ disc'.former = {}
         /\ Missing(group') /\ group'.nodes = {} /\ group'.pending = {} /\ group'.status = "absent"
<1>1. Dies /\ panicked' \in BOOLEAN /\ crashes' \in 0 .. MaxCrashes
  <2>1. panicked \in BOOLEAN /\ crashes \in 0 .. MaxCrashes
    BY DEF TypeOK
  <2>2. CASE Crash
    BY <2>1, <2>2, CrashEffect
  <2>3. CASE Exits
    BY <2>1, <2>3 DEF Exits
  <2>4. CASE Panics
    BY <2>1, <2>4 DEF Panics, Panic
  <2> QED
    BY <2>2, <2>3, <2>4
<1>2. TypeOK' /\ Forgotten
  BY <1>1, DiesEffect DEF Forgotten
<1> QED
  BY <1>2, AbsentFields, IdleFields DEF Forgotten

-----------------------------------------------------------------------------
(* The effects of starting, saving and loading *)

USE DEF memory, cloud, bounds

\* The steps that write the file.
Opens == file'.is = "truncated" /\ Missing(file'.group) /\ ~file'.auto /\ file'.group.nilPending
         /\ file'.group.pending = {}
Encodes == /\ file'.is = "whole" /\ file'.auto = auto /\ file'.defs = defs
           /\ file'.group.pending = {} /\ file'.group.nilPending
           /\ file'.group.status = group.status /\ (Missing(group) => Missing(file'.group))

\* What these steps leave alone.
Still == UNCHANGED <<env, group, defs, auto, connected, disc, vm, kube, index, launch, delete, cleaning,
                     panicked, crashes>>

LEMMA OpensEffect ==
  ASSUME TypeOK, NEW next \in {"encode", "syncEncode", "refreshEncode"}, SaveOpens(next)
  PROVE  TypeOK' /\ main' = next /\ Opens /\ Still
<1>1. file' = NoFile("truncated") /\ main' = next /\ Still /\ UNCHANGED <<limits, connects>>
  BY DEF SaveOpens, Still
<1>2. Opens
  BY <1>1, NoFileFields, SavedFields DEF Opens, Missing, NilMaps, NoFile, Absent
<1>3. TypeOK'
  BY <1>1, NoFileFields DEF TypeOK, Still
<1> QED
  BY <1>1, <1>2, <1>3

LEMMA EncodesEffect ==
  ASSUME TypeOK, NEW next \in {"listen", "serving"}, SaveEncodes(next)
  PROVE  TypeOK' /\ main' = next /\ Encodes /\ Still
<1>1. file' = Snapshot /\ main' = next /\ Still /\ UNCHANGED <<limits, connects>>
  BY DEF SaveEncodes, Still
<1>2. Encodes
  BY <1>1, SnapshotFields DEF Encodes
<1>3. TypeOK'
  BY <1>1, SnapshotFields DEF TypeOK, Still
<1> QED
  BY <1>1, <1>2, <1>3

LEMMA StartFreshEffect ==
  ASSUME TypeOK, StartFresh
  PROVE  /\ TypeOK' /\ main = "down" /\ main' \in {"firstSave", "listen"} /\ file.is = "none"
         /\ file' = file /\ Still
<1>1. /\ main = "down" /\ main' \in {"firstSave", "listen"} /\ file.is = "none"
      /\ file' = file /\ Still /\ UNCHANGED <<limits, connects>>
  BY DEF StartFresh, Still
<1> QED
  BY <1>1 DEF TypeOK, Still

LEMMA ListenGrpcEffect ==
  ASSUME TypeOK, ListenGrpc
  PROVE  /\ TypeOK' /\ main = "listen" /\ env.front = "grpc" /\ main' = "serving" /\ file' = file /\ Still
<1>1. /\ main = "listen" /\ env.front = "grpc" /\ main' = "serving"
      /\ file' = file /\ Still /\ UNCHANGED <<limits, connects>>
  BY DEF ListenGrpc, Still
<1> QED
  BY <1>1 DEF TypeOK, Still

-----------------------------------------------------------------------------
(* The effects of provisioning and of the discovery *)

LEMMA ProvisionedEffect ==
  ASSUME TypeOK, NEW g \in Group
  PROVE  /\ Provisioned(g) \in Group
         /\ g.status # "absent" => Provisioned(g) = g /\ ~ProvisionRefused(g)
         /\ g.status = "absent" =>
              /\ Provisioned(g).nodes = {} /\ Provisioned(g).pending = {} /\ Provisioned(g).running = {}
              /\ Provisioned(g).nilRunning = TRUE /\ Provisioned(g).nilPending = FALSE
              /\ Provisioned(g).status = IF ProvisionRefused(g) THEN "NotCreated" ELSE "Created"
<1>1. g \in Group /\ env \in Environments /\ env.min \in {0, 1}
  BY ServerAppAssumption DEF TypeOK
<1> DEFINE new == NewGroup(env.min, TRUE)
           made == [new EXCEPT !.status = "Created"]
<1>2. /\ new \in Group /\ new.status = "NotCreated" /\ new.nodes = {} /\ new.pending = {} /\ new.running = {}
      /\ new.nilRunning = TRUE /\ new.nilPending = FALSE /\ new.min = env.min
  BY <1>1 DEF NewGroup, Absent, Group
<1>3. /\ made \in Group /\ made.status = "Created" /\ made.nodes = {} /\ made.pending = {} /\ made.running = {}
      /\ made.nilRunning = TRUE /\ made.nilPending = FALSE
  BY <1>2 DEF Group
<1>4. Cardinality({}) = 0
  BY FS_EmptySet
<1>5. CASE g.status # "absent"
  BY <1>1, <1>5 DEF Provisioned, ProvisionRefused
<1>6. CASE g.status = "absent"
  <2>1. Provisioned(g) = IF CreateFails(new) THEN new ELSE made
    BY <1>2, <1>6 DEF Provisioned, CreateNodeGroup
  <2>2. CreateFails(new) <=> env.min > 0
    BY <1>2, <1>4 DEF CreateFails
  <2> HIDE DEF new, made
  <2>3. CreateFails(made) <=> FALSE
    BY <1>3 DEF CreateFails
  <2>4. ProvisionRefused(g) <=> CreateFails(Provisioned(g))
    BY <1>6 DEF ProvisionRefused
  <2>5. CASE CreateFails(new)
    <3>1. Provisioned(g) = new /\ ProvisionRefused(g)
      BY <2>1, <2>4, <2>5
    <3> QED
      BY <3>1, <1>2, <1>6
  <2>6. CASE ~CreateFails(new)
    <3>1. Provisioned(g) = made /\ ~ProvisionRefused(g)
      BY <2>1, <2>3, <2>4, <2>6
    <3> QED
      BY <3>1, <1>3, <1>6
  <2> QED
    BY <2>5, <2>6
<1> QED
  BY <1>5, <1>6

LEMMA DiscoverEffect ==
  ASSUME TypeOK, NEW by \in {"external", "connect"}, Discover(by)
  PROVE  DiscBecomes("list", by, {}, {}, {}, connected)
BY DEF DiscBecomes, Idle, Discovery, Discover, TypeOK

\* The group that doAutoProvision of g goes on with.
Provides(g) ==
  \/ g.status # "absent" /\ group' = g
  \/ g.status = "absent" /\ GroupBecomes("Created", {}, {}, {}, TRUE, FALSE)

LEMMA ProvidesEffect ==
  ASSUME TypeOK, NEW g \in Group, ~ProvisionRefused(g), group' = Provisioned(g)
  PROVE  Provides(g) /\ group' \in Group
BY ProvisionedEffect DEF Provides, GroupBecomes

LEMMA LoadEffect ==
  ASSUME TypeOK, Load
  PROVE  /\ TypeOK' /\ main = "down" /\ file.is = "whole" /\ defs' = file.defs /\ auto' = file.auto
         /\ \/ /\ file.auto /\ main' = "provision" /\ Provides(file.group)
               /\ DiscBecomes("list", "load", {}, {}, {}, FALSE)
            \/ ~file.auto /\ main' = "listen" /\ group' = file.group /\ disc' = disc
         /\ UNCHANGED <<env, connected, file, vm, kube, index, launch, delete, cleaning, panicked, crashes>>
<1>1. /\ main = "down" /\ file.is = "whole"
      /\ defs' = file.defs /\ auto' = file.auto /\ limits' = file.limits
      /\ UNCHANGED <<env, connected, file, vm, kube, index, launch, delete, cleaning, panicked, crashes, connects>>
  BY DEF Load
<1>2. \/ /\ file.auto /\ main' = "provision" /\ disc' = [Idle EXCEPT !.pc = "list", !.by = "load"]
         /\ ~ProvisionRefused(file.group) /\ group' = Provisioned(file.group)
      \/ ~file.auto /\ main' = "listen" /\ group' = file.group /\ disc' = disc
  BY DEF Load
<1>3. disc' = [Idle EXCEPT !.pc = "list", !.by = "load"] => DiscBecomes("list", "load", {}, {}, {}, FALSE)
  BY DEF DiscBecomes, Idle, Discovery
<1>4. file \in Saved /\ file.group \in Group
  BY SavedFields DEF TypeOK
<1>5. CASE ~file.auto /\ main' = "listen" /\ group' = file.group /\ disc' = disc
  <2>1. TypeOK'
    BY <1>1, <1>4, <1>5, SavedFields DEF TypeOK
  <2> QED
    BY <1>1, <1>5, <2>1
<1>6. CASE /\ file.auto /\ main' = "provision" /\ disc' = [Idle EXCEPT !.pc = "list", !.by = "load"]
           /\ ~ProvisionRefused(file.group) /\ group' = Provisioned(file.group)
  <2>1. Provides(file.group) /\ group' \in Group
    BY <1>4, <1>6, ProvidesEffect
  <2>2. DiscBecomes("list", "load", {}, {}, {}, FALSE)
    BY <1>3, <1>6
  <2>3. disc' \in Discovery
    BY <2>2 DEF DiscBecomes
  <2>4. TypeOK'
    BY <1>1, <1>4, <1>6, <2>1, <2>3, SavedFields DEF TypeOK
  <2> QED
    BY <1>1, <1>6, <2>1, <2>2, <2>4
<1> QED
  BY <1>2, <1>5, <1>6

LEMMA ListenExternalEffect ==
  ASSUME TypeOK, ListenExternal, ~ProvisionRefused(group)
  PROVE  /\ TypeOK' /\ main = "listen" /\ env.front = "externalgrpc" /\ ~auto
         /\ main' = "provision" /\ defs' = "include" /\ Provides(group)
         /\ DiscBecomes("list", "external", {}, {}, {}, connected)
         /\ UNCHANGED <<env, auto, connected, file, vm, kube, index, launch, delete, cleaning, panicked, crashes>>
<1>1. /\ main = "listen" /\ env.front = "externalgrpc" /\ ~auto
      /\ main' = "provision" /\ defs' = "include" /\ group' = Provisioned(group) /\ Discover("external")
      /\ UNCHANGED <<env, auto, limits, connected, file, vm, kube, index, launch, delete, cleaning, panicked,
                     crashes, connects>>
  BY DEF ListenExternal
<1>2. DiscBecomes("list", "external", {}, {}, {}, connected)
  BY <1>1, DiscoverEffect
<1>3. Provides(group) /\ group' \in Group
  BY <1>1, ProvidesEffect DEF TypeOK
<1>4. disc' \in Discovery
  BY <1>2 DEF DiscBecomes
<1>5. TypeOK'
  BY <1>1, <1>3, <1>4 DEF TypeOK
<1> QED
  BY <1>1, <1>2, <1>3, <1>5

LEMMA ConnectEffect ==
  ASSUME TypeOK, Connect
  PROVE  /\ TypeOK' /\ Serving /\ env.front = "grpc" /\ MayConnect
         /\ defs' = (IF env.include THEN "include" ELSE "ignore")
         /\ \/ ~auto' /\ group' = group /\ disc' = disc /\ connected' = connected
            \/ /\ auto' /\ connected' = FALSE
               /\ \/ Provides(group) /\ DiscBecomes("list", "connect", {}, {}, {}, connected)
                  \/ group.status = "absent" /\ GroupBecomes("NotCreated", {}, {}, {}, TRUE, FALSE) /\ disc' = disc
         /\ UNCHANGED <<env, main, file, vm, kube, index, launch, delete, cleaning, panicked, crashes>>
<1>1. /\ Serving /\ env.front = "grpc" /\ MayConnect /\ connects' = connects + 1 /\ connects < MaxConnects
      /\ defs' = (IF env.include THEN "include" ELSE "ignore")
      /\ limits' \in {limits, "merged"} /\ auto' \in BOOLEAN
      /\ UNCHANGED <<env, main, file, vm, kube, index, launch, delete, cleaning, panicked, crashes>>
  BY DEF Connect
<1>2. \/ ~auto' /\ group' = group /\ disc' = disc /\ connected' = connected
      \/ /\ auto' /\ connected' = FALSE /\ group' = Provisioned(group)
         /\ IF ProvisionRefused(group) THEN disc' = disc ELSE Discover("connect")
  BY DEF Connect
<1>3. connects' \in 0 .. MaxConnects
  BY <1>1, ServerAppAssumption DEF TypeOK
<1>4. CASE ~auto' /\ group' = group /\ disc' = disc /\ connected' = connected
  <2>1. TypeOK'
    BY <1>1, <1>3, <1>4 DEF TypeOK
  <2> QED
    BY <1>1, <1>4, <2>1
<1>5. CASE /\ auto' /\ connected' = FALSE /\ group' = Provisioned(group)
           /\ IF ProvisionRefused(group) THEN disc' = disc ELSE Discover("connect")
  <2>1. group' \in Group
    BY <1>5, ProvisionedEffect DEF TypeOK
  <2>2. CASE ProvisionRefused(group)
    <3>1. group.status = "absent" /\ GroupBecomes("NotCreated", {}, {}, {}, TRUE, FALSE) /\ disc' = disc
      BY <1>5, <2>2, ProvisionedEffect DEF GroupBecomes, TypeOK
    <3>2. TypeOK'
      BY <1>1, <1>3, <1>5, <2>1, <3>1 DEF TypeOK
    <3> QED
      BY <1>1, <1>5, <3>1, <3>2
  <2>3. CASE ~ProvisionRefused(group)
    <3>1. Provides(group)
      BY <1>5, <2>3, ProvidesEffect DEF TypeOK
    <3>2. DiscBecomes("list", "connect", {}, {}, {}, connected)
      BY <1>5, <2>3, DiscoverEffect
    <3>3. disc' \in Discovery
      BY <3>2 DEF DiscBecomes
    <3>4. TypeOK'
      BY <1>1, <1>3, <1>5, <2>1, <3>3 DEF TypeOK
    <3> QED
      BY <1>1, <1>5, <3>1, <3>2, <3>4
  <2> QED
    BY <2>2, <2>3
<1> QED
  BY <1>2, <1>4, <1>5

LEMMA ListNodesEffect ==
  ASSUME TypeOK, ListNodes
  PROVE  /\ TypeOK' /\ disc.pc = "list"
         /\ DiscBecomes("reset", disc.by, Handled, disc.former, disc.fresh, disc.known)
         /\ disc'.unattached = disc.unattached
         /\ UNCHANGED <<env, main, group, defs, auto, connected, file, vm, kube, index, launch, delete, cleaning,
                        panicked, crashes>>
<1>1. /\ disc.pc = "list" /\ disc' = [disc EXCEPT !.pc = "reset", !.list = Handled]
      /\ UNCHANGED <<env, main, group, defs, auto, limits, connected, file, vm, kube, index, launch, delete,
                     cleaning, panicked, crashes, connects>>
  BY DEF ListNodes
<1>2. Handled \in SUBSET Nodes /\ disc \in Discovery
  BY DEF Handled, TypeOK
<1>3. DiscBecomes("reset", disc.by, Handled, disc.former, disc.fresh, disc.known)
      /\ disc'.unattached = disc.unattached
  BY <1>1, <1>2 DEF DiscBecomes, Discovery
<1>4. disc' \in Discovery
  BY <1>3 DEF DiscBecomes
<1>5. TypeOK'
  BY <1>1, <1>4 DEF TypeOK
<1> QED
  BY <1>1, <1>3, <1>5

LEMMA ResetMapsFields ==
  ASSUME NEW g \in Group
  PROVE  /\ ResetMaps(g) \in Group /\ ResetMaps(g).status = g.status
         /\ ResetMaps(g).nodes = {} /\ ResetMaps(g).pending = {} /\ ResetMaps(g).running = {}
         /\ ResetMaps(g).nilRunning = FALSE /\ ResetMaps(g).nilPending = FALSE
BY DEF ResetMaps, Group

LEMMA ResetEffect ==
  ASSUME TypeOK, Reset
  PROVE  /\ TypeOK' /\ disc.pc = "reset"
         /\ DiscBecomes("attach", disc.by, disc.list, group.nodes, disc.fresh, disc.known)
         /\ disc'.unattached = disc.unattached
         /\ GroupBecomes(group.status, {}, {}, {}, FALSE, FALSE)
         /\ UNCHANGED <<env, main, defs, auto, connected, file, vm, kube, index, launch, delete, cleaning,
                        panicked, crashes>>
<1>1. /\ disc.pc = "reset" /\ disc' = [disc EXCEPT !.pc = "attach", !.former = group.nodes]
      /\ group' = ResetMaps(group)
      /\ UNCHANGED <<env, main, defs, auto, limits, connected, file, vm, kube, index, launch, delete,
                     cleaning, panicked, crashes, connects>>
  BY DEF Reset
<1>2. group \in Group /\ disc \in Discovery
  BY DEF TypeOK
<1>3. group.nodes \in SUBSET Nodes
  BY <1>2, GroupFields
<1>4. DiscBecomes("attach", disc.by, disc.list, group.nodes, disc.fresh, disc.known)
      /\ disc'.unattached = disc.unattached
  BY <1>1, <1>2, <1>3 DEF DiscBecomes, Discovery
<1>5. GroupBecomes(group.status, {}, {}, {}, FALSE, FALSE)
  BY <1>1, <1>2, ResetMapsFields DEF GroupBecomes
<1>6. disc' \in Discovery /\ group' \in Group
  BY <1>4, <1>5 DEF DiscBecomes, GroupBecomes
<1>7. TypeOK'
  BY <1>1, <1>6 DEF TypeOK
<1> QED
  BY <1>1, <1>4, <1>5, <1>7

LEMMA AttachedFields ==
  ASSUME TypeOK, NEW n \in Nodes
  PROVE  /\ Attached(group, n) \in Group /\ Attached(group, n).status = group.status
         /\ Attached(group, n).nodes = group.nodes \cup {n} /\ Attached(group, n).pending = group.pending
         /\ Attached(group, n).running = group.running \cup {index[n]}
         /\ Attached(group, n).nilRunning = group.nilRunning
         /\ Attached(group, n).nilPending = group.nilPending
<1>1. group \in Group /\ index[n] \in Indexes
  BY DEF TypeOK
<1> QED
  BY <1>1 DEF Attached, Group

LEMMA AttachEffect ==
  ASSUME TypeOK, NEW n \in Nodes, Attach(n)
  PROVE  /\ TypeOK' /\ disc.pc = "attach" /\ n \in disc.list
         /\ DiscBecomes("attach", disc.by, disc.list \ {n}, disc.former, disc.fresh, disc.known)
         /\ \/ /\ env.attach = "blind" \/ n \in vm
               /\ GroupBecomes(group.status, group.nodes \cup {n}, group.pending,
                               group.running \cup {index[n]}, group.nilRunning, group.nilPending)
               /\ disc'.unattached = disc.unattached
            \/ /\ n \notin vm \/ May("attach")
               /\ group' = group
               /\ disc'.unattached = disc.unattached \cup ({n} \cap vm)
         /\ UNCHANGED <<env, main, defs, auto, connected, file, vm, kube, index, launch, delete, cleaning,
                        panicked, crashes>>
<1>1. /\ disc.pc = "attach" /\ n \in disc.list
      /\ UNCHANGED <<env, main, defs, auto, limits, connected, file, vm, kube, index, launch, delete,
                     cleaning, panicked, crashes, connects>>
  BY DEF Attach
<1>2. \/ /\ env.attach = "blind" \/ n \in vm
         /\ group' = Attached(group, n)
         /\ disc' = [disc EXCEPT !.list = @ \ {n}]
      \/ /\ n \notin vm \/ May("attach")
         /\ group' = group
         /\ disc' = [disc EXCEPT !.list = @ \ {n}, !.unattached = @ \cup ({n} \cap vm)]
  BY DEF Attach, SetServerConfiguration
<1>3. group \in Group /\ disc \in Discovery /\ vm \in SUBSET Nodes
  BY DEF TypeOK
<1>4. disc' = [disc EXCEPT !.list = @ \ {n}] =>
        /\ DiscBecomes("attach", disc.by, disc.list \ {n}, disc.former, disc.fresh, disc.known)
        /\ disc'.unattached = disc.unattached
  BY <1>1, <1>3 DEF DiscBecomes, Discovery
<1>5. disc' = [disc EXCEPT !.list = @ \ {n}, !.unattached = @ \cup ({n} \cap vm)] =>
        /\ DiscBecomes("attach", disc.by, disc.list \ {n}, disc.former, disc.fresh, disc.known)
        /\ disc'.unattached = disc.unattached \cup ({n} \cap vm)
  BY <1>1, <1>3 DEF DiscBecomes, Discovery
<1>6. group' = Attached(group, n) =>
        GroupBecomes(group.status, group.nodes \cup {n}, group.pending,
                     group.running \cup {index[n]}, group.nilRunning, group.nilPending)
  BY AttachedFields DEF GroupBecomes
<1>7. disc' \in Discovery /\ group' \in Group
  BY <1>2, <1>3, <1>4, <1>5, AttachedFields DEF DiscBecomes
<1>8. TypeOK'
  BY <1>1, <1>7 DEF TypeOK
<1> QED
  BY <1>1, <1>2, <1>4, <1>5, <1>6, <1>8

LEMMA AttachEndsEffect ==
  ASSUME TypeOK, AttachEnds
  PROVE  /\ TypeOK' /\ disc.pc = "attach" /\ disc.list = {}
         /\ DiscBecomes("drop", disc.by, disc.list, disc.former, disc.fresh, disc.known)
         /\ disc'.unattached = disc.unattached
         /\ UNCHANGED <<env, main, group, defs, auto, connected, file, vm, kube, index, launch, delete, cleaning,
                        panicked, crashes>>
<1>1. /\ disc.pc = "attach" /\ disc.list = {} /\ disc' = [disc EXCEPT !.pc = "drop"]
      /\ UNCHANGED <<env, main, group, defs, auto, limits, connected, file, vm, kube, index, launch, delete,
                     cleaning, panicked, crashes, connects>>
  BY DEF AttachEnds
<1>2. disc \in Discovery
  BY DEF TypeOK
<1>3. DiscBecomes("drop", disc.by, disc.list, disc.former, disc.fresh, disc.known)
      /\ disc'.unattached = disc.unattached
  BY <1>1, <1>2 DEF DiscBecomes, Discovery
<1>4. disc' \in Discovery
  BY <1>3 DEF DiscBecomes
<1>5. TypeOK'
  BY <1>1, <1>4 DEF TypeOK
<1> QED
  BY <1>1, <1>3, <1>5

\* The VM of n goes, and its Kubernetes node, or there was an error.
Loses(n) ==
  \/ vm' = vm \ {n} /\ kube' = kube \ {n}
  \/ May("delete") /\ vm' = vm /\ kube' \in {kube, kube \ {n}}

LEMMA DropEffect ==
  ASSUME TypeOK, NEW n \in Nodes, Drop(n)
  PROVE  /\ TypeOK' /\ disc.pc = "drop" /\ n \in disc.former
         /\ DiscBecomes("drop", disc.by, disc.list, disc.former \ {n}, disc.fresh, disc.known)
         /\ disc'.unattached = disc.unattached \ {n}
         /\ \/ n \notin group.nodes \cup group.pending /\ n \in vm /\ Loses(n)
            \/ (n \in group.nodes \cup group.pending \/ n \notin vm) /\ vm' = vm /\ kube' = kube
         /\ UNCHANGED <<env, main, group, defs, auto, connected, file, index, launch, delete, cleaning,
                        panicked, crashes>>
<1>1. /\ disc.pc = "drop" /\ n \in disc.former
      /\ disc' = [disc EXCEPT !.former = @ \ {n}, !.unattached = @ \ {n}]
      /\ UNCHANGED <<env, main, group, defs, auto, limits, connected, file, index, launch, delete,
                     cleaning, panicked, crashes, connects>>
  BY DEF Drop
<1>2. \/ n \notin group.nodes \cup group.pending /\ n \in vm /\ Loses(n)
      \/ (n \in group.nodes \cup group.pending \/ n \notin vm) /\ vm' = vm /\ kube' = kube
  BY <1>1 DEF Drop, Gone, DeleteVM, Loses
<1>3. disc \in Discovery /\ vm \in SUBSET Nodes /\ kube \in SUBSET Nodes
  BY DEF TypeOK
<1>4. DiscBecomes("drop", disc.by, disc.list, disc.former \ {n}, disc.fresh, disc.known)
      /\ disc'.unattached = disc.unattached \ {n}
  BY <1>1, <1>3 DEF DiscBecomes, Discovery
<1>5. disc' \in Discovery /\ vm' \in SUBSET Nodes /\ kube' \in SUBSET Nodes
  BY <1>2, <1>3, <1>4 DEF DiscBecomes, Loses
<1>6. TypeOK'
  BY <1>1, <1>5 DEF TypeOK
<1> QED
  BY <1>1, <1>2, <1>4, <1>6

LEMMA DiscoveryEndsEffect ==
  ASSUME TypeOK, DiscoveryEnds
  PROVE  /\ TypeOK' /\ disc.pc = "drop" /\ disc.former = {}
         /\ DiscBecomes("idle", "none", {}, {}, {}, FALSE) /\ disc'.unattached = disc.unattached
         /\ connected' = TRUE
         /\ \/ disc.by = "load" /\ main' = "listen"
            \/ disc.by = "external" /\ main' \in {"sync", "serving"}
            \/ disc.by \notin {"load", "external"} /\ main' = main
         /\ UNCHANGED <<env, group, defs, auto, file, vm, kube, index, launch, delete, cleaning,
                        panicked, crashes>>
<1>1. /\ disc.pc = "drop" /\ disc.former = {} /\ connected' = TRUE
      /\ disc' = [Idle EXCEPT !.unattached = disc.unattached]
      /\ UNCHANGED <<env, group, defs, auto, limits, file, vm, kube, index, launch, delete,
                     cleaning, panicked, crashes, connects>>
  BY DEF DiscoveryEnds
<1>2. \/ disc.by = "load" /\ main' = "listen"
      \/ disc.by = "external" /\ main' \in {"sync", "serving"}
      \/ disc.by \notin {"load", "external"} /\ main' = main
  BY DEF DiscoveryEnds
<1>3. disc.unattached \in SUBSET Nodes
  BY DiscoveryFields DEF TypeOK
<1>4. DiscBecomes("idle", "none", {}, {}, {}, FALSE) /\ disc'.unattached = disc.unattached
  BY <1>1, <1>3 DEF DiscBecomes, Discovery, Idle
<1>5. disc' \in Discovery
  BY <1>4 DEF DiscBecomes
<1>6. TypeOK'
  BY <1>1, <1>2, <1>5 DEF TypeOK
<1> QED
  BY <1>1, <1>2, <1>4, <1>6

-----------------------------------------------------------------------------
(* The effects of launching and deleting *)

\* What the steps of a launch, of a deletion and of a request leave alone.
Apart == UNCHANGED <<env, main, defs, auto, connected, file, cleaning, panicked, crashes>>

LEMMA UpdateLaunch ==
  ASSUME TypeOK, NEW n \in Nodes, NEW to \in {"no", "reserved", "created", "annotated", "registered"},
         launch' = [launch EXCEPT ![n] = to]
  PROVE  LaunchMoves(n, to)
BY DEF TypeOK, LaunchMoves

LEMMA UpdateDelete ==
  ASSUME TypeOK, NEW n \in Nodes, NEW to \in {"no", "asked", "gone"},
         delete' = [delete EXCEPT ![n] = to]
  PROVE  DeleteMoves(n, to)
BY DEF TypeOK, DeleteMoves

LEMMA Typing ==
  ASSUME TypeOK, Apart, UNCHANGED <<limits, connects>>, group' \in Group, disc' \in Discovery,
         vm' \in SUBSET Nodes, kube' \in SUBSET Nodes, index' \in [Nodes -> Indexes],
         launch' \in [Nodes -> {"no", "reserved", "created", "annotated", "registered"}],
         delete' \in [Nodes -> {"no", "asked", "gone"}]
  PROVE  TypeOK'
BY DEF TypeOK, Apart

LEMMA LaunchRefusedEffect ==
  ASSUME TypeOK, NEW n \in Nodes, LaunchRefused(n)
  PROVE  /\ TypeOK' /\ launch[n] = "reserved" /\ group.status # "Created"
         /\ GroupBecomes(group.status, group.nodes, group.pending, group.running \ {index[n]},
                         group.nilRunning, group.nilPending)
         /\ LaunchMoves(n, "no") /\ Apart /\ UNCHANGED <<disc, vm, kube, index, delete>>
<1>1. /\ launch[n] = "reserved" /\ group.status # "Created"
      /\ group' = [group EXCEPT !.running = @ \ {index[n]}] /\ launch' = [launch EXCEPT ![n] = "no"]
      /\ Apart /\ UNCHANGED <<limits, connects, disc, vm, kube, index, delete>>
  BY DEF LaunchRefused, Apart
<1>2. group \in Group
  BY DEF TypeOK
<1>3. GroupBecomes(group.status, group.nodes, group.pending, group.running \ {index[n]},
                   group.nilRunning, group.nilPending)
  BY <1>1, <1>2 DEF GroupBecomes, Group
<1>4. LaunchMoves(n, "no")
  BY <1>1, UpdateLaunch
<1>5. TypeOK'
  BY <1>1, <1>3, <1>4, Typing DEF TypeOK, GroupBecomes, LaunchMoves
<1> QED
  BY <1>1, <1>3, <1>4, <1>5

LEMMA LaunchVMEffect ==
  ASSUME TypeOK, NEW n \in Nodes, LaunchVM(n)
  PROVE  /\ TypeOK' /\ launch[n] = "reserved" /\ group.status = "Created" /\ vm' = vm \cup {n}
         /\ LaunchMoves(n, "created") /\ Apart /\ UNCHANGED <<group, disc, kube, index, delete>>
<1>1. /\ launch[n] = "reserved" /\ group.status = "Created"
      /\ vm' = vm \cup {n} /\ launch' = [launch EXCEPT ![n] = "created"]
      /\ Apart /\ UNCHANGED <<limits, connects, group, disc, kube, index, delete>>
  BY DEF LaunchVM, Apart
<1>2. LaunchMoves(n, "created")
  BY <1>1, UpdateLaunch
<1>3. TypeOK'
  BY <1>1, <1>2, Typing DEF TypeOK, LaunchMoves
<1> QED
  BY <1>1, <1>2, <1>3

LEMMA AnnoteNodeEffect ==
  ASSUME TypeOK, NEW n \in Nodes, AnnoteNode(n)
  PROVE  /\ TypeOK' /\ launch[n] = "created" /\ kube' = kube \cup {n}
         /\ \/ /\ disc.pc \in {"reset", "attach", "drop"}
               /\ DiscBecomes(disc.pc, disc.by, disc.list, disc.former, disc.fresh \cup {n}, disc.known)
            \/ disc.pc \in {"idle", "list"} /\ disc' = disc
         /\ disc'.unattached = disc.unattached
         /\ LaunchMoves(n, "annotated") /\ Apart /\ UNCHANGED <<group, vm, index, delete>>
<1>1. /\ launch[n] = "created"
      /\ kube' = kube \cup {n} /\ launch' = [launch EXCEPT ![n] = "annotated"]
      /\ Apart /\ UNCHANGED <<limits, connects, group, vm, index, delete>>
  BY DEF AnnoteNode, Apart
<1>2. disc \in Discovery
  BY DEF TypeOK
<1>3. /\ \/ /\ disc.pc \in {"reset", "attach", "drop"}
            /\ DiscBecomes(disc.pc, disc.by, disc.list, disc.former, disc.fresh \cup {n}, disc.known)
         \/ disc.pc \in {"idle", "list"} /\ disc' = disc
      /\ disc'.unattached = disc.unattached
  BY <1>2 DEF AnnoteNode, DiscBecomes, Discovery
<1>4. LaunchMoves(n, "annotated")
  BY <1>1, UpdateLaunch
<1>5. disc' \in Discovery
  BY <1>2, <1>3 DEF DiscBecomes
<1>6. TypeOK'
  BY <1>1, <1>4, <1>5, Typing DEF TypeOK, LaunchMoves
<1> QED
  BY <1>1, <1>3, <1>4, <1>6

LEMMA RegisterNodeEffect ==
  ASSUME TypeOK, NEW n \in Nodes, RegisterNode(n)
  PROVE  /\ TypeOK' /\ launch[n] = "annotated"
         /\ GroupBecomes(group.status, group.nodes \cup {n}, group.pending, group.running \cup {index[n]},
                         group.nilRunning, group.nilPending)
         /\ LaunchMoves(n, "registered") /\ Apart /\ UNCHANGED <<disc, vm, kube, index, delete>>
<1>1. /\ launch[n] = "annotated"
      /\ group' = Attached(group, n) /\ launch' = [launch EXCEPT ![n] = "registered"]
      /\ Apart /\ UNCHANGED <<limits, connects, disc, vm, kube, index, delete>>
  BY DEF RegisterNode, Apart
<1>2. GroupBecomes(group.status, group.nodes \cup {n}, group.pending, group.running \cup {index[n]},
                   group.nilRunning, group.nilPending)
  BY <1>1, AttachedFields DEF GroupBecomes
<1>3. LaunchMoves(n, "registered")
  BY <1>1, UpdateLaunch
<1>4. TypeOK'
  BY <1>1, <1>2, <1>3, Typing DEF TypeOK, GroupBecomes, LaunchMoves
<1> QED
  BY <1>1, <1>2, <1>3, <1>4

LEMMA LaunchEndsEffect ==
  ASSUME TypeOK, NEW n \in Nodes, LaunchEnds(n)
  PROVE  /\ TypeOK' /\ launch[n] = "registered"
         /\ GroupBecomes(group.status, group.nodes, group.pending \ {n}, group.running,
                         group.nilRunning, group.nilPending)
         /\ LaunchMoves(n, "no") /\ Apart /\ UNCHANGED <<disc, vm, kube, index, delete>>
<1>1. /\ launch[n] = "registered"
      /\ group' = [group EXCEPT !.pending = @ \ {n}] /\ launch' = [launch EXCEPT ![n] = "no"]
      /\ Apart /\ UNCHANGED <<limits, connects, disc, vm, kube, index, delete>>
  BY DEF LaunchEnds, Apart
<1>2. group \in Group
  BY DEF TypeOK
<1>3. GroupBecomes(group.status, group.nodes, group.pending \ {n}, group.running,
                   group.nilRunning, group.nilPending)
  BY <1>1, <1>2 DEF GroupBecomes, Group
<1>4. LaunchMoves(n, "no")
  BY <1>1, UpdateLaunch
<1>5. TypeOK'
  BY <1>1, <1>3, <1>4, Typing DEF TypeOK, GroupBecomes, LaunchMoves
<1> QED
  BY <1>1, <1>3, <1>4, <1>5

LEMMA LaunchFailsEffect ==
  ASSUME TypeOK, NEW n \in Nodes, LaunchFails(n)
  PROVE  /\ TypeOK' /\ launch[n] = "created" /\ Loses(n)
         /\ GroupBecomes(group.status, group.nodes, group.pending \ {n}, group.running \ {index[n]},
                         group.nilRunning, group.nilPending)
         /\ LaunchMoves(n, "no") /\ Apart /\ UNCHANGED <<disc, index, delete>>
<1>1. /\ launch[n] = "created" /\ Loses(n)
      /\ group' = [group EXCEPT !.pending = @ \ {n}, !.running = @ \ {index[n]}]
      /\ launch' = [launch EXCEPT ![n] = "no"]
      /\ Apart /\ UNCHANGED <<limits, connects, disc, index, delete>>
  BY DEF LaunchFails, DeleteVM, Loses, Apart
<1>2. group \in Group /\ vm' \in SUBSET Nodes /\ kube' \in SUBSET Nodes
  BY <1>1 DEF TypeOK, Loses
<1>3. GroupBecomes(group.status, group.nodes, group.pending \ {n}, group.running \ {index[n]},
                   group.nilRunning, group.nilPending)
  BY <1>1, <1>2 DEF GroupBecomes, Group
<1>4. LaunchMoves(n, "no")
  BY <1>1, UpdateLaunch
<1>5. TypeOK'
  BY <1>1, <1>2, <1>3, <1>4, Typing DEF TypeOK, GroupBecomes, LaunchMoves
<1> QED
  BY <1>1, <1>3, <1>4, <1>5

LEMMA DeleteNodesEffect ==
  ASSUME TypeOK, NEW n \in Nodes, DeleteNodes(n)
  PROVE  /\ TypeOK' /\ Serving /\ Asked("delete") /\ MayRequest
         /\ n \in group.nodes /\ launch[n] = "no" /\ delete[n] = "no"
         /\ DeleteMoves(n, "asked") /\ Apart /\ UNCHANGED <<group, disc, vm, kube, index, launch>>
<1>1. /\ Serving /\ Asked("delete") /\ MayRequest
      /\ n \in group.nodes /\ launch[n] = "no" /\ delete[n] = "no"
      /\ delete' = [delete EXCEPT ![n] = "asked"]
      /\ Apart /\ UNCHANGED <<limits, connects, group, disc, vm, kube, index, launch>>
  BY DEF DeleteNodes, Apart
<1>2. DeleteMoves(n, "asked")
  BY <1>1, UpdateDelete
<1>3. TypeOK'
  BY <1>1, <1>2, Typing DEF TypeOK, DeleteMoves
<1> QED
  BY <1>1, <1>2, <1>3

LEMMA DeleteMissesEffect ==
  ASSUME TypeOK, NEW n \in Nodes, DeleteMisses(n)
  PROVE  \/ Panics
         \/ /\ TypeOK' /\ delete[n] = "asked" /\ n \notin group.nodes \cup group.pending
            /\ DeleteMoves(n, "no") /\ Apart /\ UNCHANGED <<group, disc, vm, kube, index, launch>>
<1>1. delete[n] = "asked" /\ n \notin group.nodes \cup group.pending
  BY DEF DeleteMisses
<1>2. \/ Panic /\ env.front = "externalgrpc" /\ group.status = "absent"
      \/ /\ delete' = [delete EXCEPT ![n] = "no"]
         /\ Apart /\ UNCHANGED <<limits, connects, group, disc, vm, kube, index, launch>>
  BY DEF DeleteMisses, Apart
<1>3. CASE Panic /\ env.front = "externalgrpc" /\ group.status = "absent"
  BY <1>1, <1>3 DEF Panics
<1>4. CASE /\ delete' = [delete EXCEPT ![n] = "no"]
           /\ Apart /\ UNCHANGED <<limits, connects, group, disc, vm, kube, index, launch>>
  <2>1. DeleteMoves(n, "no")
    BY <1>4, UpdateDelete
  <2>2. TypeOK'
    BY <1>4, <2>1, Typing DEF TypeOK, DeleteMoves
  <2> QED
    BY <1>1, <1>4, <2>1, <2>2
<1> QED
  BY <1>2, <1>3, <1>4

LEMMA DeletesVMEffect ==
  ASSUME TypeOK, NEW n \in Nodes, DeletesVM(n)
  PROVE  /\ TypeOK' /\ delete[n] = "asked" /\ n \in group.nodes \cup group.pending /\ Loses(n)
         /\ DeleteMoves(n, "gone") /\ Apart /\ UNCHANGED <<group, disc, index, launch>>
<1>1. /\ delete[n] = "asked" /\ n \in group.nodes \cup group.pending /\ Loses(n)
      /\ delete' = [delete EXCEPT ![n] = "gone"]
      /\ Apart /\ UNCHANGED <<limits, connects, group, disc, index, launch>>
  BY DEF DeletesVM, DeleteVM, Loses, Apart
<1>2. DeleteMoves(n, "gone")
  BY <1>1, UpdateDelete
<1>3. vm' \in SUBSET Nodes /\ kube' \in SUBSET Nodes
  BY <1>1 DEF TypeOK, Loses
<1>4. TypeOK'
  BY <1>1, <1>2, <1>3, Typing DEF TypeOK, DeleteMoves
<1> QED
  BY <1>1, <1>2, <1>4

LEMMA DeleteEndsEffect ==
  ASSUME TypeOK, NEW n \in Nodes, DeleteEnds(n)
  PROVE  /\ TypeOK' /\ delete[n] = "gone"
         /\ GroupBecomes(group.status, group.nodes \ {n}, group.pending \ {n}, group.running \ {index[n]},
                         group.nilRunning, group.nilPending)
         /\ DeleteMoves(n, "no") /\ Apart /\ UNCHANGED <<disc, vm, kube, index, launch>>
<1>1. /\ delete[n] = "gone" /\ delete' = [delete EXCEPT ![n] = "no"]
      /\ group' = [group EXCEPT !.nodes = @ \ {n}, !.pending = @ \ {n}, !.running = @ \ {index[n]}]
      /\ Apart /\ UNCHANGED <<limits, connects, disc, vm, kube, index, launch>>
  BY DEF DeleteEnds, Removed, Apart
<1>2. group \in Group
  BY DEF TypeOK
<1>3. GroupBecomes(group.status, group.nodes \ {n}, group.pending \ {n}, group.running \ {index[n]},
                   group.nilRunning, group.nilPending)
  BY <1>1, <1>2 DEF GroupBecomes, Group
<1>4. DeleteMoves(n, "no")
  BY <1>1, UpdateDelete
<1>5. TypeOK'
  BY <1>1, <1>3, <1>4, Typing DEF TypeOK, GroupBecomes, DeleteMoves
<1> QED
  BY <1>1, <1>3, <1>4, <1>5

-----------------------------------------------------------------------------
(* The effects of the requests *)

\* Node n gets index i, and the indexes up from base are taken.
Reserves(names, n, base, i) ==
  /\ ~NilMaps(group) /\ n \in names \cap Nodes /\ n \notin group.nodes \cup group.pending \cup vm
  /\ base \in Indexes \ group.running /\ i \in Indexes
  /\ names \cap vm \subseteq group.nodes \cup group.pending => i = base
  /\ GroupBecomes(group.status, group.nodes, group.pending \cup {n}, group.running \cup (base .. i),
                  group.nilRunning, group.nilPending)
  /\ index' \in [Nodes -> Indexes] /\ index'[n] = i /\ \A m \in Nodes \ {n} : index'[m] = index[m]
  /\ i \in base .. i
  /\ LaunchMoves(n, "reserved") /\ Apart /\ UNCHANGED <<disc, vm, kube, delete>>

LEMMA ReserveEffect ==
  ASSUME TypeOK, NEW names \in SUBSET Nodes, Reserve(names), ~NilMaps(group)
  PROVE  TypeOK' /\ \E n \in Nodes, base, i \in Indexes : Reserves(names, n, base, i)
<1>1. PICK n \in Nodes, base \in Indexes :
        /\ IsLeast(n, Free(names) \ vm) /\ IsLeast(base, FreeIndexes)
        /\ group' = Reserved(group, n, base, Cardinality(Skipped(names, n)))
        /\ index' = [index EXCEPT ![n] = base + Cardinality(Skipped(names, n))]
        /\ launch' = [launch EXCEPT ![n] = "reserved"]
  BY DEF Reserve
<1> DEFINE skipped == Cardinality(Skipped(names, n))
           i == base + skipped
<1>2. Apart /\ UNCHANGED <<limits, connects, disc, vm, kube, delete>>
  BY DEF Reserve, Apart
<1>3. /\ group \in Group /\ index \in [Nodes -> Indexes]
      /\ n \in names /\ n \notin group.nodes \cup group.pending \cup vm
      /\ base \in 0 .. MaxNodeSize - 1 /\ base \notin group.running
      /\ \A m \in Free(names) \ vm : n <= m
  BY <1>1 DEF IsLeast, Free, FreeIndexes, TypeOK
<1>4. skipped \in Nat /\ skipped <= Cardinality(Nodes)
  <2>1. Skipped(names, n) \subseteq Nodes
    BY DEF Skipped, Free
  <2> QED
    BY <2>1, NodesFinite, FS_Subset, FS_CardinalityType
<1>5. names \cap vm \subseteq group.nodes \cup group.pending => skipped = 0
  <2> SUFFICES ASSUME names \cap vm \subseteq group.nodes \cup group.pending PROVE skipped = 0
    OBVIOUS
  <2>1. Nodes \subseteq Nat
    BY ServerAppAssumption DEF Nodes
  <2>2. ASSUME NEW m \in Skipped(names, n) PROVE FALSE
    <3>1. m \in names /\ m \notin group.nodes \cup group.pending /\ m < n /\ m \in Free(names)
      BY DEF Skipped, Free
    <3>2. m \in Nat /\ n \in Nat /\ m \notin vm
      BY <2>1, <3>1
    <3>3. n <= m
      BY <1>3, <3>1, <3>2
    <3> QED
      BY <3>1, <3>2, <3>3
  <2> QED
    <3>1. Skipped(names, n) = {}
      BY <2>2
    <3> QED
      BY <3>1, FS_EmptySet
<1>6. i \in Indexes /\ base .. i \subseteq Indexes /\ i \in base .. i /\ (skipped = 0 => i = base)
  BY <1>3, <1>4, NodesFinite, ServerAppAssumption DEF Indexes
<1>7. /\ group' = Reserved(group, n, base, skipped) /\ index' = [index EXCEPT ![n] = i]
      /\ launch' = [launch EXCEPT ![n] = "reserved"]
  BY <1>1
<1>8. Reserved(group, n, base, skipped) = [group EXCEPT !.pending = @ \cup {n}, !.running = @ \cup (base .. i)]
  BY DEF Reserved
<1> HIDE DEF skipped, i
<1>9. GroupBecomes(group.status, group.nodes, group.pending \cup {n}, group.running \cup (base .. i),
                   group.nilRunning, group.nilPending)
  <2> DEFINE taken == base .. i
  <2>1. taken \subseteq Indexes /\ group' = [group EXCEPT !.pending = @ \cup {n}, !.running = @ \cup taken]
    BY <1>6, <1>7, <1>8
  <2> HIDE DEF taken
  <2>2. GroupBecomes(group.status, group.nodes, group.pending \cup {n}, group.running \cup taken,
                     group.nilRunning, group.nilPending)
    BY <1>3, <2>1 DEF GroupBecomes, Group
  <2> QED
    BY <2>2 DEF taken
<1>10. index' \in [Nodes -> Indexes] /\ index'[n] = i /\ \A m \in Nodes \ {n} : index'[m] = index[m]
  BY <1>3, <1>6, <1>7
<1>11. LaunchMoves(n, "reserved")
  BY <1>7, UpdateLaunch
<1>12. Reserves(names, n, base, i)
  BY <1>2, <1>3, <1>5, <1>6, <1>9, <1>10, <1>11 DEF Reserves
<1>13. TypeOK'
  BY <1>2, <1>9, <1>10, <1>11, Typing DEF TypeOK, GroupBecomes, LaunchMoves
<1> QED
  BY <1>6, <1>12, <1>13

LEMMA IncreaseSizeEffect ==
  ASSUME TypeOK, IncreaseSize
  PROVE  \/ Panics
         \/ /\ TypeOK' /\ Serving /\ MayRequest /\ group.status = "Created"
            /\ \E n \in Nodes, base, i \in Indexes : Reserves(AutoNames, n, base, i)
<1>1. Serving /\ MayRequest /\ group.status = "Created" /\ Reserve(AutoNames)
  BY DEF IncreaseSize
<1>2. NilMaps(group) => Panics
  BY <1>1 DEF Reserve, Panics
<1>3. AutoNames \in SUBSET Nodes
  BY DEF Nodes
<1> QED
  BY <1>1, <1>2, <1>3, ReserveEffect

LEMMA AddManagedNodeEffect ==
  ASSUME TypeOK, AddManagedNode
  PROVE  \/ Panics
         \/ /\ TypeOK' /\ ControllerRuns /\ Asked("managed") /\ (MayRequest \/ disc.by = "external")
            /\ \E n \in Nodes, base, i \in Indexes : Reserves(ManagedNames, n, base, i)
<1>1. /\ ControllerRuns /\ Asked("managed") /\ group.status # "absent" /\ (MayRequest \/ disc.by = "external")
      /\ Reserve(ManagedNames)
  BY DEF AddManagedNode
<1>2. NilMaps(group) => Panics
  BY <1>1 DEF Reserve, Panics
<1>3. ManagedNames \in SUBSET Nodes
  BY DEF Nodes
<1> QED
  BY <1>1, <1>2, <1>3, ReserveEffect

\* Both, but for a panic.
Grows(n, base, i) ==
  /\ TypeOK'
  /\ \/ /\ Serving /\ MayRequest /\ group.status = "Created" /\ n \in AutoNames
        /\ Reserves(AutoNames, n, base, i)
     \/ /\ ControllerRuns /\ Asked("managed") /\ (MayRequest \/ disc.by = "external") /\ n \in ManagedNames
        /\ Reserves(ManagedNames, n, base, i)

LEMMA GrowsEffect ==
  ASSUME TypeOK, NEW n \in Nodes, NEW base \in Indexes, NEW i \in Indexes, Grows(n, base, i)
  PROVE  /\ TypeOK' /\ ~NilMaps(group) /\ n \notin group.nodes \cup group.pending \cup vm
         /\ \/ Serving /\ MayRequest /\ group.status = "Created" /\ n \in AutoNames /\ n \notin ManagedNames
            \/ ControllerRuns /\ Asked("managed") /\ (MayRequest \/ disc.by = "external") /\ n \in ManagedNames
         /\ LaunchMoves(n, "reserved") /\ Apart /\ UNCHANGED <<disc, vm, kube, delete>>
         /\ GroupBecomes(group.status, group.nodes, group.pending \cup {n}, group.running \cup (base .. i),
                         group.nilRunning, group.nilPending)
<1>1. n \in AutoNames => n \notin ManagedNames
  BY ServerAppAssumption
<1> QED
  BY <1>1 DEF Grows, Reserves

LEMMA NewNodeGroupEffect ==
  ASSUME TypeOK, NEW min \in {0, 1}, NewNodeGroup(min)
  PROVE  /\ TypeOK' /\ Serving /\ env.front = "grpc" /\ Asked("newgroup") /\ disc.pc = "idle"
         /\ group.status = "absent" /\ GroupBecomes("NotCreated", {}, {}, {}, TRUE, FALSE)
         /\ Apart /\ UNCHANGED <<disc, vm, kube, index, launch, delete>>
<1>1. /\ Serving /\ env.front = "grpc" /\ Asked("newgroup") /\ disc.pc = "idle" /\ group.status = "absent"
      /\ group' = NewGroup(min, FALSE)
      /\ Apart /\ UNCHANGED <<limits, connects, disc, vm, kube, index, launch, delete>>
  BY DEF NewNodeGroup, Apart
<1>2. GroupBecomes("NotCreated", {}, {}, {}, TRUE, FALSE)
  BY <1>1 DEF NewGroup, GroupBecomes, Group, Absent
<1>3. TypeOK'
  BY <1>1, <1>2, Typing DEF TypeOK, GroupBecomes
<1> QED
  BY <1>1, <1>2, <1>3

LEMMA CreateEffect ==
  ASSUME TypeOK, Create
  PROVE  /\ TypeOK' /\ Serving /\ env.front = "grpc" /\ Asked("newgroup") /\ disc.pc = "idle"
         /\ group.status = "NotCreated"
         /\ GroupBecomes("Created", group.nodes, group.pending, group.running, group.nilRunning, group.nilPending)
         /\ Apart /\ UNCHANGED <<disc, vm, kube, index, launch, delete>>
<1>1. /\ Serving /\ env.front = "grpc" /\ Asked("newgroup") /\ disc.pc = "idle" /\ group.status = "NotCreated"
      /\ group' = [group EXCEPT !.status = "Created"]
      /\ Apart /\ UNCHANGED <<limits, connects, disc, vm, kube, index, launch, delete>>
  BY DEF Create, CreateNodeGroup, Apart
<1>2. group \in Group
  BY DEF TypeOK
<1>3. GroupBecomes("Created", group.nodes, group.pending, group.running, group.nilRunning, group.nilPending)
  BY <1>1, <1>2 DEF GroupBecomes, Group
<1>4. TypeOK'
  BY <1>1, <1>3, Typing DEF TypeOK, GroupBecomes
<1> QED
  BY <1>1, <1>3, <1>4

LEMMA CleanupBeginsEffect ==
  ASSUME TypeOK, CleanupBegins
  PROVE  /\ TypeOK' /\ Serving /\ Asked("cleanup") /\ disc.pc = "idle" /\ group.status # "absent" /\ ~cleaning
         /\ GroupBecomes("Deleting", group.nodes, group.pending, group.running, group.nilRunning, group.nilPending)
         /\ connected' = FALSE /\ cleaning' = TRUE
         /\ UNCHANGED <<env, main, defs, auto, disc, file, vm, kube, index, launch, delete, panicked, crashes>>
<1>1. /\ Serving /\ Asked("cleanup") /\ disc.pc = "idle" /\ group.status # "absent" /\ ~cleaning
      /\ group' = [group EXCEPT !.status = "Deleting"] /\ connected' = FALSE /\ cleaning' = TRUE
      /\ UNCHANGED <<env, main, defs, auto, disc, file, vm, kube, index, launch, delete, panicked, crashes>>
      /\ UNCHANGED <<limits, connects>>
  BY DEF CleanupBegins
<1>2. group \in Group
  BY DEF TypeOK
<1>3. GroupBecomes("Deleting", group.nodes, group.pending, group.running, group.nilRunning, group.nilPending)
  BY <1>1, <1>2 DEF GroupBecomes, Group
<1>4. TypeOK'
  BY <1>1, <1>3 DEF TypeOK, GroupBecomes
<1> QED
  BY <1>1, <1>3, <1>4

\* The nodes that a Cleanup deletes.
Mine == AutoNames \cap (group.nodes \cup group.pending)

LEMMA CleanupEndsEffect ==
  ASSUME TypeOK, CleanupEnds
  PROVE  /\ TypeOK' /\ cleaning /\ NoLaunches
         /\ \/ vm' = vm \ Mine /\ kube' = kube \ Mine /\ group' = Absent
            \/ /\ May("delete") /\ vm' = vm /\ kube' = kube
               /\ group' = Absent \/ GroupBecomes("Deleted", {}, {}, {}, FALSE, FALSE)
         /\ cleaning' = FALSE
         /\ UNCHANGED <<env, main, defs, auto, connected, disc, file, index, launch, delete, panicked, crashes>>
<1>1. /\ cleaning /\ NoLaunches /\ cleaning' = FALSE
      /\ UNCHANGED <<env, main, defs, auto, connected, disc, file, index, launch, delete, panicked, crashes>>
      /\ UNCHANGED <<limits, connects>>
  BY DEF CleanupEnds, NoLaunches
<1>2. \/ vm' = vm \ Mine /\ kube' = kube \ Mine /\ group' = Absent
      \/ /\ May("delete") /\ vm' = vm /\ kube' = kube
         /\ group' \in {Absent, [ResetMaps(group) EXCEPT !.status = "Deleted"]}
  BY DEF CleanupEnds, Mine
<1>3. ResetMaps(group) \in Group
  BY ResetMapsFields DEF TypeOK
<1>4. group' = [ResetMaps(group) EXCEPT !.status = "Deleted"] => GroupBecomes("Deleted", {}, {}, {}, FALSE, FALSE)
  BY <1>3, ResetMapsFields DEF GroupBecomes, Group, TypeOK
<1>5. \/ vm' = vm \ Mine /\ kube' = kube \ Mine /\ group' = Absent
      \/ /\ May("delete") /\ vm' = vm /\ kube' = kube
         /\ group' = Absent \/ GroupBecomes("Deleted", {}, {}, {}, FALSE, FALSE)
  BY <1>2, <1>4
<1>6. group' \in Group
  BY <1>5, AbsentFields DEF GroupBecomes
<1>7. TypeOK'
  BY <1>1, <1>2, <1>6 DEF TypeOK
<1> QED
  BY <1>1, <1>5, <1>7

LEMMA KubectlDeleteEffect ==
  ASSUME TypeOK, NEW n \in Nodes, KubectlDelete(n)
  PROVE  /\ TypeOK' /\ Asked("kubectl") /\ n \in AutoNames /\ launch[n] = "no" /\ kube' = kube \ {n}
         /\ Apart /\ UNCHANGED <<group, disc, vm, index, launch, delete>>
<1>1. /\ Asked("kubectl") /\ n \in AutoNames /\ launch[n] = "no" /\ kube' = kube \ {n}
      /\ Apart /\ UNCHANGED <<limits, connects, group, disc, vm, index, launch, delete>>
  BY DEF KubectlDelete, Apart
<1>2. TypeOK'
  BY <1>1, Typing DEF TypeOK
<1> QED
  BY <1>1, <1>2

LEMMA ListFailsEffect ==
  ASSUME TypeOK, ListFails
  PROVE  \/ Exits
         \/ /\ TypeOK' /\ disc.pc = "list" /\ disc.by = "connect" /\ May("list") /\ disc' = Idle /\ connected' = FALSE
            /\ UNCHANGED <<env, main, group, defs, auto, file, vm, kube, index, launch, delete, cleaning,
                           panicked, crashes>>
<1>1. disc.pc = "list" /\ May("list")
  BY DEF ListFails
<1>2. \/ disc.by # "connect" /\ Dies /\ UNCHANGED <<panicked, crashes>>
      \/ /\ disc.by = "connect" /\ disc' = Idle /\ connected' = FALSE
         /\ UNCHANGED <<env, main, group, defs, auto, limits, file, vm, kube, index, launch, delete, cleaning,
                        panicked, crashes, connects>>
  BY DEF ListFails
<1>3. disc' = Idle => disc' \in Discovery
  BY IdleFields
<1>4. CASE disc.by # "connect" /\ Dies /\ UNCHANGED <<panicked, crashes>>
  BY <1>1, <1>4 DEF Exits
<1>5. CASE /\ disc.by = "connect" /\ disc' = Idle /\ connected' = FALSE
           /\ UNCHANGED <<env, main, group, defs, auto, limits, file, vm, kube, index, launch, delete, cleaning,
                          panicked, crashes, connects>>
  <2>1. TypeOK'
    BY <1>3, <1>5 DEF TypeOK
  <2> QED
    BY <1>1, <1>5, <2>1
<1> QED
  BY <1>2, <1>4, <1>5

-----------------------------------------------------------------------------
(* The steps *)

LEMMA Cases ==
  ASSUME TypeOK, [Next]_vars
  PROVE  \/ StartFresh
         \/ FirstSave
         \/ FirstSaveEncodes
         \/ Load
         \/ ListenGrpc
         \/ ListenExternal /\ ~ProvisionRefused(group)
         \/ Sync
         \/ SyncEncodes
         \/ ListNodes
         \/ Reset
         \/ \E n \in Nodes : Attach(n)
         \/ AttachEnds
         \/ \E n \in Nodes : Drop(n)
         \/ DiscoveryEnds
         \/ \E n \in Nodes : LaunchRefused(n)
         \/ \E n \in Nodes : LaunchVM(n)
         \/ \E n \in Nodes : AnnoteNode(n)
         \/ \E n \in Nodes : RegisterNode(n)
         \/ \E n \in Nodes : LaunchEnds(n)
         \/ \E n \in Nodes : LaunchFails(n)
         \/ \E n \in Nodes : DeleteNodes(n)
         \/ \E n \in Nodes : DeleteMisses(n) /\ ~Panics
         \/ \E n \in Nodes : DeletesVM(n)
         \/ \E n \in Nodes : DeleteEnds(n)
         \/ Connect
         \/ \E min \in {0, 1} : NewNodeGroup(min)
         \/ Create
         \/ \E n \in Nodes, base, i \in Indexes : Grows(n, base, i)
         \/ CleanupBegins
         \/ CleanupEnds
         \/ Refresh
         \/ RefreshEncodes
         \/ \E n \in Nodes : KubectlDelete(n)
         \/ ListFails /\ ~Exits
         \/ Crash
         \/ Exits
         \/ Panics
         \/ UNCHANGED vars
<1>1. CASE UNCHANGED vars
  BY <1>1
<1>2. CASE Starts
  <2>1. ListenExternal /\ ProvisionRefused(group) => Exits
    BY DEF ListenExternal, Exits
  <2> QED
    BY <1>2, <2>1 DEF Starts
<1>3. CASE Discovers
  BY <1>3 DEF Discovers
<1>4. CASE \E n \in Nodes : Runs(n)
  BY <1>4 DEF Runs
<1>5. CASE CleanupEnds \/ RefreshEncodes
  BY <1>5
<1>6. CASE Requests
  <2>1. IncreaseSize => Panics \/ \E n \in Nodes, base, i \in Indexes : Grows(n, base, i)
    BY IncreaseSizeEffect DEF Grows, Reserves
  <2>2. AddManagedNode => Panics \/ \E n \in Nodes, base, i \in Indexes : Grows(n, base, i)
    BY AddManagedNodeEffect DEF Grows, Reserves
  <2> QED
    BY <1>6, <2>1, <2>2 DEF Requests
<1>7. CASE Fails
  BY <1>7 DEF Fails
<1> QED
  BY <1>1, <1>2, <1>3, <1>4, <1>5, <1>6, <1>7 DEF Next

-----------------------------------------------------------------------------
(* The parts of the invariant *)

LEMMA PhaseInvStep ==
  ASSUME TypeOK, PhaseInv, [Next]_vars
  PROVE  PhaseInv'
<1> USE DEF PhaseInv, NoDeletions, MayConnect, MayRequest, Still, Apart, Opens, Encodes, DiscBecomes,
      DeleteMoves, LaunchMoves, Loses, Forgotten, Asked, May, Serving, Attaching
<1>1. ASSUME StartFresh PROVE PhaseInv'
  BY <1>1, StartFreshEffect
<1>2. ASSUME FirstSave PROVE PhaseInv'
  BY <1>2, OpensEffect DEF FirstSave
<1>3. ASSUME FirstSaveEncodes PROVE PhaseInv'
  BY <1>3, EncodesEffect DEF FirstSaveEncodes
<1>4. ASSUME Load PROVE PhaseInv'
  <2>1. /\ main = "down" /\ disc.by = "none" /\ disc.pc = "idle"
        /\ UNCHANGED <<env, connected, file, delete, cleaning>>
    BY <1>4, LoadEffect, DiscoveryFields DEF TypeOK
  <2>2. \/ main' = "provision" /\ DiscBecomes("list", "load", {}, {}, {}, FALSE)
        \/ main' = "listen" /\ disc' = disc
    BY <1>4, LoadEffect
  <2> QED
    BY <2>1, <2>2
<1>5. ASSUME ListenGrpc PROVE PhaseInv'
  BY <1>5, ListenGrpcEffect
<1>6. ASSUME ListenExternal, ~ProvisionRefused(group) PROVE PhaseInv'
  BY <1>6, ListenExternalEffect
<1>7. ASSUME Sync PROVE PhaseInv'
  BY <1>7, OpensEffect DEF Sync
<1>8. ASSUME SyncEncodes PROVE PhaseInv'
  BY <1>8, EncodesEffect DEF SyncEncodes
<1>9. ASSUME ListNodes PROVE PhaseInv'
  BY <1>9, ListNodesEffect
<1>10. ASSUME Reset PROVE PhaseInv'
  BY <1>10, ResetEffect
<1>11. ASSUME NEW n \in Nodes, Attach(n) PROVE PhaseInv'
  BY <1>11, AttachEffect
<1>12. ASSUME AttachEnds PROVE PhaseInv'
  BY <1>12, AttachEndsEffect
<1>13. ASSUME NEW n \in Nodes, Drop(n) PROVE PhaseInv'
  <2>1. /\ UNCHANGED <<env, main, file, delete, cleaning, connected>> /\ disc.pc = "drop" /\ disc'.pc = "drop"
        /\ disc'.by = disc.by /\ disc'.list = disc.list /\ disc'.known = disc.known
    BY <1>13, DropEffect
  <2> QED
    BY <2>1
<1>14. ASSUME DiscoveryEnds PROVE PhaseInv'
  <2>1. /\ UNCHANGED <<env, file, delete, cleaning>> /\ disc.pc = "drop"
        /\ disc'.pc = "idle" /\ disc'.by = "none" /\ disc'.list = {} /\ disc'.former = {} /\ disc'.known = FALSE
    BY <1>14, DiscoveryEndsEffect
  <2>2. \/ disc.by = "load" /\ main' = "listen"
        \/ disc.by = "external" /\ main' \in {"sync", "serving"}
        \/ disc.by \notin {"load", "external"} /\ main' = main
    BY <1>14, DiscoveryEndsEffect
  <2>3. disc.by \in {"load", "external", "connect"}
    BY <2>1, DiscoveryFields DEF TypeOK
  <2> QED
    BY <2>1, <2>2, <2>3
<1>15. ASSUME NEW n \in Nodes, LaunchRefused(n) PROVE PhaseInv'
  <2>1. UNCHANGED <<env, main, disc, file, delete, cleaning, connected>>
    BY <1>15, LaunchRefusedEffect DEF Apart
  <2> QED
    BY <2>1
<1>16. ASSUME NEW n \in Nodes, LaunchVM(n) PROVE PhaseInv'
  <2>1. UNCHANGED <<env, main, disc, file, delete, cleaning, connected>>
    BY <1>16, LaunchVMEffect DEF Apart
  <2> QED
    BY <2>1
<1>17. ASSUME NEW n \in Nodes, AnnoteNode(n) PROVE PhaseInv'
  BY <1>17, AnnoteNodeEffect
<1>18. ASSUME NEW n \in Nodes, RegisterNode(n) PROVE PhaseInv'
  <2>1. UNCHANGED <<env, main, disc, file, delete, cleaning, connected>>
    BY <1>18, RegisterNodeEffect DEF Apart
  <2> QED
    BY <2>1
<1>19. ASSUME NEW n \in Nodes, LaunchEnds(n) PROVE PhaseInv'
  <2>1. UNCHANGED <<env, main, disc, file, delete, cleaning, connected>>
    BY <1>19, LaunchEndsEffect DEF Apart
  <2> QED
    BY <2>1
<1>20. ASSUME NEW n \in Nodes, LaunchFails(n) PROVE PhaseInv'
  <2>1. UNCHANGED <<env, main, disc, file, delete, cleaning, connected>>
    BY <1>20, LaunchFailsEffect DEF Apart
  <2> QED
    BY <2>1
<1>21. ASSUME NEW n \in Nodes, DeleteNodes(n) PROVE PhaseInv'
  BY <1>21, DeleteNodesEffect
<1>22. ASSUME NEW n \in Nodes, DeleteMisses(n), ~Panics PROVE PhaseInv'
  BY <1>22, DeleteMissesEffect
<1>23. ASSUME NEW n \in Nodes, DeletesVM(n) PROVE PhaseInv'
  BY <1>23, DeletesVMEffect
<1>24. ASSUME NEW n \in Nodes, DeleteEnds(n) PROVE PhaseInv'
  BY <1>24, DeleteEndsEffect
<1>25. ASSUME Connect PROVE PhaseInv'
  <2>1. disc.pc = "idle" /\ ~cleaning /\ disc.by = "none" /\ Serving
    BY <1>25, ConnectEffect DEF MayConnect
  <2>2. UNCHANGED <<main, env, delete, file, cleaning>> /\ connected' \in {connected, FALSE}
    BY <1>25, ConnectEffect
  <2>3. disc' = disc \/ DiscBecomes("list", "connect", {}, {}, {}, connected)
    BY <1>25, ConnectEffect
  <2> QED
    BY <2>1, <2>2, <2>3
<1>26. ASSUME NEW min \in {0, 1}, NewNodeGroup(min) PROVE PhaseInv'
  <2>1. UNCHANGED <<env, main, disc, file, delete, cleaning, connected>>
    BY <1>26, NewNodeGroupEffect DEF Apart
  <2> QED
    BY <2>1
<1>27. ASSUME Create PROVE PhaseInv'
  <2>1. UNCHANGED <<env, main, disc, file, delete, cleaning, connected>>
    BY <1>27, CreateEffect DEF Apart
  <2> QED
    BY <2>1
<1>28. ASSUME NEW n \in Nodes, NEW base \in Indexes, NEW i \in Indexes, Grows(n, base, i) PROVE PhaseInv'
  <2>1. UNCHANGED <<env, main, disc, file, delete, cleaning, connected>>
    BY <1>28, GrowsEffect DEF Apart
  <2> QED
    BY <2>1
<1>29. ASSUME CleanupBegins PROVE PhaseInv'
  BY <1>29, CleanupBeginsEffect
<1>30. ASSUME CleanupEnds PROVE PhaseInv'
  BY <1>30, CleanupEndsEffect
<1>31. ASSUME Refresh PROVE PhaseInv'
  BY <1>31, OpensEffect DEF Refresh
<1>32. ASSUME RefreshEncodes PROVE PhaseInv'
  BY <1>32, EncodesEffect DEF RefreshEncodes
<1>33. ASSUME NEW n \in Nodes, KubectlDelete(n) PROVE PhaseInv'
  <2>1. UNCHANGED <<env, main, disc, file, delete, cleaning, connected>>
    BY <1>33, KubectlDeleteEffect DEF Apart
  <2> QED
    BY <2>1
<1>34. ASSUME ListFails, ~Exits PROVE PhaseInv'
  BY <1>34, IdleFields, ListFailsEffect
<1>35. ASSUME Crash PROVE PhaseInv'
  BY <1>35, DeathEffect
<1>36. ASSUME Exits PROVE PhaseInv'
  BY <1>36, DeathEffect
<1>37. ASSUME Panics PROVE PhaseInv'
  BY <1>37, DeathEffect
<1>38. ASSUME UNCHANGED vars PROVE PhaseInv'
  BY <1>38 DEF vars
<1> QED
  BY <1>1, <1>2, <1>3, <1>4, <1>5, <1>6, <1>7, <1>8, <1>9, <1>10, <1>11, <1>12, <1>13, <1>14, <1>15, <1>16,
    <1>17, <1>18, <1>19, <1>20, <1>21, <1>22, <1>23, <1>24, <1>25, <1>26, <1>27, <1>28, <1>29, <1>30,
    <1>31, <1>32, <1>33, <1>34, <1>35, <1>36, <1>37, <1>38, Cases

LEMMA RequestInvStep ==
  ASSUME TypeOK, PhaseInv, RequestInv, [Next]_vars
  PROVE  RequestInv'
<1> USE DEF RequestInv, Nodes, Still, Apart, Opens, Encodes, DiscBecomes, DeleteMoves, LaunchMoves, Loses,
      Forgotten, Asked, May, Serving, Attaching
<1>1. ASSUME StartFresh PROVE RequestInv'
  <2>1. UNCHANGED <<env, vm, launch, delete, cleaning>>
    BY <1>1, StartFreshEffect DEF Still
  <2> QED
    BY <2>1
<1>2. ASSUME FirstSave PROVE RequestInv'
  <2>1. UNCHANGED <<env, vm, launch, delete, cleaning>>
    BY <1>2, OpensEffect DEF Still, FirstSave
  <2> QED
    BY <2>1
<1>3. ASSUME FirstSaveEncodes PROVE RequestInv'
  <2>1. UNCHANGED <<env, vm, launch, delete, cleaning>>
    BY <1>3, EncodesEffect DEF Still, FirstSaveEncodes
  <2> QED
    BY <2>1
<1>4. ASSUME Load PROVE RequestInv'
  <2>1. UNCHANGED <<env, vm, launch, delete, cleaning>>
    BY <1>4, LoadEffect DEF Still
  <2> QED
    BY <2>1
<1>5. ASSUME ListenGrpc PROVE RequestInv'
  <2>1. UNCHANGED <<env, vm, launch, delete, cleaning>>
    BY <1>5, ListenGrpcEffect DEF Still
  <2> QED
    BY <2>1
<1>6. ASSUME ListenExternal, ~ProvisionRefused(group) PROVE RequestInv'
  <2>1. UNCHANGED <<env, vm, launch, delete, cleaning>>
    BY <1>6, ListenExternalEffect DEF Still
  <2> QED
    BY <2>1
<1>7. ASSUME Sync PROVE RequestInv'
  <2>1. UNCHANGED <<env, vm, launch, delete, cleaning>>
    BY <1>7, OpensEffect DEF Still, Sync
  <2> QED
    BY <2>1
<1>8. ASSUME SyncEncodes PROVE RequestInv'
  <2>1. UNCHANGED <<env, vm, launch, delete, cleaning>>
    BY <1>8, EncodesEffect DEF Still, SyncEncodes
  <2> QED
    BY <2>1
<1>9. ASSUME ListNodes PROVE RequestInv'
  <2>1. UNCHANGED <<env, vm, launch, delete, cleaning>>
    BY <1>9, ListNodesEffect DEF Apart
  <2> QED
    BY <2>1
<1>10. ASSUME Reset PROVE RequestInv'
  <2>1. UNCHANGED <<env, vm, launch, delete, cleaning>>
    BY <1>10, ResetEffect DEF Apart
  <2> QED
    BY <2>1
<1>11. ASSUME NEW n \in Nodes, Attach(n) PROVE RequestInv'
  <2>1. UNCHANGED <<env, vm, launch, delete, cleaning>>
    BY <1>11, AttachEffect DEF Apart
  <2> QED
    BY <2>1
<1>12. ASSUME AttachEnds PROVE RequestInv'
  <2>1. UNCHANGED <<env, vm, launch, delete, cleaning>>
    BY <1>12, AttachEndsEffect DEF Apart
  <2> QED
    BY <2>1
<1>13. ASSUME NEW n \in Nodes, Drop(n) PROVE RequestInv'
  BY <1>13, DropEffect
<1>14. ASSUME DiscoveryEnds PROVE RequestInv'
  <2>1. UNCHANGED <<env, vm, launch, delete, cleaning>>
    BY <1>14, DiscoveryEndsEffect DEF Still
  <2> QED
    BY <2>1
<1>15. ASSUME NEW n \in Nodes, LaunchRefused(n) PROVE RequestInv'
  BY <1>15, LaunchRefusedEffect
<1>16. ASSUME NEW n \in Nodes, LaunchVM(n) PROVE RequestInv'
  BY <1>16, LaunchVMEffect
<1>17. ASSUME NEW n \in Nodes, AnnoteNode(n) PROVE RequestInv'
  BY <1>17, AnnoteNodeEffect
<1>18. ASSUME NEW n \in Nodes, RegisterNode(n) PROVE RequestInv'
  BY <1>18, RegisterNodeEffect
<1>19. ASSUME NEW n \in Nodes, LaunchEnds(n) PROVE RequestInv'
  BY <1>19, LaunchEndsEffect
<1>20. ASSUME NEW n \in Nodes, LaunchFails(n) PROVE RequestInv'
  BY <1>20, LaunchFailsEffect
<1>21. ASSUME NEW n \in Nodes, DeleteNodes(n) PROVE RequestInv'
  BY <1>21, DeleteNodesEffect
<1>22. ASSUME NEW n \in Nodes, DeleteMisses(n), ~Panics PROVE RequestInv'
  BY <1>22, DeleteMissesEffect
<1>23. ASSUME NEW n \in Nodes, DeletesVM(n) PROVE RequestInv'
  BY <1>23, DeletesVMEffect
<1>24. ASSUME NEW n \in Nodes, DeleteEnds(n) PROVE RequestInv'
  BY <1>24, DeleteEndsEffect
<1>25. ASSUME Connect PROVE RequestInv'
  <2>1. UNCHANGED <<env, vm, launch, delete, cleaning>>
    BY <1>25, ConnectEffect DEF Apart
  <2> QED
    BY <2>1
<1>26. ASSUME NEW min \in {0, 1}, NewNodeGroup(min) PROVE RequestInv'
  <2>1. UNCHANGED <<env, vm, launch, delete, cleaning>>
    BY <1>26, NewNodeGroupEffect DEF Apart
  <2> QED
    BY <2>1
<1>27. ASSUME Create PROVE RequestInv'
  <2>1. UNCHANGED <<env, vm, launch, delete, cleaning>>
    BY <1>27, CreateEffect DEF Apart
  <2> QED
    BY <2>1
<1>28. ASSUME NEW n \in Nodes, NEW base \in Indexes, NEW i \in Indexes, Grows(n, base, i) PROVE RequestInv'
  BY <1>28, GrowsEffect
<1>29. ASSUME CleanupBegins PROVE RequestInv'
  BY <1>29, CleanupBeginsEffect
<1>30. ASSUME CleanupEnds PROVE RequestInv'
  BY <1>30, CleanupEndsEffect
<1>31. ASSUME Refresh PROVE RequestInv'
  <2>1. UNCHANGED <<env, vm, launch, delete, cleaning>>
    BY <1>31, OpensEffect DEF Still, Refresh
  <2> QED
    BY <2>1
<1>32. ASSUME RefreshEncodes PROVE RequestInv'
  <2>1. UNCHANGED <<env, vm, launch, delete, cleaning>>
    BY <1>32, EncodesEffect DEF Still, RefreshEncodes
  <2> QED
    BY <2>1
<1>33. ASSUME NEW n \in Nodes, KubectlDelete(n) PROVE RequestInv'
  <2>1. UNCHANGED <<env, vm, launch, delete, cleaning>>
    BY <1>33, KubectlDeleteEffect DEF Apart
  <2> QED
    BY <2>1
<1>34. ASSUME ListFails, ~Exits PROVE RequestInv'
  <2>1. UNCHANGED <<env, vm, launch, delete, cleaning>>
    BY <1>34, ListFailsEffect DEF Apart
  <2> QED
    BY <2>1
<1>35. ASSUME Crash PROVE RequestInv'
  BY <1>35, DeathEffect
<1>36. ASSUME Exits PROVE RequestInv'
  BY <1>36, DeathEffect
<1>37. ASSUME Panics PROVE RequestInv'
  BY <1>37, DeathEffect
<1>38. ASSUME UNCHANGED vars PROVE RequestInv'
  BY <1>38 DEF vars
<1> QED
  BY <1>1, <1>2, <1>3, <1>4, <1>5, <1>6, <1>7, <1>8, <1>9, <1>10, <1>11, <1>12, <1>13, <1>14, <1>15, <1>16,
    <1>17, <1>18, <1>19, <1>20, <1>21, <1>22, <1>23, <1>24, <1>25, <1>26, <1>27, <1>28, <1>29, <1>30,
    <1>31, <1>32, <1>33, <1>34, <1>35, <1>36, <1>37, <1>38, Cases

LEMMA MapsInvStep ==
  ASSUME TypeOK, PhaseInv, DefinitionInv, MapsInv, [Next]_vars
  PROVE  MapsInv'
<1> USE DEF MapsInv, PhaseInv, Still, Apart, Opens, Encodes, Provides, GroupBecomes, DiscBecomes,
      DeleteMoves, LaunchMoves, Loses, Forgotten, Asked, May, Serving, Attaching, ControllerRuns,
      MayRequest, Calm, MayConnect, Missing, NilMaps, NoLaunches, NoDeletions
<1>1. ASSUME StartFresh PROVE MapsInv'
  BY <1>1, StartFreshEffect
<1>2. ASSUME FirstSave PROVE MapsInv'
  BY <1>2, OpensEffect DEF FirstSave
<1>3. ASSUME FirstSaveEncodes PROVE MapsInv'
  BY <1>3, EncodesEffect DEF FirstSaveEncodes
<1>4. ASSUME Load PROVE MapsInv'
  <2>1. /\ main = "down" /\ disc.by = "none" /\ disc.pc = "idle" /\ file.is = "whole"
        /\ defs' = file.defs /\ auto' = file.auto
        /\ UNCHANGED <<env, connected, file, launch, delete, panicked>>
    BY <1>4, LoadEffect, DiscoveryFields DEF TypeOK
  <2>2. CASE file.auto /\ main' = "provision" /\ Provides(file.group) /\ DiscBecomes("list", "load", {}, {}, {}, FALSE)
    BY <2>1, <2>2
  <2>3. CASE ~file.auto /\ main' = "listen" /\ group' = file.group /\ disc' = disc
    BY <2>1, <2>3
  <2> QED
    BY <1>4, <2>2, <2>3, LoadEffect
<1>5. ASSUME ListenGrpc PROVE MapsInv'
  BY <1>5, ListenGrpcEffect
<1>6. ASSUME ListenExternal, ~ProvisionRefused(group) PROVE MapsInv'
  <2>1. /\ main = "listen" /\ disc.by = "none" /\ env.front = "externalgrpc" /\ ~auto /\ main' = "provision"
        /\ DiscBecomes("list", "external", {}, {}, {}, connected)
        /\ UNCHANGED <<env, auto, connected, file, launch, delete, panicked>>
    BY <1>6, ListenExternalEffect, DiscoveryFields DEF TypeOK
  <2>2. Provides(group)
    BY <1>6, ListenExternalEffect
  <2>3. CASE group.status # "absent" /\ group' = group
    BY <2>1, <2>3
  <2>4. CASE group.status = "absent" /\ GroupBecomes("Created", {}, {}, {}, TRUE, FALSE)
    BY <2>1, <2>4
  <2> QED
    BY <2>2, <2>3, <2>4 DEF Provides
<1>7. ASSUME Sync PROVE MapsInv'
  BY <1>7, OpensEffect DEF Sync
<1>8. ASSUME SyncEncodes PROVE MapsInv'
  BY <1>8, EncodesEffect DEF SyncEncodes
<1>9. ASSUME ListNodes PROVE MapsInv'
  BY <1>9, ListNodesEffect
<1>10. ASSUME Reset PROVE MapsInv'
  <2>1. /\ disc.pc = "reset" /\ DiscBecomes("attach", disc.by, disc.list, group.nodes, disc.fresh, disc.known)
        /\ UNCHANGED <<env, main, auto, connected, file, launch, panicked>>
        /\ GroupBecomes(group.status, {}, {}, {}, FALSE, FALSE)
    BY <1>10, ResetEffect
  <2>2. disc.by \in {"load", "external", "connect"} /\ (disc.by = "load" => auto)
    BY <2>1, DiscoveryFields DEF TypeOK, MapsInv
  <2> QED
    BY <2>1, <2>2
<1>11. ASSUME NEW n \in Nodes, Attach(n) PROVE MapsInv'
  BY <1>11, AttachEffect
<1>12. ASSUME AttachEnds PROVE MapsInv'
  BY <1>12, AttachEndsEffect
<1>13. ASSUME NEW n \in Nodes, Drop(n) PROVE MapsInv'
  BY <1>13, DropEffect
<1>14. ASSUME DiscoveryEnds PROVE MapsInv'
  BY <1>14, IdleFields, DiscoveryEndsEffect
<1>15. ASSUME NEW n \in Nodes, LaunchRefused(n) PROVE MapsInv'
  BY <1>15, LaunchRefusedEffect
<1>16. ASSUME NEW n \in Nodes, LaunchVM(n) PROVE MapsInv'
  BY <1>16, LaunchVMEffect
<1>17. ASSUME NEW n \in Nodes, AnnoteNode(n) PROVE MapsInv'
  BY <1>17, AnnoteNodeEffect
<1>18. ASSUME NEW n \in Nodes, RegisterNode(n) PROVE MapsInv'
  <2>1. /\ launch[n] = "annotated" /\ LaunchMoves(n, "registered")
        /\ UNCHANGED <<env, main, auto, connected, disc, file, panicked>>
        /\ GroupBecomes(group.status, group.nodes \cup {n}, group.pending, group.running \cup {index[n]},
                        group.nilRunning, group.nilPending)
    BY <1>18, RegisterNodeEffect DEF Apart
  <2>2. ~NoLaunches
    BY <2>1
  <2> QED
    BY <2>1, <2>2
<1>19. ASSUME NEW n \in Nodes, LaunchEnds(n) PROVE MapsInv'
  BY <1>19, LaunchEndsEffect
<1>20. ASSUME NEW n \in Nodes, LaunchFails(n) PROVE MapsInv'
  BY <1>20, LaunchFailsEffect
<1>21. ASSUME NEW n \in Nodes, DeleteNodes(n) PROVE MapsInv'
  <2>1. UNCHANGED <<env, main, group, auto, disc, file, launch, connected>>
    BY <1>21, DeleteNodesEffect DEF Apart
  <2> QED
    BY <2>1
<1>22. ASSUME NEW n \in Nodes, DeleteMisses(n), ~Panics PROVE MapsInv'
  <2>1. UNCHANGED <<env, main, group, auto, disc, file, launch, connected>>
    BY <1>22, DeleteMissesEffect DEF Apart
  <2> QED
    BY <2>1
<1>23. ASSUME NEW n \in Nodes, DeletesVM(n) PROVE MapsInv'
  <2>1. UNCHANGED <<env, main, group, auto, disc, file, launch, connected>>
    BY <1>23, DeletesVMEffect DEF Apart
  <2> QED
    BY <2>1
<1>24. ASSUME NEW n \in Nodes, DeleteEnds(n) PROVE MapsInv'
  BY <1>24, DeleteEndsEffect
<1>25. ASSUME Connect PROVE MapsInv'
  <2>1. /\ disc.pc = "idle" /\ disc.by = "none" /\ Serving /\ env.front = "grpc" /\ (Asked("busy") \/ Calm)
        /\ UNCHANGED <<env, main, file, launch, delete, panicked>>
    BY <1>25, ConnectEffect
  <2>2. CASE group' = group /\ disc' = disc /\ connected' = connected
    BY <2>1, <2>2
  <2>3. CASE connected' = FALSE /\ Provides(group) /\ DiscBecomes("list", "connect", {}, {}, {}, connected)
    BY <2>1, <2>3
  <2>4. CASE /\ connected' = FALSE /\ group.status = "absent" /\ GroupBecomes("NotCreated", {}, {}, {}, TRUE, FALSE)
             /\ disc' = disc
    BY <2>1, <2>4
  <2> QED
    BY <1>25, <2>2, <2>3, <2>4, ConnectEffect
<1>26. ASSUME NEW min \in {0, 1}, NewNodeGroup(min) PROVE MapsInv'
  BY <1>26, NewNodeGroupEffect
<1>27. ASSUME Create PROVE MapsInv'
  BY <1>27, CreateEffect
<1>28. ASSUME NEW n \in Nodes, NEW base \in Indexes, NEW i \in Indexes, Grows(n, base, i) PROVE MapsInv'
  BY <1>28, GrowsEffect
<1>29. ASSUME CleanupBegins PROVE MapsInv'
  BY <1>29, CleanupBeginsEffect
<1>30. ASSUME CleanupEnds PROVE MapsInv'
  <2>1. /\ cleaning /\ Serving /\ disc.by = "none" /\ disc.pc = "idle" /\ ~connected /\ ~disc.known /\ NoLaunches
        /\ UNCHANGED <<env, main, auto, disc, file, launch, delete, connected, panicked>>
    BY <1>30, CleanupEndsEffect
  <2>2. (Missing(group') /\ group'.status = "absent") \/ GroupBecomes("Deleted", {}, {}, {}, FALSE, FALSE)
    BY <1>30, CleanupEndsEffect, AbsentFields
  <2> QED
    BY <2>1, <2>2
<1>31. ASSUME Refresh PROVE MapsInv'
  BY <1>31, OpensEffect DEF Refresh
<1>32. ASSUME RefreshEncodes PROVE MapsInv'
  BY <1>32, EncodesEffect DEF RefreshEncodes
<1>33. ASSUME NEW n \in Nodes, KubectlDelete(n) PROVE MapsInv'
  <2>1. UNCHANGED <<env, main, group, auto, disc, file, launch, connected>>
    BY <1>33, KubectlDeleteEffect DEF Apart
  <2> QED
    BY <2>1
<1>34. ASSUME ListFails, ~Exits PROVE MapsInv'
  BY <1>34, IdleFields, ListFailsEffect
<1>35. ASSUME Crash PROVE MapsInv'
  BY <1>35, DeathEffect
<1>36. ASSUME Exits PROVE MapsInv'
  BY <1>36, DeathEffect
<1>37. ASSUME Panics PROVE MapsInv'
  BY <1>37, DeathEffect
<1>38. ASSUME UNCHANGED vars PROVE MapsInv'
  BY <1>38 DEF vars
<1> QED
  BY <1>1, <1>2, <1>3, <1>4, <1>5, <1>6, <1>7, <1>8, <1>9, <1>10, <1>11, <1>12, <1>13, <1>14, <1>15, <1>16,
    <1>17, <1>18, <1>19, <1>20, <1>21, <1>22, <1>23, <1>24, <1>25, <1>26, <1>27, <1>28, <1>29, <1>30,
    <1>31, <1>32, <1>33, <1>34, <1>35, <1>36, <1>37, <1>38, Cases

LEMMA DefinitionInvStep ==
  ASSUME TypeOK, PhaseInv, MapsInv, DefinitionInv, [Next]_vars
  PROVE  DefinitionInv'
<1> USE DEF DefinitionInv, Definition, Wanted, Handled, PhaseInv, Still, Apart, Opens, Encodes, Provides,
      GroupBecomes, DiscBecomes, DeleteMoves, LaunchMoves, Loses, Forgotten, Asked, May, Serving,
      Attaching, ControllerRuns, MayRequest, Calm, MayConnect, Missing, NilMaps, NoLaunches, NoDeletions
<1>1. ASSUME StartFresh PROVE DefinitionInv'
  BY <1>1, StartFreshEffect
<1>2. ASSUME FirstSave PROVE DefinitionInv'
  BY <1>2, OpensEffect DEF FirstSave
<1>3. ASSUME FirstSaveEncodes PROVE DefinitionInv'
  BY <1>3, EncodesEffect DEF FirstSaveEncodes
<1>4. ASSUME Load PROVE DefinitionInv'
  <2>1. /\ main = "down" /\ disc.by = "none" /\ disc.pc = "idle" /\ file.is = "whole"
        /\ defs' = file.defs /\ auto' = file.auto
        /\ UNCHANGED <<env, connected, file, delete>>
    BY <1>4, LoadEffect, DiscoveryFields DEF TypeOK
  <2>2. CASE file.auto /\ main' = "provision" /\ Provides(file.group) /\ DiscBecomes("list", "load", {}, {}, {}, FALSE)
    BY <2>1, <2>2
  <2>3. CASE ~file.auto /\ main' = "listen" /\ group' = file.group /\ disc' = disc
    BY <2>1, <2>3 DEF MapsInv
  <2> QED
    BY <1>4, <2>2, <2>3, LoadEffect
<1>5. ASSUME ListenGrpc PROVE DefinitionInv'
  BY <1>5, ListenGrpcEffect
<1>6. ASSUME ListenExternal, ~ProvisionRefused(group) PROVE DefinitionInv'
  BY <1>6, ListenExternalEffect
<1>7. ASSUME Sync PROVE DefinitionInv'
  BY <1>7, OpensEffect DEF Sync
<1>8. ASSUME SyncEncodes PROVE DefinitionInv'
  BY <1>8, EncodesEffect DEF SyncEncodes
<1>9. ASSUME ListNodes PROVE DefinitionInv'
  BY <1>9, ListNodesEffect
<1>10. ASSUME Reset PROVE DefinitionInv'
  BY <1>10, ResetEffect
<1>11. ASSUME NEW n \in Nodes, Attach(n) PROVE DefinitionInv'
  BY <1>11, AttachEffect
<1>12. ASSUME AttachEnds PROVE DefinitionInv'
  BY <1>12, AttachEndsEffect
<1>13. ASSUME NEW n \in Nodes, Drop(n) PROVE DefinitionInv'
  BY <1>13, DropEffect
<1>14. ASSUME DiscoveryEnds PROVE DefinitionInv'
  BY <1>14, IdleFields, DiscoveryEndsEffect
<1>15. ASSUME NEW n \in Nodes, LaunchRefused(n) PROVE DefinitionInv'
  <2>1. UNCHANGED <<env, main, defs, auto, disc, file, connected>>
    BY <1>15, LaunchRefusedEffect DEF Apart
  <2> QED
    BY <2>1
<1>16. ASSUME NEW n \in Nodes, LaunchVM(n) PROVE DefinitionInv'
  <2>1. UNCHANGED <<env, main, defs, auto, disc, file, connected>>
    BY <1>16, LaunchVMEffect DEF Apart
  <2> QED
    BY <2>1
<1>17. ASSUME NEW n \in Nodes, AnnoteNode(n) PROVE DefinitionInv'
  BY <1>17, AnnoteNodeEffect
<1>18. ASSUME NEW n \in Nodes, RegisterNode(n) PROVE DefinitionInv'
  <2>1. UNCHANGED <<env, main, defs, auto, disc, file, connected>>
    BY <1>18, RegisterNodeEffect DEF Apart
  <2> QED
    BY <2>1
<1>19. ASSUME NEW n \in Nodes, LaunchEnds(n) PROVE DefinitionInv'
  <2>1. UNCHANGED <<env, main, defs, auto, disc, file, connected>>
    BY <1>19, LaunchEndsEffect DEF Apart
  <2> QED
    BY <2>1
<1>20. ASSUME NEW n \in Nodes, LaunchFails(n) PROVE DefinitionInv'
  <2>1. UNCHANGED <<env, main, defs, auto, disc, file, connected>>
    BY <1>20, LaunchFailsEffect DEF Apart
  <2> QED
    BY <2>1
<1>21. ASSUME NEW n \in Nodes, DeleteNodes(n) PROVE DefinitionInv'
  <2>1. UNCHANGED <<env, main, defs, auto, disc, file, connected>>
    BY <1>21, DeleteNodesEffect DEF Apart
  <2> QED
    BY <2>1
<1>22. ASSUME NEW n \in Nodes, DeleteMisses(n), ~Panics PROVE DefinitionInv'
  <2>1. UNCHANGED <<env, main, defs, auto, disc, file, connected>>
    BY <1>22, DeleteMissesEffect DEF Apart
  <2> QED
    BY <2>1
<1>23. ASSUME NEW n \in Nodes, DeletesVM(n) PROVE DefinitionInv'
  <2>1. UNCHANGED <<env, main, defs, auto, disc, file, connected>>
    BY <1>23, DeletesVMEffect DEF Apart
  <2> QED
    BY <2>1
<1>24. ASSUME NEW n \in Nodes, DeleteEnds(n) PROVE DefinitionInv'
  <2>1. UNCHANGED <<env, main, defs, auto, disc, file, connected>>
    BY <1>24, DeleteEndsEffect DEF Apart
  <2> QED
    BY <2>1
<1>25. ASSUME Connect PROVE DefinitionInv'
  BY <1>25, ConnectEffect
<1>26. ASSUME NEW min \in {0, 1}, NewNodeGroup(min) PROVE DefinitionInv'
  <2>1. UNCHANGED <<env, main, defs, auto, disc, file, connected>>
    BY <1>26, NewNodeGroupEffect DEF Apart
  <2> QED
    BY <2>1
<1>27. ASSUME Create PROVE DefinitionInv'
  <2>1. UNCHANGED <<env, main, defs, auto, disc, file, connected>>
    BY <1>27, CreateEffect DEF Apart
  <2> QED
    BY <2>1
<1>28. ASSUME NEW n \in Nodes, NEW base \in Indexes, NEW i \in Indexes, Grows(n, base, i) PROVE DefinitionInv'
  <2>1. UNCHANGED <<env, main, defs, auto, disc, file, connected>>
    BY <1>28, GrowsEffect DEF Apart
  <2> QED
    BY <2>1
<1>29. ASSUME CleanupBegins PROVE DefinitionInv'
  BY <1>29, CleanupBeginsEffect
<1>30. ASSUME CleanupEnds PROVE DefinitionInv'
  <2>1. UNCHANGED <<env, main, defs, auto, disc, file, connected>>
    BY <1>30, CleanupEndsEffect DEF Apart
  <2> QED
    BY <2>1
<1>31. ASSUME Refresh PROVE DefinitionInv'
  BY <1>31, OpensEffect DEF Refresh
<1>32. ASSUME RefreshEncodes PROVE DefinitionInv'
  BY <1>32, EncodesEffect DEF RefreshEncodes
<1>33. ASSUME NEW n \in Nodes, KubectlDelete(n) PROVE DefinitionInv'
  <2>1. UNCHANGED <<env, main, defs, auto, disc, file, connected>>
    BY <1>33, KubectlDeleteEffect DEF Apart
  <2> QED
    BY <2>1
<1>34. ASSUME ListFails, ~Exits PROVE DefinitionInv'
  <2>1. disc.pc = "list" /\ disc.by = "connect" /\ disc' = Idle /\ ~connected' /\ UNCHANGED <<env, defs, auto, file>>
    BY <1>34, ListFailsEffect
  <2>2. disc'.by = "none" /\ disc'.list = {}
    BY <2>1, IdleFields
  <2> QED
    BY <2>1, <2>2
<1>35. ASSUME Crash PROVE DefinitionInv'
  BY <1>35, DeathEffect
<1>36. ASSUME Exits PROVE DefinitionInv'
  BY <1>36, DeathEffect
<1>37. ASSUME Panics PROVE DefinitionInv'
  BY <1>37, DeathEffect
<1>38. ASSUME UNCHANGED vars PROVE DefinitionInv'
  BY <1>38 DEF vars
<1> QED
  BY <1>1, <1>2, <1>3, <1>4, <1>5, <1>6, <1>7, <1>8, <1>9, <1>10, <1>11, <1>12, <1>13, <1>14, <1>15, <1>16,
    <1>17, <1>18, <1>19, <1>20, <1>21, <1>22, <1>23, <1>24, <1>25, <1>26, <1>27, <1>28, <1>29, <1>30,
    <1>31, <1>32, <1>33, <1>34, <1>35, <1>36, <1>37, <1>38, Cases

LEMMA PanicInvStep ==
  ASSUME TypeOK, PhaseInv, RequestInv, MapsInv, DefinitionInv, PanicInv, [Next]_vars
  PROVE  PanicInv'
<1> USE DEF PanicInv, PanicFree, PhaseInv, Still, Apart, Opens, Encodes, Provides, GroupBecomes,
      DiscBecomes, DeleteMoves, LaunchMoves, Loses, Forgotten, Asked, May, Serving, Attaching,
      ControllerRuns, MayRequest, Calm, MayConnect, Missing, NilMaps, NoLaunches, NoDeletions
<1>1. ASSUME StartFresh PROVE PanicInv'
  BY <1>1, StartFreshEffect
<1>2. ASSUME FirstSave PROVE PanicInv'
  BY <1>2, OpensEffect DEF FirstSave
<1>3. ASSUME FirstSaveEncodes PROVE PanicInv'
  BY <1>3, EncodesEffect DEF FirstSaveEncodes
<1>4. ASSUME Load PROVE PanicInv'
  <2>1. /\ main = "down" /\ disc.by = "none" /\ disc.pc = "idle" /\ file.is = "whole"
        /\ defs' = file.defs /\ auto' = file.auto
        /\ UNCHANGED <<env, connected, file, launch, delete, panicked>>
    BY <1>4, LoadEffect, DiscoveryFields DEF TypeOK
  <2>2. CASE file.auto /\ main' = "provision" /\ Provides(file.group) /\ DiscBecomes("list", "load", {}, {}, {}, FALSE)
    BY <2>1, <2>2 DEF DefinitionInv, MapsInv
  <2>3. CASE ~file.auto /\ main' = "listen" /\ group' = file.group /\ disc' = disc
    BY <2>1, <2>3 DEF DefinitionInv, MapsInv
  <2> QED
    BY <1>4, <2>2, <2>3, LoadEffect
<1>5. ASSUME ListenGrpc PROVE PanicInv'
  BY <1>5, ListenGrpcEffect
<1>6. ASSUME ListenExternal, ~ProvisionRefused(group) PROVE PanicInv'
  BY <1>6, ListenExternalEffect
<1>7. ASSUME Sync PROVE PanicInv'
  BY <1>7, OpensEffect DEF Sync
<1>8. ASSUME SyncEncodes PROVE PanicInv'
  BY <1>8, EncodesEffect DEF SyncEncodes
<1>9. ASSUME ListNodes PROVE PanicInv'
  BY <1>9, ListNodesEffect
<1>10. ASSUME Reset PROVE PanicInv'
  <2>1. /\ disc.pc = "reset" /\ DiscBecomes("attach", disc.by, disc.list, group.nodes, disc.fresh, disc.known)
        /\ UNCHANGED <<env, main, auto, connected, file, launch, panicked>>
        /\ GroupBecomes(group.status, {}, {}, {}, FALSE, FALSE)
    BY <1>10, ResetEffect
  <2>2. disc.by \in {"load", "external", "connect"} /\ (disc.by = "load" => auto)
    BY <2>1, DiscoveryFields DEF TypeOK, MapsInv
  <2> QED
    BY <2>1, <2>2 DEF DefinitionInv, MapsInv
<1>11. ASSUME NEW n \in Nodes, Attach(n) PROVE PanicInv'
  <2>1. /\ disc.pc = "attach" /\ disc'.pc = "attach" /\ disc'.by = disc.by /\ ~NilMaps(group)
        /\ UNCHANGED <<env, main, auto, file, panicked>>
    BY <1>11, AttachEffect DEF MapsInv
  <2>2. /\ group'.status = group.status /\ group'.nilRunning = group.nilRunning
        /\ group'.nilPending = group.nilPending
    BY <1>11, AttachEffect
  <2>3. disc.by \in {"load", "external", "connect"} /\ (disc.by = "load" => auto)
    BY <2>1, DiscoveryFields DEF TypeOK, MapsInv
  <2> QED
    BY <2>1, <2>2, <2>3 DEF DefinitionInv
<1>12. ASSUME AttachEnds PROVE PanicInv'
  BY <1>12, AttachEndsEffect
<1>13. ASSUME NEW n \in Nodes, Drop(n) PROVE PanicInv'
  BY <1>13, DropEffect
<1>14. ASSUME DiscoveryEnds PROVE PanicInv'
  <2>1. /\ disc.pc = "drop" /\ ~NilMaps(group) /\ disc'.pc = "idle"
        /\ UNCHANGED <<env, group, auto, file, panicked>>
    BY <1>14, DiscoveryEndsEffect, IdleFields DEF MapsInv
  <2>2. \/ disc.by = "load" /\ main' = "listen"
        \/ disc.by = "external" /\ main' \in {"sync", "serving"}
        \/ disc.by \notin {"load", "external"} /\ main' = main
    BY <1>14, DiscoveryEndsEffect
  <2>3. disc.by = "load" => auto
    BY DEF MapsInv
  <2> QED
    BY <2>1, <2>2, <2>3 DEF DefinitionInv
<1>15. ASSUME NEW n \in Nodes, LaunchRefused(n) PROVE PanicInv'
  BY <1>15, LaunchRefusedEffect
<1>16. ASSUME NEW n \in Nodes, LaunchVM(n) PROVE PanicInv'
  <2>1. UNCHANGED <<env, main, group, auto, disc, file, panicked>>
    BY <1>16, LaunchVMEffect DEF Apart
  <2> QED
    BY <2>1
<1>17. ASSUME NEW n \in Nodes, AnnoteNode(n) PROVE PanicInv'
  BY <1>17, AnnoteNodeEffect
<1>18. ASSUME NEW n \in Nodes, RegisterNode(n) PROVE PanicInv'
  <2>1. /\ launch[n] = "annotated" /\ UNCHANGED <<env, main, auto, disc, file, panicked>>
        /\ GroupBecomes(group.status, group.nodes \cup {n}, group.pending, group.running \cup {index[n]},
                        group.nilRunning, group.nilPending)
    BY <1>18, RegisterNodeEffect DEF Apart
  <2>2. group.status # "absent"
    BY <2>1 DEF MapsInv
  <2> QED
    BY <2>1, <2>2
<1>19. ASSUME NEW n \in Nodes, LaunchEnds(n) PROVE PanicInv'
  BY <1>19, LaunchEndsEffect
<1>20. ASSUME NEW n \in Nodes, LaunchFails(n) PROVE PanicInv'
  BY <1>20, LaunchFailsEffect
<1>21. ASSUME NEW n \in Nodes, DeleteNodes(n) PROVE PanicInv'
  <2>1. UNCHANGED <<env, main, group, auto, disc, file, panicked>>
    BY <1>21, DeleteNodesEffect DEF Apart
  <2> QED
    BY <2>1
<1>22. ASSUME NEW n \in Nodes, DeleteMisses(n), ~Panics PROVE PanicInv'
  <2>1. UNCHANGED <<env, main, group, auto, disc, file, panicked>>
    BY <1>22, DeleteMissesEffect DEF Apart
  <2> QED
    BY <2>1
<1>23. ASSUME NEW n \in Nodes, DeletesVM(n) PROVE PanicInv'
  <2>1. UNCHANGED <<env, main, group, auto, disc, file, panicked>>
    BY <1>23, DeletesVMEffect DEF Apart
  <2> QED
    BY <2>1
<1>24. ASSUME NEW n \in Nodes, DeleteEnds(n) PROVE PanicInv'
  BY <1>24, DeleteEndsEffect
<1>25. ASSUME Connect PROVE PanicInv'
  BY <1>25, ConnectEffect
<1>26. ASSUME NEW min \in {0, 1}, NewNodeGroup(min) PROVE PanicInv'
  BY <1>26, NewNodeGroupEffect
<1>27. ASSUME Create PROVE PanicInv'
  BY <1>27, CreateEffect
<1>28. ASSUME NEW n \in Nodes, NEW base \in Indexes, NEW i \in Indexes, Grows(n, base, i) PROVE PanicInv'
  BY <1>28, GrowsEffect
<1>29. ASSUME CleanupBegins PROVE PanicInv'
  BY <1>29, CleanupBeginsEffect
<1>30. ASSUME CleanupEnds PROVE PanicInv'
  <2>1. /\ cleaning /\ Asked("cleanup") /\ Serving /\ disc.by = "none" /\ disc.pc = "idle" /\ ~connected /\ ~disc.known /\ NoLaunches
        /\ UNCHANGED <<env, main, auto, disc, file, launch, delete, connected, panicked>>
    BY <1>30, CleanupEndsEffect DEF RequestInv
  <2>2. (Missing(group') /\ group'.status = "absent") \/ GroupBecomes("Deleted", {}, {}, {}, FALSE, FALSE)
    BY <1>30, CleanupEndsEffect, AbsentFields
  <2> QED
    BY <2>1, <2>2
<1>31. ASSUME Refresh PROVE PanicInv'
  BY <1>31, OpensEffect DEF Refresh
<1>32. ASSUME RefreshEncodes PROVE PanicInv'
  BY <1>32, EncodesEffect DEF RefreshEncodes
<1>33. ASSUME NEW n \in Nodes, KubectlDelete(n) PROVE PanicInv'
  <2>1. UNCHANGED <<env, main, group, auto, disc, file, panicked>>
    BY <1>33, KubectlDeleteEffect DEF Apart
  <2> QED
    BY <2>1
<1>34. ASSUME ListFails, ~Exits PROVE PanicInv'
  BY <1>34, IdleFields, ListFailsEffect
<1>35. ASSUME Crash PROVE PanicInv'
  <2>1. Forgotten /\ disc'.pc = "idle" /\ Missing(group') /\ group'.status = "absent" /\ group'.nodes = {}
    BY <1>35, DeathEffect
  <2>2. panicked' = panicked /\ main # "down"
    BY <1>35, CrashEffect
  <2>3. main \in {"encode", "syncEncode", "refreshEncode"} => file.is = "truncated"
    OBVIOUS
  <2>4. Asked("refresh") /\ env.front = "grpc" /\ ~May("crash") => file.is = "truncated"
    BY <1>35, <2>3, CrashEffect
  <2> QED
    BY <2>1, <2>2, <2>4
<1>36. ASSUME Exits PROVE PanicInv'
  <2>1. Forgotten /\ disc'.pc = "idle" /\ Missing(group') /\ group'.status = "absent" /\ group'.nodes = {}
    BY <1>36, DeathEffect
  <2>2. panicked' = panicked
    BY <1>36 DEF Exits
  <2>3. ~May("list") /\ env.front = "grpc" => FALSE
    BY <1>36 DEF Exits
  <2> QED
    BY <2>1, <2>2, <2>3
<1>37. ASSUME Panics PROVE PanicInv'
  <2>1. Forgotten
    BY <1>37, DeathEffect
  <2>2. PanicFree => FALSE
    <3> SUFFICES ASSUME PanicFree PROVE FALSE
      OBVIOUS
    <3>1. ~(Serving /\ MayRequest /\ group.status = "Created" /\ NilMaps(group))
      BY DEF MapsInv
    <3>2. ASSUME NEW n \in Nodes, delete[n] = "asked", env.front = "externalgrpc", group.status = "absent" PROVE FALSE
      BY <3>2 DEF RequestInv
    <3> QED
      BY <1>37, <3>1, <3>2 DEF Panics
  <2>3. PanicFree' => PanicFree
    BY <2>1
  <2> QED
    BY <2>2, <2>3
<1>38. ASSUME UNCHANGED vars PROVE PanicInv'
  BY <1>38 DEF vars
<1> QED
  BY <1>1, <1>2, <1>3, <1>4, <1>5, <1>6, <1>7, <1>8, <1>9, <1>10, <1>11, <1>12, <1>13, <1>14, <1>15, <1>16,
    <1>17, <1>18, <1>19, <1>20, <1>21, <1>22, <1>23, <1>24, <1>25, <1>26, <1>27, <1>28, <1>29, <1>30,
    <1>31, <1>32, <1>33, <1>34, <1>35, <1>36, <1>37, <1>38, Cases

LEMMA CalmInvStep ==
  ASSUME TypeOK, PhaseInv, MapsInv, CalmInv, [Next]_vars
  PROVE  CalmInv'
<1> USE DEF CalmInv, PhaseInv, Still, Apart, Opens, Encodes, Provides, GroupBecomes, DiscBecomes,
      DeleteMoves, LaunchMoves, Loses, Forgotten, Asked, May, Serving, Attaching, ControllerRuns,
      MayRequest, Calm, MayConnect, Missing, NilMaps, NoLaunches, NoDeletions
<1>1. ASSUME StartFresh PROVE CalmInv'
  <2>1. UNCHANGED <<env, group, disc, launch, delete>>
    BY <1>1, StartFreshEffect DEF Still
  <2> QED
    BY <2>1
<1>2. ASSUME FirstSave PROVE CalmInv'
  <2>1. UNCHANGED <<env, group, disc, launch, delete>>
    BY <1>2, OpensEffect DEF Still, FirstSave
  <2> QED
    BY <2>1
<1>3. ASSUME FirstSaveEncodes PROVE CalmInv'
  <2>1. UNCHANGED <<env, group, disc, launch, delete>>
    BY <1>3, EncodesEffect DEF Still, FirstSaveEncodes
  <2> QED
    BY <2>1
<1>4. ASSUME Load PROVE CalmInv'
  <2>1. /\ main = "down" /\ disc.by = "none" /\ disc.pc = "idle" /\ file.is = "whole"
        /\ defs' = file.defs /\ auto' = file.auto
        /\ UNCHANGED <<env, connected, file, launch, delete, panicked>>
    BY <1>4, LoadEffect, DiscoveryFields DEF TypeOK
  <2>2. CASE file.auto /\ main' = "provision" /\ Provides(file.group) /\ DiscBecomes("list", "load", {}, {}, {}, FALSE)
    BY <2>1, <2>2 DEF MapsInv
  <2>3. CASE ~file.auto /\ main' = "listen" /\ group' = file.group /\ disc' = disc
    BY <2>1, <2>3 DEF MapsInv
  <2> QED
    BY <1>4, <2>2, <2>3, LoadEffect
<1>5. ASSUME ListenGrpc PROVE CalmInv'
  <2>1. UNCHANGED <<env, group, disc, launch, delete>>
    BY <1>5, ListenGrpcEffect DEF Still
  <2> QED
    BY <2>1
<1>6. ASSUME ListenExternal, ~ProvisionRefused(group) PROVE CalmInv'
  <2>1. /\ main = "listen" /\ disc.by = "none" /\ env.front = "externalgrpc" /\ ~auto /\ main' = "provision"
        /\ DiscBecomes("list", "external", {}, {}, {}, connected)
        /\ UNCHANGED <<env, auto, connected, file, launch, delete, panicked>>
    BY <1>6, ListenExternalEffect, DiscoveryFields DEF TypeOK
  <2>2. Provides(group)
    BY <1>6, ListenExternalEffect
  <2>3. CASE group.status # "absent" /\ group' = group
    BY <2>1, <2>3 DEF MapsInv
  <2>4. CASE group.status = "absent" /\ GroupBecomes("Created", {}, {}, {}, TRUE, FALSE)
    BY <2>1, <2>4 DEF MapsInv
  <2> QED
    BY <2>2, <2>3, <2>4 DEF Provides
<1>7. ASSUME Sync PROVE CalmInv'
  <2>1. UNCHANGED <<env, group, disc, launch, delete>>
    BY <1>7, OpensEffect DEF Still, Sync
  <2> QED
    BY <2>1
<1>8. ASSUME SyncEncodes PROVE CalmInv'
  <2>1. UNCHANGED <<env, group, disc, launch, delete>>
    BY <1>8, EncodesEffect DEF Still, SyncEncodes
  <2> QED
    BY <2>1
<1>9. ASSUME ListNodes PROVE CalmInv'
  BY <1>9, ListNodesEffect
<1>10. ASSUME Reset PROVE CalmInv'
  BY <1>10, ResetEffect
<1>11. ASSUME NEW n \in Nodes, Attach(n) PROVE CalmInv'
  BY <1>11, AttachEffect
<1>12. ASSUME AttachEnds PROVE CalmInv'
  BY <1>12, AttachEndsEffect
<1>13. ASSUME NEW n \in Nodes, Drop(n) PROVE CalmInv'
  BY <1>13, DropEffect
<1>14. ASSUME DiscoveryEnds PROVE CalmInv'
  BY <1>14, IdleFields, DiscoveryEndsEffect
<1>15. ASSUME NEW n \in Nodes, LaunchRefused(n) PROVE CalmInv'
  BY <1>15, LaunchRefusedEffect
<1>16. ASSUME NEW n \in Nodes, LaunchVM(n) PROVE CalmInv'
  BY <1>16, LaunchVMEffect
<1>17. ASSUME NEW n \in Nodes, AnnoteNode(n) PROVE CalmInv'
  BY <1>17, AnnoteNodeEffect
<1>18. ASSUME NEW n \in Nodes, RegisterNode(n) PROVE CalmInv'
  BY <1>18, RegisterNodeEffect
<1>19. ASSUME NEW n \in Nodes, LaunchEnds(n) PROVE CalmInv'
  BY <1>19, LaunchEndsEffect
<1>20. ASSUME NEW n \in Nodes, LaunchFails(n) PROVE CalmInv'
  BY <1>20, LaunchFailsEffect
<1>21. ASSUME NEW n \in Nodes, DeleteNodes(n) PROVE CalmInv'
  BY <1>21, DeleteNodesEffect
<1>22. ASSUME NEW n \in Nodes, DeleteMisses(n), ~Panics PROVE CalmInv'
  BY <1>22, DeleteMissesEffect
<1>23. ASSUME NEW n \in Nodes, DeletesVM(n) PROVE CalmInv'
  BY <1>23, DeletesVMEffect
<1>24. ASSUME NEW n \in Nodes, DeleteEnds(n) PROVE CalmInv'
  BY <1>24, DeleteEndsEffect
<1>25. ASSUME Connect PROVE CalmInv'
  BY <1>25, ConnectEffect
<1>26. ASSUME NEW min \in {0, 1}, NewNodeGroup(min) PROVE CalmInv'
  BY <1>26, NewNodeGroupEffect
<1>27. ASSUME Create PROVE CalmInv'
  BY <1>27, CreateEffect
<1>28. ASSUME NEW n \in Nodes, NEW base \in Indexes, NEW i \in Indexes, Grows(n, base, i) PROVE CalmInv'
  <2>1. ~Asked("busy") => (disc.by = "none" /\ disc.pc = "idle") \/ (disc.by = "external" /\ disc.pc \notin {"list", "reset"})
    BY <1>28, GrowsEffect DEF MapsInv
  <2>2. UNCHANGED <<env, disc, delete>> /\ LaunchMoves(n, "reserved") /\ group'.pending = group.pending \cup {n}
    BY <1>28, GrowsEffect
  <2> QED
    BY <2>1, <2>2
<1>29. ASSUME CleanupBegins PROVE CalmInv'
  BY <1>29, CleanupBeginsEffect
<1>30. ASSUME CleanupEnds PROVE CalmInv'
  BY <1>30, CleanupEndsEffect
<1>31. ASSUME Refresh PROVE CalmInv'
  <2>1. UNCHANGED <<env, group, disc, launch, delete>>
    BY <1>31, OpensEffect DEF Still, Refresh
  <2> QED
    BY <2>1
<1>32. ASSUME RefreshEncodes PROVE CalmInv'
  <2>1. UNCHANGED <<env, group, disc, launch, delete>>
    BY <1>32, EncodesEffect DEF Still, RefreshEncodes
  <2> QED
    BY <2>1
<1>33. ASSUME NEW n \in Nodes, KubectlDelete(n) PROVE CalmInv'
  <2>1. UNCHANGED <<env, group, disc, launch, delete>>
    BY <1>33, KubectlDeleteEffect DEF Apart
  <2> QED
    BY <2>1
<1>34. ASSUME ListFails, ~Exits PROVE CalmInv'
  BY <1>34, IdleFields, ListFailsEffect
<1>35. ASSUME Crash PROVE CalmInv'
  BY <1>35, DeathEffect
<1>36. ASSUME Exits PROVE CalmInv'
  BY <1>36, DeathEffect
<1>37. ASSUME Panics PROVE CalmInv'
  BY <1>37, DeathEffect
<1>38. ASSUME UNCHANGED vars PROVE CalmInv'
  BY <1>38 DEF vars
<1> QED
  BY <1>1, <1>2, <1>3, <1>4, <1>5, <1>6, <1>7, <1>8, <1>9, <1>10, <1>11, <1>12, <1>13, <1>14, <1>15, <1>16,
    <1>17, <1>18, <1>19, <1>20, <1>21, <1>22, <1>23, <1>24, <1>25, <1>26, <1>27, <1>28, <1>29, <1>30,
    <1>31, <1>32, <1>33, <1>34, <1>35, <1>36, <1>37, <1>38, Cases

LEMMA LaunchInvStep ==
  ASSUME TypeOK, PhaseInv, MapsInv, LaunchInv, [Next]_vars
  PROVE  LaunchInv'
<1> USE DEF LaunchInv, Provides, GroupBecomes, DiscBecomes, DeleteMoves, LaunchMoves, Loses, Forgotten,
      Attaching, Apart, Still, NoLaunches, NoDeletions
<1>1. ASSUME StartFresh PROVE LaunchInv'
  <2>1. UNCHANGED <<group, disc, vm, launch>>
    BY <1>1, StartFreshEffect DEF Still
  <2> QED
    BY <2>1
<1>2. ASSUME FirstSave PROVE LaunchInv'
  <2>1. UNCHANGED <<group, disc, vm, launch>>
    BY <1>2, OpensEffect DEF Still, FirstSave
  <2> QED
    BY <2>1
<1>3. ASSUME FirstSaveEncodes PROVE LaunchInv'
  <2>1. UNCHANGED <<group, disc, vm, launch>>
    BY <1>3, EncodesEffect DEF Still, FirstSaveEncodes
  <2> QED
    BY <2>1
<1>4. ASSUME Load PROVE LaunchInv'
  <2>1. UNCHANGED <<vm, launch>> /\ NoLaunches /\ disc'.pc \in {"idle", "list"}
    BY <1>4, LoadEffect, DiscoveryFields DEF TypeOK, PhaseInv, MapsInv, Serving
  <2>2. group'.pending = {}
    BY <1>4, LoadEffect DEF MapsInv
  <2> QED
    BY <2>1, <2>2
<1>5. ASSUME ListenGrpc PROVE LaunchInv'
  <2>1. UNCHANGED <<group, disc, vm, launch>>
    BY <1>5, ListenGrpcEffect DEF Still
  <2> QED
    BY <2>1
<1>6. ASSUME ListenExternal, ~ProvisionRefused(group) PROVE LaunchInv'
  BY <1>6, ListenExternalEffect
<1>7. ASSUME Sync PROVE LaunchInv'
  <2>1. UNCHANGED <<group, disc, vm, launch>>
    BY <1>7, OpensEffect DEF Still, Sync
  <2> QED
    BY <2>1
<1>8. ASSUME SyncEncodes PROVE LaunchInv'
  <2>1. UNCHANGED <<group, disc, vm, launch>>
    BY <1>8, EncodesEffect DEF Still, SyncEncodes
  <2> QED
    BY <2>1
<1>9. ASSUME ListNodes PROVE LaunchInv'
  BY <1>9, ListNodesEffect
<1>10. ASSUME Reset PROVE LaunchInv'
  BY <1>10, ResetEffect
<1>11. ASSUME NEW n \in Nodes, Attach(n) PROVE LaunchInv'
  BY <1>11, AttachEffect
<1>12. ASSUME AttachEnds PROVE LaunchInv'
  BY <1>12, AttachEndsEffect
<1>13. ASSUME NEW n \in Nodes, Drop(n) PROVE LaunchInv'
  BY <1>13, DropEffect
<1>14. ASSUME DiscoveryEnds PROVE LaunchInv'
  BY <1>14, IdleFields, DiscoveryEndsEffect
<1>15. ASSUME NEW n \in Nodes, LaunchRefused(n) PROVE LaunchInv'
  BY <1>15, LaunchRefusedEffect
<1>16. ASSUME NEW n \in Nodes, LaunchVM(n) PROVE LaunchInv'
  BY <1>16, LaunchVMEffect
<1>17. ASSUME NEW n \in Nodes, AnnoteNode(n) PROVE LaunchInv'
  BY <1>17, AnnoteNodeEffect
<1>18. ASSUME NEW n \in Nodes, RegisterNode(n) PROVE LaunchInv'
  BY <1>18, RegisterNodeEffect
<1>19. ASSUME NEW n \in Nodes, LaunchEnds(n) PROVE LaunchInv'
  BY <1>19, LaunchEndsEffect
<1>20. ASSUME NEW n \in Nodes, LaunchFails(n) PROVE LaunchInv'
  BY <1>20, LaunchFailsEffect
<1>21. ASSUME NEW n \in Nodes, DeleteNodes(n) PROVE LaunchInv'
  <2>1. UNCHANGED <<group, disc, vm, launch>>
    BY <1>21, DeleteNodesEffect DEF Apart
  <2> QED
    BY <2>1
<1>22. ASSUME NEW n \in Nodes, DeleteMisses(n), ~Panics PROVE LaunchInv'
  <2>1. UNCHANGED <<group, disc, vm, launch>>
    BY <1>22, DeleteMissesEffect DEF Apart
  <2> QED
    BY <2>1
<1>23. ASSUME NEW n \in Nodes, DeletesVM(n) PROVE LaunchInv'
  BY <1>23, DeletesVMEffect
<1>24. ASSUME NEW n \in Nodes, DeleteEnds(n) PROVE LaunchInv'
  BY <1>24, DeleteEndsEffect
<1>25. ASSUME Connect PROVE LaunchInv'
  BY <1>25, ConnectEffect
<1>26. ASSUME NEW min \in {0, 1}, NewNodeGroup(min) PROVE LaunchInv'
  BY <1>26, NewNodeGroupEffect
<1>27. ASSUME Create PROVE LaunchInv'
  BY <1>27, CreateEffect
<1>28. ASSUME NEW n \in Nodes, NEW base \in Indexes, NEW i \in Indexes, Grows(n, base, i) PROVE LaunchInv'
  BY <1>28, GrowsEffect
<1>29. ASSUME CleanupBegins PROVE LaunchInv'
  BY <1>29, CleanupBeginsEffect
<1>30. ASSUME CleanupEnds PROVE LaunchInv'
  <2>1. group'.pending = {} /\ NoLaunches /\ UNCHANGED <<disc, launch>>
    BY <1>30, CleanupEndsEffect, AbsentFields
  <2> QED
    BY <2>1
<1>31. ASSUME Refresh PROVE LaunchInv'
  <2>1. UNCHANGED <<group, disc, vm, launch>>
    BY <1>31, OpensEffect DEF Still, Refresh
  <2> QED
    BY <2>1
<1>32. ASSUME RefreshEncodes PROVE LaunchInv'
  <2>1. UNCHANGED <<group, disc, vm, launch>>
    BY <1>32, EncodesEffect DEF Still, RefreshEncodes
  <2> QED
    BY <2>1
<1>33. ASSUME NEW n \in Nodes, KubectlDelete(n) PROVE LaunchInv'
  <2>1. UNCHANGED <<group, disc, vm, launch>>
    BY <1>33, KubectlDeleteEffect DEF Apart
  <2> QED
    BY <2>1
<1>34. ASSUME ListFails, ~Exits PROVE LaunchInv'
  BY <1>34, IdleFields, ListFailsEffect
<1>35. ASSUME Crash PROVE LaunchInv'
  BY <1>35, DeathEffect
<1>36. ASSUME Exits PROVE LaunchInv'
  BY <1>36, DeathEffect
<1>37. ASSUME Panics PROVE LaunchInv'
  BY <1>37, DeathEffect
<1>38. ASSUME UNCHANGED vars PROVE LaunchInv'
  BY <1>38 DEF vars
<1> QED
  BY <1>1, <1>2, <1>3, <1>4, <1>5, <1>6, <1>7, <1>8, <1>9, <1>10, <1>11, <1>12, <1>13, <1>14, <1>15, <1>16,
    <1>17, <1>18, <1>19, <1>20, <1>21, <1>22, <1>23, <1>24, <1>25, <1>26, <1>27, <1>28, <1>29, <1>30,
    <1>31, <1>32, <1>33, <1>34, <1>35, <1>36, <1>37, <1>38, Cases

LEMMA TidyInvStep ==
  ASSUME TypeOK, PhaseInv, RequestInv, MapsInv, DefinitionInv, CalmInv, LaunchInv, TidyInv, [Next]_vars
  PROVE  TidyInv'
<1> USE DEF TidyInv, GroupBecomes, NilMaps, DiscBecomes, DeleteMoves, LaunchMoves, Forgotten, Attaching,
      Apart, Still, NoLaunches, NoDeletions, Unmixed, Left, Asked, May, Wanted, Definition
<1>1. ASSUME StartFresh PROVE TidyInv'
  <2>1. UNCHANGED <<env, group, disc, vm, kube, launch, delete>>
    BY <1>1, StartFreshEffect DEF Still
  <2> QED
    BY <2>1
<1>2. ASSUME FirstSave PROVE TidyInv'
  <2>1. UNCHANGED <<env, group, disc, vm, kube, launch, delete>>
    BY <1>2, OpensEffect DEF Still, FirstSave
  <2> QED
    BY <2>1
<1>3. ASSUME FirstSaveEncodes PROVE TidyInv'
  <2>1. UNCHANGED <<env, group, disc, vm, kube, launch, delete>>
    BY <1>3, EncodesEffect DEF Still, FirstSaveEncodes
  <2> QED
    BY <2>1
<1>4. ASSUME Load PROVE TidyInv'
  <2>1. /\ UNCHANGED <<env, vm, kube, launch, delete>> /\ NoLaunches /\ NoDeletions
        /\ disc'.pc \in {"idle", "list"} /\ disc'.list = {}
    BY <1>4, LoadEffect, DiscoveryFields DEF TypeOK, PhaseInv, MapsInv, Serving
  <2> QED
    BY <2>1
<1>5. ASSUME ListenGrpc PROVE TidyInv'
  <2>1. UNCHANGED <<env, group, disc, vm, kube, launch, delete>>
    BY <1>5, ListenGrpcEffect DEF Still
  <2> QED
    BY <2>1
<1>6. ASSUME ListenExternal, ~ProvisionRefused(group) PROVE TidyInv'
  <2>1. /\ UNCHANGED <<env, vm, kube, launch, delete>> /\ NoLaunches /\ NoDeletions
        /\ disc'.pc = "list" /\ disc'.list = {}
    BY <1>6, ListenExternalEffect DEF PhaseInv, MapsInv, Serving
  <2> QED
    BY <2>1
<1>7. ASSUME Sync PROVE TidyInv'
  <2>1. UNCHANGED <<env, group, disc, vm, kube, launch, delete>>
    BY <1>7, OpensEffect DEF Still, Sync
  <2> QED
    BY <2>1
<1>8. ASSUME SyncEncodes PROVE TidyInv'
  <2>1. UNCHANGED <<env, group, disc, vm, kube, launch, delete>>
    BY <1>8, EncodesEffect DEF Still, SyncEncodes
  <2> QED
    BY <2>1
<1>9. ASSUME ListNodes PROVE TidyInv'
  <2> SUFFICES ASSUME Unmixed PROVE TidyInv'
    BY <1>9, ListNodesEffect
  <2>1. /\ UNCHANGED <<env, vm, kube, group, launch, delete>> /\ disc'.pc = "reset" /\ disc'.list = Handled
    BY <1>9, ListNodesEffect
  <2>2. disc.by # "none" /\ defs = Definition
    BY <1>9, ListNodesEffect DEF PhaseInv, DefinitionInv
  <2>3. Handled \subseteq kube /\ \A n \in Nodes : n \in Handled <=> n \in kube /\ Wanted(n)
    BY <2>2 DEF Handled, TypeOK
  <2> HIDE DEF Wanted, Definition
  <2>4. \A n \in Nodes : Wanted(n)' <=> Wanted(n)
    BY <2>1 DEF Wanted, Definition
  <2>5. TidyInv
    OBVIOUS
  <2> QED
    BY <2>1, <2>3, <2>4
<1>10. ASSUME Reset PROVE TidyInv'
  <2>1. /\ UNCHANGED <<env, vm, kube, launch, delete>> /\ disc.pc = "reset" /\ disc'.pc = "attach"
        /\ disc'.list = disc.list /\ disc'.former = group.nodes /\ group'.nodes = {}
    BY <1>10, ResetEffect
  <2>2. Unmixed => NoDeletions
    BY <2>1 DEF RequestInv, CalmInv, PhaseInv
  <2> QED
    BY <2>1, <2>2
<1>11. ASSUME NEW n \in Nodes, Attach(n) PROVE TidyInv'
  <2>1. /\ UNCHANGED <<env, vm, kube, launch, delete>> /\ disc.pc = "attach" /\ disc'.pc = "attach"
        /\ n \in disc.list /\ disc'.list = disc.list \ {n} /\ disc'.former = disc.former
        /\ group'.pending = group.pending /\ (NilMaps(group') <=> NilMaps(group))
        /\ group'.status = group.status
    BY <1>11, AttachEffect
  <2>2. \/ group'.nodes = group.nodes \cup {n}
        \/ (n \notin vm \/ May("attach")) /\ group'.nodes = group.nodes
    BY <1>11, AttachEffect
  <2>3. Wanted(n)
    BY <2>1 DEF DefinitionInv
  <2>4. Unmixed /\ May("attach") /\ launch[n] # "no" => n \in group.pending
    BY <2>1 DEF CalmInv
  <2> QED
    BY <2>1, <2>2, <2>3, <2>4
<1>12. ASSUME AttachEnds PROVE TidyInv'
  BY <1>12, AttachEndsEffect
<1>13. ASSUME NEW n \in Nodes, Drop(n) PROVE TidyInv'
  <2>1. /\ UNCHANGED <<env, group, launch, delete>> /\ disc.pc = "drop" /\ disc'.pc = "drop"
        /\ disc'.list = disc.list /\ disc.list = {} /\ disc'.former = disc.former \ {n}
        /\ n \in disc.former
    BY <1>13, DropEffect DEF PhaseInv
  <2>2. \/ n \notin group.nodes \cup group.pending /\ vm' = vm \ {n} /\ kube' = kube \ {n}
        \/ vm' = vm /\ kube' = kube
        \/ n \notin group.nodes \cup group.pending /\ vm' = vm /\ kube' = kube \ {n}
    BY <1>13, DropEffect DEF Loses
  <2> QED
    BY <2>1, <2>2
<1>14. ASSUME DiscoveryEnds PROVE TidyInv'
  BY <1>14, IdleFields, DiscoveryEndsEffect
<1>15. ASSUME NEW n \in Nodes, LaunchRefused(n) PROVE TidyInv'
  BY <1>15, LaunchRefusedEffect
<1>16. ASSUME NEW n \in Nodes, LaunchVM(n) PROVE TidyInv'
  BY <1>16, LaunchVMEffect
<1>17. ASSUME NEW n \in Nodes, AnnoteNode(n) PROVE TidyInv'
  BY <1>17, AnnoteNodeEffect
<1>18. ASSUME NEW n \in Nodes, RegisterNode(n) PROVE TidyInv'
  BY <1>18, RegisterNodeEffect
<1>19. ASSUME NEW n \in Nodes, LaunchEnds(n) PROVE TidyInv'
  BY <1>19, LaunchEndsEffect
<1>20. ASSUME NEW n \in Nodes, LaunchFails(n) PROVE TidyInv'
  <2>1. /\ UNCHANGED <<env, disc, delete>> /\ LaunchMoves(n, "no") /\ launch[n] = "created"
        /\ group'.nodes = group.nodes /\ group'.pending = group.pending \ {n}
        /\ group'.status = group.status /\ (NilMaps(group') <=> NilMaps(group))
    BY <1>20, LaunchFailsEffect
  <2>2. \/ vm' = vm \ {n} /\ kube' = kube \ {n}
        \/ vm' = vm /\ kube' \in {kube, kube \ {n}}
    BY <1>20, LaunchFailsEffect DEF Loses
  <2> QED
    BY <2>1, <2>2
<1>21. ASSUME NEW n \in Nodes, DeleteNodes(n) PROVE TidyInv'
  BY <1>21, DeleteNodesEffect
<1>22. ASSUME NEW n \in Nodes, DeleteMisses(n), ~Panics PROVE TidyInv'
  BY <1>22, DeleteMissesEffect
<1>23. ASSUME NEW n \in Nodes, DeletesVM(n) PROVE TidyInv'
  <2>1. /\ UNCHANGED <<env, group, disc, launch>> /\ delete[n] = "asked" /\ DeleteMoves(n, "gone")
    BY <1>23, DeletesVMEffect
  <2>2. \/ vm' = vm \ {n} /\ kube' = kube \ {n}
        \/ May("delete") /\ vm' = vm /\ kube' \in {kube, kube \ {n}}
    BY <1>23, DeletesVMEffect DEF Loses
  <2>3. Unmixed => launch[n] \in {"no", "reserved"}
    BY <2>1
  <2>4. Unmixed => disc.pc = "idle" /\ disc.list = {}
    BY <2>1 DEF RequestInv, CalmInv, PhaseInv
  <2> QED
    BY <2>1, <2>2, <2>3, <2>4
<1>24. ASSUME NEW n \in Nodes, DeleteEnds(n) PROVE TidyInv'
  <2>1. /\ UNCHANGED <<env, disc, vm, kube, launch>> /\ delete[n] = "gone" /\ DeleteMoves(n, "no")
        /\ group'.nodes = group.nodes \ {n} /\ (NilMaps(group') <=> NilMaps(group)) /\ group'.status = group.status
    BY <1>24, DeleteEndsEffect
  <2>2. Unmixed => disc.pc = "idle"
    BY <2>1 DEF RequestInv, CalmInv, PhaseInv
  <2> QED
    BY <2>1, <2>2
<1>25. ASSUME Connect PROVE TidyInv'
  <2>1. /\ UNCHANGED <<env, vm, kube, launch, delete>>
        /\ disc'.pc \in {"idle", "list"} /\ disc'.list = {}
    BY <1>25, ConnectEffect DEF PhaseInv, MayConnect
  <2>2. \/ group'.nodes = group.nodes /\ (NilMaps(group') <=> NilMaps(group))
        \/ group'.nodes = {} /\ NilMaps(group')
    BY <1>25, ConnectEffect DEF Provides
  <2>3. Unmixed => NoDeletions
    BY <1>25, ConnectEffect DEF MayConnect, Calm, RequestInv
  <2> QED
    BY <2>1, <2>2, <2>3
<1>26. ASSUME NEW min \in {0, 1}, NewNodeGroup(min) PROVE TidyInv'
  BY <1>26, NewNodeGroupEffect
<1>27. ASSUME Create PROVE TidyInv'
  BY <1>27, CreateEffect
<1>28. ASSUME NEW n \in Nodes, NEW base \in Indexes, NEW i \in Indexes, Grows(n, base, i) PROVE TidyInv'
  <2>1. /\ UNCHANGED <<env, disc, vm, kube, delete>> /\ LaunchMoves(n, "reserved") /\ ~NilMaps(group)
        /\ n \notin group.nodes \cup group.pending \cup vm /\ group'.nodes = group.nodes
        /\ group'.pending = group.pending \cup {n} /\ (NilMaps(group') <=> NilMaps(group))
        /\ group'.status = group.status
    BY <1>28, GrowsEffect
  <2>2. disc.pc \notin {"reset", "attach"} => disc.list = {}
    BY DEF PhaseInv
  <2> QED
    BY <2>1, <2>2
<1>29. ASSUME CleanupBegins PROVE TidyInv'
  BY <1>29, CleanupBeginsEffect
<1>30. ASSUME CleanupEnds PROVE TidyInv'
  <2>1. /\ UNCHANGED <<env, disc, launch, delete>> /\ NoLaunches /\ disc.pc = "idle" /\ disc.list = {}
    BY <1>30, CleanupEndsEffect DEF PhaseInv
  <2>2. \/ vm' = vm \ Mine /\ kube' = kube \ Mine /\ NilMaps(group')
        \/ vm' = vm /\ kube' = kube /\ (NilMaps(group') \/ (May("delete") /\ group'.status = "Deleted"))
    BY <1>30, CleanupEndsEffect, AbsentFields
  <2> QED
    BY <2>1, <2>2
<1>31. ASSUME Refresh PROVE TidyInv'
  <2>1. UNCHANGED <<env, group, disc, vm, kube, launch, delete>>
    BY <1>31, OpensEffect DEF Still, Refresh
  <2> QED
    BY <2>1
<1>32. ASSUME RefreshEncodes PROVE TidyInv'
  <2>1. UNCHANGED <<env, group, disc, vm, kube, launch, delete>>
    BY <1>32, EncodesEffect DEF Still, RefreshEncodes
  <2> QED
    BY <2>1
<1>33. ASSUME NEW n \in Nodes, KubectlDelete(n) PROVE TidyInv'
  BY <1>33, KubectlDeleteEffect
<1>34. ASSUME ListFails, ~Exits PROVE TidyInv'
  BY <1>34, IdleFields, ListFailsEffect
<1>35. ASSUME Crash PROVE TidyInv'
  BY <1>35, DeathEffect
<1>36. ASSUME Exits PROVE TidyInv'
  BY <1>36, DeathEffect
<1>37. ASSUME Panics PROVE TidyInv'
  BY <1>37, DeathEffect
<1>38. ASSUME UNCHANGED vars PROVE TidyInv'
  BY <1>38 DEF vars
<1> QED
  BY <1>1, <1>2, <1>3, <1>4, <1>5, <1>6, <1>7, <1>8, <1>9, <1>10, <1>11, <1>12, <1>13, <1>14, <1>15, <1>16,
    <1>17, <1>18, <1>19, <1>20, <1>21, <1>22, <1>23, <1>24, <1>25, <1>26, <1>27, <1>28, <1>29, <1>30,
    <1>31, <1>32, <1>33, <1>34, <1>35, <1>36, <1>37, <1>38, Cases

LEMMA ListedInvStep ==
  ASSUME TypeOK, PhaseInv, RequestInv, DefinitionInv, CalmInv, LaunchInv, TidyInv, ListedInv, [Next]_vars
  PROVE  ListedInv'
<1> USE DEF ListedInv, GroupBecomes, NilMaps, DiscBecomes, DeleteMoves, LaunchMoves, Forgotten, Attaching,
      Apart, Still, NoLaunches, NoDeletions, Unmixed, Asked, May, Wanted, Definition, Loses
<1>1. ASSUME StartFresh PROVE ListedInv'
  <2>1. UNCHANGED <<env, group, disc, vm, kube>>
    BY <1>1, StartFreshEffect DEF Still
  <2> QED
    BY <2>1
<1>2. ASSUME FirstSave PROVE ListedInv'
  <2>1. UNCHANGED <<env, group, disc, vm, kube>>
    BY <1>2, OpensEffect DEF Still, FirstSave
  <2> QED
    BY <2>1
<1>3. ASSUME FirstSaveEncodes PROVE ListedInv'
  <2>1. UNCHANGED <<env, group, disc, vm, kube>>
    BY <1>3, EncodesEffect DEF Still, FirstSaveEncodes
  <2> QED
    BY <2>1
<1>4. ASSUME Load PROVE ListedInv'
  <2>1. disc'.pc \in {"idle", "list"} /\ disc'.list = {}
    BY <1>4, LoadEffect, DiscoveryFields DEF TypeOK, PhaseInv, Serving
  <2> QED
    BY <2>1
<1>5. ASSUME ListenGrpc PROVE ListedInv'
  <2>1. UNCHANGED <<env, group, disc, vm, kube>>
    BY <1>5, ListenGrpcEffect DEF Still
  <2> QED
    BY <2>1
<1>6. ASSUME ListenExternal, ~ProvisionRefused(group) PROVE ListedInv'
  BY <1>6, ListenExternalEffect
<1>7. ASSUME Sync PROVE ListedInv'
  <2>1. UNCHANGED <<env, group, disc, vm, kube>>
    BY <1>7, OpensEffect DEF Still, Sync
  <2> QED
    BY <2>1
<1>8. ASSUME SyncEncodes PROVE ListedInv'
  <2>1. UNCHANGED <<env, group, disc, vm, kube>>
    BY <1>8, EncodesEffect DEF Still, SyncEncodes
  <2> QED
    BY <2>1
<1>9. ASSUME ListNodes PROVE ListedInv'
  <2>1. /\ UNCHANGED <<env, vm, kube, group>> /\ disc'.pc = "reset" /\ disc'.list = Handled
    BY <1>9, ListNodesEffect
  <2>2. defs = Definition
    BY <1>9, ListNodesEffect DEF PhaseInv, DefinitionInv
  <2>3. \A n \in kube : Wanted(n) => n \in Handled
    BY <2>2 DEF Handled
  <2> QED
    BY <2>1, <2>3
<1>10. ASSUME Reset PROVE ListedInv'
  BY <1>10, ResetEffect
<1>11. ASSUME NEW n \in Nodes, Attach(n) PROVE ListedInv'
  BY <1>11, AttachEffect
<1>12. ASSUME AttachEnds PROVE ListedInv'
  BY <1>12, AttachEndsEffect
<1>13. ASSUME NEW n \in Nodes, Drop(n) PROVE ListedInv'
  BY <1>13, DropEffect
<1>14. ASSUME DiscoveryEnds PROVE ListedInv'
  BY <1>14, IdleFields, DiscoveryEndsEffect
<1>15. ASSUME NEW n \in Nodes, LaunchRefused(n) PROVE ListedInv'
  BY <1>15, LaunchRefusedEffect
<1>16. ASSUME NEW n \in Nodes, LaunchVM(n) PROVE ListedInv'
  <2>1. /\ UNCHANGED <<env, disc, kube, group>> /\ launch[n] = "reserved" /\ vm' = vm \cup {n}
    BY <1>16, LaunchVMEffect
  <2>2. Unmixed => n \notin kube
    BY <2>1 DEF TidyInv
  <2> HIDE DEF Wanted
  <2>3. \A m \in Nodes : Wanted(m)' <=> Wanted(m)
    BY <2>1 DEF Wanted
  <2>4. disc.former \in SUBSET Nodes /\ kube \in SUBSET Nodes
    BY DiscoveryFields DEF TypeOK
  <2> QED
    BY <2>1, <2>2, <2>3, <2>4
<1>17. ASSUME NEW n \in Nodes, AnnoteNode(n) PROVE ListedInv'
  BY <1>17, AnnoteNodeEffect
<1>18. ASSUME NEW n \in Nodes, RegisterNode(n) PROVE ListedInv'
  BY <1>18, RegisterNodeEffect
<1>19. ASSUME NEW n \in Nodes, LaunchEnds(n) PROVE ListedInv'
  <2>1. /\ UNCHANGED <<env, disc, vm, kube>> /\ launch[n] = "registered" /\ group'.nodes = group.nodes
        /\ group'.pending = group.pending \ {n}
    BY <1>19, LaunchEndsEffect
  <2>2. Attaching /\ n \in group.pending => n \in group.nodes
    BY <2>1 DEF LaunchInv
  <2> QED
    BY <2>1, <2>2
<1>20. ASSUME NEW n \in Nodes, LaunchFails(n) PROVE ListedInv'
  <2>1. /\ UNCHANGED <<env, disc>> /\ launch[n] = "created" /\ group'.nodes = group.nodes
        /\ group'.pending = group.pending \ {n} /\ vm' \subseteq vm /\ kube' \subseteq kube
    BY <1>20, LaunchFailsEffect
  <2>2. Unmixed => n \notin kube
    BY <2>1 DEF TidyInv
  <2> QED
    BY <2>1, <2>2
<1>21. ASSUME NEW n \in Nodes, DeleteNodes(n) PROVE ListedInv'
  <2>1. UNCHANGED <<env, group, disc, vm, kube>>
    BY <1>21, DeleteNodesEffect DEF Apart
  <2> QED
    BY <2>1
<1>22. ASSUME NEW n \in Nodes, DeleteMisses(n), ~Panics PROVE ListedInv'
  <2>1. UNCHANGED <<env, group, disc, vm, kube>>
    BY <1>22, DeleteMissesEffect DEF Apart
  <2> QED
    BY <2>1
<1>23. ASSUME NEW n \in Nodes, DeletesVM(n) PROVE ListedInv'
  BY <1>23, DeletesVMEffect
<1>24. ASSUME NEW n \in Nodes, DeleteEnds(n) PROVE ListedInv'
  <2>1. UNCHANGED <<env, disc, vm, kube>> /\ delete[n] # "no"
    BY <1>24, DeleteEndsEffect
  <2>2. Unmixed => disc.pc = "idle"
    BY <2>1 DEF RequestInv, CalmInv, PhaseInv
  <2> QED
    BY <2>1, <2>2
<1>25. ASSUME Connect PROVE ListedInv'
  <2>1. disc'.pc \in {"idle", "list"} /\ disc'.list = {}
    BY <1>25, ConnectEffect DEF PhaseInv, MayConnect
  <2> QED
    BY <2>1
<1>26. ASSUME NEW min \in {0, 1}, NewNodeGroup(min) PROVE ListedInv'
  BY <1>26, NewNodeGroupEffect
<1>27. ASSUME Create PROVE ListedInv'
  BY <1>27, CreateEffect
<1>28. ASSUME NEW n \in Nodes, NEW base \in Indexes, NEW i \in Indexes, Grows(n, base, i) PROVE ListedInv'
  BY <1>28, GrowsEffect
<1>29. ASSUME CleanupBegins PROVE ListedInv'
  BY <1>29, CleanupBeginsEffect
<1>30. ASSUME CleanupEnds PROVE ListedInv'
  <2>1. disc'.pc = "idle" /\ disc'.list = {}
    BY <1>30, CleanupEndsEffect DEF PhaseInv
  <2> QED
    BY <2>1
<1>31. ASSUME Refresh PROVE ListedInv'
  <2>1. UNCHANGED <<env, group, disc, vm, kube>>
    BY <1>31, OpensEffect DEF Still, Refresh
  <2> QED
    BY <2>1
<1>32. ASSUME RefreshEncodes PROVE ListedInv'
  <2>1. UNCHANGED <<env, group, disc, vm, kube>>
    BY <1>32, EncodesEffect DEF Still, RefreshEncodes
  <2> QED
    BY <2>1
<1>33. ASSUME NEW n \in Nodes, KubectlDelete(n) PROVE ListedInv'
  BY <1>33, KubectlDeleteEffect
<1>34. ASSUME ListFails, ~Exits PROVE ListedInv'
  BY <1>34, IdleFields, ListFailsEffect
<1>35. ASSUME Crash PROVE ListedInv'
  BY <1>35, DeathEffect
<1>36. ASSUME Exits PROVE ListedInv'
  BY <1>36, DeathEffect
<1>37. ASSUME Panics PROVE ListedInv'
  BY <1>37, DeathEffect
<1>38. ASSUME UNCHANGED vars PROVE ListedInv'
  BY <1>38 DEF vars
<1> QED
  BY <1>1, <1>2, <1>3, <1>4, <1>5, <1>6, <1>7, <1>8, <1>9, <1>10, <1>11, <1>12, <1>13, <1>14, <1>15, <1>16,
    <1>17, <1>18, <1>19, <1>20, <1>21, <1>22, <1>23, <1>24, <1>25, <1>26, <1>27, <1>28, <1>29, <1>30,
    <1>31, <1>32, <1>33, <1>34, <1>35, <1>36, <1>37, <1>38, Cases

\* What is known of a node when deletions neither fail nor are under way at a Connect.
Ordered(n) ==
  /\ delete[n] # "no" => /\ disc.pc = "idle" /\ launch[n] = "no" /\ (delete[n] = "gone" => n \notin vm)
                         /\ n \in group.nodes \/ ~connected
  /\ launch[n] \in {"reserved", "created"} => n \notin kube /\ n \notin group.nodes
  /\ launch[n] = "reserved" => n \notin vm
  /\ launch[n] \in {"created", "annotated"} => n \in vm
  /\ n \in group.pending /\ launch[n] = "no" => n \notin vm
  /\ Attaching /\ n \in group.pending /\ launch[n] = "registered" => n \in group.nodes

LEMMA OrderedNodes ==
  ASSUME TypeOK, PhaseInv, RequestInv, MapsInv, CalmInv, LaunchInv, TidyInv, Unmixed, ~May("delete"),
         NEW n \in Nodes
  PROVE  Ordered(n)
<1>1. delete[n] # "no" => disc.pc = "idle"
  BY DEF Unmixed, RequestInv, CalmInv, PhaseInv, NoDeletions
<1>2. delete[n] # "no" => launch[n] = "no" /\ (delete[n] = "gone" => n \notin vm) /\ (n \in group.nodes \/ NilMaps(group))
  BY DEF TidyInv, Left
<1>3. NilMaps(group) => ~connected
  BY DEF MapsInv
<1>4. /\ launch[n] \in {"reserved", "created"} => n \notin kube /\ n \notin group.nodes
      /\ launch[n] \in {"created", "annotated"} => n \in vm
  BY DEF TidyInv, Left
<1> QED
  BY <1>1, <1>2, <1>3, <1>4 DEF Ordered, LaunchInv

LEMMA ToFound ==
  ASSUME env' = env,
         Unmixed /\ ~May("delete") =>
           \A n \in Nodes :
             /\ n \in kube' /\ n \in vm' /\ Wanted(n) /\ n \notin disc'.unattached /\ launch'[n] \in {"no", "registered"} /\ delete'[n] = "no"
             => Found(n)'
  PROVE  FoundInv'
BY DEF FoundInv, Unmixed, May, Asked, Wanted, Definition

LEMMA ToBacked ==
  ASSUME env' = env,
         /\ Unmixed /\ ~May("delete") /\ env.attach = "checks"
         /\ Attaching' \/ (disc'.pc = "idle" /\ connected')
         => \A n \in Nodes : n \in group'.nodes => n \in vm' \/ delete'[n] = "gone"
  PROVE  BackedInv'
BY DEF BackedInv, Unmixed, May, Asked, Attaching

LEMMA FoundInvStep ==
  ASSUME TypeOK, PhaseInv, RequestInv, MapsInv, DefinitionInv, CalmInv, LaunchInv, TidyInv, FoundInv,
         [Next]_vars
  PROVE  FoundInv'
<1> USE DEF Found, GroupBecomes, DiscBecomes, DeleteMoves, LaunchMoves, Forgotten, Attaching, Loses, Ordered
<1>1. ASSUME StartFresh PROVE FoundInv'
  <2>1. UNCHANGED <<env, group, disc, vm, kube, launch, delete, connected>>
    BY <1>1, StartFreshEffect DEF Still
  <2> QED
    BY <2>1 DEF FoundInv, Unmixed, May, Asked, Wanted, Definition
<1>2. ASSUME FirstSave PROVE FoundInv'
  <2>1. UNCHANGED <<env, group, disc, vm, kube, launch, delete, connected>>
    BY <1>2, OpensEffect DEF Still, FirstSave
  <2> QED
    BY <2>1 DEF FoundInv, Unmixed, May, Asked, Wanted, Definition
<1>3. ASSUME FirstSaveEncodes PROVE FoundInv'
  <2>1. UNCHANGED <<env, group, disc, vm, kube, launch, delete, connected>>
    BY <1>3, EncodesEffect DEF Still, FirstSaveEncodes
  <2> QED
    BY <2>1 DEF FoundInv, Unmixed, May, Asked, Wanted, Definition
<1>4. ASSUME Load PROVE FoundInv'
  <2> SUFFICES ASSUME Unmixed, ~May("delete"), NEW m \in Nodes, m \in kube', m \in vm', Wanted(m),
                      m \notin disc'.unattached, launch'[m] \in {"no", "registered"}, delete'[m] = "no"
               PROVE  Found(m)'
    BY <1>4, LoadEffect, ToFound DEF Apart, Still, Forgotten
  <2>1. /\ Ordered(m)
        /\ m \in kube /\ m \in vm /\ m \notin disc.unattached /\ launch[m] \in {"no", "registered"} /\ delete[m] = "no"
           => Found(m)
    BY OrderedNodes DEF FoundInv
  <2>2. disc'.pc = "list" \/ (disc'.pc = "idle" /\ ~connected')
    <3>1. disc.pc = "idle" /\ ~connected /\ connected' = connected
      BY <1>4, LoadEffect, DiscoveryFields DEF TypeOK, PhaseInv, MapsInv, Missing, Serving
    <3> QED
      BY <3>1, <1>4, LoadEffect
  <2> QED
    BY <2>2
<1>5. ASSUME ListenGrpc PROVE FoundInv'
  <2>1. UNCHANGED <<env, group, disc, vm, kube, launch, delete, connected>>
    BY <1>5, ListenGrpcEffect DEF Still
  <2> QED
    BY <2>1 DEF FoundInv, Unmixed, May, Asked, Wanted, Definition
<1>6. ASSUME ListenExternal, ~ProvisionRefused(group) PROVE FoundInv'
  <2> SUFFICES ASSUME Unmixed, ~May("delete"), NEW m \in Nodes, m \in kube', m \in vm', Wanted(m),
                      m \notin disc'.unattached, launch'[m] \in {"no", "registered"}, delete'[m] = "no"
               PROVE  Found(m)'
    BY <1>6, ListenExternalEffect, ToFound DEF Apart, Still, Forgotten
  <2>1. /\ Ordered(m)
        /\ m \in kube /\ m \in vm /\ m \notin disc.unattached /\ launch[m] \in {"no", "registered"} /\ delete[m] = "no"
           => Found(m)
    BY OrderedNodes DEF FoundInv
  <2> QED
    BY <1>6, <2>1, ListenExternalEffect DEF Apart, Still
<1>7. ASSUME Sync PROVE FoundInv'
  <2>1. UNCHANGED <<env, group, disc, vm, kube, launch, delete, connected>>
    BY <1>7, OpensEffect DEF Still, Sync
  <2> QED
    BY <2>1 DEF FoundInv, Unmixed, May, Asked, Wanted, Definition
<1>8. ASSUME SyncEncodes PROVE FoundInv'
  <2>1. UNCHANGED <<env, group, disc, vm, kube, launch, delete, connected>>
    BY <1>8, EncodesEffect DEF Still, SyncEncodes
  <2> QED
    BY <2>1 DEF FoundInv, Unmixed, May, Asked, Wanted, Definition
<1>9. ASSUME ListNodes PROVE FoundInv'
  <2> SUFFICES ASSUME Unmixed, ~May("delete"), NEW m \in Nodes, m \in kube', m \in vm', Wanted(m),
                      m \notin disc'.unattached, launch'[m] \in {"no", "registered"}, delete'[m] = "no"
               PROVE  Found(m)'
    BY <1>9, ListNodesEffect, ToFound DEF Apart, Still, Forgotten
  <2>1. /\ Ordered(m)
        /\ m \in kube /\ m \in vm /\ m \notin disc.unattached /\ launch[m] \in {"no", "registered"} /\ delete[m] = "no"
           => Found(m)
    BY OrderedNodes DEF FoundInv
  <2>2. disc'.pc = "reset" /\ disc'.list = Handled /\ kube' = kube
    BY <1>9, ListNodesEffect
  <2>3. defs = Definition
    BY <1>9, ListNodesEffect DEF PhaseInv, DefinitionInv
  <2> QED
    BY <2>2, <2>3 DEF Handled, Wanted
<1>10. ASSUME Reset PROVE FoundInv'
  <2> SUFFICES ASSUME Unmixed, ~May("delete"), NEW m \in Nodes, m \in kube', m \in vm', Wanted(m),
                      m \notin disc'.unattached, launch'[m] \in {"no", "registered"}, delete'[m] = "no"
               PROVE  Found(m)'
    BY <1>10, ResetEffect, ToFound DEF Apart, Still, Forgotten
  <2>1. /\ Ordered(m)
        /\ m \in kube /\ m \in vm /\ m \notin disc.unattached /\ launch[m] \in {"no", "registered"} /\ delete[m] = "no"
           => Found(m)
    BY OrderedNodes DEF FoundInv
  <2> QED
    BY <1>10, <2>1, ResetEffect DEF Apart, Still
<1>11. ASSUME NEW n \in Nodes, Attach(n) PROVE FoundInv'
  <2> SUFFICES ASSUME Unmixed, ~May("delete"), NEW m \in Nodes, m \in kube', m \in vm', Wanted(m),
                      m \notin disc'.unattached, launch'[m] \in {"no", "registered"}, delete'[m] = "no"
               PROVE  Found(m)'
    BY <1>11, AttachEffect, ToFound DEF Apart, Still, Forgotten
  <2>1. /\ Ordered(m)
        /\ m \in kube /\ m \in vm /\ m \notin disc.unattached /\ launch[m] \in {"no", "registered"} /\ delete[m] = "no"
           => Found(m)
    BY OrderedNodes DEF FoundInv
  <2>2. /\ UNCHANGED <<kube, vm, launch, delete, connected>> /\ disc.pc = "attach" /\ disc'.pc = "attach"
        /\ disc'.list = disc.list \ {n} /\ disc'.former = disc.former
    BY <1>11, AttachEffect
  <2>3. \/ group'.nodes = group.nodes \cup {n} /\ disc'.unattached = disc.unattached
        \/ group'.nodes = group.nodes /\ disc'.unattached = disc.unattached \cup ({n} \cap vm)
    BY <1>11, AttachEffect
  <2> QED
    BY <2>1, <2>2, <2>3
<1>12. ASSUME AttachEnds PROVE FoundInv'
  <2> SUFFICES ASSUME Unmixed, ~May("delete"), NEW m \in Nodes, m \in kube', m \in vm', Wanted(m),
                      m \notin disc'.unattached, launch'[m] \in {"no", "registered"}, delete'[m] = "no"
               PROVE  Found(m)'
    BY <1>12, AttachEndsEffect, ToFound DEF Apart, Still, Forgotten
  <2>1. /\ Ordered(m)
        /\ m \in kube /\ m \in vm /\ m \notin disc.unattached /\ launch[m] \in {"no", "registered"} /\ delete[m] = "no"
           => Found(m)
    BY OrderedNodes DEF FoundInv
  <2> QED
    BY <1>12, <2>1, AttachEndsEffect DEF Apart, Still
<1>13. ASSUME NEW n \in Nodes, Drop(n) PROVE FoundInv'
  <2> SUFFICES ASSUME Unmixed, ~May("delete"), NEW m \in Nodes, m \in kube', m \in vm', Wanted(m),
                      m \notin disc'.unattached, launch'[m] \in {"no", "registered"}, delete'[m] = "no"
               PROVE  Found(m)'
    BY <1>13, DropEffect, ToFound DEF Apart, Still, Forgotten
  <2>1. /\ Ordered(m)
        /\ m \in kube /\ m \in vm /\ m \notin disc.unattached /\ launch[m] \in {"no", "registered"} /\ delete[m] = "no"
           => Found(m)
    BY OrderedNodes DEF FoundInv
  <2>2. /\ disc.pc = "drop" /\ disc.list = {} /\ disc'.pc = "drop" /\ disc'.list = {} /\ disc'.former = disc.former \ {n}
        /\ UNCHANGED <<group, launch, delete>> /\ disc'.unattached = disc.unattached \ {n}
    BY <1>13, DropEffect DEF PhaseInv
  <2>3. \/ n \notin group.nodes \cup group.pending /\ vm' = vm \ {n} /\ kube' = kube \ {n}
        \/ (n \in group.nodes \cup group.pending \/ n \notin vm) /\ vm' = vm /\ kube' = kube
    BY <1>13, DropEffect
  <2> QED
    BY <2>1, <2>2, <2>3
<1>14. ASSUME DiscoveryEnds PROVE FoundInv'
  <2> SUFFICES ASSUME Unmixed, ~May("delete"), NEW m \in Nodes, m \in kube', m \in vm', Wanted(m),
                      m \notin disc'.unattached, launch'[m] \in {"no", "registered"}, delete'[m] = "no"
               PROVE  Found(m)'
    BY <1>14, DiscoveryEndsEffect, ToFound DEF Apart, Still, Forgotten
  <2>1. /\ Ordered(m)
        /\ m \in kube /\ m \in vm /\ m \notin disc.unattached /\ launch[m] \in {"no", "registered"} /\ delete[m] = "no"
           => Found(m)
    BY OrderedNodes DEF FoundInv
  <2>2. disc.list = {} /\ disc.pc = "drop" /\ disc.former = {}
        /\ disc'.pc = "idle" /\ UNCHANGED <<vm, kube, launch, delete, group>> /\ disc'.unattached = disc.unattached
    BY <1>14, DiscoveryEndsEffect DEF PhaseInv
  <2> QED
    BY <2>1, <2>2
<1>15. ASSUME NEW n \in Nodes, LaunchRefused(n) PROVE FoundInv'
  <2> SUFFICES ASSUME Unmixed, ~May("delete"), NEW m \in Nodes, m \in kube', m \in vm', Wanted(m),
                      m \notin disc'.unattached, launch'[m] \in {"no", "registered"}, delete'[m] = "no"
               PROVE  Found(m)'
    BY <1>15, LaunchRefusedEffect, ToFound DEF Apart, Still, Forgotten
  <2>1. /\ Ordered(m)
        /\ m \in kube /\ m \in vm /\ m \notin disc.unattached /\ launch[m] \in {"no", "registered"} /\ delete[m] = "no"
           => Found(m)
    BY OrderedNodes DEF FoundInv
  <2> QED
    BY <1>15, <2>1, LaunchRefusedEffect DEF Apart, Still
<1>16. ASSUME NEW n \in Nodes, LaunchVM(n) PROVE FoundInv'
  <2> SUFFICES ASSUME Unmixed, ~May("delete"), NEW m \in Nodes, m \in kube', m \in vm', Wanted(m),
                      m \notin disc'.unattached, launch'[m] \in {"no", "registered"}, delete'[m] = "no"
               PROVE  Found(m)'
    BY <1>16, LaunchVMEffect, ToFound DEF Apart, Still, Forgotten
  <2>1. /\ Ordered(m)
        /\ m \in kube /\ m \in vm /\ m \notin disc.unattached /\ launch[m] \in {"no", "registered"} /\ delete[m] = "no"
           => Found(m)
    BY OrderedNodes DEF FoundInv
  <2> QED
    BY <1>16, <2>1, LaunchVMEffect DEF Apart, Still
<1>17. ASSUME NEW n \in Nodes, AnnoteNode(n) PROVE FoundInv'
  <2> SUFFICES ASSUME Unmixed, ~May("delete"), NEW m \in Nodes, m \in kube', m \in vm', Wanted(m),
                      m \notin disc'.unattached, launch'[m] \in {"no", "registered"}, delete'[m] = "no"
               PROVE  Found(m)'
    BY <1>17, AnnoteNodeEffect, ToFound DEF Apart, Still, Forgotten
  <2>1. /\ Ordered(m)
        /\ m \in kube /\ m \in vm /\ m \notin disc.unattached /\ launch[m] \in {"no", "registered"} /\ delete[m] = "no"
           => Found(m)
    BY OrderedNodes DEF FoundInv
  <2> QED
    BY <1>17, <2>1, AnnoteNodeEffect DEF Apart, Still
<1>18. ASSUME NEW n \in Nodes, RegisterNode(n) PROVE FoundInv'
  <2> SUFFICES ASSUME Unmixed, ~May("delete"), NEW m \in Nodes, m \in kube', m \in vm', Wanted(m),
                      m \notin disc'.unattached, launch'[m] \in {"no", "registered"}, delete'[m] = "no"
               PROVE  Found(m)'
    BY <1>18, RegisterNodeEffect, ToFound DEF Apart, Still, Forgotten
  <2>1. /\ Ordered(m)
        /\ m \in kube /\ m \in vm /\ m \notin disc.unattached /\ launch[m] \in {"no", "registered"} /\ delete[m] = "no"
           => Found(m)
    BY OrderedNodes DEF FoundInv
  <2> QED
    BY <1>18, <2>1, RegisterNodeEffect DEF Apart, Still
<1>19. ASSUME NEW n \in Nodes, LaunchEnds(n) PROVE FoundInv'
  <2> SUFFICES ASSUME Unmixed, ~May("delete"), NEW m \in Nodes, m \in kube', m \in vm', Wanted(m),
                      m \notin disc'.unattached, launch'[m] \in {"no", "registered"}, delete'[m] = "no"
               PROVE  Found(m)'
    BY <1>19, LaunchEndsEffect, ToFound DEF Apart, Still, Forgotten
  <2>1. /\ Ordered(m)
        /\ m \in kube /\ m \in vm /\ m \notin disc.unattached /\ launch[m] \in {"no", "registered"} /\ delete[m] = "no"
           => Found(m)
    BY OrderedNodes DEF FoundInv
  <2> QED
    BY <1>19, <2>1, LaunchEndsEffect DEF Apart, Still
<1>20. ASSUME NEW n \in Nodes, LaunchFails(n) PROVE FoundInv'
  <2> SUFFICES ASSUME Unmixed, ~May("delete"), NEW m \in Nodes, m \in kube', m \in vm', Wanted(m),
                      m \notin disc'.unattached, launch'[m] \in {"no", "registered"}, delete'[m] = "no"
               PROVE  Found(m)'
    BY <1>20, LaunchFailsEffect, ToFound DEF Apart, Still, Forgotten
  <2>1. /\ Ordered(m)
        /\ m \in kube /\ m \in vm /\ m \notin disc.unattached /\ launch[m] \in {"no", "registered"} /\ delete[m] = "no"
           => Found(m)
    BY OrderedNodes DEF FoundInv
  <2> QED
    BY <1>20, <2>1, LaunchFailsEffect DEF Apart, Still
<1>21. ASSUME NEW n \in Nodes, DeleteNodes(n) PROVE FoundInv'
  <2> SUFFICES ASSUME Unmixed, ~May("delete"), NEW m \in Nodes, m \in kube', m \in vm', Wanted(m),
                      m \notin disc'.unattached, launch'[m] \in {"no", "registered"}, delete'[m] = "no"
               PROVE  Found(m)'
    BY <1>21, DeleteNodesEffect, ToFound DEF Apart, Still, Forgotten
  <2>1. /\ Ordered(m)
        /\ m \in kube /\ m \in vm /\ m \notin disc.unattached /\ launch[m] \in {"no", "registered"} /\ delete[m] = "no"
           => Found(m)
    BY OrderedNodes DEF FoundInv
  <2> QED
    BY <1>21, <2>1, DeleteNodesEffect DEF Apart, Still
<1>22. ASSUME NEW n \in Nodes, DeleteMisses(n), ~Panics PROVE FoundInv'
  <2> SUFFICES ASSUME Unmixed, ~May("delete"), NEW m \in Nodes, m \in kube', m \in vm', Wanted(m),
                      m \notin disc'.unattached, launch'[m] \in {"no", "registered"}, delete'[m] = "no"
               PROVE  Found(m)'
    BY <1>22, DeleteMissesEffect, ToFound DEF Apart, Still, Forgotten
  <2>1. /\ Ordered(m)
        /\ m \in kube /\ m \in vm /\ m \notin disc.unattached /\ launch[m] \in {"no", "registered"} /\ delete[m] = "no"
           => Found(m)
    BY OrderedNodes DEF FoundInv
  <2> QED
    BY <1>22, <2>1, DeleteMissesEffect DEF Apart, Still
<1>23. ASSUME NEW n \in Nodes, DeletesVM(n) PROVE FoundInv'
  <2> SUFFICES ASSUME Unmixed, ~May("delete"), NEW m \in Nodes, m \in kube', m \in vm', Wanted(m),
                      m \notin disc'.unattached, launch'[m] \in {"no", "registered"}, delete'[m] = "no"
               PROVE  Found(m)'
    BY <1>23, DeletesVMEffect, ToFound DEF Apart, Still, Forgotten
  <2>1. /\ Ordered(m)
        /\ m \in kube /\ m \in vm /\ m \notin disc.unattached /\ launch[m] \in {"no", "registered"} /\ delete[m] = "no"
           => Found(m)
    BY OrderedNodes DEF FoundInv
  <2> QED
    BY <1>23, <2>1, DeletesVMEffect DEF Apart, Still
<1>24. ASSUME NEW n \in Nodes, DeleteEnds(n) PROVE FoundInv'
  <2> SUFFICES ASSUME Unmixed, ~May("delete"), NEW m \in Nodes, m \in kube', m \in vm', Wanted(m),
                      m \notin disc'.unattached, launch'[m] \in {"no", "registered"}, delete'[m] = "no"
               PROVE  Found(m)'
    BY <1>24, DeleteEndsEffect, ToFound DEF Apart, Still, Forgotten
  <2>1. /\ Ordered(m)
        /\ m \in kube /\ m \in vm /\ m \notin disc.unattached /\ launch[m] \in {"no", "registered"} /\ delete[m] = "no"
           => Found(m)
    BY OrderedNodes DEF FoundInv
  <2> QED
    BY <1>24, <2>1, DeleteEndsEffect DEF Apart, Still
<1>25. ASSUME Connect PROVE FoundInv'
  <2> SUFFICES ASSUME Unmixed, ~May("delete"), NEW m \in Nodes, m \in kube', m \in vm', Wanted(m),
                      m \notin disc'.unattached, launch'[m] \in {"no", "registered"}, delete'[m] = "no"
               PROVE  Found(m)'
    BY <1>25, ConnectEffect, ToFound DEF Apart, Still, Forgotten
  <2>1. /\ Ordered(m)
        /\ m \in kube /\ m \in vm /\ m \notin disc.unattached /\ launch[m] \in {"no", "registered"} /\ delete[m] = "no"
           => Found(m)
    BY OrderedNodes DEF FoundInv
  <2>2. \/ disc'.pc = "list" \/ (disc'.pc = "idle" /\ ~connected')
        \/ disc.pc = "idle" /\ UNCHANGED <<disc, connected, group, vm, kube, launch, delete>>
    BY <1>25, ConnectEffect DEF MayConnect
  <2> QED
    BY <2>1, <2>2
<1>26. ASSUME NEW min \in {0, 1}, NewNodeGroup(min) PROVE FoundInv'
  <2> SUFFICES ASSUME Unmixed, ~May("delete"), NEW m \in Nodes, m \in kube', m \in vm', Wanted(m),
                      m \notin disc'.unattached, launch'[m] \in {"no", "registered"}, delete'[m] = "no"
               PROVE  Found(m)'
    BY <1>26, NewNodeGroupEffect, ToFound DEF Apart, Still, Forgotten
  <2>1. /\ Ordered(m)
        /\ m \in kube /\ m \in vm /\ m \notin disc.unattached /\ launch[m] \in {"no", "registered"} /\ delete[m] = "no"
           => Found(m)
    BY OrderedNodes DEF FoundInv
  <2>2. disc'.pc = "idle" /\ ~connected'
    BY <1>26, NewNodeGroupEffect DEF MapsInv, Missing, Apart
  <2> QED
    BY <2>2
<1>27. ASSUME Create PROVE FoundInv'
  <2> SUFFICES ASSUME Unmixed, ~May("delete"), NEW m \in Nodes, m \in kube', m \in vm', Wanted(m),
                      m \notin disc'.unattached, launch'[m] \in {"no", "registered"}, delete'[m] = "no"
               PROVE  Found(m)'
    BY <1>27, CreateEffect, ToFound DEF Apart, Still, Forgotten
  <2>1. /\ Ordered(m)
        /\ m \in kube /\ m \in vm /\ m \notin disc.unattached /\ launch[m] \in {"no", "registered"} /\ delete[m] = "no"
           => Found(m)
    BY OrderedNodes DEF FoundInv
  <2> QED
    BY <1>27, <2>1, CreateEffect DEF Apart, Still
<1>28. ASSUME NEW n \in Nodes, NEW base \in Indexes, NEW i \in Indexes, Grows(n, base, i) PROVE FoundInv'
  <2> SUFFICES ASSUME Unmixed, ~May("delete"), NEW m \in Nodes, m \in kube', m \in vm', Wanted(m),
                      m \notin disc'.unattached, launch'[m] \in {"no", "registered"}, delete'[m] = "no"
               PROVE  Found(m)'
    BY <1>28, GrowsEffect, ToFound DEF Apart, Still, Forgotten
  <2>1. /\ Ordered(m)
        /\ m \in kube /\ m \in vm /\ m \notin disc.unattached /\ launch[m] \in {"no", "registered"} /\ delete[m] = "no"
           => Found(m)
    BY OrderedNodes DEF FoundInv
  <2> QED
    BY <1>28, <2>1, GrowsEffect DEF Apart, Still
<1>29. ASSUME CleanupBegins PROVE FoundInv'
  <2> SUFFICES ASSUME Unmixed, ~May("delete"), NEW m \in Nodes, m \in kube', m \in vm', Wanted(m),
                      m \notin disc'.unattached, launch'[m] \in {"no", "registered"}, delete'[m] = "no"
               PROVE  Found(m)'
    BY <1>29, CleanupBeginsEffect, ToFound DEF Apart, Still, Forgotten
  <2>1. /\ Ordered(m)
        /\ m \in kube /\ m \in vm /\ m \notin disc.unattached /\ launch[m] \in {"no", "registered"} /\ delete[m] = "no"
           => Found(m)
    BY OrderedNodes DEF FoundInv
  <2> QED
    BY <1>29, <2>1, CleanupBeginsEffect DEF Apart, Still
<1>30. ASSUME CleanupEnds PROVE FoundInv'
  <2> SUFFICES ASSUME Unmixed, ~May("delete"), NEW m \in Nodes, m \in kube', m \in vm', Wanted(m),
                      m \notin disc'.unattached, launch'[m] \in {"no", "registered"}, delete'[m] = "no"
               PROVE  Found(m)'
    BY <1>30, CleanupEndsEffect, ToFound DEF Apart, Still, Forgotten
  <2>1. /\ Ordered(m)
        /\ m \in kube /\ m \in vm /\ m \notin disc.unattached /\ launch[m] \in {"no", "registered"} /\ delete[m] = "no"
           => Found(m)
    BY OrderedNodes DEF FoundInv
  <2>2. disc'.pc = "idle" /\ ~connected'
    BY <1>30, CleanupEndsEffect DEF PhaseInv
  <2> QED
    BY <2>2
<1>31. ASSUME Refresh PROVE FoundInv'
  <2>1. UNCHANGED <<env, group, disc, vm, kube, launch, delete, connected>>
    BY <1>31, OpensEffect DEF Still, Refresh
  <2> QED
    BY <2>1 DEF FoundInv, Unmixed, May, Asked, Wanted, Definition
<1>32. ASSUME RefreshEncodes PROVE FoundInv'
  <2>1. UNCHANGED <<env, group, disc, vm, kube, launch, delete, connected>>
    BY <1>32, EncodesEffect DEF Still, RefreshEncodes
  <2> QED
    BY <2>1 DEF FoundInv, Unmixed, May, Asked, Wanted, Definition
<1>33. ASSUME NEW n \in Nodes, KubectlDelete(n) PROVE FoundInv'
  <2> SUFFICES ASSUME Unmixed, ~May("delete"), NEW m \in Nodes, m \in kube', m \in vm', Wanted(m),
                      m \notin disc'.unattached, launch'[m] \in {"no", "registered"}, delete'[m] = "no"
               PROVE  Found(m)'
    BY <1>33, KubectlDeleteEffect, ToFound DEF Apart, Still, Forgotten
  <2>1. /\ Ordered(m)
        /\ m \in kube /\ m \in vm /\ m \notin disc.unattached /\ launch[m] \in {"no", "registered"} /\ delete[m] = "no"
           => Found(m)
    BY OrderedNodes DEF FoundInv
  <2> QED
    BY <1>33, <2>1, KubectlDeleteEffect DEF Apart, Still
<1>34. ASSUME ListFails, ~Exits PROVE FoundInv'
  <2> SUFFICES ASSUME Unmixed, ~May("delete"), NEW m \in Nodes, m \in kube', m \in vm', Wanted(m),
                      m \notin disc'.unattached, launch'[m] \in {"no", "registered"}, delete'[m] = "no"
               PROVE  Found(m)'
    BY <1>34, ListFailsEffect, ToFound DEF Apart, Still, Forgotten
  <2>1. /\ Ordered(m)
        /\ m \in kube /\ m \in vm /\ m \notin disc.unattached /\ launch[m] \in {"no", "registered"} /\ delete[m] = "no"
           => Found(m)
    BY OrderedNodes DEF FoundInv
  <2>2. disc'.pc = "idle" /\ ~connected'
    BY <1>34, ListFailsEffect, IdleFields
  <2> QED
    BY <2>2
<1>35. ASSUME Crash PROVE FoundInv'
  <2> SUFFICES ASSUME Unmixed, ~May("delete"), NEW m \in Nodes, m \in kube', m \in vm', Wanted(m),
                      m \notin disc'.unattached, launch'[m] \in {"no", "registered"}, delete'[m] = "no"
               PROVE  Found(m)'
    BY <1>35, DeathEffect, ToFound DEF Apart, Still, Forgotten
  <2>1. /\ Ordered(m)
        /\ m \in kube /\ m \in vm /\ m \notin disc.unattached /\ launch[m] \in {"no", "registered"} /\ delete[m] = "no"
           => Found(m)
    BY OrderedNodes DEF FoundInv
  <2> QED
    BY <1>35, <2>1, DeathEffect DEF Apart, Still
<1>36. ASSUME Exits PROVE FoundInv'
  <2> SUFFICES ASSUME Unmixed, ~May("delete"), NEW m \in Nodes, m \in kube', m \in vm', Wanted(m),
                      m \notin disc'.unattached, launch'[m] \in {"no", "registered"}, delete'[m] = "no"
               PROVE  Found(m)'
    BY <1>36, DeathEffect, ToFound DEF Apart, Still, Forgotten
  <2>1. /\ Ordered(m)
        /\ m \in kube /\ m \in vm /\ m \notin disc.unattached /\ launch[m] \in {"no", "registered"} /\ delete[m] = "no"
           => Found(m)
    BY OrderedNodes DEF FoundInv
  <2> QED
    BY <1>36, <2>1, DeathEffect DEF Apart, Still
<1>37. ASSUME Panics PROVE FoundInv'
  <2> SUFFICES ASSUME Unmixed, ~May("delete"), NEW m \in Nodes, m \in kube', m \in vm', Wanted(m),
                      m \notin disc'.unattached, launch'[m] \in {"no", "registered"}, delete'[m] = "no"
               PROVE  Found(m)'
    BY <1>37, DeathEffect, ToFound DEF Apart, Still, Forgotten
  <2>1. /\ Ordered(m)
        /\ m \in kube /\ m \in vm /\ m \notin disc.unattached /\ launch[m] \in {"no", "registered"} /\ delete[m] = "no"
           => Found(m)
    BY OrderedNodes DEF FoundInv
  <2> QED
    BY <1>37, <2>1, DeathEffect DEF Apart, Still
<1>38. ASSUME UNCHANGED vars PROVE FoundInv'
  <2>1. UNCHANGED <<env, group, disc, vm, kube, launch, delete, connected>>
    BY <1>38 DEF vars
  <2> QED
    BY <2>1 DEF FoundInv, Unmixed, May, Asked, Wanted, Definition
<1> QED
  BY <1>1, <1>2, <1>3, <1>4, <1>5, <1>6, <1>7, <1>8, <1>9, <1>10, <1>11, <1>12, <1>13, <1>14, <1>15, <1>16,
    <1>17, <1>18, <1>19, <1>20, <1>21, <1>22, <1>23, <1>24, <1>25, <1>26, <1>27, <1>28, <1>29, <1>30,
    <1>31, <1>32, <1>33, <1>34, <1>35, <1>36, <1>37, <1>38, Cases

LEMMA BackedInvStep ==
  ASSUME TypeOK, PhaseInv, RequestInv, MapsInv, DefinitionInv, CalmInv, LaunchInv, TidyInv, BackedInv,
         [Next]_vars
  PROVE  BackedInv'
<1> USE DEF GroupBecomes, DiscBecomes, DeleteMoves, LaunchMoves, Forgotten, Attaching, Loses, Ordered
<1>1. ASSUME StartFresh PROVE BackedInv'
  <2>1. UNCHANGED <<env, group, disc, vm, delete, connected>>
    BY <1>1, StartFreshEffect DEF Still
  <2> QED
    BY <2>1 DEF BackedInv, Unmixed, May, Asked
<1>2. ASSUME FirstSave PROVE BackedInv'
  <2>1. UNCHANGED <<env, group, disc, vm, delete, connected>>
    BY <1>2, OpensEffect DEF Still, FirstSave
  <2> QED
    BY <2>1 DEF BackedInv, Unmixed, May, Asked
<1>3. ASSUME FirstSaveEncodes PROVE BackedInv'
  <2>1. UNCHANGED <<env, group, disc, vm, delete, connected>>
    BY <1>3, EncodesEffect DEF Still, FirstSaveEncodes
  <2> QED
    BY <2>1 DEF BackedInv, Unmixed, May, Asked
<1>4. ASSUME Load PROVE BackedInv'
  <2> SUFFICES ASSUME Unmixed, ~May("delete"), env.attach = "checks", Attaching' \/ (disc'.pc = "idle" /\ connected'),
                      NEW m \in Nodes, m \in group'.nodes
               PROVE  m \in vm' \/ delete'[m] = "gone"
    BY <1>4, LoadEffect, ToBacked DEF Apart, Still, Forgotten
  <2>1. /\ Ordered(m)
        /\ (Attaching \/ (disc.pc = "idle" /\ connected)) /\ m \in group.nodes => m \in vm \/ delete[m] = "gone"
    BY OrderedNodes DEF BackedInv
  <2>2. disc'.pc = "list" \/ (disc'.pc = "idle" /\ ~connected')
    <3>1. disc.pc = "idle" /\ ~connected /\ connected' = connected
      BY <1>4, LoadEffect, DiscoveryFields DEF TypeOK, PhaseInv, MapsInv, Missing, Serving
    <3> QED
      BY <3>1, <1>4, LoadEffect
  <2> QED
    BY <2>2
<1>5. ASSUME ListenGrpc PROVE BackedInv'
  <2>1. UNCHANGED <<env, group, disc, vm, delete, connected>>
    BY <1>5, ListenGrpcEffect DEF Still
  <2> QED
    BY <2>1 DEF BackedInv, Unmixed, May, Asked
<1>6. ASSUME ListenExternal, ~ProvisionRefused(group) PROVE BackedInv'
  <2> SUFFICES ASSUME Unmixed, ~May("delete"), env.attach = "checks", Attaching' \/ (disc'.pc = "idle" /\ connected'),
                      NEW m \in Nodes, m \in group'.nodes
               PROVE  m \in vm' \/ delete'[m] = "gone"
    BY <1>6, ListenExternalEffect, ToBacked DEF Apart, Still, Forgotten
  <2>1. /\ Ordered(m)
        /\ (Attaching \/ (disc.pc = "idle" /\ connected)) /\ m \in group.nodes => m \in vm \/ delete[m] = "gone"
    BY OrderedNodes DEF BackedInv
  <2> QED
    BY <1>6, <2>1, ListenExternalEffect DEF Apart, Still
<1>7. ASSUME Sync PROVE BackedInv'
  <2>1. UNCHANGED <<env, group, disc, vm, delete, connected>>
    BY <1>7, OpensEffect DEF Still, Sync
  <2> QED
    BY <2>1 DEF BackedInv, Unmixed, May, Asked
<1>8. ASSUME SyncEncodes PROVE BackedInv'
  <2>1. UNCHANGED <<env, group, disc, vm, delete, connected>>
    BY <1>8, EncodesEffect DEF Still, SyncEncodes
  <2> QED
    BY <2>1 DEF BackedInv, Unmixed, May, Asked
<1>9. ASSUME ListNodes PROVE BackedInv'
  <2> SUFFICES ASSUME Unmixed, ~May("delete"), env.attach = "checks", Attaching' \/ (disc'.pc = "idle" /\ connected'),
                      NEW m \in Nodes, m \in group'.nodes
               PROVE  m \in vm' \/ delete'[m] = "gone"
    BY <1>9, ListNodesEffect, ToBacked DEF Apart, Still, Forgotten
  <2>1. /\ Ordered(m)
        /\ (Attaching \/ (disc.pc = "idle" /\ connected)) /\ m \in group.nodes => m \in vm \/ delete[m] = "gone"
    BY OrderedNodes DEF BackedInv
  <2>2. disc'.pc = "reset"
    BY <1>9, ListNodesEffect
  <2> QED
    BY <2>2
<1>10. ASSUME Reset PROVE BackedInv'
  <2> SUFFICES ASSUME Unmixed, ~May("delete"), env.attach = "checks", Attaching' \/ (disc'.pc = "idle" /\ connected'),
                      NEW m \in Nodes, m \in group'.nodes
               PROVE  m \in vm' \/ delete'[m] = "gone"
    BY <1>10, ResetEffect, ToBacked DEF Apart, Still, Forgotten
  <2>1. /\ Ordered(m)
        /\ (Attaching \/ (disc.pc = "idle" /\ connected)) /\ m \in group.nodes => m \in vm \/ delete[m] = "gone"
    BY OrderedNodes DEF BackedInv
  <2> QED
    BY <1>10, <2>1, ResetEffect DEF Apart, Still
<1>11. ASSUME NEW n \in Nodes, Attach(n) PROVE BackedInv'
  <2> SUFFICES ASSUME Unmixed, ~May("delete"), env.attach = "checks", Attaching' \/ (disc'.pc = "idle" /\ connected'),
                      NEW m \in Nodes, m \in group'.nodes
               PROVE  m \in vm' \/ delete'[m] = "gone"
    BY <1>11, AttachEffect, ToBacked DEF Apart, Still, Forgotten
  <2>1. /\ Ordered(m)
        /\ (Attaching \/ (disc.pc = "idle" /\ connected)) /\ m \in group.nodes => m \in vm \/ delete[m] = "gone"
    BY OrderedNodes DEF BackedInv
  <2> QED
    BY <1>11, <2>1, AttachEffect DEF Apart, Still
<1>12. ASSUME AttachEnds PROVE BackedInv'
  <2> SUFFICES ASSUME Unmixed, ~May("delete"), env.attach = "checks", Attaching' \/ (disc'.pc = "idle" /\ connected'),
                      NEW m \in Nodes, m \in group'.nodes
               PROVE  m \in vm' \/ delete'[m] = "gone"
    BY <1>12, AttachEndsEffect, ToBacked DEF Apart, Still, Forgotten
  <2>1. /\ Ordered(m)
        /\ (Attaching \/ (disc.pc = "idle" /\ connected)) /\ m \in group.nodes => m \in vm \/ delete[m] = "gone"
    BY OrderedNodes DEF BackedInv
  <2> QED
    BY <1>12, <2>1, AttachEndsEffect DEF Apart, Still
<1>13. ASSUME NEW n \in Nodes, Drop(n) PROVE BackedInv'
  <2> SUFFICES ASSUME Unmixed, ~May("delete"), env.attach = "checks", Attaching' \/ (disc'.pc = "idle" /\ connected'),
                      NEW m \in Nodes, m \in group'.nodes
               PROVE  m \in vm' \/ delete'[m] = "gone"
    BY <1>13, DropEffect, ToBacked DEF Apart, Still, Forgotten
  <2>1. /\ Ordered(m)
        /\ (Attaching \/ (disc.pc = "idle" /\ connected)) /\ m \in group.nodes => m \in vm \/ delete[m] = "gone"
    BY OrderedNodes DEF BackedInv
  <2>2. /\ disc.pc = "drop" /\ disc.list = {} /\ disc'.pc = "drop" /\ disc'.list = {} /\ disc'.former = disc.former \ {n}
        /\ UNCHANGED <<group, launch, delete>>
    BY <1>13, DropEffect DEF PhaseInv
  <2>3. \/ n \notin group.nodes \cup group.pending /\ vm' = vm \ {n} /\ kube' = kube \ {n}
        \/ (n \in group.nodes \cup group.pending \/ n \notin vm) /\ vm' = vm /\ kube' = kube
    BY <1>13, DropEffect
  <2> QED
    BY <2>1, <2>2, <2>3
<1>14. ASSUME DiscoveryEnds PROVE BackedInv'
  <2> SUFFICES ASSUME Unmixed, ~May("delete"), env.attach = "checks", Attaching' \/ (disc'.pc = "idle" /\ connected'),
                      NEW m \in Nodes, m \in group'.nodes
               PROVE  m \in vm' \/ delete'[m] = "gone"
    BY <1>14, DiscoveryEndsEffect, ToBacked DEF Apart, Still, Forgotten
  <2>1. /\ Ordered(m)
        /\ (Attaching \/ (disc.pc = "idle" /\ connected)) /\ m \in group.nodes => m \in vm \/ delete[m] = "gone"
    BY OrderedNodes DEF BackedInv
  <2>2. disc.list = {} /\ disc.pc = "drop" /\ disc.former = {}
        /\ disc'.pc = "idle" /\ UNCHANGED <<vm, kube, launch, delete, group>>
    BY <1>14, DiscoveryEndsEffect, IdleFields DEF PhaseInv
  <2> QED
    BY <2>1, <2>2
<1>15. ASSUME NEW n \in Nodes, LaunchRefused(n) PROVE BackedInv'
  <2> SUFFICES ASSUME Unmixed, ~May("delete"), env.attach = "checks", Attaching' \/ (disc'.pc = "idle" /\ connected'),
                      NEW m \in Nodes, m \in group'.nodes
               PROVE  m \in vm' \/ delete'[m] = "gone"
    BY <1>15, LaunchRefusedEffect, ToBacked DEF Apart, Still, Forgotten
  <2>1. /\ Ordered(m)
        /\ (Attaching \/ (disc.pc = "idle" /\ connected)) /\ m \in group.nodes => m \in vm \/ delete[m] = "gone"
    BY OrderedNodes DEF BackedInv
  <2> QED
    BY <1>15, <2>1, LaunchRefusedEffect DEF Apart, Still
<1>16. ASSUME NEW n \in Nodes, LaunchVM(n) PROVE BackedInv'
  <2> SUFFICES ASSUME Unmixed, ~May("delete"), env.attach = "checks", Attaching' \/ (disc'.pc = "idle" /\ connected'),
                      NEW m \in Nodes, m \in group'.nodes
               PROVE  m \in vm' \/ delete'[m] = "gone"
    BY <1>16, LaunchVMEffect, ToBacked DEF Apart, Still, Forgotten
  <2>1. /\ Ordered(m)
        /\ (Attaching \/ (disc.pc = "idle" /\ connected)) /\ m \in group.nodes => m \in vm \/ delete[m] = "gone"
    BY OrderedNodes DEF BackedInv
  <2> QED
    BY <1>16, <2>1, LaunchVMEffect DEF Apart, Still
<1>17. ASSUME NEW n \in Nodes, AnnoteNode(n) PROVE BackedInv'
  <2> SUFFICES ASSUME Unmixed, ~May("delete"), env.attach = "checks", Attaching' \/ (disc'.pc = "idle" /\ connected'),
                      NEW m \in Nodes, m \in group'.nodes
               PROVE  m \in vm' \/ delete'[m] = "gone"
    BY <1>17, AnnoteNodeEffect, ToBacked DEF Apart, Still, Forgotten
  <2>1. /\ Ordered(m)
        /\ (Attaching \/ (disc.pc = "idle" /\ connected)) /\ m \in group.nodes => m \in vm \/ delete[m] = "gone"
    BY OrderedNodes DEF BackedInv
  <2> QED
    BY <1>17, <2>1, AnnoteNodeEffect DEF Apart, Still
<1>18. ASSUME NEW n \in Nodes, RegisterNode(n) PROVE BackedInv'
  <2> SUFFICES ASSUME Unmixed, ~May("delete"), env.attach = "checks", Attaching' \/ (disc'.pc = "idle" /\ connected'),
                      NEW m \in Nodes, m \in group'.nodes
               PROVE  m \in vm' \/ delete'[m] = "gone"
    BY <1>18, RegisterNodeEffect, ToBacked DEF Apart, Still, Forgotten
  <2>1. /\ Ordered(m)
        /\ (Attaching \/ (disc.pc = "idle" /\ connected)) /\ m \in group.nodes => m \in vm \/ delete[m] = "gone"
    BY OrderedNodes DEF BackedInv
  <2> QED
    BY <1>18, <2>1, RegisterNodeEffect DEF Apart, Still
<1>19. ASSUME NEW n \in Nodes, LaunchEnds(n) PROVE BackedInv'
  <2> SUFFICES ASSUME Unmixed, ~May("delete"), env.attach = "checks", Attaching' \/ (disc'.pc = "idle" /\ connected'),
                      NEW m \in Nodes, m \in group'.nodes
               PROVE  m \in vm' \/ delete'[m] = "gone"
    BY <1>19, LaunchEndsEffect, ToBacked DEF Apart, Still, Forgotten
  <2>1. /\ Ordered(m)
        /\ (Attaching \/ (disc.pc = "idle" /\ connected)) /\ m \in group.nodes => m \in vm \/ delete[m] = "gone"
    BY OrderedNodes DEF BackedInv
  <2> QED
    BY <1>19, <2>1, LaunchEndsEffect DEF Apart, Still
<1>20. ASSUME NEW n \in Nodes, LaunchFails(n) PROVE BackedInv'
  <2> SUFFICES ASSUME Unmixed, ~May("delete"), env.attach = "checks", Attaching' \/ (disc'.pc = "idle" /\ connected'),
                      NEW m \in Nodes, m \in group'.nodes
               PROVE  m \in vm' \/ delete'[m] = "gone"
    BY <1>20, LaunchFailsEffect, ToBacked DEF Apart, Still, Forgotten
  <2>1. /\ Ordered(m)
        /\ (Attaching \/ (disc.pc = "idle" /\ connected)) /\ m \in group.nodes => m \in vm \/ delete[m] = "gone"
    BY OrderedNodes DEF BackedInv
  <2> QED
    BY <1>20, <2>1, LaunchFailsEffect DEF Apart, Still
<1>21. ASSUME NEW n \in Nodes, DeleteNodes(n) PROVE BackedInv'
  <2> SUFFICES ASSUME Unmixed, ~May("delete"), env.attach = "checks", Attaching' \/ (disc'.pc = "idle" /\ connected'),
                      NEW m \in Nodes, m \in group'.nodes
               PROVE  m \in vm' \/ delete'[m] = "gone"
    BY <1>21, DeleteNodesEffect, ToBacked DEF Apart, Still, Forgotten
  <2>1. /\ Ordered(m)
        /\ (Attaching \/ (disc.pc = "idle" /\ connected)) /\ m \in group.nodes => m \in vm \/ delete[m] = "gone"
    BY OrderedNodes DEF BackedInv
  <2> QED
    BY <1>21, <2>1, DeleteNodesEffect DEF Apart, Still
<1>22. ASSUME NEW n \in Nodes, DeleteMisses(n), ~Panics PROVE BackedInv'
  <2> SUFFICES ASSUME Unmixed, ~May("delete"), env.attach = "checks", Attaching' \/ (disc'.pc = "idle" /\ connected'),
                      NEW m \in Nodes, m \in group'.nodes
               PROVE  m \in vm' \/ delete'[m] = "gone"
    BY <1>22, DeleteMissesEffect, ToBacked DEF Apart, Still, Forgotten
  <2>1. /\ Ordered(m)
        /\ (Attaching \/ (disc.pc = "idle" /\ connected)) /\ m \in group.nodes => m \in vm \/ delete[m] = "gone"
    BY OrderedNodes DEF BackedInv
  <2> QED
    BY <1>22, <2>1, DeleteMissesEffect DEF Apart, Still
<1>23. ASSUME NEW n \in Nodes, DeletesVM(n) PROVE BackedInv'
  <2> SUFFICES ASSUME Unmixed, ~May("delete"), env.attach = "checks", Attaching' \/ (disc'.pc = "idle" /\ connected'),
                      NEW m \in Nodes, m \in group'.nodes
               PROVE  m \in vm' \/ delete'[m] = "gone"
    BY <1>23, DeletesVMEffect, ToBacked DEF Apart, Still, Forgotten
  <2>1. /\ Ordered(m)
        /\ (Attaching \/ (disc.pc = "idle" /\ connected)) /\ m \in group.nodes => m \in vm \/ delete[m] = "gone"
    BY OrderedNodes DEF BackedInv
  <2> QED
    BY <1>23, <2>1, DeletesVMEffect DEF Apart, Still
<1>24. ASSUME NEW n \in Nodes, DeleteEnds(n) PROVE BackedInv'
  <2> SUFFICES ASSUME Unmixed, ~May("delete"), env.attach = "checks", Attaching' \/ (disc'.pc = "idle" /\ connected'),
                      NEW m \in Nodes, m \in group'.nodes
               PROVE  m \in vm' \/ delete'[m] = "gone"
    BY <1>24, DeleteEndsEffect, ToBacked DEF Apart, Still, Forgotten
  <2>1. /\ Ordered(m)
        /\ (Attaching \/ (disc.pc = "idle" /\ connected)) /\ m \in group.nodes => m \in vm \/ delete[m] = "gone"
    BY OrderedNodes DEF BackedInv
  <2> QED
    BY <1>24, <2>1, DeleteEndsEffect DEF Apart, Still
<1>25. ASSUME Connect PROVE BackedInv'
  <2> SUFFICES ASSUME Unmixed, ~May("delete"), env.attach = "checks", Attaching' \/ (disc'.pc = "idle" /\ connected'),
                      NEW m \in Nodes, m \in group'.nodes
               PROVE  m \in vm' \/ delete'[m] = "gone"
    BY <1>25, ConnectEffect, ToBacked DEF Apart, Still, Forgotten
  <2>1. /\ Ordered(m)
        /\ (Attaching \/ (disc.pc = "idle" /\ connected)) /\ m \in group.nodes => m \in vm \/ delete[m] = "gone"
    BY OrderedNodes DEF BackedInv
  <2>2. \/ disc'.pc = "list" \/ (disc'.pc = "idle" /\ ~connected')
        \/ disc.pc = "idle" /\ UNCHANGED <<disc, connected, group, vm, kube, launch, delete>>
    BY <1>25, ConnectEffect DEF MayConnect
  <2> QED
    BY <2>1, <2>2
<1>26. ASSUME NEW min \in {0, 1}, NewNodeGroup(min) PROVE BackedInv'
  <2> SUFFICES ASSUME Unmixed, ~May("delete"), env.attach = "checks", Attaching' \/ (disc'.pc = "idle" /\ connected'),
                      NEW m \in Nodes, m \in group'.nodes
               PROVE  m \in vm' \/ delete'[m] = "gone"
    BY <1>26, NewNodeGroupEffect, ToBacked DEF Apart, Still, Forgotten
  <2>1. /\ Ordered(m)
        /\ (Attaching \/ (disc.pc = "idle" /\ connected)) /\ m \in group.nodes => m \in vm \/ delete[m] = "gone"
    BY OrderedNodes DEF BackedInv
  <2>2. disc'.pc = "idle" /\ ~connected'
    BY <1>26, NewNodeGroupEffect DEF MapsInv, Missing, Apart
  <2> QED
    BY <2>2
<1>27. ASSUME Create PROVE BackedInv'
  <2> SUFFICES ASSUME Unmixed, ~May("delete"), env.attach = "checks", Attaching' \/ (disc'.pc = "idle" /\ connected'),
                      NEW m \in Nodes, m \in group'.nodes
               PROVE  m \in vm' \/ delete'[m] = "gone"
    BY <1>27, CreateEffect, ToBacked DEF Apart, Still, Forgotten
  <2>1. /\ Ordered(m)
        /\ (Attaching \/ (disc.pc = "idle" /\ connected)) /\ m \in group.nodes => m \in vm \/ delete[m] = "gone"
    BY OrderedNodes DEF BackedInv
  <2> QED
    BY <1>27, <2>1, CreateEffect DEF Apart, Still
<1>28. ASSUME NEW n \in Nodes, NEW base \in Indexes, NEW i \in Indexes, Grows(n, base, i) PROVE BackedInv'
  <2> SUFFICES ASSUME Unmixed, ~May("delete"), env.attach = "checks", Attaching' \/ (disc'.pc = "idle" /\ connected'),
                      NEW m \in Nodes, m \in group'.nodes
               PROVE  m \in vm' \/ delete'[m] = "gone"
    BY <1>28, GrowsEffect, ToBacked DEF Apart, Still, Forgotten
  <2>1. /\ Ordered(m)
        /\ (Attaching \/ (disc.pc = "idle" /\ connected)) /\ m \in group.nodes => m \in vm \/ delete[m] = "gone"
    BY OrderedNodes DEF BackedInv
  <2> QED
    BY <1>28, <2>1, GrowsEffect DEF Apart, Still
<1>29. ASSUME CleanupBegins PROVE BackedInv'
  <2> SUFFICES ASSUME Unmixed, ~May("delete"), env.attach = "checks", Attaching' \/ (disc'.pc = "idle" /\ connected'),
                      NEW m \in Nodes, m \in group'.nodes
               PROVE  m \in vm' \/ delete'[m] = "gone"
    BY <1>29, CleanupBeginsEffect, ToBacked DEF Apart, Still, Forgotten
  <2>1. /\ Ordered(m)
        /\ (Attaching \/ (disc.pc = "idle" /\ connected)) /\ m \in group.nodes => m \in vm \/ delete[m] = "gone"
    BY OrderedNodes DEF BackedInv
  <2> QED
    BY <1>29, <2>1, CleanupBeginsEffect DEF Apart, Still
<1>30. ASSUME CleanupEnds PROVE BackedInv'
  <2> SUFFICES ASSUME Unmixed, ~May("delete"), env.attach = "checks", Attaching' \/ (disc'.pc = "idle" /\ connected'),
                      NEW m \in Nodes, m \in group'.nodes
               PROVE  m \in vm' \/ delete'[m] = "gone"
    BY <1>30, CleanupEndsEffect, ToBacked DEF Apart, Still, Forgotten
  <2>1. /\ Ordered(m)
        /\ (Attaching \/ (disc.pc = "idle" /\ connected)) /\ m \in group.nodes => m \in vm \/ delete[m] = "gone"
    BY OrderedNodes DEF BackedInv
  <2>2. disc'.pc = "idle" /\ ~connected'
    BY <1>30, CleanupEndsEffect DEF PhaseInv
  <2> QED
    BY <2>2
<1>31. ASSUME Refresh PROVE BackedInv'
  <2>1. UNCHANGED <<env, group, disc, vm, delete, connected>>
    BY <1>31, OpensEffect DEF Still, Refresh
  <2> QED
    BY <2>1 DEF BackedInv, Unmixed, May, Asked
<1>32. ASSUME RefreshEncodes PROVE BackedInv'
  <2>1. UNCHANGED <<env, group, disc, vm, delete, connected>>
    BY <1>32, EncodesEffect DEF Still, RefreshEncodes
  <2> QED
    BY <2>1 DEF BackedInv, Unmixed, May, Asked
<1>33. ASSUME NEW n \in Nodes, KubectlDelete(n) PROVE BackedInv'
  <2>1. UNCHANGED <<env, group, disc, vm, delete, connected>>
    BY <1>33, KubectlDeleteEffect DEF Apart
  <2> QED
    BY <2>1 DEF BackedInv, Unmixed, May, Asked
<1>34. ASSUME ListFails, ~Exits PROVE BackedInv'
  <2> SUFFICES ASSUME Unmixed, ~May("delete"), env.attach = "checks", Attaching' \/ (disc'.pc = "idle" /\ connected'),
                      NEW m \in Nodes, m \in group'.nodes
               PROVE  m \in vm' \/ delete'[m] = "gone"
    BY <1>34, ListFailsEffect, ToBacked DEF Apart, Still, Forgotten
  <2>1. /\ Ordered(m)
        /\ (Attaching \/ (disc.pc = "idle" /\ connected)) /\ m \in group.nodes => m \in vm \/ delete[m] = "gone"
    BY OrderedNodes DEF BackedInv
  <2>2. disc'.pc = "idle" /\ ~connected'
    BY <1>34, ListFailsEffect, IdleFields
  <2> QED
    BY <2>2
<1>35. ASSUME Crash PROVE BackedInv'
  <2> SUFFICES ASSUME Unmixed, ~May("delete"), env.attach = "checks", Attaching' \/ (disc'.pc = "idle" /\ connected'),
                      NEW m \in Nodes, m \in group'.nodes
               PROVE  m \in vm' \/ delete'[m] = "gone"
    BY <1>35, DeathEffect, ToBacked DEF Apart, Still, Forgotten
  <2>1. /\ Ordered(m)
        /\ (Attaching \/ (disc.pc = "idle" /\ connected)) /\ m \in group.nodes => m \in vm \/ delete[m] = "gone"
    BY OrderedNodes DEF BackedInv
  <2> QED
    BY <1>35, <2>1, DeathEffect DEF Apart, Still
<1>36. ASSUME Exits PROVE BackedInv'
  <2> SUFFICES ASSUME Unmixed, ~May("delete"), env.attach = "checks", Attaching' \/ (disc'.pc = "idle" /\ connected'),
                      NEW m \in Nodes, m \in group'.nodes
               PROVE  m \in vm' \/ delete'[m] = "gone"
    BY <1>36, DeathEffect, ToBacked DEF Apart, Still, Forgotten
  <2>1. /\ Ordered(m)
        /\ (Attaching \/ (disc.pc = "idle" /\ connected)) /\ m \in group.nodes => m \in vm \/ delete[m] = "gone"
    BY OrderedNodes DEF BackedInv
  <2> QED
    BY <1>36, <2>1, DeathEffect DEF Apart, Still
<1>37. ASSUME Panics PROVE BackedInv'
  <2> SUFFICES ASSUME Unmixed, ~May("delete"), env.attach = "checks", Attaching' \/ (disc'.pc = "idle" /\ connected'),
                      NEW m \in Nodes, m \in group'.nodes
               PROVE  m \in vm' \/ delete'[m] = "gone"
    BY <1>37, DeathEffect, ToBacked DEF Apart, Still, Forgotten
  <2>1. /\ Ordered(m)
        /\ (Attaching \/ (disc.pc = "idle" /\ connected)) /\ m \in group.nodes => m \in vm \/ delete[m] = "gone"
    BY OrderedNodes DEF BackedInv
  <2> QED
    BY <1>37, <2>1, DeathEffect DEF Apart, Still
<1>38. ASSUME UNCHANGED vars PROVE BackedInv'
  <2>1. UNCHANGED <<env, group, disc, vm, delete, connected>>
    BY <1>38 DEF vars
  <2> QED
    BY <2>1 DEF BackedInv, Unmixed, May, Asked
<1> QED
  BY <1>1, <1>2, <1>3, <1>4, <1>5, <1>6, <1>7, <1>8, <1>9, <1>10, <1>11, <1>12, <1>13, <1>14, <1>15, <1>16,
    <1>17, <1>18, <1>19, <1>20, <1>21, <1>22, <1>23, <1>24, <1>25, <1>26, <1>27, <1>28, <1>29, <1>30,
    <1>31, <1>32, <1>33, <1>34, <1>35, <1>36, <1>37, <1>38, Cases

-----------------------------------------------------------------------------
(* Indexes *)

\* What is known of the launches and deletions of an undisturbed process.
Steady ==
  /\ ~May("delete") /\ ~May("attach") /\ kube \subseteq vm
  /\ disc.pc \in {"reset", "attach"} => disc.list \subseteq vm
  /\ disc.by # "none" => NoDeletions
  /\ disc.pc \in {"list", "reset"} => NoLaunches
  /\ \A n \in Nodes :
       /\ launch[n] = "reserved" => n \notin vm
       /\ launch[n] \in {"created", "annotated"} => n \in vm
       /\ launch[n] = "annotated" => n \in kube
       /\ launch[n] \in {"reserved", "created"} => n \notin group.nodes
       /\ n \in group.pending /\ launch[n] = "no" => n \notin vm
       /\ delete[n] # "no" => launch[n] = "no"
       /\ delete[n] = "gone" => n \notin vm

LEMMA Steadiness ==
  ASSUME TypeOK, CalmInv, LaunchInv, TidyInv, Undisturbed
  PROVE  Steady
<1>1. Unmixed /\ ~Asked("busy") /\ ~May("delete") /\ ~May("attach")
  BY DEF Undisturbed, Unmixed
<1> HIDE DEF Unmixed
<1>2. /\ disc.by # "none" => NoDeletions
      /\ disc.pc \in {"list", "reset"} => NoLaunches
  BY <1>1 DEF CalmInv
<1>3. kube \subseteq vm /\ (disc.pc \in {"reset", "attach"} => disc.list \subseteq vm)
  BY <1>1 DEF TidyInv
<1>4. \A n \in Nodes : delete[n] # "no" => launch[n] = "no" /\ (delete[n] = "gone" => n \notin vm)
  BY <1>1 DEF TidyInv, Left
<1> QED
  BY <1>1, <1>2, <1>3, <1>4 DEF Steady, TidyInv, LaunchInv

LEMMA DiscoveryPlace ==
  ASSUME TypeOK, PhaseInv, disc.pc # "idle"
  PROVE  /\ main \notin {"down", "firstSave", "encode", "listen"}
         /\ main = "provision" <=> disc.by \in {"load", "external"}
<1>1. disc.by \in {"load", "external", "connect"}
  BY DiscoveryFields DEF TypeOK, PhaseInv
<1> QED
  BY <1>1 DEF PhaseInv, Serving

LEMMA EarlyStep ==
  ASSUME TypeOK, PhaseInv, MapsInv, Undisturbed, ~Crash, ~Panics, Early, [Next]_vars
  PROVE  Early'
<1> USE DEF Early, Undiscovered, Attaching, GroupBecomes, DiscBecomes, DeleteMoves, LaunchMoves, Forgotten,
      Still, Apart, NoLaunches, NoDeletions
<1>1. ASSUME StartFresh PROVE Early'
  BY <1>1, StartFreshEffect
<1>2. ASSUME FirstSave PROVE Early'
  <2>1. Opens /\ UNCHANGED <<auto, launch, group, vm, kube, disc>> /\ main = "firstSave"
    BY <1>2, OpensEffect DEF FirstSave
  <2> QED
    BY <2>1 DEF Opens
<1>3. ASSUME FirstSaveEncodes PROVE Early'
  <2>1. Encodes /\ UNCHANGED <<auto, launch, group, vm, kube, disc>> /\ main = "encode"
    BY <1>3, EncodesEffect DEF FirstSaveEncodes
  <2> QED
    BY <2>1 DEF Encodes, MapsInv
<1>4. ASSUME Load PROVE Early'
  <2>1. /\ main = "down" /\ UNCHANGED <<env, file, vm, kube, launch, disc>> /\ main' = "listen"
        /\ group' = file.group /\ auto' = file.auto
    BY <1>4, LoadEffect
  <2> QED
    BY <2>1 DEF Missing
<1>5. ASSUME ListenGrpc PROVE Early'
  BY <1>5, ListenGrpcEffect
<1>6. ASSUME ListenExternal, ~ProvisionRefused(group) PROVE Early'
  <2>1. /\ main = "listen" /\ UNCHANGED <<file, vm, kube, launch, auto>>
        /\ disc'.list = {} /\ disc'.former = {} /\ disc'.by = "external"
    BY <1>6, ListenExternalEffect
  <2>2. group'.nodes = {}
    BY <1>6, ListenExternalEffect DEF Provides
  <2> QED
    BY <2>1, <2>2
<1>7. ASSUME Sync PROVE Early'
  BY <1>7, OpensEffect DEF Sync
<1>8. ASSUME SyncEncodes PROVE Early'
  BY <1>8, EncodesEffect DEF SyncEncodes
<1>9. ASSUME ListNodes PROVE Early'
  <2>1. /\ UNCHANGED <<main, file, vm, kube, launch, auto, group>> /\ disc.pc = "list" /\ disc'.pc = "reset"
        /\ disc'.by = disc.by /\ disc'.former = disc.former /\ disc'.list \subseteq kube
    BY <1>9, ListNodesEffect DEF Handled
  <2> QED
    BY <2>1 DEF PhaseInv
<1>10. ASSUME Reset PROVE Early'
  <2>1. /\ UNCHANGED <<main, auto, file, vm, kube, launch>> /\ disc.pc = "reset" /\ disc'.pc = "attach"
        /\ disc'.by = disc.by /\ disc'.list = disc.list /\ disc'.former = group.nodes
    BY <1>10, ResetEffect
  <2> QED
    BY <2>1, DiscoveryPlace
<1>11. ASSUME NEW n \in Nodes, Attach(n) PROVE Early'
  <2>1. /\ UNCHANGED <<main, auto, file, vm, kube, launch>> /\ disc.pc = "attach" /\ disc'.pc = "attach"
        /\ disc'.by = disc.by /\ disc'.list \subseteq disc.list /\ disc'.former = disc.former
    BY <1>11, AttachEffect
  <2> QED
    BY <2>1, DiscoveryPlace
<1>12. ASSUME AttachEnds PROVE Early'
  BY <1>12, AttachEndsEffect
<1>13. ASSUME NEW n \in Nodes, Drop(n) PROVE Early'
  BY <1>13, DropEffect
<1>14. ASSUME DiscoveryEnds PROVE Early'
  <2>1. /\ UNCHANGED <<auto, file, vm, kube, launch>> /\ disc.pc = "drop" /\ disc'.by = "none"
        /\ main' \in {main, "sync", "serving"}
    BY <1>14, DiscoveryEndsEffect, IdleFields
  <2>2. main \notin {"down", "firstSave", "encode", "listen"} /\ (main' = main => main # "provision")
    BY <1>14, <2>1, DiscoveryEndsEffect, DiscoveryPlace
  <2> QED
    BY <2>1, <2>2
<1>15. ASSUME NEW n \in Nodes, LaunchRefused(n) PROVE Early'
  BY <1>15, LaunchRefusedEffect
<1>16. ASSUME NEW n \in Nodes, LaunchVM(n) PROVE Early'
  BY <1>16, LaunchVMEffect
<1>17. ASSUME NEW n \in Nodes, AnnoteNode(n) PROVE Early'
  BY <1>17, AnnoteNodeEffect
<1>18. ASSUME NEW n \in Nodes, RegisterNode(n) PROVE Early'
  BY <1>18, RegisterNodeEffect
<1>19. ASSUME NEW n \in Nodes, LaunchEnds(n) PROVE Early'
  BY <1>19, LaunchEndsEffect
<1>20. ASSUME NEW n \in Nodes, LaunchFails(n) PROVE Early'
  BY <1>20, LaunchFailsEffect
<1>21. ASSUME NEW n \in Nodes, DeleteNodes(n) PROVE Early'
  <2>1. UNCHANGED <<main, group, auto, disc, file, vm, kube, launch>>
    BY <1>21, DeleteNodesEffect DEF Apart
  <2> QED
    BY <2>1
<1>22. ASSUME NEW n \in Nodes, DeleteMisses(n), ~Panics PROVE Early'
  <2>1. UNCHANGED <<main, group, auto, disc, file, vm, kube, launch>>
    BY <1>22, DeleteMissesEffect DEF Apart
  <2> QED
    BY <2>1
<1>23. ASSUME NEW n \in Nodes, DeletesVM(n) PROVE Early'
  <2>1. UNCHANGED <<main, auto, file, launch, disc, group>> /\ delete[n] # "no"
    BY <1>23, DeletesVMEffect
  <2>2. ~Undiscovered
    BY <2>1 DEF PhaseInv, Serving
  <2> QED
    BY <2>1, <2>2
<1>24. ASSUME NEW n \in Nodes, DeleteEnds(n) PROVE Early'
  BY <1>24, DeleteEndsEffect
<1>25. ASSUME Connect PROVE Early'
  <2>1. /\ UNCHANGED <<main, file, vm, kube, launch>> /\ Serving /\ main \notin {"down", "firstSave", "encode", "listen", "provision"}
       
        /\ disc' = disc \/ disc'.by = "connect"
    BY <1>25, ConnectEffect DEF Serving
  <2> QED
    BY <2>1
<1>26. ASSUME NEW min \in {0, 1}, NewNodeGroup(min) PROVE Early'
  BY <1>26, NewNodeGroupEffect
<1>27. ASSUME Create PROVE Early'
  BY <1>27, CreateEffect
<1>28. ASSUME NEW n \in Nodes, NEW base \in Indexes, NEW i \in Indexes, Grows(n, base, i) PROVE Early'
  <2>1. ~Undiscovered
    <3>1. ~NilMaps(group) /\ (Serving \/ ControllerRuns)
      BY <1>28, GrowsEffect
    <3>2. Undiscovered => main = "listen" \/ (main = "provision" /\ disc.by = "external" /\ disc.pc \in {"list", "reset"})
      BY <3>1, DiscoveryFields DEF Serving, ControllerRuns, PhaseInv, TypeOK
    <3> QED
      BY <3>1, <3>2 DEF MapsInv
  <2>2. UNCHANGED <<main, disc>>
    BY <1>28, GrowsEffect
  <2> QED
    BY <2>1, <2>2
<1>29. ASSUME CleanupBegins PROVE Early'
  BY <1>29, CleanupBeginsEffect
<1>30. ASSUME CleanupEnds PROVE Early'
  <2>1. UNCHANGED <<main, auto, file, launch, disc>> /\ cleaning
    BY <1>30, CleanupEndsEffect
  <2>2. ~Undiscovered
    BY <2>1 DEF PhaseInv, Serving
  <2> QED
    BY <2>1, <2>2
<1>31. ASSUME Refresh PROVE Early'
  BY <1>31, OpensEffect DEF Refresh
<1>32. ASSUME RefreshEncodes PROVE Early'
  BY <1>32, EncodesEffect DEF RefreshEncodes
<1>33. ASSUME NEW n \in Nodes, KubectlDelete(n) PROVE Early'
  BY <1>33, KubectlDeleteEffect
<1>34. ASSUME ListFails, ~Exits PROVE Early'
  <2>1. UNCHANGED <<main, auto, file, launch, group, vm, kube>> /\ disc.by = "connect" /\ disc'.by = "none"
    BY <1>34, ListFailsEffect, IdleFields
  <2>2. ~Undiscovered
    BY <2>1 DEF PhaseInv, Serving
  <2> QED
    BY <2>1, <2>2 DEF PhaseInv, Serving
<1>35. ASSUME Crash PROVE Early'
  BY <1>35, DeathEffect
<1>36. ASSUME Exits PROVE Early'
  <2>1. Undiscovered /\ Forgotten
    <3>1. Forgotten
      BY <1>36, DeathEffect
    <3>2. main = "listen" \/ (disc.pc = "list" /\ disc.by # "connect")
      BY <1>36 DEF Exits
    <3>3. disc.by \in {"none", "load", "external", "connect"}
      BY DiscoveryFields DEF TypeOK
    <3>4. Undiscovered
      BY <3>2, <3>3 DEF PhaseInv
    <3> QED
      BY <3>1, <3>4
  <2>2. disc'.by = "none" /\ group'.nodes = {}
    BY <1>36, DeathEffect
  <2> QED
    BY <2>1, <2>2
<1>37. ASSUME Panics PROVE Early'
  BY <1>37, DeathEffect
<1>38. ASSUME UNCHANGED vars PROVE Early'
  BY <1>38 DEF vars
<1> QED
  BY <1>1, <1>2, <1>3, <1>4, <1>5, <1>6, <1>7, <1>8, <1>9, <1>10, <1>11, <1>12, <1>13, <1>14, <1>15, <1>16,
    <1>17, <1>18, <1>19, <1>20, <1>21, <1>22, <1>23, <1>24, <1>25, <1>26, <1>27, <1>28, <1>29, <1>30,
    <1>31, <1>32, <1>33, <1>34, <1>35, <1>36, <1>37, <1>38, Cases

LEMMA HeldStep ==
  ASSUME TypeOK, PhaseInv, MapsInv, Steady, Early, Seen, Distinct, Undisturbed, ~Crash, ~Panics, Held,
         [Next]_vars
  PROVE  Held'
<1> USE DEF Held, GroupBecomes, DiscBecomes, DeleteMoves, LaunchMoves, Still, Apart, NoLaunches
<1>1. ASSUME StartFresh PROVE Held'
  <2>1. UNCHANGED <<group, vm, kube, index, launch, delete>>
    BY <1>1, StartFreshEffect DEF Still
  <2> QED
    BY <2>1
<1>2. ASSUME FirstSave PROVE Held'
  <2>1. UNCHANGED <<group, vm, kube, index, launch, delete>>
    BY <1>2, OpensEffect DEF Still, FirstSave
  <2> QED
    BY <2>1
<1>3. ASSUME FirstSaveEncodes PROVE Held'
  <2>1. UNCHANGED <<group, vm, kube, index, launch, delete>>
    BY <1>3, EncodesEffect DEF Still, FirstSaveEncodes
  <2> QED
    BY <2>1
<1>4. ASSUME Load PROVE Held'
  <2>1. /\ UNCHANGED <<vm, kube, launch, delete>> /\ NoLaunches /\ vm = {}
    BY <1>4, LoadEffect DEF MapsInv, Early, Undiscovered
  <2>2. group'.nodes = {}
    BY <1>4, LoadEffect DEF Early, Undiscovered, Missing
  <2> QED
    BY <2>1, <2>2
<1>5. ASSUME ListenGrpc PROVE Held'
  <2>1. UNCHANGED <<group, vm, kube, index, launch, delete>>
    BY <1>5, ListenGrpcEffect DEF Still
  <2> QED
    BY <2>1
<1>6. ASSUME ListenExternal, ~ProvisionRefused(group) PROVE Held'
  <2>1. /\ UNCHANGED <<vm, kube, launch, delete>> /\ NoLaunches /\ vm = {}
    BY <1>6, ListenExternalEffect DEF Early, Undiscovered
  <2>2. group'.nodes = {}
    BY <1>6, ListenExternalEffect DEF Early, Undiscovered, Provides
  <2> QED
    BY <2>1, <2>2
<1>7. ASSUME Sync PROVE Held'
  <2>1. UNCHANGED <<group, vm, kube, index, launch, delete>>
    BY <1>7, OpensEffect DEF Still, Sync
  <2> QED
    BY <2>1
<1>8. ASSUME SyncEncodes PROVE Held'
  <2>1. UNCHANGED <<group, vm, kube, index, launch, delete>>
    BY <1>8, EncodesEffect DEF Still, SyncEncodes
  <2> QED
    BY <2>1
<1>9. ASSUME ListNodes PROVE Held'
  <2>1. UNCHANGED <<group, vm, kube, index, launch, delete>>
    BY <1>9, ListNodesEffect DEF Apart
  <2> QED
    BY <2>1
<1>10. ASSUME Reset PROVE Held'
  <2>1. UNCHANGED <<vm, kube, launch, delete>> /\ NoLaunches /\ group'.nodes = {} /\ ~NilMaps(group')
    BY <1>10, ResetEffect DEF Steady, NilMaps
  <2> QED
    BY <2>1
<1>11. ASSUME NEW n \in Nodes, Attach(n) PROVE Held'
  <2>1. UNCHANGED <<vm, kube, launch, delete, index>> /\ n \in vm
    BY <1>11, AttachEffect DEF Steady
  <2>2. /\ group'.nodes = group.nodes \cup {n} /\ group'.pending = group.pending
        /\ group.running \subseteq group'.running /\ (NilMaps(group') <=> NilMaps(group))
    BY <1>11, <2>1, AttachEffect DEF NilMaps, Steady
  <2> QED
    BY <2>1, <2>2
<1>12. ASSUME AttachEnds PROVE Held'
  <2>1. UNCHANGED <<group, vm, kube, index, launch, delete>>
    BY <1>12, AttachEndsEffect DEF Apart
  <2> QED
    BY <2>1
<1>13. ASSUME NEW n \in Nodes, Drop(n) PROVE Held'
  <2>1. UNCHANGED <<group, launch, delete, index>>
    BY <1>13, DropEffect
  <2>2. \/ n \notin group.nodes \cup group.pending /\ vm' = vm \ {n} /\ kube' = kube \ {n}
        \/ vm' = vm /\ kube' = kube
    BY <1>13, DropEffect DEF Steady, Loses
  <2> QED
    BY <2>1, <2>2
<1>14. ASSUME DiscoveryEnds PROVE Held'
  <2>1. UNCHANGED <<group, vm, kube, index, launch, delete>>
    BY <1>14, DiscoveryEndsEffect DEF Still
  <2> QED
    BY <2>1
<1>15. ASSUME NEW n \in Nodes, LaunchRefused(n) PROVE Held'
  <2>1. /\ UNCHANGED <<vm, kube, delete, index>> /\ LaunchMoves(n, "no") /\ launch[n] = "reserved"
        /\ group'.nodes = group.nodes /\ group'.pending = group.pending
        /\ group'.running = group.running \ {index[n]} /\ (NilMaps(group') <=> NilMaps(group))
    BY <1>15, LaunchRefusedEffect DEF NilMaps
  <2>2. \A m \in Nodes : launch[m] # "no" /\ m # n => index[m] # index[n]
    BY <2>1 DEF Distinct, Holds
  <2> QED
    BY <2>1, <2>2
<1>16. ASSUME NEW n \in Nodes, LaunchVM(n) PROVE Held'
  <2>1. /\ UNCHANGED <<kube, delete, index, group>> /\ LaunchMoves(n, "created") /\ launch[n] = "reserved"
        /\ vm' = vm \cup {n}
    BY <1>16, LaunchVMEffect
  <2> QED
    BY <2>1
<1>17. ASSUME NEW n \in Nodes, AnnoteNode(n) PROVE Held'
  <2>1. /\ UNCHANGED <<vm, delete, index, group>> /\ LaunchMoves(n, "annotated") /\ launch[n] = "created"
        /\ kube' = kube \cup {n}
    BY <1>17, AnnoteNodeEffect
  <2> QED
    BY <2>1
<1>18. ASSUME NEW n \in Nodes, RegisterNode(n) PROVE Held'
  <2>1. /\ UNCHANGED <<vm, kube, delete, index>> /\ LaunchMoves(n, "registered") /\ launch[n] = "annotated"
        /\ group'.nodes = group.nodes \cup {n} /\ group'.pending = group.pending
        /\ group.running \subseteq group'.running /\ (NilMaps(group') <=> NilMaps(group))
    BY <1>18, RegisterNodeEffect DEF NilMaps
  <2>2. n \in vm
    BY <2>1 DEF Steady
  <2> QED
    BY <2>1, <2>2
<1>19. ASSUME NEW n \in Nodes, LaunchEnds(n) PROVE Held'
  <2>1. /\ UNCHANGED <<vm, kube, delete, index>> /\ LaunchMoves(n, "no") /\ launch[n] = "registered"
        /\ group'.nodes = group.nodes /\ group'.pending = group.pending \ {n}
        /\ group'.running = group.running /\ (NilMaps(group') <=> NilMaps(group))
    BY <1>19, LaunchEndsEffect DEF NilMaps
  <2> QED
    BY <2>1
<1>20. ASSUME NEW n \in Nodes, LaunchFails(n) PROVE Held'
  <2>1. /\ UNCHANGED <<delete, index>> /\ LaunchMoves(n, "no") /\ launch[n] = "created"
        /\ vm' = vm \ {n} /\ kube' = kube \ {n}
        /\ group'.nodes = group.nodes /\ group'.pending = group.pending \ {n}
        /\ group'.running = group.running \ {index[n]} /\ (NilMaps(group') <=> NilMaps(group))
    BY <1>20, LaunchFailsEffect DEF NilMaps, Steady, Loses
  <2>2. \A m \in Nodes : launch[m] # "no" /\ m # n => index[m] # index[n]
    BY <2>1 DEF Distinct, Holds
  <2>3. n \notin group.nodes
    BY <2>1 DEF Steady
  <2> QED
    BY <2>1, <2>2, <2>3
<1>21. ASSUME NEW n \in Nodes, DeleteNodes(n) PROVE Held'
  <2>1. UNCHANGED <<group, launch, index, kube, vm>> /\ DeleteMoves(n, "asked") /\ delete[n] = "no"
    BY <1>21, DeleteNodesEffect
  <2> QED
    BY <2>1
<1>22. ASSUME NEW n \in Nodes, DeleteMisses(n), ~Panics PROVE Held'
  <2>1. /\ UNCHANGED <<vm, kube, launch, index, group>> /\ DeleteMoves(n, "no") /\ n \notin group.nodes
    BY <1>22, DeleteMissesEffect
  <2> QED
    BY <2>1
<1>23. ASSUME NEW n \in Nodes, DeletesVM(n) PROVE Held'
  <2>1. /\ UNCHANGED <<launch, index, group>> /\ DeleteMoves(n, "gone") /\ vm' = vm \ {n} /\ kube' = kube \ {n}
    BY <1>23, DeletesVMEffect DEF Steady, Loses
  <2> QED
    BY <2>1
<1>24. ASSUME NEW n \in Nodes, DeleteEnds(n) PROVE Held'
  <2>1. /\ UNCHANGED <<vm, kube, launch, index>> /\ DeleteMoves(n, "no") /\ delete[n] = "gone"
        /\ group'.nodes = group.nodes \ {n} /\ group'.pending = group.pending \ {n}
        /\ group'.running = group.running \ {index[n]} /\ (NilMaps(group') <=> NilMaps(group))
    BY <1>24, DeleteEndsEffect DEF NilMaps
  <2>2. launch[n] = "no" /\ \A m \in Nodes : launch[m] # "no" /\ m # n => index[m] # index[n]
    BY <2>1 DEF Distinct, Holds, Steady
  <2> QED
    BY <2>1, <2>2
<1>25. ASSUME Connect PROVE Held'
  <2>1. UNCHANGED <<vm, kube, launch, index, delete>>
    BY <1>25, ConnectEffect
  <2>2. group' = group \/ (group.status = "absent" /\ group'.nodes = {})
    BY <1>25, ConnectEffect DEF Provides
  <2>3. CASE group' = group
    BY <2>1, <2>3
  <2>4. CASE group.status = "absent" /\ group'.nodes = {}
    <3>1. NilMaps(group)
      BY <2>4 DEF MapsInv, Missing
    <3> QED
      BY <2>1, <2>4, <3>1
  <2> QED
    BY <2>2, <2>3, <2>4
<1>26. ASSUME NEW min \in {0, 1}, NewNodeGroup(min) PROVE Held'
  <2>1. UNCHANGED <<vm, kube, launch, index, delete>> /\ group.status = "absent" /\ group'.nodes = {}
    BY <1>26, NewNodeGroupEffect
  <2>2. NilMaps(group)
    BY <2>1 DEF MapsInv, Missing
  <2> QED
    BY <2>1, <2>2
<1>27. ASSUME Create PROVE Held'
  <2>1. /\ UNCHANGED <<vm, kube, launch, index, delete>> /\ group'.nodes = group.nodes
        /\ group'.pending = group.pending /\ group'.running = group.running /\ (NilMaps(group') <=> NilMaps(group))
    BY <1>27, CreateEffect DEF NilMaps
  <2> QED
    BY <2>1
<1>28. ASSUME NEW n \in Nodes, NEW base \in Indexes, NEW i \in Indexes, Grows(n, base, i) PROVE Held'
  <2> DEFINE taken == base .. i
  <2>1. /\ UNCHANGED <<vm, kube, delete>> /\ LaunchMoves(n, "reserved") /\ n \notin vm /\ ~NilMaps(group)
        /\ index'[n] = i /\ i \in taken /\ \A m \in Nodes \ {n} : index'[m] = index[m]
    BY <1>28, GrowsEffect DEF Grows, Reserves
  <2>2. /\ group'.nodes = group.nodes /\ group'.pending = group.pending \cup {n}
        /\ group'.running = group.running \cup taken /\ (NilMaps(group') <=> NilMaps(group))
    BY <1>28, GrowsEffect DEF NilMaps
  <2> HIDE DEF taken
  <2> QED
    BY <2>1, <2>2
<1>29. ASSUME CleanupBegins PROVE Held'
  <2>1. /\ UNCHANGED <<vm, kube, launch, index, delete>> /\ group'.nodes = group.nodes
        /\ group'.pending = group.pending /\ group'.running = group.running /\ (NilMaps(group') <=> NilMaps(group))
    BY <1>29, CleanupBeginsEffect DEF NilMaps
  <2> QED
    BY <2>1
<1>30. ASSUME CleanupEnds PROVE Held'
  <2>1. /\ UNCHANGED <<launch, index, delete>> /\ NoLaunches /\ cleaning
        /\ vm' = vm \ Mine /\ kube' = kube \ Mine /\ group'.nodes = {}
    BY <1>30, CleanupEndsEffect, AbsentFields DEF Steady
  <2>2. AutoNames \cap vm \subseteq Mine
    <3>1. disc.pc = "idle"
      BY <2>1 DEF PhaseInv
    <3> QED
      BY <2>1, <3>1 DEF Seen, Mine, Nodes
  <2>3. Mine \cap ManagedNames = {}
    BY ServerAppAssumption DEF Mine
  <2> QED
    BY <2>1, <2>2, <2>3
<1>31. ASSUME Refresh PROVE Held'
  <2>1. UNCHANGED <<group, vm, kube, index, launch, delete>>
    BY <1>31, OpensEffect DEF Still, Refresh
  <2> QED
    BY <2>1
<1>32. ASSUME RefreshEncodes PROVE Held'
  <2>1. UNCHANGED <<group, vm, kube, index, launch, delete>>
    BY <1>32, EncodesEffect DEF Still, RefreshEncodes
  <2> QED
    BY <2>1
<1>33. ASSUME NEW n \in Nodes, KubectlDelete(n) PROVE Held'
  <2>1. UNCHANGED <<group, launch, index, delete, vm>> /\ kube' = kube \ {n} /\ n \notin ManagedNames
    BY <1>33, KubectlDeleteEffect, ServerAppAssumption
  <2> QED
    BY <2>1
<1>34. ASSUME ListFails, ~Exits PROVE Held'
  <2>1. UNCHANGED <<group, vm, kube, index, launch, delete>>
    BY <1>34, ListFailsEffect DEF Apart
  <2> QED
    BY <2>1
<1>35. ASSUME Crash PROVE Held'
  BY <1>35, DeathEffect
<1>36. ASSUME Exits PROVE Held'
  <2>1. Undiscovered /\ Forgotten
    <3>1. Forgotten
      BY <1>36, DeathEffect
    <3>2. main = "listen" \/ (disc.pc = "list" /\ disc.by # "connect")
      BY <1>36 DEF Exits
    <3>3. disc.by \in {"none", "load", "external", "connect"}
      BY DiscoveryFields DEF TypeOK
    <3>4. Undiscovered
      BY <3>2, <3>3 DEF PhaseInv, Undiscovered, Attaching
    <3> QED
      BY <3>1, <3>4
  <2>2. vm' = {} /\ group'.nodes = {} /\ \A m \in Nodes : launch'[m] = "no"
    BY <1>36, <2>1, DeathEffect DEF Early, Forgotten
  <2> QED
    BY <2>2
<1>37. ASSUME Panics PROVE Held'
  BY <1>37, DeathEffect
<1>38. ASSUME UNCHANGED vars PROVE Held'
  BY <1>38 DEF vars
<1> QED
  BY <1>1, <1>2, <1>3, <1>4, <1>5, <1>6, <1>7, <1>8, <1>9, <1>10, <1>11, <1>12, <1>13, <1>14, <1>15, <1>16,
    <1>17, <1>18, <1>19, <1>20, <1>21, <1>22, <1>23, <1>24, <1>25, <1>26, <1>27, <1>28, <1>29, <1>30,
    <1>31, <1>32, <1>33, <1>34, <1>35, <1>36, <1>37, <1>38, Cases

LEMMA SeenStep ==
  ASSUME TypeOK, PhaseInv, RequestInv, DefinitionInv, Steady, Early, Held, Undisturbed, ~Crash, ~Panics,
         Seen, [Next]_vars
  PROVE  Seen'
<1> USE DEF GroupBecomes, DiscBecomes, DeleteMoves, LaunchMoves, Still, Apart, NoLaunches
<1>1. ASSUME StartFresh PROVE Seen'
  <2>1. UNCHANGED <<group, disc, vm, launch>>
    BY <1>1, StartFreshEffect DEF Still
  <2> QED
    BY <2>1 DEF Seen, Attaching
<1>2. ASSUME FirstSave PROVE Seen'
  <2>1. UNCHANGED <<group, disc, vm, launch>>
    BY <1>2, OpensEffect DEF Still, FirstSave
  <2> QED
    BY <2>1 DEF Seen, Attaching
<1>3. ASSUME FirstSaveEncodes PROVE Seen'
  <2>1. UNCHANGED <<group, disc, vm, launch>>
    BY <1>3, EncodesEffect DEF Still, FirstSaveEncodes
  <2> QED
    BY <2>1 DEF Seen, Attaching
<1>4. ASSUME Load PROVE Seen'
  <2>1. vm' = {}
    BY <1>4, LoadEffect DEF Early, Undiscovered
  <2> QED
    BY <2>1 DEF Seen
<1>5. ASSUME ListenGrpc PROVE Seen'
  <2>1. UNCHANGED <<group, disc, vm, launch>>
    BY <1>5, ListenGrpcEffect DEF Still
  <2> QED
    BY <2>1 DEF Seen, Attaching
<1>6. ASSUME ListenExternal, ~ProvisionRefused(group) PROVE Seen'
  <2>1. vm' = {}
    BY <1>6, ListenExternalEffect DEF Early, Undiscovered
  <2> QED
    BY <2>1 DEF Seen
<1>7. ASSUME Sync PROVE Seen'
  <2>1. UNCHANGED <<group, disc, vm, launch>>
    BY <1>7, OpensEffect DEF Still, Sync
  <2> QED
    BY <2>1 DEF Seen, Attaching
<1>8. ASSUME SyncEncodes PROVE Seen'
  <2>1. UNCHANGED <<group, disc, vm, launch>>
    BY <1>8, EncodesEffect DEF Still, SyncEncodes
  <2> QED
    BY <2>1 DEF Seen, Attaching
<1>9. ASSUME ListNodes PROVE Seen'
  <2>1. /\ UNCHANGED <<vm, group, launch>> /\ disc.pc = "list" /\ disc'.pc = "reset" /\ disc'.list = Handled
    BY <1>9, ListNodesEffect
  <2>2. NoLaunches
    BY <2>1 DEF Steady
  <2>3. ASSUME NEW m \in vm, NilMaps(group) PROVE m \in Handled
    <3>1. m \in ManagedNames /\ m \in Nodes
      BY <2>3 DEF Held, TypeOK, Nodes
    <3>2. m \in kube
      BY <2>2, <3>1 DEF Held
    <3>3. env.include
      BY <3>1 DEF RequestInv, Undisturbed
    <3>4. defs = "include"
      BY <2>1, <3>3 DEF DefinitionInv, Definition, PhaseInv
    <3> QED
      BY <3>2, <3>4 DEF Handled
  <2>4. vm \in SUBSET Nodes
    BY DEF TypeOK
  <2> QED
    BY <2>1, <2>2, <2>3, <2>4 DEF Seen, Attaching
<1>10. ASSUME Reset PROVE Seen'
  <2>1. /\ UNCHANGED <<vm, launch>> /\ disc.pc = "reset" /\ disc'.pc = "attach" /\ disc'.list = disc.list
        /\ disc'.former = group.nodes
    BY <1>10, ResetEffect
  <2> QED
    BY <2>1 DEF Seen, Attaching
<1>11. ASSUME NEW n \in Nodes, Attach(n) PROVE Seen'
  <2>1. /\ UNCHANGED <<vm, launch>> /\ disc.pc = "attach" /\ disc'.pc = "attach" /\ disc'.list = disc.list \ {n}
        /\ disc'.former = disc.former /\ group'.nodes = group.nodes \cup {n}
    BY <1>11, AttachEffect DEF Steady
  <2> QED
    BY <2>1 DEF Seen, Attaching
<1>12. ASSUME AttachEnds PROVE Seen'
  <2>1. /\ UNCHANGED <<vm, launch, group>> /\ disc.pc = "attach" /\ disc'.pc = "drop" /\ disc'.list = disc.list
        /\ disc'.former = disc.former
    BY <1>12, AttachEndsEffect
  <2> QED
    BY <2>1 DEF Seen, Attaching
<1>13. ASSUME NEW n \in Nodes, Drop(n) PROVE Seen'
  <2>1. /\ UNCHANGED <<launch, group>> /\ disc.pc = "drop" /\ disc'.pc = "drop" /\ disc'.list = disc.list
        /\ disc'.former = disc.former \ {n}
    BY <1>13, DropEffect
  <2>2. \/ n \notin group.nodes \cup group.pending /\ vm' = vm \ {n}
        \/ (n \in group.nodes \cup group.pending \/ n \notin vm) /\ vm' = vm
    BY <1>13, DropEffect DEF Steady, Loses
  <2>3. n \in group.pending /\ n \in vm => launch[n] # "no"
    BY DEF Steady
  <2> QED
    BY <2>1, <2>2, <2>3 DEF Seen, Attaching
<1>14. ASSUME DiscoveryEnds PROVE Seen'
  <2>1. /\ UNCHANGED <<launch, group, vm>> /\ disc.pc = "drop" /\ disc'.pc = "idle" /\ disc.former = {} /\ disc.list = {}
    BY <1>14, DiscoveryEndsEffect, IdleFields DEF PhaseInv
  <2> QED
    BY <2>1 DEF Seen, Attaching
<1>15. ASSUME NEW n \in Nodes, LaunchRefused(n) PROVE Seen'
  <2>1. /\ UNCHANGED <<vm, disc>> /\ launch[n] = "reserved" /\ LaunchMoves(n, "no")
        /\ group'.nodes = group.nodes /\ (NilMaps(group') <=> NilMaps(group))
    BY <1>15, LaunchRefusedEffect DEF NilMaps
  <2>2. n \notin vm /\ vm \in SUBSET Nodes
    BY <2>1 DEF Steady, TypeOK
  <2> QED
    BY <2>1, <2>2 DEF Seen, Attaching
<1>16. ASSUME NEW n \in Nodes, LaunchVM(n) PROVE Seen'
  <2>1. /\ UNCHANGED <<disc, group>> /\ launch[n] = "reserved" /\ LaunchMoves(n, "created") /\ vm' = vm \cup {n}
    BY <1>16, LaunchVMEffect
  <2>2. disc.pc # "reset" /\ vm \in SUBSET Nodes
    BY <2>1 DEF Steady, TypeOK
  <2> QED
    BY <2>1, <2>2 DEF Seen, Attaching
<1>17. ASSUME NEW n \in Nodes, AnnoteNode(n) PROVE Seen'
  <2>1. /\ UNCHANGED <<vm, group>> /\ launch[n] = "created" /\ LaunchMoves(n, "annotated")
        /\ disc'.pc = disc.pc /\ disc'.list = disc.list /\ disc'.former = disc.former
    BY <1>17, AnnoteNodeEffect
  <2>2. vm \in SUBSET Nodes
    BY DEF TypeOK
  <2> QED
    BY <2>1, <2>2 DEF Seen, Attaching
<1>18. ASSUME NEW n \in Nodes, RegisterNode(n) PROVE Seen'
  <2>1. /\ UNCHANGED <<vm, disc>> /\ launch[n] = "annotated" /\ LaunchMoves(n, "registered")
        /\ group'.nodes = group.nodes \cup {n} /\ (NilMaps(group') <=> NilMaps(group))
    BY <1>18, RegisterNodeEffect DEF NilMaps
  <2>2. vm \in SUBSET Nodes
    BY DEF TypeOK
  <2> QED
    BY <2>1, <2>2 DEF Seen, Attaching
<1>19. ASSUME NEW n \in Nodes, LaunchEnds(n) PROVE Seen'
  <2>1. /\ UNCHANGED <<vm, disc>> /\ launch[n] = "registered" /\ LaunchMoves(n, "no")
        /\ group'.nodes = group.nodes /\ (NilMaps(group') <=> NilMaps(group))
    BY <1>19, LaunchEndsEffect DEF NilMaps
  <2>2. vm \in SUBSET Nodes /\ n \in group.nodes
    BY <2>1 DEF TypeOK, Held
  <2> QED
    BY <2>1, <2>2 DEF Seen, Attaching
<1>20. ASSUME NEW n \in Nodes, LaunchFails(n) PROVE Seen'
  <2>1. /\ UNCHANGED disc /\ LaunchMoves(n, "no") /\ vm' = vm \ {n}
        /\ group'.nodes = group.nodes /\ (NilMaps(group') <=> NilMaps(group))
    BY <1>20, LaunchFailsEffect DEF NilMaps, Steady, Loses
  <2>2. vm \in SUBSET Nodes
    BY DEF TypeOK
  <2> QED
    BY <2>1, <2>2 DEF Seen, Attaching
<1>21. ASSUME NEW n \in Nodes, DeleteNodes(n) PROVE Seen'
  <2>1. UNCHANGED <<group, disc, vm, launch>>
    BY <1>21, DeleteNodesEffect DEF Apart
  <2> QED
    BY <2>1 DEF Seen, Attaching
<1>22. ASSUME NEW n \in Nodes, DeleteMisses(n), ~Panics PROVE Seen'
  <2>1. UNCHANGED <<group, disc, vm, launch>>
    BY <1>22, DeleteMissesEffect DEF Apart
  <2> QED
    BY <2>1 DEF Seen, Attaching
<1>23. ASSUME NEW n \in Nodes, DeletesVM(n) PROVE Seen'
  <2>1. UNCHANGED <<disc, group, launch>> /\ vm' = vm \ {n}
    BY <1>23, DeletesVMEffect DEF Steady, Loses
  <2> QED
    BY <2>1 DEF Seen, Attaching
<1>24. ASSUME NEW n \in Nodes, DeleteEnds(n) PROVE Seen'
  <2>1. /\ UNCHANGED <<disc, vm, launch>> /\ delete[n] = "gone"
        /\ group'.nodes = group.nodes \ {n} /\ (NilMaps(group') <=> NilMaps(group))
    BY <1>24, DeleteEndsEffect DEF NilMaps
  <2>2. n \notin vm
    BY <2>1 DEF Steady
  <2> QED
    BY <2>1, <2>2 DEF Seen, Attaching
<1>25. ASSUME Connect PROVE Seen'
  <2>1. UNCHANGED <<vm, launch>> /\ disc.pc = "idle" /\ disc'.pc \in {"idle", "list"}
    BY <1>25, ConnectEffect DEF MayConnect
  <2>2. group' = group \/ NilMaps(group')
    BY <1>25, ConnectEffect DEF Provides, NilMaps
  <2> QED
    BY <2>1, <2>2 DEF Seen, Attaching
<1>26. ASSUME NEW min \in {0, 1}, NewNodeGroup(min) PROVE Seen'
  <2>1. UNCHANGED <<vm, launch>> /\ disc'.pc = "idle" /\ NilMaps(group')
    BY <1>26, NewNodeGroupEffect DEF NilMaps
  <2> QED
    BY <2>1 DEF Seen, Attaching
<1>27. ASSUME Create PROVE Seen'
  <2>1. /\ UNCHANGED <<vm, launch, disc>> /\ group'.nodes = group.nodes /\ (NilMaps(group') <=> NilMaps(group))
    BY <1>27, CreateEffect DEF NilMaps
  <2> QED
    BY <2>1 DEF Seen, Attaching
<1>28. ASSUME NEW n \in Nodes, NEW base \in Indexes, NEW i \in Indexes, Grows(n, base, i) PROVE Seen'
  <2>1. /\ UNCHANGED <<vm, disc>> /\ LaunchMoves(n, "reserved") /\ group'.nodes = group.nodes
        /\ (NilMaps(group') <=> NilMaps(group))
    BY <1>28, GrowsEffect DEF NilMaps
  <2>2. vm \in SUBSET Nodes
    BY DEF TypeOK
  <2> QED
    BY <2>1, <2>2 DEF Seen, Attaching
<1>29. ASSUME CleanupBegins PROVE Seen'
  <2>1. /\ UNCHANGED <<vm, launch, disc>> /\ group'.nodes = group.nodes /\ (NilMaps(group') <=> NilMaps(group))
    BY <1>29, CleanupBeginsEffect DEF NilMaps
  <2> QED
    BY <2>1 DEF Seen, Attaching
<1>30. ASSUME CleanupEnds PROVE Seen'
  <2>1. disc'.pc = "idle" /\ NilMaps(group')
    BY <1>30, CleanupEndsEffect, AbsentFields DEF PhaseInv, Steady, NilMaps
  <2> QED
    BY <2>1 DEF Seen, Attaching
<1>31. ASSUME Refresh PROVE Seen'
  <2>1. UNCHANGED <<group, disc, vm, launch>>
    BY <1>31, OpensEffect DEF Still, Refresh
  <2> QED
    BY <2>1 DEF Seen, Attaching
<1>32. ASSUME RefreshEncodes PROVE Seen'
  <2>1. UNCHANGED <<group, disc, vm, launch>>
    BY <1>32, EncodesEffect DEF Still, RefreshEncodes
  <2> QED
    BY <2>1 DEF Seen, Attaching
<1>33. ASSUME NEW n \in Nodes, KubectlDelete(n) PROVE Seen'
  <2>1. UNCHANGED <<group, disc, vm, launch>>
    BY <1>33, KubectlDeleteEffect DEF Apart
  <2> QED
    BY <2>1 DEF Seen, Attaching
<1>34. ASSUME ListFails, ~Exits PROVE Seen'
  <2>1. UNCHANGED <<vm, launch, group>> /\ disc.pc = "list" /\ disc'.pc = "idle"
    BY <1>34, ListFailsEffect, IdleFields
  <2> QED
    BY <2>1 DEF Seen, Attaching
<1>35. ASSUME Crash PROVE Seen'
  BY <1>35, DeathEffect
<1>36. ASSUME Exits PROVE Seen'
  <2>1. disc'.pc = "idle" /\ NilMaps(group')
    BY <1>36, DeathEffect DEF Missing
  <2> QED
    BY <2>1 DEF Seen, Attaching
<1>37. ASSUME Panics PROVE Seen'
  BY <1>37, DeathEffect
<1>38. ASSUME UNCHANGED vars PROVE Seen'
  BY <1>38 DEF Seen, Attaching, vars
<1> QED
  BY <1>1, <1>2, <1>3, <1>4, <1>5, <1>6, <1>7, <1>8, <1>9, <1>10, <1>11, <1>12, <1>13, <1>14, <1>15, <1>16,
    <1>17, <1>18, <1>19, <1>20, <1>21, <1>22, <1>23, <1>24, <1>25, <1>26, <1>27, <1>28, <1>29, <1>30,
    <1>31, <1>32, <1>33, <1>34, <1>35, <1>36, <1>37, <1>38, Cases

LEMMA IndexedStep ==
  ASSUME TypeOK, PhaseInv, Steady, Early, Held, Seen, Distinct, Undisturbed, ~Crash, ~Panics, Indexed,
         [Next]_vars
  PROVE  Indexed'
<1> USE DEF GroupBecomes, DiscBecomes, DeleteMoves, LaunchMoves, Still, Apart, NoLaunches, NoDeletions
<1>1. ASSUME StartFresh PROVE Indexed'
  <2>1. UNCHANGED <<group, disc, vm, index, launch, delete>>
    BY <1>1, StartFreshEffect DEF Still
  <2> QED
    BY <2>1 DEF Indexed, Holds, Attaching
<1>2. ASSUME FirstSave PROVE Indexed'
  <2>1. UNCHANGED <<group, disc, vm, index, launch, delete>>
    BY <1>2, OpensEffect DEF Still, FirstSave
  <2> QED
    BY <2>1 DEF Indexed, Holds, Attaching
<1>3. ASSUME FirstSaveEncodes PROVE Indexed'
  <2>1. UNCHANGED <<group, disc, vm, index, launch, delete>>
    BY <1>3, EncodesEffect DEF Still, FirstSaveEncodes
  <2> QED
    BY <2>1 DEF Indexed, Holds, Attaching
<1>4. ASSUME Load PROVE Indexed'
  <2>1. \A m \in Nodes : ~Holds(m)' /\ m \notin vm'
    BY <1>4, LoadEffect DEF Early, Undiscovered, PhaseInv, Serving, Holds
  <2> QED
    BY <2>1 DEF Indexed
<1>5. ASSUME ListenGrpc PROVE Indexed'
  <2>1. UNCHANGED <<group, disc, vm, index, launch, delete>>
    BY <1>5, ListenGrpcEffect DEF Still
  <2> QED
    BY <2>1 DEF Indexed, Holds, Attaching
<1>6. ASSUME ListenExternal, ~ProvisionRefused(group) PROVE Indexed'
  <2>1. \A m \in Nodes : ~Holds(m)' /\ m \notin vm'
    BY <1>6, ListenExternalEffect DEF Early, Undiscovered, PhaseInv, Serving, Holds
  <2> QED
    BY <2>1 DEF Indexed
<1>7. ASSUME Sync PROVE Indexed'
  <2>1. UNCHANGED <<group, disc, vm, index, launch, delete>>
    BY <1>7, OpensEffect DEF Still, Sync
  <2> QED
    BY <2>1 DEF Indexed, Holds, Attaching
<1>8. ASSUME SyncEncodes PROVE Indexed'
  <2>1. UNCHANGED <<group, disc, vm, index, launch, delete>>
    BY <1>8, EncodesEffect DEF Still, SyncEncodes
  <2> QED
    BY <2>1 DEF Indexed, Holds, Attaching
<1>9. ASSUME ListNodes PROVE Indexed'
  <2>1. UNCHANGED <<vm, launch, delete, index, group>> /\ disc.pc = "list" /\ disc'.pc = "reset"
    BY <1>9, ListNodesEffect
  <2> QED
    BY <2>1 DEF Indexed, Holds, Attaching
<1>10. ASSUME Reset PROVE Indexed'
  <2>1. disc'.pc = "attach" /\ group'.nodes = {}
    BY <1>10, ResetEffect
  <2> QED
    BY <2>1 DEF Indexed, Attaching
<1>11. ASSUME NEW n \in Nodes, Attach(n) PROVE Indexed'
  <2>1. /\ UNCHANGED <<vm, launch, delete, index>> /\ disc.pc = "attach" /\ disc'.pc = "attach"
        /\ group'.nodes = group.nodes \cup {n} /\ group'.running = group.running \cup {index[n]}
    BY <1>11, AttachEffect DEF Steady
  <2> QED
    BY <2>1 DEF Indexed, Attaching
<1>12. ASSUME AttachEnds PROVE Indexed'
  <2>1. UNCHANGED <<vm, launch, delete, index, group>> /\ disc.pc = "attach" /\ disc'.pc = "drop"
    BY <1>12, AttachEndsEffect
  <2> QED
    BY <2>1 DEF Indexed, Holds, Attaching
<1>13. ASSUME NEW n \in Nodes, Drop(n) PROVE Indexed'
  <2>1. UNCHANGED <<launch, delete, index, group>> /\ disc.pc = "drop" /\ disc'.pc = "drop" /\ vm' \subseteq vm
    BY <1>13, DropEffect DEF Steady, Loses
  <2> QED
    BY <2>1 DEF Indexed, Attaching
<1>14. ASSUME DiscoveryEnds PROVE Indexed'
  <2>1. UNCHANGED <<vm, launch, delete, index, group>> /\ disc.pc = "drop" /\ disc'.pc = "idle" /\ disc.former = {}
    BY <1>14, DiscoveryEndsEffect, IdleFields
  <2>2. disc.list = {} /\ disc.by # "none"
    BY <2>1 DEF PhaseInv
  <2>3. \A m \in Nodes : Holds(m) => (m \in vm /\ m \in group.nodes) \/ launch[m] # "no"
    BY <2>1, <2>2 DEF Holds, Steady, Seen, Attaching
  <2> QED
    BY <2>1, <2>3 DEF Indexed, Holds, Attaching, Held
<1>15. ASSUME NEW n \in Nodes, LaunchRefused(n) PROVE Indexed'
  <2>1. /\ UNCHANGED <<disc, index>> /\ vm' \subseteq vm /\ n \notin vm' /\ launch'[n] = "no" /\ delete'[n] = "no"
        /\ \A m \in Nodes \ {n} : launch'[m] = launch[m] /\ delete'[m] = delete[m]
        /\ group'.nodes \subseteq group.nodes /\ group'.running = group.running \ {index[n]}
        /\ (NilMaps(group') <=> NilMaps(group)) /\ Holds(n)
    BY <1>15, LaunchRefusedEffect DEF NilMaps, Steady, Holds
  <2>2. \A m \in Nodes : Holds(m)' => Holds(m) /\ m # n /\ index[m] # index[n]
    BY <2>1 DEF Holds, Distinct
  <2>3. \A m \in Nodes : m \in vm' => Holds(m)'
    BY DEF Holds
  <2> QED
    BY <2>1, <2>2, <2>3 DEF Indexed, Attaching
<1>16. ASSUME NEW n \in Nodes, LaunchVM(n) PROVE Indexed'
  <2>1. /\ UNCHANGED <<disc, index, group, delete>> /\ launch[n] = "reserved" /\ LaunchMoves(n, "created")
        /\ vm' = vm \cup {n}
    BY <1>16, LaunchVMEffect
  <2>2. n \notin group.nodes /\ \A m \in Nodes : Holds(m)' => Holds(m)
    BY <2>1 DEF Steady, Holds
  <2> QED
    BY <2>1, <2>2 DEF Indexed, Attaching
<1>17. ASSUME NEW n \in Nodes, AnnoteNode(n) PROVE Indexed'
  <2>1. /\ UNCHANGED <<index, group, delete, vm>> /\ launch[n] = "created" /\ LaunchMoves(n, "annotated")
        /\ disc'.pc = disc.pc
    BY <1>17, AnnoteNodeEffect
  <2>2. \A m \in Nodes : Holds(m)' => Holds(m)
    BY <2>1 DEF Holds
  <2> QED
    BY <2>1, <2>2 DEF Indexed, Attaching
<1>18. ASSUME NEW n \in Nodes, RegisterNode(n) PROVE Indexed'
  <2>1. /\ UNCHANGED <<index, disc, delete, vm>> /\ launch[n] = "annotated" /\ LaunchMoves(n, "registered")
        /\ group'.nodes = group.nodes \cup {n} /\ group'.running = group.running \cup {index[n]}
        /\ (NilMaps(group') <=> NilMaps(group))
    BY <1>18, RegisterNodeEffect DEF NilMaps
  <2>2. \A m \in Nodes : Holds(m)' => Holds(m)
    BY <2>1 DEF Holds
  <2> QED
    BY <2>1, <2>2 DEF Indexed, Attaching
<1>19. ASSUME NEW n \in Nodes, LaunchEnds(n) PROVE Indexed'
  <2>1. /\ UNCHANGED <<index, disc, delete, vm>> /\ launch[n] = "registered" /\ LaunchMoves(n, "no")
        /\ group'.nodes = group.nodes /\ group'.running = group.running /\ (NilMaps(group') <=> NilMaps(group))
    BY <1>19, LaunchEndsEffect DEF NilMaps
  <2>2. \A m \in Nodes : Holds(m)' => Holds(m)
    BY <2>1 DEF Holds
  <2> QED
    BY <2>1, <2>2 DEF Indexed, Attaching
<1>20. ASSUME NEW n \in Nodes, LaunchFails(n) PROVE Indexed'
  <2>1. /\ UNCHANGED <<disc, index>> /\ vm' \subseteq vm /\ n \notin vm' /\ launch'[n] = "no" /\ delete'[n] = "no"
        /\ \A m \in Nodes \ {n} : launch'[m] = launch[m] /\ delete'[m] = delete[m]
        /\ group'.nodes \subseteq group.nodes /\ group'.running = group.running \ {index[n]}
        /\ (NilMaps(group') <=> NilMaps(group)) /\ Holds(n)
    BY <1>20, LaunchFailsEffect DEF NilMaps, Steady, Holds, Loses
  <2>2. \A m \in Nodes : Holds(m)' => Holds(m) /\ m # n /\ index[m] # index[n]
    BY <2>1 DEF Holds, Distinct
  <2>3. \A m \in Nodes : m \in vm' => Holds(m)'
    BY DEF Holds
  <2> QED
    BY <2>1, <2>2, <2>3 DEF Indexed, Attaching
<1>21. ASSUME NEW n \in Nodes, DeleteNodes(n) PROVE Indexed'
  <2>1. UNCHANGED <<index, disc, group, vm, launch>> /\ DeleteMoves(n, "asked") /\ delete[n] = "no" /\ n \in group.nodes
    BY <1>21, DeleteNodesEffect
  <2>2. \A m \in Nodes : Holds(m)' => Holds(m)
    BY <2>1 DEF Holds, Held
  <2> QED
    BY <2>1, <2>2 DEF Indexed, Attaching
<1>22. ASSUME NEW n \in Nodes, DeleteMisses(n), ~Panics PROVE Indexed'
  <2>1. UNCHANGED <<index, disc, group, vm, launch>> /\ DeleteMoves(n, "no")
    BY <1>22, DeleteMissesEffect
  <2>2. \A m \in Nodes : Holds(m)' => Holds(m)
    BY <2>1 DEF Holds
  <2> QED
    BY <2>1, <2>2 DEF Indexed, Attaching
<1>23. ASSUME NEW n \in Nodes, DeletesVM(n) PROVE Indexed'
  <2>1. /\ UNCHANGED <<index, disc, group, launch>> /\ DeleteMoves(n, "gone") /\ vm' = vm \ {n}
        /\ delete[n] = "asked"
    BY <1>23, DeletesVMEffect DEF Steady, Loses
  <2>2. \A m \in Nodes : Holds(m)' => Holds(m)
    BY <2>1 DEF Holds
  <2> QED
    BY <2>1, <2>2 DEF Indexed, Attaching
<1>24. ASSUME NEW n \in Nodes, DeleteEnds(n) PROVE Indexed'
  <2>1. /\ UNCHANGED <<disc, index>> /\ vm' \subseteq vm /\ n \notin vm' /\ launch'[n] = "no" /\ delete'[n] = "no"
        /\ \A m \in Nodes \ {n} : launch'[m] = launch[m] /\ delete'[m] = delete[m]
        /\ group'.nodes \subseteq group.nodes /\ group'.running = group.running \ {index[n]}
        /\ (NilMaps(group') <=> NilMaps(group)) /\ Holds(n)
    BY <1>24, DeleteEndsEffect DEF NilMaps, Steady, Holds
  <2>2. \A m \in Nodes : Holds(m)' => Holds(m) /\ m # n /\ index[m] # index[n]
    BY <2>1 DEF Holds, Distinct
  <2>3. \A m \in Nodes : m \in vm' => Holds(m)'
    BY DEF Holds
  <2> QED
    BY <2>1, <2>2, <2>3 DEF Indexed, Attaching
<1>25. ASSUME Connect PROVE Indexed'
  <2>1. UNCHANGED <<vm, launch, delete, index>> /\ disc.pc = "idle" /\ disc'.pc \in {"idle", "list"}
    BY <1>25, ConnectEffect DEF MayConnect
  <2>2. group' = group \/ NilMaps(group')
    BY <1>25, ConnectEffect DEF Provides, NilMaps
  <2> QED
    BY <2>1, <2>2 DEF Indexed, Holds, Attaching
<1>26. ASSUME NEW min \in {0, 1}, NewNodeGroup(min) PROVE Indexed'
  <2>1. disc'.pc = "idle" /\ NilMaps(group')
    BY <1>26, NewNodeGroupEffect DEF NilMaps
  <2> QED
    BY <2>1 DEF Indexed, Attaching
<1>27. ASSUME Create PROVE Indexed'
  <2>1. /\ UNCHANGED <<vm, launch, delete, index, disc>> /\ group'.nodes = group.nodes
        /\ group'.running = group.running /\ (NilMaps(group') <=> NilMaps(group))
    BY <1>27, CreateEffect DEF NilMaps
  <2> QED
    BY <2>1 DEF Indexed, Holds, Attaching
<1>28. ASSUME NEW n \in Nodes, NEW base \in Indexes, NEW i \in Indexes, Grows(n, base, i) PROVE Indexed'
  <2> DEFINE taken == base .. i
  <2>1. /\ UNCHANGED <<vm, disc, delete>> /\ LaunchMoves(n, "reserved") /\ index'[n] = i /\ i \in taken
        /\ \A m \in Nodes \ {n} : index'[m] = index[m]
    BY <1>28, GrowsEffect DEF Grows, Reserves
  <2>2. /\ group'.nodes = group.nodes /\ group'.running = group.running \cup taken
        /\ (NilMaps(group') <=> NilMaps(group))
    BY <1>28, GrowsEffect DEF NilMaps
  <2> HIDE DEF taken
  <2>3. \A m \in Nodes : Holds(m)' => Holds(m) \/ m = n
    BY <2>1 DEF Holds
  <2> QED
    BY <2>1, <2>2, <2>3 DEF Indexed, Attaching
<1>29. ASSUME CleanupBegins PROVE Indexed'
  <2>1. /\ UNCHANGED <<vm, launch, delete, index, disc>> /\ group'.nodes = group.nodes
        /\ group'.running = group.running /\ (NilMaps(group') <=> NilMaps(group))
    BY <1>29, CleanupBeginsEffect DEF NilMaps
  <2> QED
    BY <2>1 DEF Indexed, Holds, Attaching
<1>30. ASSUME CleanupEnds PROVE Indexed'
  <2>1. disc'.pc = "idle" /\ NilMaps(group')
    BY <1>30, CleanupEndsEffect, AbsentFields DEF PhaseInv, Steady, NilMaps
  <2> QED
    BY <2>1 DEF Indexed, Attaching
<1>31. ASSUME Refresh PROVE Indexed'
  <2>1. UNCHANGED <<group, disc, vm, index, launch, delete>>
    BY <1>31, OpensEffect DEF Still, Refresh
  <2> QED
    BY <2>1 DEF Indexed, Holds, Attaching
<1>32. ASSUME RefreshEncodes PROVE Indexed'
  <2>1. UNCHANGED <<group, disc, vm, index, launch, delete>>
    BY <1>32, EncodesEffect DEF Still, RefreshEncodes
  <2> QED
    BY <2>1 DEF Indexed, Holds, Attaching
<1>33. ASSUME NEW n \in Nodes, KubectlDelete(n) PROVE Indexed'
  <2>1. UNCHANGED <<group, disc, vm, index, launch, delete>>
    BY <1>33, KubectlDeleteEffect DEF Apart
  <2> QED
    BY <2>1 DEF Indexed, Holds, Attaching
<1>34. ASSUME ListFails, ~Exits PROVE Indexed'
  <2>1. UNCHANGED <<vm, launch, delete, index, group>> /\ disc.pc = "list" /\ disc'.pc = "idle"
    BY <1>34, ListFailsEffect, IdleFields
  <2> QED
    BY <2>1 DEF Indexed, Holds, Attaching
<1>35. ASSUME Crash PROVE Indexed'
  BY <1>35, DeathEffect
<1>36. ASSUME Exits PROVE Indexed'
  <2>1. disc'.pc = "idle" /\ NilMaps(group')
    BY <1>36, DeathEffect DEF Missing
  <2> QED
    BY <2>1 DEF Indexed, Attaching
<1>37. ASSUME Panics PROVE Indexed'
  BY <1>37, DeathEffect
<1>38. ASSUME UNCHANGED vars PROVE Indexed'
  BY <1>38 DEF Indexed, Holds, Attaching, vars
<1> QED
  BY <1>1, <1>2, <1>3, <1>4, <1>5, <1>6, <1>7, <1>8, <1>9, <1>10, <1>11, <1>12, <1>13, <1>14, <1>15, <1>16,
    <1>17, <1>18, <1>19, <1>20, <1>21, <1>22, <1>23, <1>24, <1>25, <1>26, <1>27, <1>28, <1>29, <1>30,
    <1>31, <1>32, <1>33, <1>34, <1>35, <1>36, <1>37, <1>38, Cases

LEMMA DistinctStep ==
  ASSUME TypeOK, PhaseInv, MapsInv, Steady, Early, Held, Seen, Indexed, Undisturbed, ~Crash, ~Panics,
         Distinct, [Next]_vars
  PROVE  Distinct'
<1> USE DEF GroupBecomes, DiscBecomes, DeleteMoves, LaunchMoves, Still, Apart, NoLaunches, NoDeletions
<1>1. ASSUME StartFresh PROVE Distinct'
  <2>1. UNCHANGED <<vm, index, launch, delete>>
    BY <1>1, StartFreshEffect DEF Still
  <2> QED
    BY <2>1 DEF Distinct, Holds
<1>2. ASSUME FirstSave PROVE Distinct'
  <2>1. UNCHANGED <<vm, index, launch, delete>>
    BY <1>2, OpensEffect DEF Still, FirstSave
  <2> QED
    BY <2>1 DEF Distinct, Holds
<1>3. ASSUME FirstSaveEncodes PROVE Distinct'
  <2>1. UNCHANGED <<vm, index, launch, delete>>
    BY <1>3, EncodesEffect DEF Still, FirstSaveEncodes
  <2> QED
    BY <2>1 DEF Distinct, Holds
<1>4. ASSUME Load PROVE Distinct'
  <2>1. \A m \in Nodes : ~Holds(m)'
    BY <1>4, LoadEffect DEF Early, Undiscovered, PhaseInv, Serving, Holds
  <2> QED
    BY <2>1 DEF Distinct
<1>5. ASSUME ListenGrpc PROVE Distinct'
  <2>1. UNCHANGED <<vm, index, launch, delete>>
    BY <1>5, ListenGrpcEffect DEF Still
  <2> QED
    BY <2>1 DEF Distinct, Holds
<1>6. ASSUME ListenExternal, ~ProvisionRefused(group) PROVE Distinct'
  <2>1. \A m \in Nodes : ~Holds(m)'
    BY <1>6, ListenExternalEffect DEF Early, Undiscovered, PhaseInv, Serving, Holds
  <2> QED
    BY <2>1 DEF Distinct
<1>7. ASSUME Sync PROVE Distinct'
  <2>1. UNCHANGED <<vm, index, launch, delete>>
    BY <1>7, OpensEffect DEF Still, Sync
  <2> QED
    BY <2>1 DEF Distinct, Holds
<1>8. ASSUME SyncEncodes PROVE Distinct'
  <2>1. UNCHANGED <<vm, index, launch, delete>>
    BY <1>8, EncodesEffect DEF Still, SyncEncodes
  <2> QED
    BY <2>1 DEF Distinct, Holds
<1>9. ASSUME ListNodes PROVE Distinct'
  <2>1. UNCHANGED <<vm, index, launch, delete>>
    BY <1>9, ListNodesEffect DEF Apart
  <2> QED
    BY <2>1 DEF Distinct, Holds
<1>10. ASSUME Reset PROVE Distinct'
  <2>1. UNCHANGED <<vm, index, launch, delete>>
    BY <1>10, ResetEffect DEF Apart
  <2> QED
    BY <2>1 DEF Distinct, Holds
<1>11. ASSUME NEW n \in Nodes, Attach(n) PROVE Distinct'
  <2>1. UNCHANGED <<vm, index, launch, delete>>
    BY <1>11, AttachEffect DEF Apart
  <2> QED
    BY <2>1 DEF Distinct, Holds
<1>12. ASSUME AttachEnds PROVE Distinct'
  <2>1. UNCHANGED <<vm, index, launch, delete>>
    BY <1>12, AttachEndsEffect DEF Apart
  <2> QED
    BY <2>1 DEF Distinct, Holds
<1>13. ASSUME NEW n \in Nodes, Drop(n) PROVE Distinct'
  <2>1. index' = index /\ UNCHANGED <<launch, delete>> /\ vm' \subseteq vm
    BY <1>13, DropEffect DEF Steady, Loses
  <2>2. \A m \in Nodes : Holds(m)' => Holds(m)
    BY <2>1 DEF Holds
  <2> QED
    BY <2>1, <2>2 DEF Distinct
<1>14. ASSUME DiscoveryEnds PROVE Distinct'
  <2>1. UNCHANGED <<vm, index, launch, delete>>
    BY <1>14, DiscoveryEndsEffect DEF Still
  <2> QED
    BY <2>1 DEF Distinct, Holds
<1>15. ASSUME NEW n \in Nodes, LaunchRefused(n) PROVE Distinct'
  <2>1. index' = index /\ UNCHANGED <<vm, delete>> /\ LaunchMoves(n, "no")
    BY <1>15, LaunchRefusedEffect
  <2>2. \A m \in Nodes : Holds(m)' => Holds(m)
    BY <2>1 DEF Holds
  <2> QED
    BY <2>1, <2>2 DEF Distinct
<1>16. ASSUME NEW n \in Nodes, LaunchVM(n) PROVE Distinct'
  <2>1. index' = index /\ UNCHANGED delete /\ launch[n] = "reserved" /\ LaunchMoves(n, "created") /\ vm' = vm \cup {n}
    BY <1>16, LaunchVMEffect
  <2>2. \A m \in Nodes : Holds(m)' => Holds(m)
    BY <2>1 DEF Holds
  <2> QED
    BY <2>1, <2>2 DEF Distinct
<1>17. ASSUME NEW n \in Nodes, AnnoteNode(n) PROVE Distinct'
  <2>1. index' = index /\ UNCHANGED <<vm, delete>> /\ launch[n] = "created" /\ LaunchMoves(n, "annotated")
    BY <1>17, AnnoteNodeEffect
  <2>2. \A m \in Nodes : Holds(m)' => Holds(m)
    BY <2>1 DEF Holds
  <2> QED
    BY <2>1, <2>2 DEF Distinct
<1>18. ASSUME NEW n \in Nodes, RegisterNode(n) PROVE Distinct'
  <2>1. index' = index /\ UNCHANGED <<vm, delete>> /\ launch[n] = "annotated" /\ LaunchMoves(n, "registered")
    BY <1>18, RegisterNodeEffect
  <2>2. \A m \in Nodes : Holds(m)' => Holds(m)
    BY <2>1 DEF Holds
  <2> QED
    BY <2>1, <2>2 DEF Distinct
<1>19. ASSUME NEW n \in Nodes, LaunchEnds(n) PROVE Distinct'
  <2>1. index' = index /\ UNCHANGED <<vm, delete>> /\ LaunchMoves(n, "no")
    BY <1>19, LaunchEndsEffect
  <2>2. \A m \in Nodes : Holds(m)' => Holds(m)
    BY <2>1 DEF Holds
  <2> QED
    BY <2>1, <2>2 DEF Distinct
<1>20. ASSUME NEW n \in Nodes, LaunchFails(n) PROVE Distinct'
  <2>1. index' = index /\ UNCHANGED delete /\ LaunchMoves(n, "no") /\ vm' \subseteq vm
    BY <1>20, LaunchFailsEffect DEF Loses
  <2>2. \A m \in Nodes : Holds(m)' => Holds(m)
    BY <2>1 DEF Holds
  <2> QED
    BY <2>1, <2>2 DEF Distinct
<1>21. ASSUME NEW n \in Nodes, DeleteNodes(n) PROVE Distinct'
  <2>1. index' = index /\ UNCHANGED <<vm, launch>> /\ DeleteMoves(n, "asked") /\ delete[n] = "no" /\ n \in group.nodes
    BY <1>21, DeleteNodesEffect
  <2>2. \A m \in Nodes : Holds(m)' => Holds(m)
    BY <2>1 DEF Holds, Held
  <2> QED
    BY <2>1, <2>2 DEF Distinct
<1>22. ASSUME NEW n \in Nodes, DeleteMisses(n), ~Panics PROVE Distinct'
  <2>1. index' = index /\ UNCHANGED <<vm, launch>> /\ DeleteMoves(n, "no")
    BY <1>22, DeleteMissesEffect
  <2>2. \A m \in Nodes : Holds(m)' => Holds(m)
    BY <2>1 DEF Holds
  <2> QED
    BY <2>1, <2>2 DEF Distinct
<1>23. ASSUME NEW n \in Nodes, DeletesVM(n) PROVE Distinct'
  <2>1. index' = index /\ UNCHANGED launch /\ delete[n] = "asked" /\ DeleteMoves(n, "gone") /\ vm' = vm \ {n}
    BY <1>23, DeletesVMEffect DEF Steady, Loses
  <2>2. \A m \in Nodes : Holds(m)' => Holds(m)
    BY <2>1 DEF Holds
  <2> QED
    BY <2>1, <2>2 DEF Distinct
<1>24. ASSUME NEW n \in Nodes, DeleteEnds(n) PROVE Distinct'
  <2>1. index' = index /\ UNCHANGED <<vm, launch>> /\ DeleteMoves(n, "no")
    BY <1>24, DeleteEndsEffect
  <2>2. \A m \in Nodes : Holds(m)' => Holds(m)
    BY <2>1 DEF Holds
  <2> QED
    BY <2>1, <2>2 DEF Distinct
<1>25. ASSUME Connect PROVE Distinct'
  <2>1. UNCHANGED <<vm, index, launch, delete>>
    BY <1>25, ConnectEffect DEF Apart
  <2> QED
    BY <2>1 DEF Distinct, Holds
<1>26. ASSUME NEW min \in {0, 1}, NewNodeGroup(min) PROVE Distinct'
  <2>1. UNCHANGED <<vm, index, launch, delete>>
    BY <1>26, NewNodeGroupEffect DEF Apart
  <2> QED
    BY <2>1 DEF Distinct, Holds
<1>27. ASSUME Create PROVE Distinct'
  <2>1. UNCHANGED <<vm, index, launch, delete>>
    BY <1>27, CreateEffect DEF Apart
  <2> QED
    BY <2>1 DEF Distinct, Holds
<1>28. ASSUME NEW n \in Nodes, NEW base \in Indexes, NEW i \in Indexes, Grows(n, base, i) PROVE Distinct'
  <2>1. /\ UNCHANGED <<vm, disc, delete>> /\ LaunchMoves(n, "reserved") /\ index'[n] = i /\ ~NilMaps(group)
        /\ \A m \in Nodes \ {n} : index'[m] = index[m]
    BY <1>28, GrowsEffect DEF Grows, Reserves
  <2>2. \/ disc.pc = "idle"
        \/ Attaching /\ disc.list = {} /\ disc.former = {} /\ NoDeletions
    <3>1. disc.pc = "idle" \/ disc.by = "external"
      BY <1>28, GrowsEffect DEF MayRequest, Undisturbed
    <3>2. CASE disc.by = "external"
      <4>1. disc.pc \notin {"list", "reset"} /\ disc.list = {} /\ disc.former = {} /\ NoDeletions
        BY <2>1, <3>2 DEF MapsInv, Early, Steady
      <4> QED
        BY <4>1, DiscoveryFields DEF TypeOK, Attaching
    <3> QED
      BY <3>1, <3>2
  <2>3. vm \subseteq {m \in Nodes : m \in group.nodes \/ launch[m] # "no"}
    BY <2>1, <2>2 DEF Seen, TypeOK
  <2>4. vm \subseteq group.nodes \cup group.pending
    BY <2>3 DEF Held
  <2>5. i \notin group.running
    BY <1>28, <2>4 DEF Grows, Reserves
  <2>6. \A m \in Nodes : Holds(m) => index[m] \in group.running
    <3>1. CASE disc.pc = "idle"
      BY <2>1, <3>1 DEF Indexed, Attaching
    <3>2. CASE Attaching /\ disc.list = {} /\ disc.former = {} /\ NoDeletions
      <4>1. \A m \in Nodes : Holds(m) => (m \in vm /\ m \in group.nodes) \/ launch[m] # "no"
        BY <2>3, <3>2 DEF Holds
      <4> QED
        BY <3>2, <4>1 DEF Indexed, Held
    <3> QED
      BY <2>2, <3>1, <3>2
  <2>7. \A m \in Nodes \ {n} : Holds(m)' => Holds(m) /\ index'[m] = index[m] /\ index[m] # index'[n]
    BY <2>1, <2>5, <2>6 DEF Holds
  <2> QED
    BY <2>7 DEF Distinct
<1>29. ASSUME CleanupBegins PROVE Distinct'
  <2>1. UNCHANGED <<vm, index, launch, delete>>
    BY <1>29, CleanupBeginsEffect DEF Apart
  <2> QED
    BY <2>1 DEF Distinct, Holds
<1>30. ASSUME CleanupEnds PROVE Distinct'
  <2>1. index' = index /\ UNCHANGED <<launch, delete>> /\ vm' \subseteq vm
    BY <1>30, CleanupEndsEffect DEF Steady
  <2>2. \A m \in Nodes : Holds(m)' => Holds(m)
    BY <2>1 DEF Holds
  <2> QED
    BY <2>1, <2>2 DEF Distinct
<1>31. ASSUME Refresh PROVE Distinct'
  <2>1. UNCHANGED <<vm, index, launch, delete>>
    BY <1>31, OpensEffect DEF Still, Refresh
  <2> QED
    BY <2>1 DEF Distinct, Holds
<1>32. ASSUME RefreshEncodes PROVE Distinct'
  <2>1. UNCHANGED <<vm, index, launch, delete>>
    BY <1>32, EncodesEffect DEF Still, RefreshEncodes
  <2> QED
    BY <2>1 DEF Distinct, Holds
<1>33. ASSUME NEW n \in Nodes, KubectlDelete(n) PROVE Distinct'
  <2>1. UNCHANGED <<vm, index, launch, delete>>
    BY <1>33, KubectlDeleteEffect DEF Apart
  <2> QED
    BY <2>1 DEF Distinct, Holds
<1>34. ASSUME ListFails, ~Exits PROVE Distinct'
  <2>1. UNCHANGED <<vm, index, launch, delete>>
    BY <1>34, ListFailsEffect DEF Apart
  <2> QED
    BY <2>1 DEF Distinct, Holds
<1>35. ASSUME Crash PROVE Distinct'
  BY <1>35, DeathEffect
<1>36. ASSUME Exits PROVE Distinct'
  <2>1. Undiscovered /\ Forgotten
    <3>1. Forgotten
      BY <1>36, DeathEffect
    <3>2. main = "listen" \/ (disc.pc = "list" /\ disc.by # "connect")
      BY <1>36 DEF Exits
    <3>3. disc.by \in {"none", "load", "external", "connect"}
      BY DiscoveryFields DEF TypeOK
    <3>4. Undiscovered
      BY <3>2, <3>3 DEF PhaseInv, Undiscovered, Attaching
    <3> QED
      BY <3>1, <3>4
  <2>2. \A m \in Nodes : ~Holds(m)'
    BY <2>1 DEF Early, Forgotten, Holds
  <2> QED
    BY <2>2 DEF Distinct
<1>37. ASSUME Panics PROVE Distinct'
  BY <1>37, DeathEffect
<1>38. ASSUME UNCHANGED vars PROVE Distinct'
  BY <1>38 DEF Distinct, Holds, vars
<1> QED
  BY <1>1, <1>2, <1>3, <1>4, <1>5, <1>6, <1>7, <1>8, <1>9, <1>10, <1>11, <1>12, <1>13, <1>14, <1>15, <1>16,
    <1>17, <1>18, <1>19, <1>20, <1>21, <1>22, <1>23, <1>24, <1>25, <1>26, <1>27, <1>28, <1>29, <1>30,
    <1>31, <1>32, <1>33, <1>34, <1>35, <1>36, <1>37, <1>38, Cases

-----------------------------------------------------------------------------
(* All of it *)

LEMMA TypeOKStep ==
  ASSUME TypeOK, [Next]_vars
  PROVE  TypeOK'
<1>1. ASSUME StartFresh PROVE TypeOK'
  BY <1>1, StartFreshEffect
<1>2. ASSUME FirstSave PROVE TypeOK'
  BY <1>2, OpensEffect DEF FirstSave
<1>3. ASSUME FirstSaveEncodes PROVE TypeOK'
  BY <1>3, EncodesEffect DEF FirstSaveEncodes
<1>4. ASSUME Load PROVE TypeOK'
  BY <1>4, LoadEffect
<1>5. ASSUME ListenGrpc PROVE TypeOK'
  BY <1>5, ListenGrpcEffect
<1>6. ASSUME ListenExternal, ~ProvisionRefused(group) PROVE TypeOK'
  BY <1>6, ListenExternalEffect
<1>7. ASSUME Sync PROVE TypeOK'
  BY <1>7, OpensEffect DEF Sync
<1>8. ASSUME SyncEncodes PROVE TypeOK'
  BY <1>8, EncodesEffect DEF SyncEncodes
<1>9. ASSUME ListNodes PROVE TypeOK'
  BY <1>9, ListNodesEffect
<1>10. ASSUME Reset PROVE TypeOK'
  BY <1>10, ResetEffect
<1>11. ASSUME NEW n \in Nodes, Attach(n) PROVE TypeOK'
  BY <1>11, AttachEffect
<1>12. ASSUME AttachEnds PROVE TypeOK'
  BY <1>12, AttachEndsEffect
<1>13. ASSUME NEW n \in Nodes, Drop(n) PROVE TypeOK'
  BY <1>13, DropEffect
<1>14. ASSUME DiscoveryEnds PROVE TypeOK'
  BY <1>14, IdleFields, DiscoveryEndsEffect
<1>15. ASSUME NEW n \in Nodes, LaunchRefused(n) PROVE TypeOK'
  BY <1>15, LaunchRefusedEffect
<1>16. ASSUME NEW n \in Nodes, LaunchVM(n) PROVE TypeOK'
  BY <1>16, LaunchVMEffect
<1>17. ASSUME NEW n \in Nodes, AnnoteNode(n) PROVE TypeOK'
  BY <1>17, AnnoteNodeEffect
<1>18. ASSUME NEW n \in Nodes, RegisterNode(n) PROVE TypeOK'
  BY <1>18, RegisterNodeEffect
<1>19. ASSUME NEW n \in Nodes, LaunchEnds(n) PROVE TypeOK'
  BY <1>19, LaunchEndsEffect
<1>20. ASSUME NEW n \in Nodes, LaunchFails(n) PROVE TypeOK'
  BY <1>20, LaunchFailsEffect
<1>21. ASSUME NEW n \in Nodes, DeleteNodes(n) PROVE TypeOK'
  BY <1>21, DeleteNodesEffect
<1>22. ASSUME NEW n \in Nodes, DeleteMisses(n), ~Panics PROVE TypeOK'
  BY <1>22, DeleteMissesEffect
<1>23. ASSUME NEW n \in Nodes, DeletesVM(n) PROVE TypeOK'
  BY <1>23, DeletesVMEffect
<1>24. ASSUME NEW n \in Nodes, DeleteEnds(n) PROVE TypeOK'
  BY <1>24, DeleteEndsEffect
<1>25. ASSUME Connect PROVE TypeOK'
  BY <1>25, ConnectEffect
<1>26. ASSUME NEW min \in {0, 1}, NewNodeGroup(min) PROVE TypeOK'
  BY <1>26, NewNodeGroupEffect
<1>27. ASSUME Create PROVE TypeOK'
  BY <1>27, CreateEffect
<1>28. ASSUME NEW n \in Nodes, NEW base \in Indexes, NEW i \in Indexes, Grows(n, base, i) PROVE TypeOK'
  BY <1>28, GrowsEffect
<1>29. ASSUME CleanupBegins PROVE TypeOK'
  BY <1>29, CleanupBeginsEffect
<1>30. ASSUME CleanupEnds PROVE TypeOK'
  BY <1>30, CleanupEndsEffect
<1>31. ASSUME Refresh PROVE TypeOK'
  BY <1>31, OpensEffect DEF Refresh
<1>32. ASSUME RefreshEncodes PROVE TypeOK'
  BY <1>32, EncodesEffect DEF RefreshEncodes
<1>33. ASSUME NEW n \in Nodes, KubectlDelete(n) PROVE TypeOK'
  BY <1>33, KubectlDeleteEffect
<1>34. ASSUME ListFails, ~Exits PROVE TypeOK'
  BY <1>34, IdleFields, ListFailsEffect
<1>35. ASSUME Crash PROVE TypeOK'
  BY <1>35, DeathEffect
<1>36. ASSUME Exits PROVE TypeOK'
  BY <1>36, DeathEffect
<1>37. ASSUME Panics PROVE TypeOK'
  BY <1>37, DeathEffect
<1>38. ASSUME UNCHANGED vars PROVE TypeOK'
  BY <1>38 DEF vars, TypeOK
<1> QED
  BY <1>1, <1>2, <1>3, <1>4, <1>5, <1>6, <1>7, <1>8, <1>9, <1>10, <1>11, <1>12, <1>13, <1>14, <1>15, <1>16,
    <1>17, <1>18, <1>19, <1>20, <1>21, <1>22, <1>23, <1>24, <1>25, <1>26, <1>27, <1>28, <1>29, <1>30,
    <1>31, <1>32, <1>33, <1>34, <1>35, <1>36, <1>37, <1>38, Cases

\* What stays as it is, but for a crash and a panic.
Kept == env' = env /\ (crashes' = crashes \/ Crash) /\ (panicked' = panicked \/ Panics)

LEMMA KeptStep ==
  ASSUME TypeOK, [Next]_vars
  PROVE  Kept
<1> USE DEF Kept, Still, Apart, Forgotten
<1>1. ASSUME StartFresh PROVE Kept
  BY <1>1, StartFreshEffect
<1>2. ASSUME FirstSave PROVE Kept
  BY <1>2, OpensEffect DEF FirstSave
<1>3. ASSUME FirstSaveEncodes PROVE Kept
  BY <1>3, EncodesEffect DEF FirstSaveEncodes
<1>4. ASSUME Load PROVE Kept
  BY <1>4, LoadEffect
<1>5. ASSUME ListenGrpc PROVE Kept
  BY <1>5, ListenGrpcEffect
<1>6. ASSUME ListenExternal, ~ProvisionRefused(group) PROVE Kept
  BY <1>6, ListenExternalEffect
<1>7. ASSUME Sync PROVE Kept
  BY <1>7, OpensEffect DEF Sync
<1>8. ASSUME SyncEncodes PROVE Kept
  BY <1>8, EncodesEffect DEF SyncEncodes
<1>9. ASSUME ListNodes PROVE Kept
  BY <1>9, ListNodesEffect
<1>10. ASSUME Reset PROVE Kept
  BY <1>10, ResetEffect
<1>11. ASSUME NEW n \in Nodes, Attach(n) PROVE Kept
  BY <1>11, AttachEffect
<1>12. ASSUME AttachEnds PROVE Kept
  BY <1>12, AttachEndsEffect
<1>13. ASSUME NEW n \in Nodes, Drop(n) PROVE Kept
  BY <1>13, DropEffect
<1>14. ASSUME DiscoveryEnds PROVE Kept
  BY <1>14, IdleFields, DiscoveryEndsEffect
<1>15. ASSUME NEW n \in Nodes, LaunchRefused(n) PROVE Kept
  BY <1>15, LaunchRefusedEffect
<1>16. ASSUME NEW n \in Nodes, LaunchVM(n) PROVE Kept
  BY <1>16, LaunchVMEffect
<1>17. ASSUME NEW n \in Nodes, AnnoteNode(n) PROVE Kept
  BY <1>17, AnnoteNodeEffect
<1>18. ASSUME NEW n \in Nodes, RegisterNode(n) PROVE Kept
  BY <1>18, RegisterNodeEffect
<1>19. ASSUME NEW n \in Nodes, LaunchEnds(n) PROVE Kept
  BY <1>19, LaunchEndsEffect
<1>20. ASSUME NEW n \in Nodes, LaunchFails(n) PROVE Kept
  BY <1>20, LaunchFailsEffect
<1>21. ASSUME NEW n \in Nodes, DeleteNodes(n) PROVE Kept
  BY <1>21, DeleteNodesEffect
<1>22. ASSUME NEW n \in Nodes, DeleteMisses(n), ~Panics PROVE Kept
  BY <1>22, DeleteMissesEffect
<1>23. ASSUME NEW n \in Nodes, DeletesVM(n) PROVE Kept
  BY <1>23, DeletesVMEffect
<1>24. ASSUME NEW n \in Nodes, DeleteEnds(n) PROVE Kept
  BY <1>24, DeleteEndsEffect
<1>25. ASSUME Connect PROVE Kept
  BY <1>25, ConnectEffect
<1>26. ASSUME NEW min \in {0, 1}, NewNodeGroup(min) PROVE Kept
  BY <1>26, NewNodeGroupEffect
<1>27. ASSUME Create PROVE Kept
  BY <1>27, CreateEffect
<1>28. ASSUME NEW n \in Nodes, NEW base \in Indexes, NEW i \in Indexes, Grows(n, base, i) PROVE Kept
  BY <1>28, GrowsEffect
<1>29. ASSUME CleanupBegins PROVE Kept
  BY <1>29, CleanupBeginsEffect
<1>30. ASSUME CleanupEnds PROVE Kept
  BY <1>30, CleanupEndsEffect
<1>31. ASSUME Refresh PROVE Kept
  BY <1>31, OpensEffect DEF Refresh
<1>32. ASSUME RefreshEncodes PROVE Kept
  BY <1>32, EncodesEffect DEF RefreshEncodes
<1>33. ASSUME NEW n \in Nodes, KubectlDelete(n) PROVE Kept
  BY <1>33, KubectlDeleteEffect
<1>34. ASSUME ListFails, ~Exits PROVE Kept
  BY <1>34, IdleFields, ListFailsEffect
<1>35. ASSUME Crash PROVE Kept
  BY <1>35, DeathEffect, CrashEffect
<1>36. ASSUME Exits PROVE Kept
  BY <1>36, DeathEffect DEF Exits
<1>37. ASSUME Panics PROVE Kept
  BY <1>37, DeathEffect DEF Panics, Panic
<1>38. ASSUME UNCHANGED vars PROVE Kept
  BY <1>38 DEF vars
<1> QED
  BY <1>1, <1>2, <1>3, <1>4, <1>5, <1>6, <1>7, <1>8, <1>9, <1>10, <1>11, <1>12, <1>13, <1>14, <1>15, <1>16,
    <1>17, <1>18, <1>19, <1>20, <1>21, <1>22, <1>23, <1>24, <1>25, <1>26, <1>27, <1>28, <1>29, <1>30,
    <1>31, <1>32, <1>33, <1>34, <1>35, <1>36, <1>37, <1>38, Cases

LEMMA StaysUndisturbed ==
  ASSUME TypeOK, [Next]_vars, Undisturbed'
  PROVE  Undisturbed /\ ~Crash /\ ~Panics
<1>1. Kept
  BY KeptStep
<1>2. crashes' = 0 /\ ~panicked'
  BY DEF Undisturbed
<1>3. ~Crash
  <2>1. Crash => crashes' = crashes + 1 /\ crashes \in Nat
    BY CrashEffect, ServerAppAssumption DEF TypeOK
  <2> QED
    BY <1>2, <2>1
<1>4. ~Panics
  BY <1>2 DEF Panics, Panic
<1> QED
  BY <1>1, <1>2, <1>3, <1>4 DEF Undisturbed, Kept, Asked, May

LEMMA IndexInvStep ==
  ASSUME ServerInv, [Next]_vars
  PROVE  IndexInv'
<1>1. TypeOK /\ PhaseInv /\ RequestInv /\ MapsInv /\ DefinitionInv /\ CalmInv /\ LaunchInv /\ TidyInv /\ IndexInv
  BY DEF ServerInv
<1> SUFFICES ASSUME Undisturbed'
             PROVE  Early' /\ Held' /\ Seen' /\ Indexed' /\ Distinct'
  BY DEF IndexInv
<1>2. Undisturbed /\ ~Crash /\ ~Panics
  BY <1>1, StaysUndisturbed
<1>3. Early /\ Held /\ Seen /\ Indexed /\ Distinct
  BY <1>1, <1>2 DEF IndexInv
<1>4. Steady
  BY <1>1, <1>2, Steadiness
<1>5. Early'
  BY <1>1, <1>2, <1>3, EarlyStep
<1>6. Held'
  BY <1>1, <1>2, <1>3, <1>4, HeldStep
<1>7. Seen'
  BY <1>1, <1>2, <1>3, <1>4, SeenStep
<1>8. Indexed'
  BY <1>1, <1>2, <1>3, <1>4, IndexedStep
<1>9. Distinct'
  BY <1>1, <1>2, <1>3, <1>4, DistinctStep
<1> QED
  BY <1>5, <1>6, <1>7, <1>8, <1>9

LEMMA ServerInductive ==
  ASSUME ServerInv, [Next]_vars
  PROVE  ServerInv'
<1>1. /\ TypeOK /\ PhaseInv /\ RequestInv /\ MapsInv /\ DefinitionInv /\ PanicInv /\ CalmInv
      /\ LaunchInv /\ TidyInv /\ ListedInv /\ FoundInv /\ BackedInv
  BY DEF ServerInv
<1>2. TypeOK'
  BY <1>1, TypeOKStep
<1>3. PhaseInv'
  BY <1>1, PhaseInvStep
<1>4. RequestInv'
  BY <1>1, RequestInvStep
<1>5. MapsInv'
  BY <1>1, MapsInvStep
<1>6. DefinitionInv'
  BY <1>1, DefinitionInvStep
<1>7. PanicInv'
  BY <1>1, PanicInvStep
<1>8. CalmInv'
  BY <1>1, CalmInvStep
<1>9. LaunchInv'
  BY <1>1, LaunchInvStep
<1>10. TidyInv'
  BY <1>1, TidyInvStep
<1>11. ListedInv'
  BY <1>1, ListedInvStep
<1>12. FoundInv'
  BY <1>1, FoundInvStep
<1>13. BackedInv'
  BY <1>1, BackedInvStep
<1>14. IndexInv'
  BY IndexInvStep
<1> QED
  BY <1>2, <1>3, <1>4, <1>5, <1>6, <1>7, <1>8, <1>9, <1>10, <1>11, <1>12, <1>13, <1>14 DEF ServerInv

LEMMA ServerInitially == Init => ServerInv
<1> SUFFICES ASSUME Init PROVE ServerInv
  OBVIOUS
<1>1. /\ env \in Environments /\ main = "down" /\ group = Absent /\ defs = "none" /\ auto = FALSE
      /\ limits = "config" /\ disc = Idle /\ file = NoFile("none") /\ vm = {} /\ kube = {}
      /\ cleaning = FALSE /\ connected = FALSE /\ panicked = FALSE /\ crashes = 0 /\ connects = 0
  BY DEF Init
<1>2. /\ launch \in [Nodes -> {"no", "reserved", "created", "annotated", "registered"}]
      /\ delete \in [Nodes -> {"no", "asked", "gone"}] /\ index \in [Nodes -> Indexes]
      /\ NoLaunches /\ NoDeletions
  BY NodesFinite, ServerAppAssumption DEF Init, NoLaunches, NoDeletions, Indexes
<1>3. /\ group \in Group /\ Missing(group) /\ group.status = "absent" /\ group.nodes = {} /\ group.pending = {}
      /\ NilMaps(group)
  BY <1>1, AbsentFields DEF Missing
<1>4. /\ disc \in Discovery /\ disc.pc = "idle" /\ disc.by = "none" /\ disc.list = {} /\ disc.former = {}
      /\ disc.known = FALSE
  BY <1>1, IdleFields
<1>5. /\ file \in Saved /\ file.is = "none" /\ file.auto = FALSE /\ Missing(file.group)
      /\ file.group.nilPending /\ file.group.pending = {}
  <2>1. file.group = Absent
    BY <1>1 DEF NoFile
  <2> QED
    BY <1>1, <2>1, NoFileFields, AbsentFields DEF Saved, NoFile
<1> DEFINE Plain == /\ env \in Environments /\ main = "down" /\ defs = "none" /\ auto = FALSE
                    /\ limits = "config" /\ vm = {} /\ kube = {} /\ cleaning = FALSE /\ connected = FALSE
                    /\ panicked = FALSE /\ crashes = 0 /\ connects = 0
<1>6. Plain
  BY <1>1
<1>7. TypeOK
  <2>1. crashes \in 0 .. MaxCrashes /\ connects \in 0 .. MaxConnects
    BY <1>6, ServerAppAssumption
  <2>2. group \in Group /\ disc \in Discovery /\ file \in Saved
    BY <1>3, <1>4, <1>5
  <2> QED
    BY <1>2, <1>6, <2>1, <2>2 DEF TypeOK
<1>8. PhaseInv /\ RequestInv /\ MapsInv /\ DefinitionInv
  <2>1. PhaseInv
    BY <1>2, <1>4, <1>6 DEF PhaseInv, Attaching, Serving
  <2>2. RequestInv
    BY <1>2, <1>6 DEF RequestInv, Nodes, NoLaunches, NoDeletions
  <2>3. MapsInv
    BY <1>2, <1>3, <1>4, <1>5, <1>6 DEF MapsInv, Attaching
  <2>4. DefinitionInv
    BY <1>4, <1>5, <1>6 DEF DefinitionInv
  <2> QED
    BY <2>1, <2>2, <2>3, <2>4
<1>9. PanicInv /\ CalmInv
  BY <1>1, <1>2, <1>3, <1>4, <1>5 DEF PanicInv, CalmInv, Attaching, Serving, NoLaunches
<1>10. LaunchInv /\ TidyInv /\ ListedInv /\ FoundInv /\ BackedInv
  BY <1>1, <1>2, <1>3, <1>4 DEF LaunchInv, TidyInv, ListedInv, FoundInv, Found, BackedInv, Attaching,
    NoLaunches, NoDeletions
<1>11. Early /\ Held /\ Seen /\ Indexed /\ Distinct
  BY <1>1, <1>2, <1>3, <1>4, <1>5 DEF Early, Held, Seen, Indexed, Distinct, Holds, Attaching, NoLaunches,
    NoDeletions
<1> QED
  BY <1>7, <1>8, <1>9, <1>10, <1>11 DEF ServerInv, IndexInv

-----------------------------------------------------------------------------
(* The theorems *)

\* The invariant holds in every state the process can reach: of its start, fresh or from a
\* saved state, of the discovery, of the requests, and after any number of crashes.
THEOREM ServerInvariance == Spec => []ServerInv
<1>1. ServerInv /\ [Next]_vars => ServerInv'
  BY ServerInductive
<1> QED
  BY <1>1, ServerInitially, PTL DEF Spec

\* The maps of the group hold nodes and indexes only, and every step of a discovery, of a
\* launch and of a deletion is one of those the code has.
THEOREM ServerTypeCorrect == Spec => []TypeOK
<1>1. ServerInv => TypeOK
  BY DEF ServerInv
<1> QED
  BY <1>1, ServerInvariance, PTL

\* findManagedNodeDeleted drops the VM of a node only if its Kubernetes node is gone, or the
\* definition ignores it, or it got its annotations after NodeList had answered, or
\* AttachInstance has just failed for it.
THEOREM ServerDropsOnlyUnlisted == Spec => []DropsOnlyUnlisted
<1>1. ServerInv => DropsOnlyUnlisted
  <2> SUFFICES ASSUME ServerInv, disc.pc = "drop", Unmixed, NEW n \in Nodes, Gone(n), n \in kube,
                      n \notin disc.fresh, n \notin disc.unattached
               PROVE  n \in ManagedNames /\ defs = "ignore"
    BY DEF DropsOnlyUnlisted, Unmixed
  <2>1. disc.list = {} /\ disc.by # "none"
    BY DEF ServerInv, PhaseInv
  <2>2. defs = Definition
    BY <2>1 DEF ServerInv, DefinitionInv
  <2>3. n \in disc.former /\ n \in vm /\ n \notin group.nodes \cup group.pending
    BY DEF Gone
  <2>4. ~Wanted(n)
    BY <2>1, <2>3 DEF ServerInv, ListedInv, Attaching
  <2> QED
    BY <2>2, <2>4 DEF Wanted, Definition, Nodes
<1> QED
  BY <1>1, ServerInvariance, PTL

\* Once a discovery has succeeded, and until the group is removed, the group knows the nodes
\* that are there and were attached: those a former process launched, and none that was deleted
\* meanwhile.  A node that AttachInstance failed for is the exception.
THEOREM ServerDiscoveryFinds == Spec => []DiscoveryFinds
<1>1. ServerInv => DiscoveryFinds
  <2> SUFFICES ASSUME ServerInv, connected, disc.pc = "idle", ~May("delete"), Unmixed,
                      NEW n \in Nodes, launch[n] = "no", delete[n] = "no"
               PROVE  /\ n \in (Handled \cap vm) \ disc.unattached => n \in group.nodes
                      /\ n \in group.nodes /\ env.attach = "checks" => n \in vm
    BY DEF DiscoveryFinds, Unmixed
  <2>1. defs = Definition
    BY DEF ServerInv, DefinitionInv
  <2>2. n \in Handled => n \in kube /\ Wanted(n)
    BY <2>1 DEF Handled, Wanted
  <2>3. n \in kube /\ n \in vm /\ Wanted(n) /\ n \notin disc.unattached => Found(n)
    BY DEF ServerInv, FoundInv
  <2>4. n \in group.nodes /\ env.attach = "checks" => n \in vm
    BY DEF ServerInv, BackedInv
  <2> QED
    BY <2>2, <2>3, <2>4 DEF Found
<1> QED
  BY <1>1, ServerInvariance, PTL

\* No write to a map that newNodeGroup or gob left nil, and no use of a group that a Cleanup
\* removed, but for the exceptions that NoPanic names.
THEOREM ServerNoPanic == Spec => []NoPanic
<1>1. ServerInv => NoPanic
  BY DEF ServerInv, PanicInv, PanicFree, NoPanic
<1> QED
  BY <1>1, ServerInvariance, PTL

\* findNextNodeIndex never gives out an index that a node with a VM has, although the indexes
\* are rebuilt from annotations at every discovery: the part of AddressesDistinct that does
\* not depend on how the addresses are computed.
THEOREM ServerIndexesDistinct == Spec => [](Undisturbed => \A n, m \in vm : n # m => index[n] # index[m])
<1>1. ServerInv => (Undisturbed => \A n, m \in vm : n # m => index[n] # index[m])
  BY DEF ServerInv, IndexInv, Distinct, Holds, TypeOK
<1> QED
  BY <1>1, ServerInvariance, PTL

-----------------------------------------------------------------------------
(* The static addresses of the nodes of a group (module Network) *)

\* What the addition of unsigned integers gives.
LEMMA WrapAround ==
  ASSUME NEW W \in Nat \ {0}, NEW a \in 0 .. (W - 1), NEW b \in 0 .. (W - 1)
  PROVE  (a + b) % W = IF a + b < W THEN a + b ELSE a + b - W
  OBVIOUS

\* Clone gives two workers with different indexes from 1 on different addresses, also where
\* the addresses wrap around: to as many workers as there are addresses.
THEOREM WorkersDiffer ==
  ASSUME NEW inet \in NetworkInterface, inet.address.is = "ipv4",
         NEW i \in 1 .. AddressSpace, NEW j \in 1 .. AddressSpace, i # j
  PROVE  CloneAddress(inet, FALSE, i) # CloneAddress(inet, FALSE, j)
<1> DEFINE at == inet.address.at
<1>1. AddressSpace \in Nat \ {0}
  BY NetworkAssumption
<1>2. at \in 0 .. (AddressSpace - 1)
  BY DEF NetworkInterface, IPAddress
<1> HIDE DEF at
<1>3. (at + (i - 1)) % AddressSpace # (at + (j - 1)) % AddressSpace
  <2>1. i - 1 \in 0 .. (AddressSpace - 1) /\ j - 1 \in 0 .. (AddressSpace - 1)
    BY <1>1
  <2>2. (at + (i - 1)) % AddressSpace
          = IF at + (i - 1) < AddressSpace THEN at + (i - 1) ELSE at + (i - 1) - AddressSpace
    BY <1>1, <1>2, <2>1, WrapAround
  <2>3. (at + (j - 1)) % AddressSpace
          = IF at + (j - 1) < AddressSpace THEN at + (j - 1) ELSE at + (j - 1) - AddressSpace
    BY <1>1, <1>2, <2>1, WrapAround
  <2> QED  BY <1>1, <1>2, <2>2, <2>3
<1>4. CloneAddress(inet, FALSE, i).at = (at + (i - 1)) % AddressSpace
  BY <1>1 DEF CloneAddress, IPv4, at
<1>5. CloneAddress(inet, FALSE, j).at = (at + (j - 1)) % AddressSpace
  BY <1>1 DEF CloneAddress, IPv4, at
<1> QED  BY <1>3, <1>4, <1>5

\* ... but the first two indexes that findNextNodeIndex gives out, 0 and 1, have one address,
\* that of the configuration, and so have all control planes.
THEOREM FirstTwoShare ==
  ASSUME NEW inet \in NetworkInterface, inet.address.is = "ipv4", NEW i \in Nat, NEW j \in Nat
  PROVE  /\ CloneAddress(inet, FALSE, 0) = CloneAddress(inet, FALSE, 1)
         /\ CloneAddress(inet, TRUE, i) = CloneAddress(inet, TRUE, j)
<1>1. inet.address = IPv4(inet.address.at) /\ inet.address.at \in 0 .. (AddressSpace - 1)
  BY DEF NetworkInterface, IPAddress, IPv4
<1>2. \A a \in 0 .. (AddressSpace - 1) : (a + (1 - 1)) % AddressSpace = a
  BY NetworkAssumption
<1> QED  BY <1>1, <1>2 DEF CloneAddress
=============================================================================
