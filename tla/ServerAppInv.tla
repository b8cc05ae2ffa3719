---------------------------- MODULE ServerAppInv ----------------------------
(***************************************************************************)
(* The inductive invariant of module ServerApp: what makes                   *)
(* DropsOnlyUnlisted, DiscoveryFinds, NoPanic and the first part of          *)
(* AddressesDistinct true in every state.  Each part is about one concern    *)
(* and leans on those before it.                                             *)
(***************************************************************************)
EXTENDS ServerApp

NoLaunches == \A n \in Nodes : launch[n] = "no"
NoDeletions == \A n \in Nodes : delete[n] = "no"

Attaching == disc.pc \in {"attach", "drop"}

\* There is no group g.
Missing(g) == g.status = "absent" /\ g.nodes = {} /\ g.pending = {} /\ NilMaps(g)

-----------------------------------------------------------------------------
(* Where the process is *)

PhaseInv ==
  /\ disc.pc = "idle" <=> disc.by = "none"
  /\ disc.by = "none" => ~disc.known
  /\ main = "provision" <=> disc.by \in {"load", "external"}
  /\ disc.by = "connect" => Serving
  /\ disc.pc # "attach" /\ disc.pc # "reset" => disc.list = {}
  /\ ~Attaching => disc.former = {}
  /\ ~Serving => NoDeletions /\ ~cleaning
  /\ cleaning => disc.by = "none" /\ ~connected
  /\ main \in {"encode", "syncEncode", "refreshEncode"} => file.is = "truncated"
  /\ main = "refreshEncode" => Asked("refresh")

\* What is done was asked for.
RequestInv ==
  /\ cleaning => Asked("cleanup")
  /\ \A n \in Nodes : delete[n] # "no" => Asked("delete")
  /\ \A n \in ManagedNames : launch[n] # "no" \/ n \in vm => Asked("managed")

\* A group has its maps from its first discovery on; the saved ones have none for pending nodes.
MapsInv ==
  /\ main \in {"down", "firstSave", "encode"} => Missing(group)
  /\ main \in {"down", "firstSave", "encode"} \/ disc.by = "load" => NoLaunches
  /\ main = "listen" /\ ~auto => NilMaps(group) /\ NoLaunches
  /\ disc.by = "external" /\ disc.pc \in {"list", "reset"} => NilMaps(group) /\ NoLaunches
  /\ Attaching \/ connected \/ disc.known => ~NilMaps(group)
  /\ file.group.nilPending /\ file.group.pending = {}
  /\ group.status = "absent" => Missing(group) /\ NoLaunches
  /\ file.group.status = "absent" => Missing(file.group)
  /\ disc.by = "load" => auto
  /\ disc.by # "none" => group.status # "absent"

\* What the definition says of existing nodes, once the group was provisioned.
Definition == IF env.front = "externalgrpc" \/ env.include THEN "include" ELSE "ignore"

Wanted(n) == n \in AutoNames \/ Definition = "include"

DefinitionInv ==
  /\ auto => env.front = "grpc" /\ defs = Definition
  /\ file.auto => env.front = "grpc" /\ file.defs = Definition
  /\ disc.by # "none" \/ connected => defs = Definition
  /\ \A n \in disc.list : Wanted(n)

-----------------------------------------------------------------------------
(* No panic *)

PanicFree ==
  /\ ~Asked("newgroup") /\ ~Asked("managed") /\ ~May("list")
  /\ ~(Asked("cleanup") /\ Asked("delete"))
  /\ ~(env.front = "grpc" /\ Asked("refresh") /\ May("crash"))

PanicInv ==
  PanicFree =>
    /\ ~panicked
    /\ env.front = "externalgrpc" /\ main \notin {"down", "firstSave", "encode", "listen"}
         /\ ~Asked("cleanup") => group.status # "absent"
    /\ env.front = "grpc" =>
         /\ ~Serving => Missing(group) /\ ~auto
         /\ (~Serving \/ ~Asked("refresh")) /\ file.is = "whole" =>
              Missing(file.group) /\ ~file.auto
    /\ (Serving \/ main \in {"sync", "syncEncode"}) /\ disc.pc \notin {"list", "reset"}
         /\ group.status = "Created" => ~NilMaps(group)

-----------------------------------------------------------------------------
(* Launches and deletions, and the discovery meanwhile *)

\* Unless clients overlap, nothing goes on when a discovery begins.
CalmInv ==
  ~Asked("busy") =>
    /\ disc.by # "none" => NoDeletions
    /\ disc.pc \in {"list", "reset"} \/ disc.by = "connect" => NoLaunches
    /\ \A n \in Nodes : Attaching /\ launch[n] # "no" => n \in group.pending

LaunchInv ==
  \A n \in Nodes :
    /\ launch[n] = "reserved" => n \notin vm
    /\ n \in group.pending /\ launch[n] = "no" => n \notin vm
    /\ Attaching /\ n \in group.pending /\ launch[n] = "registered" => n \in group.nodes

\* Launches and deletions do not meet.  An overlap comes of a Connect amid them, or when Cleanup
\* leaves the group behind, empty: the name may then be reserved, but no launch begins.
Left == May("delete") /\ group.status \in {"Deleting", "Deleted"}

TidyInv ==
  Unmixed =>
    /\ kube \subseteq vm
    /\ disc.pc \in {"reset", "attach"} => disc.list \subseteq vm
    /\ \A n \in Nodes :
         /\ launch[n] \in {"created", "annotated"} => n \in vm
         /\ launch[n] = "annotated" => n \in kube
         /\ launch[n] \in {"reserved", "created"} =>
              n \notin kube \cup group.nodes \cup disc.list
         /\ launch[n] = "annotated" /\ n \in group.nodes =>
              Wanted(n) /\ (disc.pc = "reset" => n \in disc.list)
         /\ Attaching /\ n \in disc.former
              /\ launch[n] \in {"reserved", "created", "annotated"} =>
              n \in disc.list \cup group.nodes \cup group.pending
         /\ delete[n] # "no" =>
              /\ launch[n] = "no" \/ (launch[n] = "reserved" /\ Left)
              /\ n \in group.nodes \/ NilMaps(group) \/ Left
              /\ delete[n] = "gone" /\ ~May("delete") => n \notin vm

\* NodeList has answered with every node that the discovery must not take for a lost one.
ListedInv ==
  Unmixed =>
    /\ disc.pc = "reset" => \A n \in kube \ disc.fresh : Wanted(n) => n \in disc.list
    /\ Attaching => \A n \in (disc.former \cap vm \cap kube) \ disc.fresh :
         Wanted(n) => n \in disc.list \cup group.nodes \cup group.pending \cup disc.unattached

\* A node that is there, and was attached, is known: to the discovery, and then to the group.
Found(n) ==
  /\ disc.pc = "reset" => n \in disc.list \cup group.nodes
  /\ Attaching => n \in disc.list \cup group.nodes \cup disc.former
  /\ disc.pc = "idle" /\ connected => n \in group.nodes

FoundInv ==
  Unmixed /\ ~May("delete") =>
    \A n \in Nodes :
      /\ n \in kube /\ n \in vm /\ Wanted(n) /\ n \notin disc.unattached
      /\ launch[n] \in {"no", "registered"} /\ delete[n] = "no"
      => Found(n)

\* The group has no others.
BackedInv ==
  /\ Unmixed /\ ~May("delete") /\ env.attach = "checks"
  /\ Attaching \/ (disc.pc = "idle" /\ connected)
  =>
    \A n \in Nodes : n \in group.nodes => n \in vm \/ delete[n] = "gone"

-----------------------------------------------------------------------------
(* Indexes *)

Undiscovered ==
  main \in {"down", "firstSave", "encode", "listen"} \/ (main = "provision" /\ ~Attaching)

Holds(n) == n \in vm \/ launch[n] # "no" \/ delete[n] # "no"

\* Nothing is there before the first discovery, so that no state with a group is loaded.
Early ==
  /\ Undiscovered => /\ vm = {} /\ kube = {} /\ NoLaunches /\ group.nodes = {}
                     /\ Missing(file.group) /\ ~file.auto /\ ~auto
  /\ disc.by = "external" => disc.list = {} /\ disc.former = {}
  /\ disc.by # "load"

\* A node that is being launched keeps its place in the group and its index.
Held ==
  /\ NilMaps(group) => AutoNames \cap vm = {} /\ NoLaunches
  /\ \A n \in Nodes :
       /\ launch[n] # "no" => n \in group.pending /\ index[n] \in group.running
       /\ launch[n] = "registered" => n \in group.nodes
       /\ n \in group.nodes => n \in vm \/ delete[n] = "gone"
       /\ n \in ManagedNames \cap vm /\ launch[n] # "created" => n \in kube

\* The group, or the discovery, knows every VM, ...
Seen ==
  \A n \in vm :
    /\ disc.pc \in {"idle", "list"} /\ ~NilMaps(group) => n \in group.nodes \/ launch[n] # "no"
    /\ disc.pc = "reset" => n \in disc.list \cup group.nodes
    /\ Attaching => n \in disc.list \cup group.nodes \cup disc.former \/ launch[n] # "no"

\* ... and its index is taken, ...
Indexed ==
  \A n \in Nodes :
    /\ ~Attaching /\ ~NilMaps(group) /\ Holds(n) => index[n] \in group.running
    /\ Attaching /\ n \in group.nodes \cap vm => index[n] \in group.running

\* ... by no other node.
Distinct == \A n, m \in Nodes : Holds(n) /\ Holds(m) /\ index[n] = index[m] => n = m

IndexInv == Undisturbed => Early /\ Held /\ Seen /\ Indexed /\ Distinct

ServerInv ==
  /\ TypeOK /\ PhaseInv /\ RequestInv /\ MapsInv /\ DefinitionInv /\ PanicInv /\ CalmInv
  /\ LaunchInv /\ TidyInv /\ ListedInv /\ FoundInv /\ BackedInv /\ IndexInv
=============================================================================
