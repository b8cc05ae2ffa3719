---------------------------- MODULE FrontEndInv ----------------------------
(***************************************************************************)
(* Why the properties of FrontEnd hold: its inductive invariants.            *)
(***************************************************************************)
EXTENDS FrontEnd

\* What is in TypeOK about the state.
Types ==
  /\ conf \in Configurations /\ groups \in [GroupIds -> Group]
  /\ state \in [Nodes -> {"NotCreated", "Creating", "Running", "Deleting", "Deleted"}]
  /\ phase \in [Nodes -> {"no", "reserved", "launching", "registered", "stray"}]
  /\ vm \subseteq Nodes /\ call \in [Callers -> Call] /\ down \in BOOLEAN

Members(id) == groups[id].nodes \cup groups[id].pending
Busy(n) == phase[n] \in {"reserved", "launching", "registered"}

-----------------------------------------------------------------------------
(* Groups *)

\* A group has its own nodes, none of them a stray.  One that is pending is listed twice exactly
\* while it is registered.
ListedOnce ==
  \A id \in GroupIds :
    /\ \A n \in Members(id) : Owner[n] = id /\ phase[n] # "stray"
    /\ \A n \in groups[id].pending : n \in groups[id].nodes <=> phase[n] = "registered"

\* A group that is not created, or no more, has no nodes, and nothing is launched for it.
OthersEmpty ==
  \A id \in GroupIds : groups[id].status \in {"absent", "NotCreated", "Deleted"} =>
    Members(id) = {} /\ \A n \in Nodes : Owner[n] = id => ~Busy(n)

Books == ListedOnce /\ OthersEmpty

-----------------------------------------------------------------------------
(* Handlers *)

\* A handler that cleans up has its groups left; there is one at most.
CleanerTrue ==
  \A c \in Callers :
    /\ call[c].method \in {"Delete", "Cleanup"} <=> call[c].pc \in {"cleanup", "waiting"}
    /\ call[c].method = "Delete" => Grpc /\ call[c].group \in GroupIds /\ call[c].groups \subseteq {call[c].group}
                                    /\ "Delete" \notin conf.optionals
    /\ call[c].pc = "waiting" => call[c].group \in call[c].groups
    /\ \A d \in Callers : call[c].method \in {"Delete", "Cleanup"} /\ call[d].method \in {"Delete", "Cleanup"} => c = d

\* The group of a Delete is cleaned up unless it is left to do.
DeleteTrue ==
  \A c \in Callers : call[c].method = "Delete" =>
    \A id \in {call[c].group} \ call[c].groups : groups[id].status = "Deleted"

\* The method of a handler goes with its place.
CallTrue ==
  \A c \in Callers :
    /\ call[c].pc = "idle" => call[c] = NoCall
    /\ call[c].method = "DeleteNodes" <=> call[c].pc \in {"delete", "deleting"}
    /\ call[c].method = "IncreaseSize" <=> call[c].pc = "launch"
    /\ call[c].pc = "launch" => Grpc
    /\ call[c].pc = "deleting" => call[c].docs # <<>> /\ Head(call[c].docs).name \in Nodes

Calls == CleanerTrue /\ CallTrue

GroupsInv == Types /\ Books /\ Calls /\ DeleteTrue

-----------------------------------------------------------------------------
(* One request at a time *)

OneRequest == Grpc /\ ~conf.overlap

\* One handler is at work.  What is launched is launched for it, and is pending.
OneHandler ==
  OneRequest =>
    /\ \A c, d \in Callers : c # d => call[c].pc = "idle" \/ call[d].pc = "idle"
    /\ \A n \in Nodes : phase[n] # "no" =>
         Busy(n) /\ n \in groups[Owner[n]].pending /\ \E c \in Callers : call[c].pc = "launch" /\ n \in call[c].todo

SizeBounded ==
  OneRequest => \A id \in GroupIds : Cardinality(Members(id)) <= MaxNodeSize

-----------------------------------------------------------------------------
(* Deletions *)

\* No deletion fails and no two are at one node.
CleanDeletions ==
  /\ "delete" \notin conf.faults
  /\ Grpc /\ conf.overlap => "Delete" \in conf.optionals

\* A node of a group that is being deleted is deleted by a handler.
DeletingTrue ==
  ~down => \A n \in Nodes :
    n \in vm /\ state[n] = "Deleting" /\ n \in Members(Owner[n]) /\ "delete" \notin conf.faults =>
      \E c \in Callers : call[c].pc = "deleting" /\ Head(call[c].docs).name = n

\* A group that cannot be used is being cleaned up, and will be forgotten.
UsableTrue ==
  CleanDeletions =>
    /\ \A id \in GroupIds : groups[id].status \in {"Deleting", "Deleted"} =>
         \E c \in Callers : call[c].method = "Cleanup" \/ (call[c].method = "Delete" /\ call[c].group = id)
    /\ \A c \in Callers : call[c].method = "Delete" => call[c].ok

\* With one request at a time Cleanup forgets only what it has cleaned up.
CleanupTrue ==
  ~conf.overlap =>
    /\ \A c \in Callers : call[c].method = "Cleanup" =>
         \A id \in GroupIds \ call[c].groups : groups[id].status \in {"absent", "Deleted"}
    /\ \A n \in Nodes : phase[n] # "stray"

\* Every VM is known, launched or deleted: NoVMForgotten.
VMInv == DeletingTrue /\ CleanupTrue /\ NoVMForgotten
FrontInv == GroupsInv /\ OneHandler /\ SizeBounded /\ VMInv /\ UsableTrue
=============================================================================
