------------------------------- MODULE MCNode -------------------------------
(* Instances of Node for model checking. *)
EXTENDS Node

\* The requests of the program, everything but deletions failing; and two calm ones,
\* in which the state of the node can be relied on.
MCEnvironments ==
  { [requests |-> {"delete", "early", "refresh"}, faults |-> {"launch", "kube"}],
    [requests |-> {"delete", "refresh", "power"}, faults |-> {"launch"}],
    [requests |-> {"delete", "power"}, faults |-> {"kube"}] }
=============================================================================
