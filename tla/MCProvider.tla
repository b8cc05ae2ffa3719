----------------------------- MODULE MCProvider -----------------------------
(* Instances of Provider for TLC. *)
EXTENDS Provider, TLC

CONSTANTS c1, c2

Symmetry == Permutations({c1, c2})

\* Everything that may go wrong: no fault, any one, two or three together, and all.
Faults == {f \in SUBSET FaultKinds : Cardinality(f) <= 3} \cup {FaultKinds}

\* With and without a public address for the providers that have one.
EnvironmentsAll ==
  {e \in [kind : Kinds, faults : Faults, public : BOOLEAN, dns : {TRUE}] :
     e.public => e.kind \in {"cloudstack", "openstack"}}

\* aws with Route 53, where a request may be refused and the VM may fail to boot.
EnvironmentsAws == {[kind |-> "aws", faults |-> {"refused", "boot"}, public |-> FALSE, dns |-> TRUE]}
=============================================================================
