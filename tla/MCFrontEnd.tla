---------------------------- MODULE MCFrontEnd ----------------------------
(***************************************************************************)
(* FrontEnd for TLC: two groups, and three nodes of one of them.            *)
(***************************************************************************)
EXTENDS FrontEnd, TLC

CallerSymmetry == Permutations(Callers)

MCOwner == [n \in Nodes |-> "a"]
Conf(front, optionals, ids, mins, overlap, faults) ==
  [front |-> front, optionals |-> optionals, ids |-> ids, mins |-> mins, overlap |-> overlap,
   options |-> ids = "k3s", faults |-> faults]
MCConfigurations ==
  {Conf("grpc", {}, "provider", {0, 1}, FALSE, {"launch"}),
   Conf("grpc", {"Create"}, "none", {0}, FALSE, {"delete", "status"}),
   Conf("grpc", {"Delete", "NewNodeGroup"}, "k3s", {0}, TRUE, {}),
   Conf("externalgrpc", {}, "provider", {}, FALSE, {"launch"})}
=============================================================================
