-------------------------- MODULE MCManagedNodes --------------------------
EXTENDS ManagedNodesInv

CONSTANTS r1, r2

Env(requests, faults, maxNodes) ==
  [requests |-> requests, faults |-> faults, unregistered |-> {}, controlPlanes |-> {},
   maxNodes |-> maxNodes]

MCResources == {r1, r2}

\* Only one of the resources gets a node.
Failing(requests, faults) == [Env(requests, faults, 2) EXCEPT !.unregistered = {r1}]

MCEnvironments ==
  { Env({"delete", "remove"}, {"add"}, 2),
    Env({"delete", "remove"}, {}, 1),
    [Env({"delete", "remove"}, {}, 2) EXCEPT !.unregistered = {r1}, !.controlPlanes = {r2}],
    Env({"delete", "hasty", "lag"}, {}, 2),
    Env({"delete", "lag"}, {"update"}, 2),
    Env({"remove", "hasty"}, {}, 2),
    Env({"restart", "lag"}, {"update"}, 2),
    Env({"delete", "restart"}, {}, 2),
    Env({"crash"}, {}, 2),
    Failing({"delete", "remove"}, {"delete"}),
    Failing({"delete", "restart"}, {"delete"}),
    Failing({"delete", "hasty"}, {"delete"}),
    Failing({"crash"}, {"delete", "attach"}) }

MCHasty == { Env({"delete", "hasty"}, {}, 2) }
=============================================================================
