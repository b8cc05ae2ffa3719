---------------------------- MODULE MCServerApp ----------------------------
EXTENDS ServerApp

Env(front, save, requests, faults) ==
  [front |-> front, save |-> save, attach |-> "checks", include |-> TRUE, min |-> 0,
   requests |-> requests, faults |-> faults]

\* An interface with a static address near the end of the address space, one with DHCP, and
\* one that is off; a ManagedNode gives the second an address.
MCInterfaces ==
  << [network |-> "lan", enabled |-> TRUE, primary |-> TRUE, dhcp |-> FALSE, address |-> IPv4(AddressSpace - 2)],
     [network |-> "nat", enabled |-> TRUE, primary |-> FALSE, dhcp |-> TRUE, address |-> [is |-> "dhcp"]],
     [network |-> "lan", enabled |-> TRUE, primary |-> TRUE, dhcp |-> FALSE, address |-> [is |-> "none"]] >>

MCNetworking ==
  << [network |-> "nat", dhcp |-> FALSE, address |-> IPv4(1)], [network |-> "wan", dhcp |-> TRUE, address |-> NoAddress] >>

MCEnvironments ==
  { Env("externalgrpc", TRUE, {"delete", "refresh"}, {"crash"}),
    Env("externalgrpc", TRUE, {"managed", "refresh"}, {"crash", "savecrash"}),
    [Env("externalgrpc", TRUE, {"delete", "kubectl", "refresh"}, {"crash"}) EXCEPT !.attach = "blind"],
    Env("externalgrpc", FALSE, {"delete", "cleanup"}, {"delete", "crash"}),
    Env("externalgrpc", FALSE, {}, {"list", "crash"}),
    [Env("externalgrpc", FALSE, {}, {"list"}) EXCEPT !.min = 1],
    Env("grpc", TRUE, {"delete", "refresh"}, {"crash"}),
    Env("externalgrpc", TRUE, {"refresh", "kubectl"}, {"crash", "attach"}),
    Env("grpc", FALSE, {"delete"}, {"attach"}),
    Env("grpc", FALSE, {"managed"}, {"attach", "delete", "launch"}),
    Env("grpc", FALSE, {"managed", "kubectl"}, {"launch"}),
    Env("grpc", FALSE, {"managed", "busy"}, {}),
    Env("grpc", FALSE, {"kubectl", "busy"}, {"launch", "delete"}),
    [Env("grpc", TRUE, {"managed"}, {"crash"}) EXCEPT !.include = FALSE],
    [Env("grpc", FALSE, {"delete", "kubectl", "busy"}, {}) EXCEPT !.attach = "blind"],
    [Env("grpc", FALSE, {"newgroup", "cleanup"}, {"list", "delete"}) EXCEPT !.min = 1] }
=============================================================================
