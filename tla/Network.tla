------------------------------ MODULE Network ------------------------------
(***************************************************************************)
(* The network interfaces of a VM (providers/network.go): how those of the   *)
(* configuration are completed when it is loaded, copied for a node with the *)
(* static addresses of its index, and changed as a ManagedNode asks for.     *)
(* Netmasks, routes, adapters and MAC addresses are left out.                *)
(*                                                                           *)
(* An IPv4 address is a number.                                              *)
(***************************************************************************)
EXTENDS Naturals, Sequences
LOCAL INSTANCE SequencesExt

CONSTANT AddressSpace  \* how many IPv4 addresses there are: 2^32 in the code

ASSUME NetworkAssumption == AddressSpace \in Nat \ {0}

\* IPAddress: an IPv4 address, one of the two words, or the empty string.
IPAddress == [is : {"empty", "dhcp", "none"}] \cup [is : {"ipv4"}, at : 0 .. (AddressSpace - 1)]
NoAddress == [is |-> "empty"]
IPv4(at) == [is |-> "ipv4", at |-> at]

\* NetworkInterface, as far as addresses go, and what a ManagedNode says of one.
NetworkInterface == [network : STRING, enabled : BOOLEAN, primary : BOOLEAN, dhcp : BOOLEAN, address : IPAddress]
ManagedNetworkInterface == [network : STRING, dhcp : BOOLEAN, address : IPAddress]

\* ConfigurationDidLoad, of one interface: the words become settings.
DidLoad(inet) ==
  CASE inet.address.is = "none" -> [inet EXCEPT !.address = NoAddress, !.enabled = FALSE]
    [] inet.address.is \in {"dhcp", "empty"} -> [inet EXCEPT !.address = NoAddress, !.dhcp = TRUE]
    [] OTHER -> inet

ConfigurationDidLoad(vnet) == [i \in DOMAIN vnet |-> DidLoad(vnet[i])]

\* The address that Clone gives to an interface: nodes with an index count on from the
\* address of the configuration, in 32 bits, and whatever the netmask; control planes, and
\* the node with index 0, get the address itself.
CloneAddress(inet, controlPlane, nodeIndex) ==
  IF ~controlPlane /\ nodeIndex > 0 /\ inet.address.is = "ipv4"
  THEN IPv4((inet.address.at + (nodeIndex - 1)) % AddressSpace)
  ELSE inet.address

Clone(vnet, controlPlane, nodeIndex) ==
  [i \in DOMAIN vnet |-> [vnet[i] EXCEPT !.address = CloneAddress(vnet[i], controlPlane, nodeIndex)]]

\* The first of the interfaces with a property, as a set of at most one index.
First(S) == {i \in S : \A j \in S : i <= j}

InterfaceByName(vnet, network) ==
  First({i \in DOMAIN vnet : vnet[i].enabled /\ vnet[i].network = network})

PrimaryInterface(vnet) == First({i \in DOMAIN vnet : vnet[i].enabled /\ vnet[i].primary})

PrimaryAddressIP(vnet) ==
  LET static == {i \in PrimaryInterface(vnet) : ~vnet[i].dhcp /\ vnet[i].address.is \notin {"dhcp", "none"}}
  IN  IF static = {} THEN NoAddress ELSE vnet[CHOOSE i \in static : TRUE].address

\* ConfigureManagedNetwork, of the interface it names.
Managed(inet, managed) ==
  CASE managed.dhcp \/ managed.address.is = "dhcp" -> [inet EXCEPT !.dhcp = TRUE, !.address = NoAddress]
    [] ~managed.dhcp /\ managed.address.is = "none" ->
         [inet EXCEPT !.dhcp = FALSE, !.enabled = FALSE, !.address = NoAddress]
    [] ~managed.dhcp /\ managed.address.is = "ipv4" ->
         [inet EXCEPT !.dhcp = FALSE, !.address = managed.address]
    [] OTHER -> [inet EXCEPT !.dhcp = FALSE]

\* ... and of all, in the order of the ManagedNode.  A name that no interface has is skipped.
ConfigureManagedNetwork(vnet, managed) ==
  FoldLeft(LAMBDA net, m : [i \in DOMAIN net |->
             IF i \in InterfaceByName(net, m.network) THEN Managed(net[i], m) ELSE net[i]],
           vnet, managed)
=============================================================================
