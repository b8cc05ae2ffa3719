--------------------------- MODULE MCKubeClient ---------------------------
(***************************************************************************)
(* KubeClient for TLC: two pods that are evicted, one that is not.  Each     *)
(* environment makes the calls its timeouts and faults matter to.            *)
(***************************************************************************)
EXTENDS KubeClient

MCKind == [p \in Pods |-> CASE p = "ds" -> "daemonset" [] p = "orphan" -> "orphan" [] OTHER -> "plain"]
Drains(request, deletion, grace, faults) ==
  [request |-> request, deletion |-> deletion, ready |-> 1, grace |-> grace,
   calls |-> {"DrainNode"}, faults |-> faults]
Changes(request, ready, calls, faults) ==
  [request |-> request, deletion |-> 1, ready |-> ready, grace |-> 1, calls |-> calls, faults |-> faults]
MCEnvironments ==
  { Drains(2, 1, 2, {"budget"}),
    Drains(1, 0, 1, {"stuck"}),
    Drains(0, 1, 0, {"removed"}),
    Drains(2, 2, 0, {"api"}),
    Changes(2, 1, {"CordonNode", "UncordonNode", "WaitNodeToBeReady"}, {"api", "unready"}),
    Changes(1, 2, {"SetProviderID", "MarkDrainNode", "DeleteNode"}, {"removed"}),
    Changes(2, 2, {"AnnoteNode", "LabelNode", "TaintNode"}, {}),
    Changes(1, 2, {"MarkDrainNode", "WaitNodeToBeReady"}, {"unready"}),
    Changes(0, 1, {"MarkDrainNode", "WaitNodeToBeReady"}, {"removed"}) }
=============================================================================
