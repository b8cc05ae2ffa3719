--------------------------- MODULE KubeClientInv ---------------------------
(***************************************************************************)
(* The inductive invariant of module KubeClient: what makes DrainedIsGone   *)
(* and GivesUpInTime true in every state.                                   *)
(***************************************************************************)
EXTENDS KubeClient

\* A pod that has left the node, whether or not there is one with its name elsewhere.
HasLeft(p) == pod[p] \in {"gone", "elsewhere", "hit"}

\* The eviction of the pod has not been accepted.
Unevicted(p) == evict[p].pc \in {"no", "loop", "sleep"}

\* The goroutines that DrainNode has started and that have not sent their result.
Unsent == {p \in call.pods : evict[p].pc # "done"}

-----------------------------------------------------------------------------
\* Where each call can be, and that it has no result before it returns.
CallInv ==
  /\ call.pc \in {"get", "sleep"} => call.op \in Updates \cup {"WaitNodeToBeReady"}
  /\ call.pc = "update" => call.op \in Updates
  /\ call.pc \in {"list", "wait"} => call.op = "DrainNode"
  /\ call.pc = "delete" => call.op = "DeleteNode"
  /\ call.pc # "idle" => call.result = "none"

\* A timer and the minutes that have passed make up the timeout it was set to; 0 sets none.
Lasts(timer, minutes) == timer = Never \/ (minutes > 0 /\ timer + call.elapsed >= minutes)

TimerInv ==
  call.pc # "idle" =>
    /\ Lasts(call.ctx, env.request)
    /\ call.deadline = Never \/ (call.op = "DrainNode" /\ call.deadline + call.elapsed >= env.request)
    /\ call.op \in {"AnnoteNode", "LabelNode", "TaintNode"} => Lasts(call.poll, env.request)
    /\ call.op = "WaitNodeToBeReady" => Lasts(call.poll, env.ready)
    /\ call.op \in {"CordonNode", "UncordonNode", "SetProviderID", "MarkDrainNode"} =>
         call.poll = Never \/ WrapsNegative(60 * env.request)

\* A pod terminates when its eviction was accepted, and not before.
PodInv ==
  \A p \in Pods :
    /\ evict[p].pc # "no" => PassesFilters(p)
    /\ Unevicted(p) => pod[p] # "terminating"
    /\ Unevicted(p) /\ ~May("removed") => pod[p] = "running"
    /\ evict[p].pc = "send" /\ evict[p].ok => HasLeft(p)

\* DrainNode waits for as many results as its goroutines have not sent, and for the one that
\* is in the channel; a result it has received was a success.
DrainInv ==
  /\ call.pc = "list" => \A p \in Pods : evict[p].pc = "no"
  /\ call.pc = "wait" =>
       /\ \A p \in Pods : evict[p].pc # "no" => p \in call.pods
       /\ call.left = Cardinality(Unsent) + Len(errs)
       /\ errs # <<FALSE>> => \A p \in call.pods : evict[p].pc = "done" => HasLeft(p)

KubeInv == TypeOK /\ CallInv /\ TimerInv /\ PodInv /\ DrainInv /\ DrainedIsGone /\ GivesUpInTime
=============================================================================
