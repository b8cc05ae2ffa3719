---------------------------- MODULE KubeClient ----------------------------
(***************************************************************************)
(* The client of Kubernetes (client.go, podfilters.go, context.go): calls on *)
(* one node that read, change and write back what others write too, the      *)
(* drain with one goroutine for each pod, and the four timeouts.             *)
(*                                                                           *)
(* The caller makes one call at a time, in any order; the order that         *)
(* launchVM and deleteVM use is in module Node, where each of these calls is *)
(* one step.  A step here is the code between two requests to the API        *)
(* server.  A timer counts down in minutes.  The node is drained once.       *)
(*                                                                           *)
(* A definition that stands before another one and is named after it is a    *)
(* faulty variant of it that no action uses.                                 *)
(***************************************************************************)
EXTENDS Integers, FiniteSets, Sequences

CONSTANTS
  Pods,          \* the pods of the node, by name
  Kind,          \* what a pod is
  MaxWrites,     \* bound: how often others write the node
  MaxMinutes,    \* bound of the configured timeouts
  Environments   \* the timeouts and what may happen

Updates == {"CordonNode", "UncordonNode", "SetProviderID", "MarkDrainNode", "AnnoteNode", "LabelNode", "TaintNode"}
Ops == Updates \cup {"WaitNodeToBeReady", "DrainNode", "DeleteNode"}

Kinds == {"plain", "mirror", "daemonset", "orphan"}  \* orphan: of a DaemonSet that is gone

FaultKinds ==
  { "api",      \* a request fails
    "budget",   \* a disruption budget forbids an eviction
    "stuck",    \* a pod does not terminate
    "removed",  \* somebody removes a pod or the node
    "unready" } \* the node does not become ready

ASSUME KubeClientAssumption ==
  /\ IsFiniteSet(Pods) /\ Kind \in [Pods -> Kinds]
  /\ MaxWrites \in Nat /\ MaxMinutes \in Nat
  /\ Environments \subseteq
       [request : 0 .. MaxMinutes,   \* RequestTimeout
        deletion : 0 .. MaxMinutes,  \* DeletionTimeout
        ready : 0 .. MaxMinutes,     \* NodeReadyTimeout
        grace : 0 .. MaxMinutes,     \* the shorter of MaxGracePeriod and the pod's own
        calls : SUBSET Ops,          \* the calls that are made
        faults : SUBSET FaultKinds]

VARIABLES
  env,    \* does not change
  node,   \* the node in Kubernetes
  call,   \* the call under way, or the last one and its result
  pod,    \* the pods in Kubernetes
  evict,  \* the goroutines of evictPod
  errs    \* the channel of DrainNode, with room for one result

vars == <<env, node, call, pod, evict, errs>>

May(fault) == fault \in env.faults

-----------------------------------------------------------------------------
(* Timers *)

Never == MaxMinutes + 1
Minutes == 0 .. Never

\* NewContext and PollImmediate: zero means no timeout.
Timeout(minutes) == IF minutes = 0 THEN Never ELSE minutes
NewRequestContext == Timeout(env.request)

\* RequestTimeout * time.Second, where RequestTimeout is in nanoseconds already: the product is
\* s * 10^18 for s seconds and wraps modulo 2^64, and 10^18 is 0.10842 * 2^63.  A negative
\* timeout has passed before it starts; a positive one is centuries.
WrapsNegative(seconds) == ((seconds * 10842) \div 100000) % 2 = 1
TimesSecond(minutes) == IF minutes > 0 /\ WrapsNegative(60 * minutes) THEN 0 ELSE Never

-----------------------------------------------------------------------------
(* State *)

Marks == {"cordoned", "providerID", "drain", "annotations", "labels", "taints"}

Node == [exists : BOOLEAN, ready : BOOLEAN, marks : SUBSET Marks,
         others : 0 .. MaxWrites]  \* what others wrote last

Call == [op : Ops \cup {"none"},
         pc : {"idle", "get", "update", "sleep", "list", "wait", "delete"},
         result : {"none", "nil", "error", "timeout"},
         ctx : Minutes, poll : Minutes, deadline : Minutes,
         elapsed : Minutes,        \* minutes since the call began, Never for more
         seen : Node,              \* the node as it was read
         left : 0 .. Cardinality(Pods), pods : SUBSET Pods, abort : BOOLEAN]

NewNode == [exists |-> TRUE, ready |-> FALSE, marks |-> {}, others |-> 0]
Idle == [op |-> "none", pc |-> "idle", result |-> "none", ctx |-> Never, poll |-> Never,
         deadline |-> Never, elapsed |-> 0, seen |-> NewNode, left |-> 0, pods |-> {}, abort |-> FALSE]

Eviction == [pc : {"no", "loop", "sleep", "await", "send", "done"}, ok : BOOLEAN,
             ctx : Minutes, poll : Minutes]
NoEviction == [pc |-> "no", ok |-> FALSE, ctx |-> Never, poll |-> Never]

\* A pod that is gone from the node may be made again, with the same name, on another node;
\* it is hit when it is evicted there.
PodState == {"running", "terminating", "gone", "elsewhere", "hit"}

Init ==
  /\ env \in Environments
  /\ node = NewNode /\ call = Idle
  /\ pod = [p \in Pods |-> "running"] /\ evict = [p \in Pods |-> NoEviction] /\ errs = <<>>

\* A call begins; the context of the request starts to run.
Begin(op, pc) ==
  /\ op \in env.calls /\ call.pc = "idle"
  /\ call' = [Idle EXCEPT !.op = op, !.pc = pc, !.ctx = NewRequestContext, !.abort = call.abort]
  /\ UNCHANGED <<env, node, pod, evict, errs>>

Ended(result) == [Idle EXCEPT !.op = call.op, !.result = result, !.elapsed = call.elapsed,
                              !.pods = call.pods, !.abort = call.abort]
Returns(result) == call' = Ended(result)

\* A request to the API server fails: an error, or the context has ended.
RequestFails(ctx) == ctx = 0 \/ May("api")

-----------------------------------------------------------------------------
(* Calls that change the node: read it, write it, and try again when the write fails *)

\* The timeout that PollImmediate gets.
PollTimeoutMultiplied(op) == IF op = "WaitNodeToBeReady" THEN Timeout(env.ready) ELSE TimesSecond(env.request)
PollTimeout(op) ==
  CASE op \in {"CordonNode", "UncordonNode", "SetProviderID", "MarkDrainNode"} -> TimesSecond(env.request)
    [] op = "WaitNodeToBeReady" -> Timeout(env.ready)
    [] OTHER -> Timeout(env.request)

BeginUpdate(op) ==
  /\ op \in env.calls /\ call.pc = "idle"
  /\ call' = [Idle EXCEPT !.op = op, !.pc = "get", !.ctx = NewRequestContext, !.poll = PollTimeout(op),
                          !.abort = call.abort]
  /\ UNCHANGED <<env, node, pod, evict, errs>>

Changed(op, marks) ==
  CASE op = "CordonNode" -> marks \cup {"cordoned"}
    [] op = "UncordonNode" -> marks \ {"cordoned"}
    [] op = "SetProviderID" -> marks \cup {"providerID"}
    [] op = "MarkDrainNode" -> marks \cup {"drain"}
    [] op = "AnnoteNode" -> marks \cup {"annotations"}
    [] op = "LabelNode" -> marks \cup {"labels"}
    [] op = "TaintNode" -> marks \cup {"taints"}

\* Three of the calls look first whether there is anything to do.
NothingToDo(op) ==
  op \in {"CordonNode", "UncordonNode", "SetProviderID"} /\ Changed(op, node.marks) = node.marks

\* An error of Get ends the call; MarkDrainNode goes on with an empty node if there is none.
Get ==
  /\ call.pc = "get" /\ call.op \in Updates
  /\ \/ RequestFails(call.ctx) /\ Returns("error")
     \/ call.ctx > 0 /\ ~node.exists /\ call.op # "MarkDrainNode" /\ Returns("error")
     \/ call.ctx > 0 /\ node.exists /\ NothingToDo(call.op) /\ Returns("nil")
     \/ /\ call.ctx > 0
        /\ IF node.exists THEN ~NothingToDo(call.op) ELSE call.op = "MarkDrainNode"
        /\ call' = [call EXCEPT !.pc = "update", !.seen = node]
  /\ UNCHANGED <<env, node, pod, evict, errs>>

\* Update and UpdateStatus refuse a node that has changed since it was read; a patch does not.
WrittenBlindly(op) == [call.seen EXCEPT !.marks = Changed(op, @)]
Written(op) == [node EXCEPT !.marks = Changed(op, @)]
UpToDateAlways(op) == TRUE
UpToDate(op) == op = "SetProviderID" \/ call.seen = node

Update ==
  /\ call.pc = "update" /\ call.ctx > 0 /\ node.exists /\ UpToDate(call.op)
  /\ node' = IF call.op = "SetProviderID" THEN Written(call.op) ELSE WrittenBlindly(call.op)
  /\ Returns("nil")
  /\ UNCHANGED <<env, pod, evict, errs>>

UpdateFails ==
  /\ call.pc = "update"
  /\ RequestFails(call.ctx) \/ ~node.exists \/ ~UpToDate(call.op)
  /\ call' = [call EXCEPT !.pc = "sleep"]
  /\ UNCHANGED <<env, node, pod, evict, errs>>

\* The poll: its timeout is looked at before the next try, not before the first.
Retry ==
  /\ call.pc = "sleep"
  /\ IF call.poll = 0 THEN Returns("timeout") ELSE call' = [call EXCEPT !.pc = "get"]
  /\ UNCHANGED <<env, node, pod, evict, errs>>

\* WaitNodeToBeReady: every error of Get ends it, that of a node that is not there too.
WaitNodeToBeReady ==
  /\ call.pc = "get" /\ call.op = "WaitNodeToBeReady"
  /\ \/ (RequestFails(call.ctx) \/ ~node.exists) /\ Returns(IF call.ctx = 0 THEN "timeout" ELSE "error")
     \/ call.ctx > 0 /\ node.exists /\ node.ready /\ Returns("nil")
     \/ call.ctx > 0 /\ node.exists /\ ~node.ready /\ call' = [call EXCEPT !.pc = "sleep"]
  /\ UNCHANGED <<env, node, pod, evict, errs>>

DeleteNode ==
  /\ call.pc = "delete"
  /\ \/ /\ RequestFails(call.ctx) \/ ~node.exists
        /\ Returns("error") /\ UNCHANGED node
     \/ /\ call.ctx > 0 /\ node.exists
        /\ Returns("nil") /\ node' = [node EXCEPT !.exists = FALSE]
  /\ UNCHANGED <<env, pod, evict, errs>>

-----------------------------------------------------------------------------
(* DrainNode *)

\* PodList with the filters of DrainNode: mirror pods, and those of a DaemonSet that still
\* exists, stay.
PassesFilters(p) == Kind[p] \notin {"mirror", "daemonset"}
Listed == {p \in Pods : pod[p] \in {"running", "terminating"} /\ PassesFilters(p)}

\* The deadline is time.After(RequestTimeout): zero is at once.
DrainList ==
  /\ call.pc = "list"
  /\ \/ /\ RequestFails(call.ctx)
        /\ Returns("error") /\ UNCHANGED <<evict, errs>>
     \/ /\ call.ctx > 0
        /\ call' = [call EXCEPT !.pc = "wait", !.ctx = Never, !.pods = Listed, !.left = Cardinality(Listed),
                                !.deadline = env.request, !.abort = FALSE]
        /\ evict' = [p \in Pods |-> IF p \in Listed THEN [NoEviction EXCEPT !.pc = "loop", !.ctx = Timeout(env.grace)]
                                    ELSE NoEviction]
        /\ errs' = <<>>
  /\ UNCHANGED <<env, node, pod>>

\* Returning closes abort.
DrainEnds(result) == call' = [Ended(result) EXCEPT !.abort = TRUE]

DrainDone ==
  /\ call.pc = "wait" /\ call.left = 0 /\ DrainEnds("nil")
  /\ UNCHANGED <<env, node, pod, evict, errs>>
DrainReceives ==
  /\ call.pc = "wait" /\ call.left > 0 /\ errs # <<>>
  /\ errs' = Tail(errs)
  /\ IF Head(errs) THEN call' = [call EXCEPT !.left = @ - 1] ELSE DrainEnds("error")
  /\ UNCHANGED <<env, node, pod, evict>>
DrainDeadlineNever == FALSE /\ UNCHANGED vars
DrainDeadline ==
  /\ call.pc = "wait" /\ call.left > 0 /\ call.deadline = 0 /\ DrainEnds("timeout")
  /\ UNCHANGED <<env, node, pod, evict, errs>>

-----------------------------------------------------------------------------
(* evictPod, one goroutine for each pod *)

Goes(p, pc) == evict' = [evict EXCEPT ![p].pc = pc]
Reports(p, ok) == evict' = [evict EXCEPT ![p] = [NoEviction EXCEPT !.pc = "send", !.ok = ok]]

EvictAborted(p) ==
  /\ evict[p].pc = "loop" /\ call.abort /\ Reports(p, FALSE)
  /\ UNCHANGED <<env, node, call, pod, errs>>

\* The eviction names the pod, whichever node it is on now.
Evicted(p) == [pod EXCEPT ![p] = IF @ = "running" THEN "terminating" ELSE IF @ = "elsewhere" THEN "hit" ELSE @]
EvictAcceptedSure(p) ==
  /\ evict[p].pc = "loop" /\ ~call.abort /\ evict[p].ctx > 0 /\ pod[p] # "gone"
  /\ pod' = Evicted(p) /\ Reports(p, TRUE)
  /\ UNCHANGED <<env, node, call, errs>>
EvictAccepted(p) ==
  /\ evict[p].pc = "loop" /\ ~call.abort /\ evict[p].ctx > 0 /\ pod[p] # "gone"
  /\ pod' = Evicted(p)
  /\ evict' = [evict EXCEPT ![p].pc = "await", ![p].ctx = NewRequestContext, ![p].poll = Timeout(env.deletion)]
  /\ UNCHANGED <<env, node, call, errs>>
EvictNotFound(p) ==
  /\ evict[p].pc = "loop" /\ ~call.abort /\ evict[p].ctx > 0 /\ pod[p] = "gone" /\ Reports(p, TRUE)
  /\ UNCHANGED <<env, node, call, pod, errs>>
EvictForbidden(p) ==
  /\ evict[p].pc = "loop" /\ ~call.abort /\ evict[p].ctx > 0 /\ May("budget") /\ Goes(p, "sleep")
  /\ UNCHANGED <<env, node, call, pod, errs>>
EvictFails(p) ==
  /\ evict[p].pc = "loop" /\ ~call.abort /\ RequestFails(evict[p].ctx) /\ Reports(p, FALSE)
  /\ UNCHANGED <<env, node, call, pod, errs>>
EvictWakes(p) ==
  /\ evict[p].pc = "sleep" /\ Goes(p, "loop")
  /\ UNCHANGED <<env, node, call, pod, errs>>

\* awaitDeletion: the pod is gone, or one with its name and another uid is there.
AwaitDeletion(p) ==
  /\ evict[p].pc = "await"
  /\ \/ RequestFails(evict[p].ctx) /\ Reports(p, FALSE)
     \/ evict[p].ctx > 0 /\ pod[p] \in {"gone", "elsewhere", "hit"} /\ Reports(p, TRUE)
     \/ evict[p].ctx > 0 /\ pod[p] = "terminating" /\ evict[p].poll = 0 /\ Reports(p, FALSE)
  /\ UNCHANGED <<env, node, call, pod, errs>>

Send(p) ==
  /\ evict[p].pc = "send" /\ errs = <<>>
  /\ errs' = <<evict[p].ok>> /\ Goes(p, "done")
  /\ UNCHANGED <<env, node, call, pod>>

-----------------------------------------------------------------------------
(* Kubernetes, and time *)

PodTerminates(p) ==
  /\ pod[p] = "terminating" /\ ~May("stuck")
  /\ pod' = [pod EXCEPT ![p] = "gone"] /\ UNCHANGED <<env, node, call, evict, errs>>
PodMadeAgain(p) ==
  /\ pod[p] = "gone" /\ Kind[p] = "plain"
  /\ pod' = [pod EXCEPT ![p] = "elsewhere"] /\ UNCHANGED <<env, node, call, evict, errs>>
PodRemoved(p) ==
  /\ May("removed") /\ pod[p] = "running"
  /\ pod' = [pod EXCEPT ![p] = "gone"] /\ UNCHANGED <<env, node, call, evict, errs>>
NodeRemoved ==
  /\ May("removed") /\ node.exists
  /\ node' = [node EXCEPT !.exists = FALSE] /\ UNCHANGED <<env, call, pod, evict, errs>>
NodeReady ==
  /\ call.op = "WaitNodeToBeReady" /\ node.exists /\ ~node.ready /\ ~May("unready")
  /\ node' = [node EXCEPT !.ready = TRUE] /\ UNCHANGED <<env, call, pod, evict, errs>>
\* Others write whenever they like; it matters while a call is changing the node.
OthersWrite ==
  /\ call.pc \in {"get", "update", "sleep"} /\ node.exists /\ node.others < MaxWrites
  /\ node' = [node EXCEPT !.others = @ + 1] /\ UNCHANGED <<env, call, pod, evict, errs>>

Down(minutes) == IF minutes \in {0, Never} THEN minutes ELSE minutes - 1
Working == call.pc # "idle" \/ \E p \in Pods : evict[p].pc \notin {"no", "done"}
Tick ==
  /\ Working
  /\ call' = [call EXCEPT !.ctx = Down(@), !.poll = Down(@), !.deadline = Down(@),
                          !.elapsed = IF call.pc = "idle" \/ @ = Never THEN @ ELSE @ + 1]
  /\ evict' = [p \in Pods |-> [evict[p] EXCEPT !.ctx = Down(@), !.poll = Down(@)]]
  /\ UNCHANGED <<env, node, pod, errs>>

-----------------------------------------------------------------------------
Calls ==
  \/ \E op \in Updates \cup {"WaitNodeToBeReady"} : BeginUpdate(op)
  \/ ((\A p \in Pods : evict[p].pc = "no") /\ Begin("DrainNode", "list"))
  \/ Begin("DeleteNode", "delete")
Steps ==
  \/ Get \/ Update \/ UpdateFails \/ Retry \/ WaitNodeToBeReady \/ DeleteNode
  \/ DrainList \/ DrainDone \/ DrainReceives \/ DrainDeadline
Evicts(p) ==
  \/ EvictAborted(p) \/ EvictAccepted(p) \/ EvictNotFound(p) \/ EvictForbidden(p) \/ EvictFails(p)
  \/ EvictWakes(p) \/ AwaitDeletion(p) \/ Send(p)
World ==
  \/ NodeRemoved \/ NodeReady \/ OthersWrite
  \/ \E p \in Pods : PodTerminates(p) \/ PodMadeAgain(p) \/ PodRemoved(p)

Next == Calls \/ Steps \/ (\E p \in Pods : Evicts(p)) \/ World \/ Tick
Spec == Init /\ [][Next]_vars

\* A goroutine that can go on does, and time passes.
FairSpec == Spec /\ WF_vars(Steps) /\ WF_vars(Tick)

-----------------------------------------------------------------------------
(* Properties *)

\* Every variable has its type.
TypeOK ==
  /\ env \in Environments /\ node \in Node /\ call \in Call
  /\ pod \in [Pods -> PodState] /\ evict \in [Pods -> Eviction]
  /\ errs \in {<<>>, <<TRUE>>, <<FALSE>>}

\* A DrainNode that returns nil has seen every pod it listed leave the node, and all its
\* goroutines have ended, whichever order the evictions were accepted, forbidden and confirmed
\* in.  And the evictions, which go by name, do not reach a pod that was made again on another
\* node, unless somebody else had removed the one that was listed.
DrainedIsGone ==
  /\ (call.op = "DrainNode" /\ call.result = "nil") =>
       \A p \in call.pods : pod[p] \in {"gone", "elsewhere", "hit"} /\ evict[p].pc = "done"
  /\ \A p \in Pods : Kind[p] \in {"mirror", "daemonset"} => pod[p] \notin {"terminating", "hit"}
  /\ ~May("removed") => \A p \in Pods : pod[p] # "hit"

\* A call that gives up because of the time has waited for the timeout of the configuration:
\* RequestTimeout, or NodeReadyTimeout if it is shorter, and a timeout of 0 is "no timeout", as the
\* flags say (types.go:655).  There are two exceptions.  Where the timeout was multiplied into a
\* negative number, the first failure of the write ends the call; and DrainNode takes
\* time.After(0) for its deadline, so that a RequestTimeout of 0 makes it give up at once.
GivesUpInTime ==
  call.result = "timeout" =>
    \/ env.request > 0 /\ call.elapsed >= env.request
    \/ call.op = "WaitNodeToBeReady" /\ env.ready > 0 /\ call.elapsed >= env.ready
    \/ call.op \in {"CordonNode", "UncordonNode", "MarkDrainNode", "SetProviderID"} /\ WrapsNegative(60 * env.request)
    \/ call.op = "DrainNode" /\ env.request = 0

\* What others write to the node is never undone by a call that had read the node before
\* (the kubelet's status, labels and annotations of other controllers).
NoLostUpdate == [][node'.others >= node.others]_node

\* Every call returns, whatever the pods, the budgets and the API server do, if there is a
\* RequestTimeout; DrainNode does so without.
CallsReturn ==
  (call.pc # "idle" /\ (env.request > 0 \/ call.op = "DrainNode")) ~> (call.pc = "idle")
=============================================================================
