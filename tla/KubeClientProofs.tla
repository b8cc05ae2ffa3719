------------------------- MODULE KubeClientProofs -------------------------
(***************************************************************************)
(* Proofs about the client of Kubernetes, for any pods, timeouts and faults. *)
(***************************************************************************)
EXTENDS KubeClientInv, FiniteSetTheorems, TLAPS

-----------------------------------------------------------------------------
(* The environment and the timers *)

LEMMA Environment ==
  ASSUME TypeOK
  PROVE  /\ env.request \in 0 .. MaxMinutes /\ env.deletion \in 0 .. MaxMinutes
         /\ env.ready \in 0 .. MaxMinutes /\ env.grace \in 0 .. MaxMinutes
         /\ MaxMinutes \in Nat /\ MaxWrites \in Nat
         /\ IsFiniteSet(Pods) /\ Cardinality(Pods) \in Nat
BY KubeClientAssumption, FS_CardinalityType DEF TypeOK

LEMMA TimeoutRuns ==
  ASSUME MaxMinutes \in Nat, NEW m \in 0 .. MaxMinutes
  PROVE  /\ Timeout(m) \in Minutes
         /\ Timeout(m) = Never \/ (m > 0 /\ Timeout(m) = m)
         /\ Never \in Minutes /\ 0 \in Minutes /\ m \in Minutes
BY DEF Timeout, Minutes, Never

LEMMA TimesSecondRuns ==
  ASSUME MaxMinutes \in Nat, NEW m \in 0 .. MaxMinutes
  PROVE  /\ TimesSecond(m) \in Minutes
         /\ TimesSecond(m) = Never \/ WrapsNegative(60 * m)
BY DEF TimesSecond, Minutes, Never

\* A minute passes.
LEMMA DownRuns ==
  ASSUME MaxMinutes \in Nat, NEW t \in Minutes, NEW e \in Minutes, NEW m \in 0 .. MaxMinutes,
         t = Never \/ t + e >= m
  PROVE  LET n == IF e = Never THEN e ELSE e + 1
         IN  /\ Down(t) \in Minutes /\ n \in Minutes
             /\ Down(t) = Never \/ Down(t) + n >= m
             /\ Down(t) = Never <=> t = Never
BY DEF Down, Minutes, Never

\* What the channel holds.
LEMMA Channel ==
  ASSUME NEW b \in BOOLEAN
  PROVE  /\ Len(<<b>>) = 1 /\ Head(<<b>>) = b /\ Tail(<<b>>) = <<>> /\ <<b>> # <<>>
         /\ b => <<b>> # <<FALSE>>
<1>1. Len(<<b>>) = 1 /\ Head(<<b>>) = b /\ Tail(<<b>>) = <<>>
  OBVIOUS
<1>2. <<b>> # <<>> /\ (b => <<b>> # <<FALSE>>)
  OBVIOUS
<1> QED
  BY <1>1, <1>2

LEMMA ChannelSize ==
  ASSUME TypeOK
  PROVE  /\ errs = <<>> \/ \E b \in BOOLEAN : errs = <<b>>
         /\ Len(errs) \in {0, 1} /\ (Len(errs) = 0 <=> errs = <<>>)
<1>1. Len(<<>>) = 0 /\ Len(<<TRUE>>) = 1 /\ Len(<<FALSE>>) = 1
  OBVIOUS
<1>2. errs = <<>> \/ errs = <<TRUE>> \/ errs = <<FALSE>>
  BY DEF TypeOK
<1>3. errs = <<>> \/ \E b \in BOOLEAN : errs = <<b>>
  BY <1>2, Zenon
<1> QED
  BY <1>1, <1>2, <1>3

-----------------------------------------------------------------------------
(* How a step changes the call *)

\* The call keeps what it does and what it found, and ends with a result.
LEMMA EndedCall ==
  ASSUME TypeOK, NEW result \in {"none", "nil", "error", "timeout"}, call' = Ended(result)
  PROVE  /\ call' \in Call
         /\ call'.op = call.op /\ call'.pc = "idle" /\ call'.result = result
         /\ call'.elapsed = call.elapsed /\ call'.pods = call.pods /\ call'.abort = call.abort
<1>1. /\ NewNode \in Node /\ Never \in Minutes /\ 0 \in Minutes /\ 0 \in 0 .. Cardinality(Pods)
  BY Environment DEF NewNode, Node, Never, Minutes
<1> QED
  BY <1>1 DEF TypeOK, Ended, Idle, Call

\* The call goes on: it keeps its timers.
GoesOn(pc) ==
  /\ call'.op = call.op /\ call'.pc = pc /\ call'.result = call.result
  /\ call'.ctx = call.ctx /\ call'.poll = call.poll /\ call'.deadline = call.deadline
  /\ call'.elapsed = call.elapsed /\ call'.pods = call.pods /\ call'.abort = call.abort

\* The timeout that has passed when a call gives up.
GaveUp ==
  \/ call.op \in {"CordonNode", "UncordonNode", "MarkDrainNode", "SetProviderID"} /\ WrapsNegative(60 * env.request)
  \/ env.request > 0 /\ call.elapsed >= env.request
  \/ call.op = "WaitNodeToBeReady" /\ env.ready > 0 /\ call.elapsed >= env.ready

\* A step of a call on the node itself, that ends the call or goes on.
LEMMA NodeStep ==
  ASSUME KubeInv, call.pc \in {"get", "update", "sleep", "delete"},
         UNCHANGED <<env, pod, evict, errs>>, node' \in Node,
         \/ \E r \in {"nil", "error", "timeout"} : call' = Ended(r) /\ (r = "timeout" => GaveUp)
         \/ call' \in Call /\ \E pc \in {"get", "update", "sleep"} :
              GoesOn(pc) /\ (IF pc = "update" THEN call.op \in Updates ELSE call.pc # "delete")
  PROVE  KubeInv'
<1>1. TypeOK /\ CallInv /\ TimerInv /\ PodInv /\ DrainInv /\ DrainedIsGone /\ GivesUpInTime
  BY DEF KubeInv
<1>2. call.op # "DrainNode" /\ call.pc # "wait" /\ call.pc # "idle"
  BY <1>1 DEF CallInv, Updates
<1>3. /\ call' \in Call /\ call'.op = call.op /\ call'.elapsed = call.elapsed
      /\ \/ call'.pc = "idle" /\ (call'.result = "timeout" => GaveUp)
         \/ \E pc \in {"get", "update", "sleep"} :
              GoesOn(pc) /\ (IF pc = "update" THEN call.op \in Updates ELSE call.pc # "delete")
  BY <1>1, EndedCall DEF GoesOn
<1>4. TypeOK'
  BY <1>1, <1>3 DEF TypeOK
<1>5. CallInv'
  BY <1>1, <1>2, <1>3 DEF CallInv, GoesOn
<1>6. TimerInv'
  BY <1>1, <1>2, <1>3 DEF TimerInv, GoesOn, Lasts
<1>7. PodInv'
  BY <1>1 DEF PodInv, Unevicted, HasLeft, May
<1>8. DrainInv'
  BY <1>2, <1>3 DEF DrainInv, GoesOn
<1>9. DrainedIsGone'
  BY <1>1, <1>2, <1>3 DEF DrainedIsGone, May
<1>10. GivesUpInTime'
  BY <1>1, <1>2, <1>3 DEF GivesUpInTime, GaveUp, CallInv, GoesOn
<1> QED
  BY <1>4, <1>5, <1>6, <1>7, <1>8, <1>9, <1>10 DEF KubeInv

LEMMA GetStep == ASSUME KubeInv, Get PROVE KubeInv'
<1>1. TypeOK
  BY DEF KubeInv
<1>2. ASSUME call' = [call EXCEPT !.pc = "update", !.seen = node]
      PROVE  call' \in Call /\ GoesOn("update")
  BY <1>1, <1>2 DEF TypeOK, Call, GoesOn
<1>3. \/ \E r \in {"nil", "error", "timeout"} : call' = Ended(r) /\ (r = "timeout" => GaveUp)
      \/ call' \in Call /\ GoesOn("update")
  BY <1>2 DEF Get, Returns
<1> QED
  BY <1>1, <1>3, NodeStep DEF Get, TypeOK

LEMMA UpdateStep == ASSUME KubeInv, Update PROVE KubeInv'
<1>1. TypeOK /\ CallInv
  BY DEF KubeInv
<1>2. call.seen \in Node /\ node \in Node /\ call.op \in Updates
  BY <1>1 DEF TypeOK, Call, CallInv, Update
<1>3. Changed(call.op, node.marks) \subseteq Marks /\ Changed(call.op, call.seen.marks) \subseteq Marks
  BY <1>2 DEF Changed, Marks, Node, Updates
<1>4. node' \in Node
  BY <1>2, <1>3 DEF Update, Written, WrittenBlindly, Node
<1> QED
  BY <1>4, NodeStep DEF Update, Returns

LEMMA UpdateFailsStep == ASSUME KubeInv, UpdateFails PROVE KubeInv'
<1>1. TypeOK
  BY DEF KubeInv
<1>2. call' \in Call /\ GoesOn("sleep")
  BY <1>1 DEF UpdateFails, TypeOK, Call, GoesOn
<1> QED
  BY <1>1, <1>2, NodeStep DEF UpdateFails, TypeOK

LEMMA RetryStep == ASSUME KubeInv, Retry PROVE KubeInv'
<1>1. TypeOK /\ CallInv /\ TimerInv /\ call.pc = "sleep"
  BY DEF KubeInv, Retry
<1>2. ASSUME call.poll = 0
      PROVE  GaveUp
  <2>1. call.elapsed \in Minutes /\ Never # 0
    <3>1. call.elapsed \in Minutes
      BY <1>1 DEF TypeOK, Call
    <3> QED
      BY <1>1, <3>1, Environment DEF Never
  <2> QED
    BY <1>1, <1>2, <2>1, Environment DEF TimerInv, Lasts, CallInv, GaveUp, Updates, Minutes, Never
<1>3. ASSUME call.poll # 0
      PROVE  call' \in Call /\ GoesOn("get")
  BY <1>1, <1>3 DEF Retry, TypeOK, Call, GoesOn
<1> QED
  BY <1>1, <1>2, <1>3, NodeStep DEF Retry, TypeOK, Returns

LEMMA WaitNodeToBeReadyStep == ASSUME KubeInv, WaitNodeToBeReady PROVE KubeInv'
<1>1. TypeOK /\ TimerInv /\ call.pc = "get" /\ call.op = "WaitNodeToBeReady"
  BY DEF KubeInv, WaitNodeToBeReady
<1>2. ASSUME call.ctx = 0
      PROVE  GaveUp
  <2>1. call.elapsed \in Minutes /\ Never # 0
    <3>1. call.elapsed \in Minutes
      BY <1>1 DEF TypeOK, Call
    <3> QED
      BY <1>1, <3>1, Environment DEF Never
  <2> QED
    BY <1>1, <1>2, <2>1, Environment DEF TimerInv, Lasts, GaveUp, Minutes, Never
<1>3. ASSUME call' = [call EXCEPT !.pc = "sleep"]
      PROVE  call' \in Call /\ GoesOn("sleep")
  BY <1>1, <1>3 DEF TypeOK, Call, GoesOn
<1>4. \/ \E r \in {"nil", "error", "timeout"} : call' = Ended(r) /\ (r = "timeout" => GaveUp)
      \/ call' \in Call /\ GoesOn("sleep")
  BY <1>2, <1>3 DEF WaitNodeToBeReady, Returns
<1> QED
  BY <1>1, <1>4, NodeStep DEF WaitNodeToBeReady, TypeOK

LEMMA DeleteNodeStep == ASSUME KubeInv, DeleteNode PROVE KubeInv'
<1>1. node' \in Node
  BY DEF DeleteNode, KubeInv, TypeOK, Node
<1> QED
  BY <1>1, NodeStep DEF DeleteNode, Returns

-----------------------------------------------------------------------------
(* A call begins *)

Begun(op, pc, poll) ==
  \/ call' = [Idle EXCEPT !.op = op, !.pc = pc, !.ctx = NewRequestContext, !.poll = poll,
                          !.abort = call.abort]
  \/ /\ call' = [Idle EXCEPT !.op = op, !.pc = pc, !.ctx = NewRequestContext, !.abort = call.abort]
     /\ poll = Never

LEMMA BeginStep ==
  ASSUME KubeInv, NEW op \in Ops, NEW pc \in {"get", "list", "delete"}, NEW poll \in Minutes,
         call.pc = "idle", UNCHANGED <<env, node, pod, evict, errs>>,
         Begun(op, pc, poll),
         pc = "get" => op \in Updates \cup {"WaitNodeToBeReady"},
         pc = "list" => op = "DrainNode" /\ \A p \in Pods : evict[p].pc = "no",
         pc = "delete" => op = "DeleteNode",
         op \in {"AnnoteNode", "LabelNode", "TaintNode"} =>
           poll = Never \/ (env.request > 0 /\ poll >= env.request),
         op = "WaitNodeToBeReady" => poll = Never \/ (env.ready > 0 /\ poll >= env.ready),
         op \in {"CordonNode", "UncordonNode", "SetProviderID", "MarkDrainNode"} =>
           poll = Never \/ WrapsNegative(60 * env.request)
  PROVE  KubeInv'
<1>1. TypeOK /\ PodInv /\ DrainInv /\ DrainedIsGone
  BY DEF KubeInv
<1>2. /\ NewNode \in Node /\ Never \in Minutes /\ 0 \in Minutes /\ 0 \in 0 .. Cardinality(Pods)
      /\ NewRequestContext \in Minutes
      /\ NewRequestContext = Never \/ (env.request > 0 /\ NewRequestContext = env.request)
  BY <1>1, Environment, TimeoutRuns DEF NewNode, Node, NewRequestContext
<1>3. /\ call' \in Call /\ call'.op = op /\ call'.pc = pc /\ call'.result = "none"
      /\ call'.ctx = NewRequestContext /\ call'.poll = poll /\ call'.deadline = Never
      /\ call'.elapsed = 0
  <2>1. CASE call' = [Idle EXCEPT !.op = op, !.pc = pc, !.ctx = NewRequestContext, !.poll = poll,
                                  !.abort = call.abort]
    BY <1>1, <1>2, <2>1 DEF TypeOK, Call, Idle
  <2>2. CASE /\ call' = [Idle EXCEPT !.op = op, !.pc = pc, !.ctx = NewRequestContext, !.abort = call.abort]
             /\ poll = Never
    BY <1>1, <1>2, <2>2 DEF TypeOK, Call, Idle
  <2> QED
    BY <2>1, <2>2 DEF Begun
<1>4. TypeOK'
  BY <1>1, <1>3 DEF TypeOK
<1>5. CallInv'
  BY <1>1, <1>3 DEF CallInv
<1>6. TimerInv'
  <2>1. NewRequestContext \in Int /\ poll \in Int /\ env.request \in Int
    BY <1>1, <1>2, Environment DEF Minutes, Never
  <2> QED
    BY <1>2, <1>3, <2>1 DEF TimerInv, Lasts
<1>7. PodInv'
  BY <1>1 DEF PodInv, Unevicted, HasLeft, May
<1>8. DrainInv'
  BY <1>1, <1>3 DEF DrainInv
<1>9. DrainedIsGone'
  BY <1>1, <1>3 DEF DrainedIsGone, May
<1>10. GivesUpInTime'
  BY <1>3 DEF GivesUpInTime
<1> QED
  BY <1>4, <1>5, <1>6, <1>7, <1>8, <1>9, <1>10 DEF KubeInv

LEMMA BeginUpdateStep ==
  ASSUME KubeInv, NEW op \in Updates \cup {"WaitNodeToBeReady"}, BeginUpdate(op)
  PROVE  KubeInv'
<1>1. TypeOK /\ op \in Ops
  BY DEF KubeInv, Ops
<1>2. /\ env.request \in 0 .. MaxMinutes /\ env.ready \in 0 .. MaxMinutes /\ MaxMinutes \in Nat
  BY <1>1, Environment
<1>3. PollTimeout(op) = IF op = "WaitNodeToBeReady" THEN Timeout(env.ready)
                        ELSE IF op \in {"AnnoteNode", "LabelNode", "TaintNode"} THEN Timeout(env.request)
                        ELSE TimesSecond(env.request)
  BY DEF PollTimeout, Updates
<1>4. /\ PollTimeout(op) \in Minutes
      /\ op \in {"AnnoteNode", "LabelNode", "TaintNode"} =>
           PollTimeout(op) = Never \/ (env.request > 0 /\ PollTimeout(op) = env.request)
      /\ op = "WaitNodeToBeReady" =>
           PollTimeout(op) = Never \/ (env.ready > 0 /\ PollTimeout(op) >= env.ready)
      /\ op \in {"CordonNode", "UncordonNode", "SetProviderID", "MarkDrainNode"} =>
           PollTimeout(op) = Never \/ WrapsNegative(60 * env.request)
  BY <1>2, <1>3, TimeoutRuns, TimesSecondRuns
<1> QED
  <2>1. /\ call.pc = "idle" /\ UNCHANGED <<env, node, pod, evict, errs>>
        /\ Begun(op, "get", PollTimeout(op))
    BY DEF BeginUpdate, Begun
  <2>2. op \in {"AnnoteNode", "LabelNode", "TaintNode"} =>
          PollTimeout(op) = Never \/ (env.request > 0 /\ PollTimeout(op) >= env.request)
    BY <1>2, <1>4
  <2> QED
    BY <1>1, <1>4, <2>1, <2>2, BeginStep

LEMMA BeginDrainStep ==
  ASSUME KubeInv, \A p \in Pods : evict[p].pc = "no", Begin("DrainNode", "list")
  PROVE  KubeInv'
<1>1. Begun("DrainNode", "list", Never)
  BY DEF Begin, Begun
<1>2. "DrainNode" \in Ops /\ Never \in Minutes
  BY Environment, TimeoutRuns DEF KubeInv, Ops
<1> QED
  BY <1>1, <1>2, BeginStep DEF Begin

LEMMA BeginDeleteStep == ASSUME KubeInv, Begin("DeleteNode", "delete") PROVE KubeInv'
<1>1. Begun("DeleteNode", "delete", Never)
  BY DEF Begin, Begun
<1>2. "DeleteNode" \in Ops /\ Never \in Minutes
  BY Environment, TimeoutRuns DEF KubeInv, Ops
<1> QED
  BY <1>1, <1>2, BeginStep DEF Begin

-----------------------------------------------------------------------------
(* DrainNode *)

\* DrainNode returns.
LEMMA DrainReturns ==
  ASSUME KubeInv, call.pc \in {"list", "wait"}, UNCHANGED <<env, node, pod, evict>>,
         errs' \in {<<>>, <<TRUE>>, <<FALSE>>},
         NEW r \in {"nil", "error", "timeout"}, DrainEnds(r) \/ Returns(r),
         r = "nil" => \A p \in call.pods : HasLeft(p) /\ evict[p].pc = "done",
         r = "timeout" => call.op = "DrainNode" /\ call.elapsed >= env.request
  PROVE  KubeInv'
<1>1. TypeOK /\ CallInv /\ PodInv /\ DrainedIsGone
  BY DEF KubeInv
<1>2. /\ call' \in Call /\ call'.op = call.op /\ call'.pc = "idle" /\ call'.result = r
      /\ call'.elapsed = call.elapsed /\ call'.pods = call.pods
  <2>1. /\ NewNode \in Node /\ Never \in Minutes /\ 0 \in Minutes /\ 0 \in 0 .. Cardinality(Pods)
    BY <1>1, Environment DEF NewNode, Node, Never, Minutes
  <2> DEFINE e == Ended(r)
  <2>2. /\ e \in Call /\ e.op = call.op /\ e.pc = "idle" /\ e.result = r
        /\ e.elapsed = call.elapsed /\ e.pods = call.pods
    BY <1>1, <2>1 DEF TypeOK, Ended, Idle, Call
  <2>3. call' = e \/ call' = [e EXCEPT !.abort = TRUE]
    BY DEF DrainEnds, Returns
  <2> HIDE DEF e
  <2> QED
    BY <2>2, <2>3 DEF Call
<1>3. TypeOK'
  BY <1>1, <1>2 DEF TypeOK
<1>4. CallInv'
  BY <1>2 DEF CallInv
<1>5. TimerInv'
  BY <1>2 DEF TimerInv
<1>6. PodInv'
  BY <1>1 DEF PodInv, Unevicted, HasLeft, May
<1>7. DrainInv'
  BY <1>2 DEF DrainInv
<1>8. DrainedIsGone'
  BY <1>1, <1>2 DEF DrainedIsGone, May, HasLeft
<1>9. GivesUpInTime'
  <2>1. env.request \in 0 .. MaxMinutes /\ MaxMinutes \in Nat
    BY <1>1, Environment
  <2> QED
    BY <1>2, <2>1 DEF GivesUpInTime
<1> QED
  BY <1>3, <1>4, <1>5, <1>6, <1>7, <1>8, <1>9 DEF KubeInv

LEMMA DrainListStep == ASSUME KubeInv, DrainList PROVE KubeInv'
<1>1. /\ TypeOK /\ CallInv /\ TimerInv /\ PodInv /\ DrainInv /\ DrainedIsGone
      /\ call.pc = "list" /\ UNCHANGED <<env, node, pod>>
  BY DEF KubeInv, DrainList
<1>2. CASE Returns("error") /\ UNCHANGED <<evict, errs>>
  BY <1>1, <1>2, DrainReturns DEF TypeOK
<1>3. CASE /\ call' = [call EXCEPT !.pc = "wait", !.ctx = Never, !.pods = Listed,
                                   !.left = Cardinality(Listed), !.deadline = env.request, !.abort = FALSE]
           /\ evict' = [p \in Pods |-> IF p \in Listed THEN [NoEviction EXCEPT !.pc = "loop", !.ctx = Timeout(env.grace)]
                                       ELSE NoEviction]
           /\ errs' = <<>>
  <2>1. /\ Listed \subseteq Pods /\ IsFiniteSet(Listed)
        /\ Cardinality(Listed) \in Nat /\ Cardinality(Listed) \in 0 .. Cardinality(Pods)
    BY <1>1, Environment, FS_Subset, FS_CardinalityType DEF Listed
  <2>2. Never \in Minutes /\ env.request \in Minutes /\ Timeout(env.grace) \in Minutes
    BY <1>1, Environment, TimeoutRuns
  <2>3. /\ call' \in Call /\ call'.op = call.op /\ call'.pc = "wait" /\ call'.result = call.result
        /\ call'.ctx = Never /\ call'.poll = call.poll /\ call'.deadline = env.request
        /\ call'.elapsed = call.elapsed /\ call'.pods = Listed /\ call'.left = Cardinality(Listed)
    BY <1>1, <1>3, <2>1, <2>2 DEF TypeOK, Call
  <2>4. /\ evict' \in [Pods -> Eviction]
        /\ \A p \in Pods : evict'[p].pc = IF p \in Listed THEN "loop" ELSE "no"
    BY <1>3, <2>2 DEF NoEviction, Eviction
  <2>5. TypeOK'
    BY <1>1, <1>3, <2>3, <2>4 DEF TypeOK
  <2>6. CallInv'
    BY <1>1, <2>3 DEF CallInv
  <2>7. TimerInv'
    <3>1. call.elapsed \in Minutes
      BY <1>1 DEF TypeOK, Call
    <3> QED
      BY <1>1, <2>3, <3>1, Environment DEF TimerInv, Lasts, CallInv, Minutes, Never
  <2>8. PodInv'
    BY <1>1, <2>4 DEF PodInv, DrainInv, Unevicted, May, Listed, PassesFilters
  <2>9. DrainInv'
    <3>1. Unsent' = Listed /\ Len(errs') = 0
      BY <1>3, <2>1, <2>3, <2>4 DEF Unsent
    <3>2. \A p \in Listed : evict'[p].pc # "done"
      BY <2>1, <2>4
    <3>3. Cardinality(Unsent') = Cardinality(Listed)
      BY <3>1, Zenon
    <3>4. Len(errs') = 0
      BY <3>1
    <3>5. call'.left = Cardinality(Unsent') + Len(errs')
      BY <2>1, <2>3, <3>3, <3>4
    <3>6. \A p \in Pods : evict'[p].pc # "no" => p \in Listed
      BY <2>4
    <3> QED
      BY <2>3, <3>2, <3>5, <3>6 DEF DrainInv
  <2>10. DrainedIsGone'
    BY <1>1, <2>3 DEF DrainedIsGone, May, CallInv
  <2>11. GivesUpInTime'
    BY <1>1, <2>3 DEF GivesUpInTime, CallInv
  <2> QED
    BY <2>5, <2>6, <2>7, <2>8, <2>9, <2>10, <2>11 DEF KubeInv
<1> QED
  BY <1>2, <1>3 DEF DrainList

\* Nobody is left, so that every result was sent, received and a success.
LEMMA DrainDoneStep == ASSUME KubeInv, DrainDone PROVE KubeInv'
<1>1. TypeOK /\ DrainInv /\ call.pc = "wait" /\ call.left = 0
  BY DEF KubeInv, DrainDone
<1>2. IsFiniteSet(Unsent) /\ Cardinality(Unsent) \in Nat /\ Len(errs) \in {0, 1}
  <2>1. IsFiniteSet(Unsent)
    BY <1>1, Environment, FS_Subset DEF TypeOK, Call, Unsent
  <2> QED
    BY <1>1, <2>1, FS_CardinalityType DEF TypeOK
<1>3. Cardinality(Unsent) = 0 /\ Len(errs) = 0
  BY <1>1, <1>2 DEF DrainInv
<1>4. Unsent = {}
  BY <1>2, <1>3, FS_EmptySet
<1>5. errs # <<FALSE>>
  BY <1>1, <1>3, ChannelSize, Channel
<1>6. \A p \in call.pods : HasLeft(p) /\ evict[p].pc = "done"
  BY <1>1, <1>4, <1>5 DEF DrainInv, Unsent
<1> QED
  BY <1>1, <1>6, DrainReturns DEF DrainDone, TypeOK

LEMMA DrainReceivesStep == ASSUME KubeInv, DrainReceives PROVE KubeInv'
<1>1. /\ TypeOK /\ CallInv /\ TimerInv /\ PodInv /\ DrainInv /\ DrainedIsGone
      /\ call.pc = "wait" /\ call.left > 0 /\ errs # <<>> /\ errs' = Tail(errs)
      /\ UNCHANGED <<env, node, pod, evict>>
  BY DEF KubeInv, DrainReceives
<1>2. PICK b \in BOOLEAN : errs = <<b>>
  BY <1>1, ChannelSize
<1>3. Len(errs) = 1 /\ Head(errs) = b /\ errs' = <<>> /\ Len(errs') = 0
  BY <1>1, <1>2, Channel
<1>4. CASE b
  <2>1. call' = [call EXCEPT !.left = @ - 1]
    BY <1>3, <1>4 DEF DrainReceives
  <2>2. call.left - 1 \in 0 .. Cardinality(Pods)
    <3>1. call.left \in 0 .. Cardinality(Pods)
      BY <1>1 DEF TypeOK, Call
    <3> QED
      BY <1>1, <3>1, Environment
  <2>3. /\ call' \in Call /\ call'.op = call.op /\ call'.pc = call.pc /\ call'.result = call.result
        /\ call'.ctx = call.ctx /\ call'.poll = call.poll /\ call'.deadline = call.deadline
        /\ call'.elapsed = call.elapsed /\ call'.pods = call.pods /\ call'.left = call.left - 1
    BY <1>1, <2>1, <2>2 DEF TypeOK, Call
  <2>4. TypeOK'
    BY <1>1, <1>3, <2>3 DEF TypeOK
  <2>5. CallInv'
    BY <1>1, <2>3 DEF CallInv
  <2>6. TimerInv'
    BY <1>1, <2>3 DEF TimerInv, Lasts
  <2>7. PodInv'
    BY <1>1 DEF PodInv, Unevicted, HasLeft, May
  <2>8. DrainInv'
    <3>1. Unsent' = Unsent
      BY <1>1, <2>3 DEF Unsent
    <3>2. IsFiniteSet(Unsent) /\ Cardinality(Unsent) \in Nat
      BY <1>1, Environment, FS_Subset, FS_CardinalityType DEF TypeOK, Call, Unsent
    <3>3. Cardinality(Unsent') = Cardinality(Unsent)
      BY <3>1, Zenon
    <3>4. call.left = Cardinality(Unsent) + Len(errs)
      BY <1>1 DEF DrainInv
    <3>5. Len(errs) = 1 /\ Len(errs') = 0
      BY <1>3
    <3>6. call'.left = Cardinality(Unsent') + Len(errs')
      BY <2>3, <3>2, <3>3, <3>4, <3>5
    <3>7. \A p \in call'.pods : evict'[p].pc = "done" => HasLeft(p)'
      BY <1>1, <1>2, <1>4, <2>3, Channel DEF DrainInv, HasLeft
    <3> QED
      BY <1>1, <2>3, <3>6, <3>7 DEF DrainInv
  <2>9. DrainedIsGone'
    BY <1>1, <2>3 DEF DrainedIsGone, May, CallInv
  <2>10. GivesUpInTime'
    BY <1>1, <2>3 DEF GivesUpInTime, CallInv
  <2> QED
    BY <2>4, <2>5, <2>6, <2>7, <2>8, <2>9, <2>10 DEF KubeInv
<1>5. CASE ~b
  BY <1>1, <1>3, <1>5, DrainReturns DEF DrainReceives
<1> QED
  BY <1>4, <1>5

LEMMA DrainDeadlineStep == ASSUME KubeInv, DrainDeadline PROVE KubeInv'
<1>1. TypeOK /\ TimerInv /\ call.pc = "wait" /\ call.deadline = 0 /\ call.op = "DrainNode"
  BY DEF KubeInv, DrainDeadline, CallInv
<1>2. call.elapsed \in Minutes
  BY <1>1 DEF TypeOK, Call
<1>3. call.elapsed >= env.request
  BY <1>1, <1>2, Environment DEF TimerInv, Lasts, Minutes, Never
<1> QED
  BY <1>1, <1>3, DrainReturns DEF DrainDeadline, TypeOK

-----------------------------------------------------------------------------
(* evictPod: a step of one goroutine *)

\* What a step of the goroutine of pod p may do to it and to its pod.
LEMMA EvictStep ==
  ASSUME KubeInv, NEW p \in Pods, UNCHANGED <<env, node, call, errs>>,
         NEW e \in Eviction, evict' = [evict EXCEPT ![p] = e],
         evict[p].pc \notin {"no", "done"}, e.pc \in {"loop", "sleep", "await", "send"},
         \/ pod' = pod
         \/ e.pc = "await" /\ evict[p].pc = "loop" /\ pod[p] # "gone" /\ pod' = Evicted(p),
         e.pc \in {"loop", "sleep"} => Unevicted(p),
         e.pc = "send" /\ e.ok => HasLeft(p)
  PROVE  KubeInv'
<1>1. /\ TypeOK /\ CallInv /\ TimerInv /\ PodInv /\ DrainInv /\ DrainedIsGone /\ GivesUpInTime
  BY DEF KubeInv
<1>2. /\ evict' \in [Pods -> Eviction] /\ evict'[p] = e
      /\ \A q \in Pods \ {p} : evict'[q] = evict[q]
  BY <1>1 DEF TypeOK
<1>3. /\ pod' \in [Pods -> PodState] /\ \A q \in Pods \ {p} : pod'[q] = pod[q]
      /\ HasLeft(p) => HasLeft(p)'
      /\ pod'[p] = pod[p] \/ (e.pc = "await" /\ pod'[p] \in {"terminating", "hit"})
      /\ pod'[p] = "hit" => pod[p] = "hit" \/ (evict[p].pc = "loop" /\ pod[p] = "elsewhere")
  BY <1>1 DEF TypeOK, PodState, Evicted, HasLeft
<1>4. TypeOK'
  BY <1>1, <1>2, <1>3 DEF TypeOK
<1>5. CallInv' /\ TimerInv' /\ GivesUpInTime'
  BY <1>1 DEF CallInv, TimerInv, Lasts, GivesUpInTime
<1>6. PodInv'
  <2>1. \A q \in Pods \ {p} :
          /\ evict'[q].pc # "no" => PassesFilters(q)
          /\ Unevicted(q)' => pod'[q] # "terminating"
          /\ Unevicted(q)' /\ ~May("removed") => pod'[q] = "running"
          /\ evict'[q].pc = "send" /\ evict'[q].ok => HasLeft(q)'
    BY <1>1, <1>2, <1>3 DEF PodInv, Unevicted, HasLeft
  <2>2. /\ evict'[p].pc # "no" => PassesFilters(p)
        /\ Unevicted(p)' => pod'[p] # "terminating"
        /\ Unevicted(p)' /\ ~May("removed") => pod'[p] = "running"
        /\ evict'[p].pc = "send" /\ evict'[p].ok => HasLeft(p)'
    BY <1>1, <1>2, <1>3 DEF PodInv, Unevicted
  <2> QED
    BY <2>1, <2>2 DEF PodInv, May
<1>7. DrainInv'
  <2>1. call.pods \subseteq Pods
    BY <1>1 DEF TypeOK, Call
  <2>2. Unsent' = Unsent
    BY <1>2, <2>1 DEF Unsent
  <2>3. Cardinality(Unsent') = Cardinality(Unsent)
    BY <2>2, Zenon
  <2>4. \A q \in call.pods : evict'[q].pc = "done" => evict[q].pc = "done" /\ q # p
    BY <1>2, <2>1
  <2>5. \A q \in call.pods : q # p /\ HasLeft(q) => HasLeft(q)'
    BY <1>3, <2>1 DEF HasLeft
  <2>6. call.pc # "list"
    BY <1>1 DEF DrainInv
  <2>7. call.pc = "wait" => \A q \in Pods : evict'[q].pc # "no" => q \in call.pods
    BY <1>1, <1>2 DEF DrainInv
  <2> QED
    BY <1>1, <2>3, <2>4, <2>5, <2>6, <2>7 DEF DrainInv
<1>8. DrainedIsGone'
  <2>1. ~(call.op = "DrainNode" /\ call.result = "nil" /\ p \in call.pods)
    BY <1>1 DEF DrainedIsGone
  <2>2. call.pods \subseteq Pods
    BY <1>1 DEF TypeOK, Call
  <2>3. (call.op = "DrainNode" /\ call.result = "nil") =>
          \A q \in call.pods : pod'[q] \in {"gone", "elsewhere", "hit"} /\ evict'[q].pc = "done"
    BY <1>1, <1>2, <1>3, <2>1, <2>2 DEF DrainedIsGone
  <2>4. Kind[p] \notin {"mirror", "daemonset"}
    BY <1>1 DEF PodInv, PassesFilters
  <2>5. ~May("removed") => pod'[p] # "hit"
    BY <1>1, <1>3 DEF DrainedIsGone, PodInv, Unevicted
  <2> QED
    BY <1>1, <1>3, <2>3, <2>4, <2>5 DEF DrainedIsGone, May
<1> QED
  BY <1>4, <1>5, <1>6, <1>7, <1>8 DEF KubeInv

\* The records that a goroutine becomes.
LEMMA Reported ==
  ASSUME TypeOK, NEW ok \in BOOLEAN
  PROVE  LET e == [NoEviction EXCEPT !.pc = "send", !.ok = ok]
         IN  e \in Eviction /\ e.pc = "send" /\ e.ok = ok
<1>1. Never \in Minutes
  BY Environment, TimeoutRuns
<1> QED
  BY <1>1 DEF NoEviction, Eviction

LEMMA GoneOn ==
  ASSUME TypeOK, NEW p \in Pods, NEW pc \in {"loop", "sleep", "done"}, Goes(p, pc)
  PROVE  \E e \in Eviction : e.pc = pc /\ e.ok = evict[p].ok /\ evict' = [evict EXCEPT ![p] = e]
<1> DEFINE e == [evict[p] EXCEPT !.pc = pc]
<1>1. evict' = [evict EXCEPT ![p] = e]
  BY Zenon DEF Goes
<1>2. e \in Eviction /\ e.pc = pc /\ e.ok = evict[p].ok
  BY DEF TypeOK, Eviction
<1> QED
  BY <1>1, <1>2

LEMMA ReportStep ==
  ASSUME KubeInv, NEW p \in Pods, UNCHANGED <<env, node, call, pod, errs>>,
         evict[p].pc \notin {"no", "done"}, NEW ok \in BOOLEAN, Reports(p, ok), ok => HasLeft(p)
  PROVE  KubeInv'
<1>1. TypeOK
  BY DEF KubeInv
<1> DEFINE e == [NoEviction EXCEPT !.pc = "send", !.ok = ok]
<1>2. e \in Eviction /\ e.pc = "send" /\ e.ok = ok
  BY <1>1, Reported
<1>3. evict' = [evict EXCEPT ![p] = e]
  BY DEF Reports
<1> HIDE DEF e
<1> QED
  BY <1>2, <1>3, EvictStep

LEMMA EvictAbortedStep == ASSUME KubeInv, NEW p \in Pods, EvictAborted(p) PROVE KubeInv'
BY ReportStep DEF EvictAborted

LEMMA EvictAcceptedStep == ASSUME KubeInv, NEW p \in Pods, EvictAccepted(p) PROVE KubeInv'
<1>1. TypeOK
  BY DEF KubeInv
<1> DEFINE e == [evict[p] EXCEPT !.pc = "await", !.ctx = NewRequestContext, !.poll = Timeout(env.deletion)]
<1>2. evict' = [evict EXCEPT ![p] = e]
  BY Zenon DEF EvictAccepted
<1>3. NewRequestContext \in Minutes /\ Timeout(env.deletion) \in Minutes
  BY <1>1, Environment, TimeoutRuns DEF NewRequestContext
<1>4. e \in Eviction /\ e.pc = "await"
  BY <1>1, <1>3 DEF TypeOK, Eviction
<1> HIDE DEF e
<1> QED
  BY <1>2, <1>4, EvictStep DEF EvictAccepted

LEMMA EvictNotFoundStep == ASSUME KubeInv, NEW p \in Pods, EvictNotFound(p) PROVE KubeInv'
BY ReportStep DEF EvictNotFound, HasLeft

LEMMA EvictForbiddenStep == ASSUME KubeInv, NEW p \in Pods, EvictForbidden(p) PROVE KubeInv'
<1>1. PICK e \in Eviction : e.pc = "sleep" /\ evict' = [evict EXCEPT ![p] = e]
  BY GoneOn DEF KubeInv, EvictForbidden
<1> QED
  BY <1>1, EvictStep DEF EvictForbidden, Unevicted

LEMMA EvictFailsStep == ASSUME KubeInv, NEW p \in Pods, EvictFails(p) PROVE KubeInv'
BY ReportStep DEF EvictFails

LEMMA EvictWakesStep == ASSUME KubeInv, NEW p \in Pods, EvictWakes(p) PROVE KubeInv'
<1>1. PICK e \in Eviction : e.pc = "loop" /\ evict' = [evict EXCEPT ![p] = e]
  BY GoneOn DEF KubeInv, EvictWakes
<1> QED
  BY <1>1, EvictStep DEF EvictWakes, Unevicted

LEMMA AwaitDeletionStep == ASSUME KubeInv, NEW p \in Pods, AwaitDeletion(p) PROVE KubeInv'
<1>1. \/ Reports(p, FALSE)
      \/ Reports(p, TRUE) /\ HasLeft(p)
  BY DEF AwaitDeletion, HasLeft
<1> QED
  BY <1>1, ReportStep DEF AwaitDeletion

\* The channel takes a result when it is empty.
LEMMA SendStep == ASSUME KubeInv, NEW p \in Pods, Send(p) PROVE KubeInv'
<1>1. /\ TypeOK /\ CallInv /\ TimerInv /\ PodInv /\ DrainInv /\ DrainedIsGone /\ GivesUpInTime
      /\ evict[p].pc = "send" /\ errs = <<>> /\ errs' = <<evict[p].ok>> /\ UNCHANGED <<env, node, call, pod>>
  BY DEF KubeInv, Send
<1>2. PICK e \in Eviction : e.pc = "done" /\ evict' = [evict EXCEPT ![p] = e]
  BY <1>1, GoneOn DEF Send
<1>3. /\ evict' \in [Pods -> Eviction] /\ evict'[p].pc = "done"
      /\ \A q \in Pods \ {p} : evict'[q] = evict[q]
  BY <1>1, <1>2 DEF TypeOK
<1>4. evict[p].ok \in BOOLEAN
  BY <1>1 DEF TypeOK, Eviction
<1>5. TypeOK'
  <2>1. errs' \in {<<>>, <<TRUE>>, <<FALSE>>}
    BY <1>1, <1>4, Zenon
  <2> QED
    BY <1>1, <1>3, <2>1 DEF TypeOK
<1>6. CallInv' /\ TimerInv' /\ GivesUpInTime'
  BY <1>1 DEF CallInv, TimerInv, Lasts, GivesUpInTime
<1>7. PodInv'
  BY <1>1, <1>3 DEF PodInv, Unevicted, HasLeft, May
<1>8. DrainInv'
  <2>1. call.pods \subseteq Pods /\ IsFiniteSet(call.pods)
    BY <1>1, Environment, FS_Subset DEF TypeOK, Call
  <2>2. CASE call.pc = "wait" /\ p \in call.pods
    <3>1. Unsent' = Unsent \ {p} /\ p \in Unsent /\ IsFiniteSet(Unsent)
      BY <1>1, <1>3, <2>1, <2>2, FS_Subset DEF Unsent
    <3>2. Cardinality(Unsent') = Cardinality(Unsent \ {p})
      BY <3>1, Zenon
    <3>3. Cardinality(Unsent') = Cardinality(Unsent) - 1 /\ Cardinality(Unsent) \in Nat
      BY <3>1, <3>2, FS_RemoveElement, FS_CardinalityType
    <3>4. call.left = Cardinality(Unsent) + Len(errs) /\ Len(errs) = 0
      BY <1>1, <2>2 DEF DrainInv
    <3>5. Len(errs') = 1
      BY <1>1, <1>4, Channel
    <3>6. call'.left = Cardinality(Unsent') + Len(errs')
      BY <1>1, <3>3, <3>4, <3>5
    <3>7. errs' # <<FALSE>> => HasLeft(p)
      <4>1. evict[p].ok => HasLeft(p)
        BY <1>1 DEF PodInv
      <4>2. ~evict[p].ok => evict[p].ok = FALSE
        BY <1>4
      <4> QED
        BY <1>1, <4>1, <4>2, Zenon
    <3>8. errs # <<FALSE>>
      BY <1>1, Channel
    <3>9. errs' # <<FALSE>> => \A q \in call'.pods : evict'[q].pc = "done" => HasLeft(q)'
      BY <1>1, <1>3, <2>1, <2>2, <3>7, <3>8 DEF DrainInv, HasLeft
    <3>10. \A q \in Pods : evict'[q].pc # "no" => q \in call'.pods
      BY <1>1, <1>3, <2>2 DEF DrainInv
    <3> QED
      BY <1>1, <2>2, <3>6, <3>9, <3>10 DEF DrainInv
  <2>3. CASE call.pc # "wait"
    BY <1>1, <2>3 DEF DrainInv
  <2>4. call.pc = "wait" => p \in call.pods
    BY <1>1 DEF DrainInv
  <2> QED
    BY <2>2, <2>3, <2>4
<1>9. DrainedIsGone'
  BY <1>1, <1>3 DEF DrainedIsGone, May, TypeOK, Call
<1> QED
  BY <1>5, <1>6, <1>7, <1>8, <1>9 DEF KubeInv

-----------------------------------------------------------------------------
(* Kubernetes, and time *)

LEMMA PodStep ==
  ASSUME KubeInv, NEW p \in Pods, UNCHANGED <<env, node, call, evict, errs>>,
         NEW s \in {"gone", "elsewhere"}, pod' = [pod EXCEPT ![p] = s],
         pod[p] \in {"terminating", "gone"} \/ May("removed"),
         s = "elsewhere" => pod[p] = "gone"
  PROVE  KubeInv'
<1>1. /\ TypeOK /\ CallInv /\ TimerInv /\ PodInv /\ DrainInv /\ DrainedIsGone /\ GivesUpInTime
  BY DEF KubeInv
<1>2. /\ pod' \in [Pods -> PodState] /\ pod'[p] = s /\ \A q \in Pods \ {p} : pod'[q] = pod[q]
      /\ call.pods \subseteq Pods
  BY <1>1 DEF TypeOK, PodState, Call
<1>3. TypeOK'
  BY <1>1, <1>2 DEF TypeOK
<1>4. CallInv' /\ TimerInv' /\ GivesUpInTime'
  BY <1>1 DEF CallInv, TimerInv, Lasts, GivesUpInTime
<1>5. \A q \in Pods : HasLeft(q) => HasLeft(q)'
  BY <1>2 DEF HasLeft
<1>6. PodInv'
  <2>1. Unevicted(p) => pod'[p] # "terminating" /\ (~May("removed") => pod'[p] = "running")
    BY <1>1, <1>2 DEF PodInv
  <2> QED
    BY <1>1, <1>2, <1>5, <2>1 DEF PodInv, Unevicted, May
<1>7. DrainInv'
  <2>1. Unsent' = Unsent
    BY DEF Unsent
  <2>2. Cardinality(Unsent') = Cardinality(Unsent)
    BY <2>1, Zenon
  <2> QED
    BY <1>1, <1>2, <1>5, <2>2 DEF DrainInv
<1>8. DrainedIsGone'
  BY <1>1, <1>2 DEF DrainedIsGone, May
<1> QED
  BY <1>3, <1>4, <1>6, <1>7, <1>8 DEF KubeInv

LEMMA WorldStep == ASSUME KubeInv, World PROVE KubeInv'
<1>1. /\ TypeOK /\ CallInv /\ TimerInv /\ PodInv /\ DrainInv /\ DrainedIsGone /\ GivesUpInTime
  BY DEF KubeInv
<1>2. ASSUME node' \in Node, UNCHANGED <<env, call, pod, evict, errs>>
      PROVE  KubeInv'
  <2>1. TypeOK' /\ CallInv' /\ TimerInv' /\ GivesUpInTime'
    BY <1>1, <1>2 DEF TypeOK, CallInv, TimerInv, Lasts, GivesUpInTime
  <2>2. PodInv' /\ DrainedIsGone'
    BY <1>1, <1>2 DEF PodInv, Unevicted, HasLeft, May, DrainedIsGone
  <2>3. DrainInv'
    <3>1. Unsent' = Unsent
      BY <1>2 DEF Unsent
    <3>2. Cardinality(Unsent') = Cardinality(Unsent)
      BY <3>1, Zenon
    <3> QED
      BY <1>1, <1>2, <3>2 DEF DrainInv, HasLeft
  <2> QED
    BY <2>1, <2>2, <2>3 DEF KubeInv
<1>3. ASSUME NodeRemoved
      PROVE  KubeInv'
  BY <1>1, <1>2, <1>3 DEF NodeRemoved, TypeOK, Node
<1>4. ASSUME NodeReady
      PROVE  KubeInv'
  BY <1>1, <1>2, <1>4 DEF NodeReady, TypeOK, Node
<1>5. ASSUME OthersWrite
      PROVE  KubeInv'
  <2>1. node' \in Node
    <3>1. node \in Node /\ MaxWrites \in Nat
      BY <1>1, Environment DEF TypeOK
    <3>2. node' = [node EXCEPT !.others = @ + 1] /\ node.others < MaxWrites
      BY <1>5 DEF OthersWrite
    <3> QED
      BY <3>1, <3>2 DEF Node
  <2> QED
    BY <1>2, <1>5, <2>1 DEF OthersWrite
<1>6. ASSUME NEW p \in Pods, PodTerminates(p)
      PROVE  KubeInv'
  BY <1>6, PodStep DEF PodTerminates
<1>7. ASSUME NEW p \in Pods, PodMadeAgain(p)
      PROVE  KubeInv'
  BY <1>7, PodStep DEF PodMadeAgain
<1>8. ASSUME NEW p \in Pods, PodRemoved(p)
      PROVE  KubeInv'
  BY <1>8, PodStep DEF PodRemoved
<1> QED
  BY <1>3, <1>4, <1>5, <1>6, <1>7, <1>8 DEF World

LEMMA TickStep == ASSUME KubeInv, Tick PROVE KubeInv'
<1>1. /\ TypeOK /\ CallInv /\ TimerInv /\ PodInv /\ DrainInv /\ DrainedIsGone /\ GivesUpInTime
      /\ UNCHANGED <<env, node, pod, errs>>
  BY DEF KubeInv, Tick
<1>2. /\ MaxMinutes \in Nat /\ env.request \in 0 .. MaxMinutes /\ env.ready \in 0 .. MaxMinutes
      /\ call.ctx \in Minutes /\ call.poll \in Minutes /\ call.deadline \in Minutes
      /\ call.elapsed \in Minutes
  <2>1. call \in Call
    BY <1>1 DEF TypeOK
  <2> QED
    BY <1>1, <2>1, Environment DEF Call
<1> DEFINE elapsed == IF call.pc = "idle" \/ call.elapsed = Never THEN call.elapsed ELSE call.elapsed + 1
<1>3. /\ Down(call.ctx) \in Minutes /\ Down(call.poll) \in Minutes /\ Down(call.deadline) \in Minutes
      /\ elapsed \in Minutes /\ elapsed >= call.elapsed
      /\ call.pc = "idle" => elapsed = call.elapsed
  BY <1>2 DEF Down, Minutes, Never
<1>4. call' = [call EXCEPT !.ctx = Down(@), !.poll = Down(@), !.deadline = Down(@), !.elapsed = elapsed]
  BY DEF Tick
<1>5. call.pc # "idle" =>
        /\ Lasts(call.ctx, env.request) =>
             Down(call.ctx) = Never \/ (env.request > 0 /\ Down(call.ctx) + elapsed >= env.request)
        /\ call.deadline = Never => Down(call.deadline) = Never
        /\ call.deadline + call.elapsed >= env.request =>
             Down(call.deadline) = Never \/ Down(call.deadline) + elapsed >= env.request
        /\ Lasts(call.poll, env.request) =>
             Down(call.poll) = Never \/ (env.request > 0 /\ Down(call.poll) + elapsed >= env.request)
        /\ Lasts(call.poll, env.ready) =>
             Down(call.poll) = Never \/ (env.ready > 0 /\ Down(call.poll) + elapsed >= env.ready)
        /\ call.poll = Never => Down(call.poll) = Never
  BY <1>2, DownRuns DEF Lasts
<1> HIDE DEF elapsed
<1>6. /\ call' \in Call /\ call'.op = call.op /\ call'.pc = call.pc /\ call'.result = call.result
      /\ call'.ctx = Down(call.ctx) /\ call'.poll = Down(call.poll)
      /\ call'.deadline = Down(call.deadline) /\ call'.elapsed = elapsed
      /\ call'.pods = call.pods /\ call'.left = call.left
  BY <1>1, <1>3, <1>4 DEF TypeOK, Call
<1>7. /\ evict' \in [Pods -> Eviction]
      /\ \A p \in Pods : evict'[p].pc = evict[p].pc /\ evict'[p].ok = evict[p].ok
  <2>1. ASSUME NEW p \in Pods
        PROVE  /\ [evict[p] EXCEPT !.ctx = Down(@), !.poll = Down(@)] \in Eviction
               /\ [evict[p] EXCEPT !.ctx = Down(@), !.poll = Down(@)].pc = evict[p].pc
               /\ [evict[p] EXCEPT !.ctx = Down(@), !.poll = Down(@)].ok = evict[p].ok
    <3>1. evict[p] \in Eviction
      BY <1>1 DEF TypeOK
    <3>2. Down(evict[p].ctx) \in Minutes /\ Down(evict[p].poll) \in Minutes
      BY <1>2, <3>1 DEF Eviction, Down, Minutes, Never
    <3> QED
      BY <3>1, <3>2 DEF Eviction
  <2>2. evict' = [p \in Pods |-> [evict[p] EXCEPT !.ctx = Down(@), !.poll = Down(@)]]
    BY DEF Tick
  <2> QED
    BY <2>1, <2>2
<1>8. TypeOK'
  BY <1>1, <1>6, <1>7 DEF TypeOK
<1>9. CallInv'
  BY <1>1, <1>6 DEF CallInv
<1>10. TimerInv'
  BY <1>1, <1>5, <1>6 DEF TimerInv, Lasts
<1>11. PodInv'
  BY <1>1, <1>7 DEF PodInv, Unevicted, HasLeft, May
<1>12. DrainInv'
  <2>1. Unsent' = Unsent
    BY <1>1, <1>6, <1>7 DEF Unsent, TypeOK, Call
  <2>2. Cardinality(Unsent') = Cardinality(Unsent)
    BY <2>1, Zenon
  <2>3. call.pods \subseteq Pods
    BY <1>1 DEF TypeOK, Call
  <2> QED
    BY <1>1, <1>6, <1>7, <2>2, <2>3 DEF DrainInv, HasLeft
<1>13. DrainedIsGone'
  <2>1. call.pods \subseteq Pods
    BY <1>1 DEF TypeOK, Call
  <2> QED
    BY <1>1, <1>6, <1>7, <2>1 DEF DrainedIsGone, May
<1>14. GivesUpInTime'
  <2>1. call.result = "timeout" => elapsed = call.elapsed
    BY <1>1, <1>3 DEF CallInv
  <2> QED
    BY <1>1, <1>6, <2>1 DEF GivesUpInTime
<1> QED
  BY <1>8, <1>9, <1>10, <1>11, <1>12, <1>13, <1>14 DEF KubeInv

-----------------------------------------------------------------------------
(* The theorems *)

LEMMA KubeInvInit == Init => KubeInv
<1> SUFFICES ASSUME Init PROVE KubeInv
  OBVIOUS
<1>1. /\ call = Idle /\ node = NewNode /\ env \in Environments /\ errs = <<>>
      /\ pod = [p \in Pods |-> "running"] /\ evict = [p \in Pods |-> NoEviction]
  BY DEF Init
<1>2. Never \in Minutes /\ 0 \in Minutes /\ 0 \in 0 .. Cardinality(Pods) /\ MaxWrites \in Nat
  BY KubeClientAssumption, FS_CardinalityType DEF Never, Minutes
<1>3. /\ node \in Node /\ call \in Call /\ NoEviction \in Eviction
      /\ call.op = "none" /\ call.pc = "idle" /\ call.result = "none"
  BY <1>1, <1>2 DEF NewNode, Node, Idle, Call, NoEviction, Eviction
<1>4. TypeOK
  BY <1>1, <1>3 DEF TypeOK, PodState
<1>5. CallInv /\ TimerInv /\ DrainInv /\ GivesUpInTime
  BY <1>3 DEF CallInv, TimerInv, DrainInv, GivesUpInTime
<1>6. PodInv
  BY <1>1 DEF PodInv, Unevicted, NoEviction
<1>7. DrainedIsGone
  BY <1>1, <1>3 DEF DrainedIsGone
<1> QED
  BY <1>4, <1>5, <1>6, <1>7 DEF KubeInv

LEMMA KubeInvStep == KubeInv /\ [Next]_vars => KubeInv'
<1> SUFFICES ASSUME KubeInv, [Next]_vars PROVE KubeInv'
  OBVIOUS
<1>1. CASE Calls
  BY <1>1, BeginUpdateStep, BeginDrainStep, BeginDeleteStep DEF Calls
<1>2. CASE Steps
  BY <1>2, GetStep, UpdateStep, UpdateFailsStep, RetryStep, WaitNodeToBeReadyStep, DeleteNodeStep,
     DrainListStep, DrainDoneStep, DrainReceivesStep, DrainDeadlineStep DEF Steps
<1>3. CASE \E p \in Pods : Evicts(p)
  BY <1>3, EvictAbortedStep, EvictAcceptedStep, EvictNotFoundStep, EvictForbiddenStep, EvictFailsStep,
     EvictWakesStep, AwaitDeletionStep, SendStep DEF Evicts
<1>4. CASE World
  BY <1>4, WorldStep
<1>5. CASE Tick
  BY <1>5, TickStep
<1>6. CASE UNCHANGED vars
  <2>1. UNCHANGED <<env, node, call, pod, evict, errs>>
    BY <1>6 DEF vars
  <2>2. TypeOK' /\ CallInv' /\ TimerInv' /\ GivesUpInTime'
    BY <2>1 DEF KubeInv, TypeOK, CallInv, TimerInv, Lasts, GivesUpInTime
  <2>3. PodInv' /\ DrainedIsGone'
    BY <2>1 DEF KubeInv, PodInv, Unevicted, HasLeft, May, DrainedIsGone
  <2>4. DrainInv'
    <3>1. Unsent' = Unsent
      BY <2>1 DEF Unsent
    <3>2. Cardinality(Unsent') = Cardinality(Unsent)
      BY <3>1, Zenon
    <3> QED
      BY <2>1, <3>2 DEF KubeInv, DrainInv, HasLeft
  <2> QED
    BY <2>2, <2>3, <2>4 DEF KubeInv
<1> QED
  BY <1>1, <1>2, <1>3, <1>4, <1>5, <1>6 DEF Next

\* The inductive invariant: what the goroutines of DrainNode have sent and it has not received,
\* and how long every timer has run.
THEOREM KubeInvariance == Spec => []KubeInv
<1>1. Init => KubeInv
  BY KubeInvInit
<1>2. KubeInv /\ [Next]_vars => KubeInv'
  BY KubeInvStep
<1> QED
  BY <1>1, <1>2, PTL DEF Spec

\* Every variable of the client keeps its type.
THEOREM KubeTypeCorrect == Spec => []TypeOK
<1>1. KubeInv => TypeOK
  BY DEF KubeInv
<1> QED
  BY <1>1, KubeInvariance, PTL

\* When DrainNode returns nil every pod it listed has left the node and its goroutine has ended;
\* no other pod is evicted (DrainNode, evictPod, awaitDeletion).
THEOREM KubeDrainedIsGone == Spec => []DrainedIsGone
<1>1. KubeInv => DrainedIsGone
  BY DEF KubeInv
<1> QED
  BY <1>1, KubeInvariance, PTL

\* No call gives up before its timeout, nor ever where 0 says that there is none, except where
\* RequestTimeout * time.Second is negative, and DrainNode, which gives up at once for a 0.
THEOREM KubeGivesUpInTime == Spec => []GivesUpInTime
<1>1. KubeInv => GivesUpInTime
  BY DEF KubeInv
<1> QED
  BY <1>1, KubeInvariance, PTL

\* A write to the node that read it before others wrote is refused, or is a patch.
LEMMA NodeKept == KubeInv /\ [Next]_vars => [node'.others >= node.others]_node
<1> SUFFICES ASSUME KubeInv, [Next]_vars, node' # node
             PROVE  node'.others >= node.others
  OBVIOUS
<1>1. node \in Node /\ call \in Call /\ CallInv
  BY DEF KubeInv, TypeOK
<1>2. node.others \in Nat
  BY <1>1, KubeClientAssumption DEF Node
<1>3. CASE Update
  <2>1. call.seen \in Node
    BY <1>1 DEF Call
  <2>2. CASE call.op = "SetProviderID"
    BY <1>1, <1>2, <1>3, <2>2 DEF Update, Written, Node
  <2>3. CASE call.op # "SetProviderID"
    <3>1. call.seen = node /\ node' = WrittenBlindly(call.op)
      BY <1>3, <2>3 DEF Update, UpToDate
    <3> QED
      BY <1>2, <2>1, <3>1 DEF WrittenBlindly, Node
  <2> QED
    BY <2>2, <2>3
<1>4. CASE DeleteNode \/ NodeRemoved \/ NodeReady
  BY <1>1, <1>2, <1>4 DEF DeleteNode, NodeRemoved, NodeReady, Node
<1>5. CASE OthersWrite
  BY <1>1, <1>2, <1>5 DEF OthersWrite, Node
<1> QED
  BY <1>3, <1>4, <1>5 DEF Next, vars, Calls, BeginUpdate, Begin, Steps, Get, UpdateFails, Retry,
     WaitNodeToBeReady, DrainList, DrainDone, DrainReceives, DrainDeadline, Evicts, EvictAborted,
     EvictAccepted, EvictNotFound, EvictForbidden, EvictFails, EvictWakes, AwaitDeletion, Send,
     World, PodTerminates, PodMadeAgain, PodRemoved, Tick

\* No call undoes what others wrote to the node.
THEOREM KubeNoLostUpdate == Spec => NoLostUpdate
<1>1. KubeInv /\ [Next]_vars => [node'.others >= node.others]_node
  BY NodeKept
<1> QED
  BY <1>1, KubeInvariance, PTL DEF Spec, NoLostUpdate
=============================================================================
