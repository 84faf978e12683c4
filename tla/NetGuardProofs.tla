---------------------------- MODULE NetGuardProofs ----------------------------
(***************************************************************************)
(* The theorems about NetGuard, for any number of handlers, rules, plans,  *)
(* approvals, tasks and leases, and any combination of failing writes and  *)
(* process deaths.                                                         *)
(***************************************************************************)
EXTENDS NetGuardSteps, FiniteSetTheorems

\* A set of tasks is finite.
LEMMA TasksFinite ==
  ASSUME NEW ts \in SUBSET Tasks
  PROVE  IsFiniteSet(ts) /\ Cardinality(ts) \in Nat
<1>1. ts \in SUBSET Nat /\ \A t \in ts : t <= MaxTasks
  BY NetGuardAssumption DEF Tasks
<1>2. MaxTasks \in Nat
  BY NetGuardAssumption
<1>3. IsFiniteSet(ts)
  BY <1>1, <1>2, FS_BoundedSetOfNaturals
<1> QED
  BY <1>3, FS_CardinalityType

\* The leases of a poll are above the last one drawn.
LEMMA LeaseForRange ==
  ASSUME NEW ts \in SUBSET Tasks, NEW t \in ts, lastLease \in Nat
  PROVE  LeaseFor(ts, t) \in lastLease + 1 .. lastLease + Cardinality(ts)
<1> DEFINE upTo == {u \in ts : u <= t}
<1>1. IsFiniteSet(ts) /\ Cardinality(ts) \in Nat /\ IsFiniteSet(upTo) /\ Cardinality(upTo) \in Nat
  BY TasksFinite
<1>2. Cardinality(upTo) <= Cardinality(ts)
  BY <1>1, FS_Subset
<1>3. t \in upTo
  BY NetGuardAssumption DEF Tasks
<1>4. Cardinality(upTo) # 0
  BY <1>1, <1>3, FS_EmptySet
<1> QED
  BY <1>1, <1>2, <1>4 DEF LeaseFor

\* A poll draws leases within the bound.
LEMMA LeasesWithinBound ==
  ASSUME TypeOK
  PROVE  LeasesFit
<1>1. lastLease \in Nat
  BY NetGuardAssumption DEF TypeOK
<1> SUFFICES ASSUME NEW ts \in SUBSET Tasks, lastLease + Cardinality(ts) <= MaxLeases
             PROVE  /\ lastLease + Cardinality(ts) \in 0..MaxLeases
                    /\ \A t \in ts : LeaseFor(ts, t) \in Leases
  BY DEF LeasesFit
<1>2. Cardinality(ts) \in Nat
  BY TasksFinite
<1>3. \A t \in ts : LeaseFor(ts, t) \in lastLease + 1 .. lastLease + Cardinality(ts)
  BY <1>1, LeaseForRange
<1> QED
  BY <1>1, <1>2, <1>3, NetGuardAssumption DEF Leases

\* The types are kept, given the invariant.
LEMMA GuardStepType == GuardInv /\ [Next]_vars => TypeOK'
<1> SUFFICES ASSUME GuardInv, [Next]_vars PROVE TypeOK'
  BY Zenon
<1>1. Anchors
  BY LiveFacts, Zenon DEF Anchors, ReqOK
<1>2. Filed(live)
  BY LiveFacts, Zenon DEF Filed, RowsOK, TaskOK
<1> QED
  BY <1>1, <1>2, LeasesWithinBound, StepType, Zenon DEF GuardInv

\* The invariant holds at the start.
LEMMA GuardInvInit == Init => GuardInv
<1> SUFFICES ASSUME Init PROVE GuardInv
  OBVIOUS
<1>1. PICK managed \in BOOLEAN, r \in Rules, d \in Deps : InitStateFile(emptyState(managed, r, d))
  BY Zenon DEF Init
<1> DEFINE s0 == emptyState(managed, r, d)
<1>2. AllStates = {s0} /\ live = s0 /\ disk = s0 /\ recoverable = {s0}
  BY <1>1 DEF InitStateFile, AllStates
<1>3. /\ \A t \in Tasks : /\ s0.tasks[t].status = "none" /\ s0.tasks[t].lease = 0
                          /\ s0.tasks[t].receipt = "none"
      /\ \A a \in Approvals : s0.approvals[a].status = "none"
  BY DEF emptyState
<1>4. s0.binding.applied = NoPlan
  BY Zenon DEF emptyState, noBinding
<1> HIDE DEF s0
<1>5. RowsOK(s0, lastApproval, lastTask)
  BY <1>3, Zenon DEF RowsOK, TaskOK, ApprovalOK
<1>6. AppliedOK(s0, s0.binding, ran)
  BY <1>4, Zenon DEF AppliedOK
<1>7. StatesInv
  BY <1>2, <1>3, <1>5, <1>6, Zenon DEF StatesInv, Agree, Exists, Settled
<1>8. AgentInv
  BY DEF Init, AgentInv
<1>9. ReqInv
  BY IdleOK, Zenon DEF Init, ReqInv
<1> QED
  BY <1>7, <1>8, <1>9, InitType, ZenonT(40) DEF GuardInv

\* Every step keeps it.
LEMMA GuardInvStep == GuardInv /\ [Next]_vars => GuardInv'
<1> SUFFICES ASSUME GuardInv, [Next]_vars PROVE GuardInv'
  OBVIOUS
<1>1. TypeOK'
  BY GuardStepType, Zenon
<1>2. ASSUME NEW h \in Handlers, Operator(h) PROVE GuardInv'
  BY <1>1, <1>2, OperatorReads, OperatorWrites, Zenon DEF Operator
<1>3. ASSUME NEW l \in Leases, Expire(l) PROVE GuardInv'
  BY <1>1, <1>3, ReadKeeps, Zenon DEF Expire, counters
<1>4. CASE Poll
  BY <1>1, <1>4, LeasesWithinBound, PollKeeps, ZenonT(40) DEF Poll, GuardInv
<1>5. CASE UNCHANGED vars
  BY <1>1, <1>5, ReadKeeps, Zenon DEF vars, counters, agent
<1> QED
  BY <1>1, <1>2, <1>3, <1>4, <1>5, ResultKeeps, OtherWrites, ReplayKeeps, CrashKeeps, Zenon DEF Next

\* Leases, receipts and the applied plan agree in memory, in the file and in
\* whatever a power loss brings back, however requests, polls and process
\* deaths interleave.
THEOREM GuardStaysSound == Spec => []GuardSound
<1>1. Init => GuardInv
  BY GuardInvInit
<1>2. GuardInv /\ [Next]_vars => GuardInv'
  BY GuardInvStep
<1>3. GuardInv => GuardSound
  BY GuardInvSound, Zenon
<1> QED
  BY <1>1, <1>2, <1>3, PTL DEF Spec

-----------------------------------------------------------------------------
(* What a step may never do.                                               *)

\* Only four kinds of steps bring a lease or an applied plan.
LEMMA StepKinds ==
  ASSUME GuardInv, [Next]_vars
  PROVE  \/ Tame(live')
         \/ \E oc \in Outcomes, arrives \in BOOLEAN :
              LeaseDurable(oc, arrives) \/ LeaseGeneric(oc, arrives)
         \/ \E h \in Handlers, oc \in Outcomes : CompleteNetGuardTaskResult(h, oc)
         \/ \E kind \in Crashes, oc \in Outcomes : Crash(kind, oc)
<1>1. TypeOK'
  BY GuardStepType
<1>2. ASSUME NEW h \in Handlers, Operator(h) PROVE Tame(live')
  <2>1. CASE \/ PlanCompile(h) \/ ApproveInFlight(h)
             \/ \E a \in Approvals : ApproveRead(h, a) \/ RejectRead(h, a)
             \/ \E op \in Requests, m \in BOOLEAN, r \in Rules : ReadBinding(h, op, m, r)
    BY <2>1, QuietRead, Zenon DEF PlanCompile, ApproveInFlight, ApproveRead, RejectRead, ReadBinding
  <2>2. CASE \E oc \in Outcomes :
               \/ PlanAnchor(h, oc) \/ PlanSubmit(h, oc) \/ QueueTask(h, oc) \/ RejectWrite(h, oc)
               \/ UpsertNodeGuardBinding(h, oc)
               \/ \E queue \in BOOLEAN : ApproveNetGuard(h, queue, oc) \/ ApproveLegacy(h, queue, oc)
    BY <1>1, <2>2, OperatorWrites
  <2> QED
    BY <1>2, <2>1, <2>2, Zenon DEF Operator
<1>3. ASSUME NEW h \in Handlers, Result(h)
      PROVE  Tame(live') \/ \E oc \in Outcomes : CompleteNetGuardTaskResult(h, oc)
  BY <1>3, QuietRead, Zenon DEF Result, ResultGate, ResultJudge
<1>4. ASSUME NEW oc, confirmDurabilityLocked(oc) PROVE Tame(live')
  BY <1>4, Zenon DEF confirmDurabilityLocked, Tame
<1>5. CASE Poll
  BY <1>4, <1>5, Zenon DEF Poll, Redeliver
<1>6. ASSUME NEW i \in held, NEW oc \in Outcomes, ResultReplay(i, oc) PROVE Tame(live')
  BY <1>4, <1>6, Zenon DEF ResultReplay
<1>7. ASSUME NEW l \in Leases, Expire(l) PROVE Tame(live')
  BY <1>7, QuietRead, ZenonT(40) DEF Expire
<1>8. CASE UNCHANGED vars
  BY <1>8, QuietRead, Zenon DEF vars
<1> QED
  BY <1>1, <1>2, <1>3, <1>5, <1>6, <1>7, <1>8, OtherWrites, Zenon DEF Next

\* What a poll writes: approvals keep their plans, and none becomes applied.
LEMMA PollWrites ==
  ASSUME GuardInv, NEW oc \in Outcomes, NEW arrives \in BOOLEAN, NEW ts \in SUBSET Tasks,
         NEW m \in State, live' \in {live, WithLeases(m, ts)},
         m = live \/ m = DropSuperseded(live)
  PROVE  /\ \A a \in Approvals : live'.approvals[a].status = "applied" =>
                                   live.approvals[a].status = "applied"
<1>1. WithLeases(m, ts).approvals = m.approvals
  BY LiveFacts, LeasesWritten, Zenon
<1>2. \A a \in Approvals : m.approvals[a].status = "applied" => live.approvals[a].status = "applied"
  <2>1. CASE m = live
    BY <2>1, Zenon
  <2>2. CASE m = DropSuperseded(live)
    <3>1. \A a \in Approvals :
            \/ m.approvals[a] = live.approvals[a] \/ m.approvals[a].status = "rejected"
      BY <2>2, LiveFacts, SupersededDropped, Zenon
    <3> QED
      BY <3>1, Zenon
  <2> QED
    BY <2>1, <2>2, Zenon
<1> QED
  BY <1>1, <1>2, Zenon

AppliedStep ==
  \A a \in Approvals :
    /\ live.approvals[a].status = "approved" /\ live'.approvals[a].status = "applied"
    /\ \A i \in 1..Len(changes) : changes[i] # "delete"
    => /\ live.approvals[a].plan = currentNetGuardPlan(live)
       /\ \E r \in ran : r.ok /\ live.tasks[r.task].approval = a

\* A result applies its own approval, and only a plan that is current.
LEMMA AppliedByResult == GuardInv /\ [Next]_vars => AppliedStep
<1> SUFFICES ASSUME GuardInv, [Next]_vars, NEW a \in Approvals,
                    live.approvals[a].status = "approved", live'.approvals[a].status = "applied",
                    ~Deleted(changes)
             PROVE  /\ live.approvals[a].plan = currentNetGuardPlan(live)
                    /\ \E r \in ran : r.ok /\ live.tasks[r.task].approval = a
  BY DEF AppliedStep, Deleted
<1>1. CASE Tame(live')
  BY <1>1, Zenon DEF Tame
<1>2. ASSUME NEW oc \in Outcomes, NEW arrives \in BOOLEAN,
             LeaseDurable(oc, arrives) \/ LeaseGeneric(oc, arrives)
      PROVE  FALSE
  <2>1. CASE LeaseDurable(oc, arrives)
    <3>1. live' \in {live, WithLeases(live, FreshDurable(live))}
      BY <2>1, Zenon DEF LeaseDurable, Staged
    <3>2. FreshDurable(live) \in SUBSET Tasks
      BY Zenon DEF FreshDurable
    <3> QED
      BY <3>1, <3>2, LiveFacts, PollWrites, Zenon
  <2>2. CASE LeaseGeneric(oc, arrives)
    <3> DEFINE m == DropSuperseded(live)
    <3>1. live' \in {live, WithLeases(m, FreshGeneric(m))}
      BY <2>2, Zenon DEF LeaseGeneric, Staged
    <3>2. FreshGeneric(m) \in SUBSET Tasks
      BY Zenon DEF FreshGeneric
    <3>3. m \in State
      BY LiveFacts, SupersededDropped, Zenon
    <3> QED
      BY <3>1, <3>2, <3>3, PollWrites, Zenon
  <2> QED
    BY <1>2, <2>1, <2>2, ZenonT(40)
<1>3. ASSUME NEW h \in Handlers, NEW oc \in Outcomes, CompleteNetGuardTaskResult(h, oc)
      PROVE  /\ live.approvals[a].plan = currentNetGuardPlan(live)
             /\ \E r \in ran : r.ok /\ live.tasks[r.task].approval = a
  <2> DEFINE q == req[h]
             t == q.run.task
  <2>1. /\ q.op = "complete" /\ q \in Request /\ ReqOK(q, live, ran, Deleted(changes))
    BY <1>3, LiveFacts, Zenon DEF CompleteNetGuardTaskResult
  <2>2. /\ q.run \in Run /\ q.verdict \in {"applied", "rejected"} /\ q.binding \in Binding
        /\ q.run \in ran /\ Durable(live, t) /\ (q.verdict = "applied" => q.run.ok)
        /\ q.binding.version = live.binding.version /\ q.verdict = "applied" =>
             Verdict(live, q.run) = "applied"
    BY <2>1, RequestFields, Zenon DEF ReqOK
  <2>3. /\ live' \in {live, Completed(live, q)}
        /\ live' # live => q.binding.version = live.binding.version
    BY <1>3, Zenon DEF CompleteNetGuardTaskResult, Staged, stateFile
  <2>4. live' = Completed(live, q) /\ q.binding.version = live.binding.version
    BY <2>3, Zenon
  <2>5. t \in Tasks /\ live.tasks[t].approval \in Approvals
    BY <2>2, LiveFacts, ZenonT(40) DEF Run, RowsOK, TaskOK, Durable
  <2>6. /\ live'.approvals[live.tasks[t].approval].status = q.verdict
        /\ \A b \in Approvals : b # live.tasks[t].approval => live'.approvals[b] = live.approvals[b]
    BY <2>2, <2>4, <2>5, LiveFacts, ResultWritten, ZenonT(40)
  <2>7. a = live.tasks[t].approval /\ q.verdict = "applied"
    BY <2>6, Zenon
  <2>8. Verdict(live, q.run) = "applied"
    BY <2>2, <2>4, <2>7, Zenon
  <2>9. live.approvals[a].plan = currentNetGuardPlan(live)
    BY <2>7, <2>8, Zenon DEF Verdict
  <2> QED
    BY <2>2, <2>7, <2>9, ZenonT(40)
<1>4. ASSUME NEW kind \in Crashes, NEW oc \in Outcomes, Crash(kind, oc) PROVE FALSE
  <2>1. AllStates' \subseteq AllStates /\ live' \in AllStates'
    BY <1>4, RestartStates, ZenonT(40) DEF Crash, AllStates
  <2>2. Decided(live, a)
    BY <2>1 DEF GuardInv, StatesInv
  <2> QED
    BY <2>2, Zenon DEF Decided
<1> QED
  BY <1>1, <1>2, <1>3, <1>4, StepKinds, ZenonT(40)

\* An approval becomes applied only with the result of a successful run of its
\* plan, and only while that plan is what would be compiled, for any number of
\* handlers, changes, retries, failing writes and process deaths.
THEOREM AppliedOnlyWhenCurrent == Spec => AppliedIsCurrent
<1>1. Init => GuardInv
  BY GuardInvInit
<1>2. GuardInv /\ [Next]_vars => GuardInv'
  BY GuardInvStep
<1>3. GuardInv /\ [Next]_vars => [AppliedStep]_vars
  BY AppliedByResult, Zenon
<1> QED
  BY <1>1, <1>2, <1>3, PTL DEF Spec, AppliedIsCurrent, AppliedStep

LeaseStep ==
  \A t, u \in Tasks :
    /\ live'.tasks[t].lease # live.tasks[t].lease
    /\ live'.approvals[live'.tasks[t].approval].status = "approved"
    /\ u \in GuardWritersInFlight(live', ~NetGuardSide(live', t))
    => ~Live(live', u)

\* A poll leases the tasks of one side, and none while the other side may run.
LEMMA LeasesOneSide ==
  ASSUME NEW m \in State, NEW ts \in SUBSET Tasks, NEW side \in BOOLEAN,
         \A t \in ts : NetGuardSide(m, t) = side /\ ~Hold(m, t),
         NEW t \in ts, NEW u \in Tasks,
         m.approvals[m.tasks[t].approval].status = "approved",
         u \in GuardWritersInFlight(WithLeases(m, ts), ~NetGuardSide(WithLeases(m, ts), t))
  PROVE  ~Live(WithLeases(m, ts), u)
<1> DEFINE n == WithLeases(m, ts)
<1>1. /\ n.approvals = m.approvals
      /\ \A v \in ts : n.tasks[v].approval = m.tasks[v].approval
      /\ \A v \in Tasks : v \notin ts => n.tasks[v] = m.tasks[v]
  BY LeasesWritten, ZenonT(40)
<1> HIDE DEF n
<1>2. \A v \in Tasks : NetGuardSide(n, v) <=> NetGuardSide(m, v)
  BY <1>1, Zenon DEF NetGuardSide
<1>3. NetGuardSide(n, u) = ~NetGuardSide(n, t)
  BY Zenon DEF GuardWritersInFlight, n
<1>4. u \notin ts
  <2>1. ~(NetGuardSide(m, u) <=> NetGuardSide(m, t))
    BY <1>2, <1>3, Zenon DEF NetGuardSide
  <2>2. u \in ts => (NetGuardSide(m, u) <=> NetGuardSide(m, t))
    BY Zenon DEF NetGuardSide
  <2> QED
    BY <2>1, <2>2, ZenonT(40)
<1>5. u \in GuardWritersInFlight(m, ~NetGuardSide(m, t))
  <2>1. /\ taskTargetAwaitingResult(m, u)
        /\ m.approvals[m.tasks[u].approval].status = "approved"
    BY <1>1, <1>4, Zenon DEF GuardWritersInFlight, taskTargetAwaitingResult, n
  <2>2. NetGuardSide(m, u) = ~NetGuardSide(m, t)
    BY <1>2, <1>3, Zenon DEF NetGuardSide
  <2> QED
    BY <2>1, <2>2, Zenon DEF GuardWritersInFlight
<1>6. ~Live(m, u)
  BY <1>5, Zenon DEF Hold
<1> QED
  BY <1>1, <1>4, <1>6, Zenon DEF Live, n

\* Without a power loss only a poll changes a lease.
LEMMA LeasedAlone ==
  ASSUME "power" \notin Crashes
  PROVE  GuardInv /\ [Next]_vars => LeaseStep
<1> SUFFICES ASSUME GuardInv, [Next]_vars, NEW t \in Tasks, NEW u \in Tasks,
                    live'.tasks[t].lease # live.tasks[t].lease,
                    live'.approvals[live'.tasks[t].approval].status = "approved",
                    u \in GuardWritersInFlight(live', ~NetGuardSide(live', t))
             PROVE  ~Live(live', u)
  BY Zenon DEF LeaseStep
<1>1. CASE Tame(live')
  BY <1>1, Zenon DEF Tame
<1>2. ASSUME NEW oc \in Outcomes, NEW arrives \in BOOLEAN, LeaseDurable(oc, arrives)
      PROVE  ~Live(live', u)
  <2> DEFINE ts == FreshDurable(live)
             n == WithLeases(live, ts)
  <2>1. live' \in {live, n}
    BY <1>2, Zenon DEF LeaseDurable, Staged
  <2>2. ts \in SUBSET Tasks /\ \A v \in ts : NetGuardSide(live, v) /\ ~Hold(live, v)
    BY Zenon DEF FreshDurable
  <2>3. \A v \in ts : NetGuardSide(live, v) = TRUE
    BY <2>2, Zenon DEF NetGuardSide
  <2>4. live' = n
    BY <2>1, Zenon
  <2> HIDE DEF ts
  <2>5. /\ n.approvals = live.approvals
        /\ \A v \in ts : n.tasks[v].approval = live.tasks[v].approval
        /\ \A v \in Tasks : v \notin ts => n.tasks[v] = live.tasks[v]
    BY <2>2, LiveFacts, LeasesWritten, ZenonT(40)
  <2>6. t \in ts
    BY <2>4, <2>5, Zenon
  <2> QED
    BY <2>1, <2>2, <2>3, <2>4, <2>5, <2>6, LiveFacts, LeasesOneSide, Zenon
<1>3. ASSUME NEW oc \in Outcomes, NEW arrives \in BOOLEAN, LeaseGeneric(oc, arrives)
      PROVE  ~Live(live', u)
  <2> DEFINE m == DropSuperseded(live)
             ts == FreshGeneric(m)
             n == WithLeases(m, ts)
  <2>1. live' \in {live, n}
    BY <1>3, Zenon DEF LeaseGeneric, Staged
  <2>2. ts \in SUBSET Tasks /\ \A v \in ts : ~NetGuardSide(m, v) /\ ~Hold(m, v)
    BY Zenon DEF FreshGeneric
  <2>3. \A v \in ts : NetGuardSide(m, v) = FALSE
    BY <2>2, Zenon DEF NetGuardSide
  <2>4. live' = n
    BY <2>1, Zenon
  <2>5. m \in State /\ \A v \in Tasks : m.tasks[v].lease = live.tasks[v].lease
    BY LiveFacts, SupersededDropped, DropRows, Zenon
  <2> HIDE DEF ts, m
  <2>6. /\ n.approvals = m.approvals
        /\ \A v \in ts : n.tasks[v].approval = m.tasks[v].approval
        /\ \A v \in Tasks : v \notin ts => n.tasks[v] = m.tasks[v]
    BY <2>2, <2>5, LeasesWritten, ZenonT(40)
  <2>7. t \in ts
    BY <2>4, <2>5, <2>6, Zenon
  <2> QED
    BY <2>1, <2>2, <2>3, <2>4, <2>5, <2>6, <2>7, LiveFacts, LeasesOneSide, Zenon
<1>4. ASSUME NEW h \in Handlers, NEW oc \in Outcomes, CompleteNetGuardTaskResult(h, oc)
      PROVE  FALSE
  <2> DEFINE q == req[h]
  <2>1. /\ q.op = "complete" /\ q \in Request /\ ReqOK(q, live, ran, Deleted(changes))
    BY <1>4, LiveFacts, ZenonT(40) DEF CompleteNetGuardTaskResult
  <2>2. /\ q.run \in Run /\ q.verdict \in {"applied", "rejected"} /\ q.binding \in Binding
        /\ Durable(live, q.run.task)
    BY <2>1, RequestFields, Zenon DEF ReqOK
  <2>3. live' = Completed(live, q)
    BY <1>4, Zenon DEF CompleteNetGuardTaskResult, Staged, stateFile
  <2>4. q.run.task \in Tasks /\ live.tasks[q.run.task].approval \in Approvals
    BY <2>2, LiveFacts, ZenonT(40) DEF Run, RowsOK, TaskOK, Durable
  <2>5. /\ live'.tasks[q.run.task].lease = live.tasks[q.run.task].lease
        /\ \A v \in Tasks : v # q.run.task => live'.tasks[v] = live.tasks[v]
    <3>1. live \in State
      BY LiveFacts, Zenon
    <3> HIDE DEF q
    <3>2. /\ Completed(live, q).tasks[q.run.task].lease = live.tasks[q.run.task].lease
          /\ \A v \in Tasks : v # q.run.task => Completed(live, q).tasks[v] = live.tasks[v]
      BY <2>2, <2>4, <3>1, ResultWritten, Zenon
    <3> QED
      BY <2>3, <3>2, Zenon
  <2> QED
    BY <2>5, Zenon
<1>5. ASSUME NEW kind \in Crashes, NEW oc \in Outcomes, Crash(kind, oc) PROVE FALSE
  <2>1. live' = disk
    BY <1>5, RestartReads, Zenon DEF Crash
  <2> QED
    BY <2>1, Zenon DEF GuardInv, StatesInv
<1> QED
  BY <1>1, <1>2, <1>3, <1>4, <1>5, StepKinds, Zenon

\* A new lease of one side is never given out while an approved apply of the
\* other side is leased and may be running, however the decisions raced and
\* however often the process is restarted, unless a power loss brings back an
\* older file.
THEOREM NewLeaseAlone ==
  ASSUME "power" \notin Crashes
  PROVE  Spec => FreshLeaseAlone
<1>1. Init => GuardInv
  BY GuardInvInit
<1>2. GuardInv /\ [Next]_vars => GuardInv'
  BY GuardInvStep
<1>3. GuardInv /\ [Next]_vars => [LeaseStep]_vars
  BY LeasedAlone
<1> QED
  BY <1>1, <1>2, <1>3, PTL DEF Spec, FreshLeaseAlone, LeaseStep
=============================================================================
