---------------------------- MODULE NetGuardTypes ----------------------------
(***************************************************************************)
(* What NetGuard's operators write, and that every step keeps the types,   *)
(* for any number of handlers, rules, plans, approvals, tasks and leases.  *)
(***************************************************************************)
EXTENDS NetGuard, StateFileProofs

-----------------------------------------------------------------------------
(* Types.                                                                  *)

\* What a request holds, by the step its handler is at.
LEMMA RequestFields ==
  ASSUME NEW q \in Request
  PROVE  /\ q.op \in {"bind", "anchor"} => q.binding \in Binding
         /\ q.op = "submit" => q.plan \in Plans
         /\ q.op \in {"decide", "commit", "overwrite", "queue", "reject"} => q.approval \in Approvals
         /\ q.op \in {"judge", "complete"} => q.run \in Run /\ q.attempt \in 1..MaxTransitionAttempts
         /\ q.op = "complete" => q.verdict \in {"applied", "rejected"} /\ q.binding \in Binding
BY DEF Request, Idle

\* What the steps put there.
LEMMA RequestMade ==
  /\ Idle \in Request
  /\ \A b \in Binding : [op |-> "bind", binding |-> b] \in Request
  /\ \A b \in Binding : [op |-> "anchor", binding |-> b] \in Request
  /\ \A p \in Plans : [op |-> "submit", plan |-> p] \in Request
  /\ \A a \in Approvals, o \in {"decide", "commit", "overwrite", "queue", "reject"} :
       [op |-> o, approval |-> a] \in Request
  /\ \A r \in Run, k \in 1..MaxTransitionAttempts :
       [op |-> "judge", run |-> r, attempt |-> k] \in Request
  /\ \A r \in Run, k \in 1..MaxTransitionAttempts, v \in {"applied", "rejected"}, b \in Binding :
       [op |-> "complete", run |-> r, attempt |-> k, verdict |-> v, binding |-> b] \in Request
BY DEF Request

\* The fields of a state.
LEMMA StateFields ==
  ASSUME NEW s
  PROVE  s \in State => /\ s.binding \in Binding /\ s.deps \in Deps
                        /\ s.approvals \in [Approvals -> Approval] /\ s.tasks \in [Tasks -> Task]
BY DEF State

\* A binding's fields.
LEMMA BindingFields ==
  ASSUME NEW b \in Binding
  PROVE  /\ b.managed \in BOOLEAN /\ b.rules \in Rules /\ b.sha \in Plans \cup {NoPlan}
         /\ b.applied \in Plans \cup {NoPlan} /\ b.version \in Nat
BY DEF Binding

\* Compiling gives a plan, or none.
LEMMA CompiledType ==
  ASSUME NEW s \in State
  PROVE  currentNetGuardPlan(s) \in Plans \cup {NoPlan}
BY DEF currentNetGuardPlan, State, Binding, Plans

\* A write of the binding and what it refers to leaves approvals and tasks.
LEMMA BindingWritten ==
  ASSUME NEW s \in State, NEW b \in Binding, NEW d \in Deps
  PROVE  LET n == [s EXCEPT !.deps = d, !.binding = b] IN
         /\ n \in State /\ n.binding = b /\ n.deps = d
         /\ n.approvals = s.approvals /\ n.tasks = s.tasks
BY Zenon DEF State

\* WithBinding stores the binding under the next version.
LEMMA WithBindingType ==
  ASSUME NEW s \in State, NEW b \in Binding
  PROVE  LET n == WithBinding(s, b) IN
         /\ n \in State /\ n.deps = s.deps /\ n.approvals = s.approvals /\ n.tasks = s.tasks
          /\ n.binding.version = b.version + 1 /\ n.binding.applied = b.applied
BY DEF WithBinding, State, Binding

\* A write of one approval's status.
LEMMA StatusWritten ==
  ASSUME NEW s \in State, NEW a \in Approvals,
         NEW x \in {"pending", "approved", "rejected", "applied"}
  PROVE  LET n == [s EXCEPT !.approvals[a].status = x] IN
         /\ n \in State /\ n.binding = s.binding /\ n.deps = s.deps /\ n.tasks = s.tasks
         /\ n.approvals[a].status = x
         /\ \A b \in Approvals : /\ n.approvals[b].plan = s.approvals[b].plan
                                 /\ b # a => n.approvals[b] = s.approvals[b]
BY ZenonT(40) DEF State, Approval

\* A new approval.
LEMMA ApprovalFiled ==
  ASSUME NEW s \in State, NEW a \in Approvals, NEW p \in Plans \cup {NoPlan}
  PROVE  LET n == [s EXCEPT !.approvals[a] = [status |-> "pending", plan |-> p]] IN
         /\ n \in State /\ n.binding = s.binding /\ n.deps = s.deps /\ n.tasks = s.tasks
         /\ n.approvals[a] = [status |-> "pending", plan |-> p]
         /\ \A b \in Approvals : b # a => n.approvals[b] = s.approvals[b]
BY DEF State, Approval

\* A new task.
LEMMA TaskFiled ==
  ASSUME NEW s \in State, NEW a \in Approvals, lastTask + 1 \in Tasks
  PROVE  LET n == NewTask(s, a) IN
         /\ n \in State /\ n.binding = s.binding /\ n.deps = s.deps /\ n.approvals = s.approvals
         /\ n.tasks[lastTask + 1].status = "queued" /\ n.tasks[lastTask + 1].approval = a
         /\ n.tasks[lastTask + 1].lease = 0 /\ n.tasks[lastTask + 1].receipt = "none"
         /\ \A t \in Tasks : t # lastTask + 1 => n.tasks[t] = s.tasks[t]
<1>1. a \in 0..MaxApprovals /\ 0 \in 0..MaxLeases
  BY NetGuardAssumption DEF Approvals
<1>2. [status |-> "queued", approval |-> a, lease |-> 0, receipt |-> "none"] \in Task
  BY <1>1 DEF Task
<1> QED
  BY <1>2, Zenon DEF NewTask, State

\* A write of one task's status.
LEMMA TaskWritten ==
  ASSUME NEW s \in State, NEW t \in Tasks, NEW x \in {"cancelled", "finished", "failed"}
  PROVE  LET n == [s EXCEPT !.tasks[t].status = x] IN
         /\ n \in State /\ n.binding = s.binding /\ n.deps = s.deps /\ n.approvals = s.approvals
         /\ n.tasks[t].status = x /\ n.tasks[t].approval = s.tasks[t].approval
         /\ n.tasks[t].lease = s.tasks[t].lease /\ n.tasks[t].receipt = s.tasks[t].receipt
         /\ \A u \in Tasks : u # t => n.tasks[u] = s.tasks[u]
BY ZenonT(40) DEF State, Task

\* The leases a poll draws are within the bound.
LeasesFit ==
  \A ts \in SUBSET Tasks :
    lastLease + Cardinality(ts) <= MaxLeases =>
      /\ lastLease + Cardinality(ts) \in 0..MaxLeases
      /\ \A t \in ts : LeaseFor(ts, t) \in Leases

\* What a poll writes.
LEMMA LeasesWritten ==
  ASSUME NEW s \in State, NEW ts \in SUBSET Tasks
  PROVE  LET n == WithLeases(s, ts) IN
         /\ n.binding = s.binding /\ n.deps = s.deps /\ n.approvals = s.approvals
         /\ \A t \in ts : /\ n.tasks[t].status = "leased" /\ n.tasks[t].lease = LeaseFor(ts, t)
                          /\ n.tasks[t].approval = s.tasks[t].approval
                          /\ n.tasks[t].receipt = s.tasks[t].receipt
         /\ \A t \in Tasks : t \notin ts => n.tasks[t] = s.tasks[t]
<1> DEFINE f == [t \in Tasks |->
             IF t \in ts THEN [s.tasks[t] EXCEPT !.status = "leased", !.lease = LeaseFor(ts, t)]
             ELSE s.tasks[t]]
<1>1. /\ \A t \in ts : /\ f[t].status = "leased" /\ f[t].lease = LeaseFor(ts, t)
                       /\ f[t].approval = s.tasks[t].approval
                       /\ f[t].receipt = s.tasks[t].receipt
      /\ \A t \in Tasks : t \notin ts => f[t] = s.tasks[t]
  BY Zenon DEF State, Task
<1>2. WithLeases(s, ts) = [s EXCEPT !.tasks = f]
  BY DEF WithLeases
<1> HIDE DEF f
<1>3. /\ [s EXCEPT !.tasks = f].tasks = f
      /\ [s EXCEPT !.tasks = f].binding = s.binding
      /\ [s EXCEPT !.tasks = f].deps = s.deps
      /\ [s EXCEPT !.tasks = f].approvals = s.approvals
  BY DEF State
<1> QED
  BY <1>1, <1>2, <1>3

\* It writes a state when the leases are within the bound.
LEMMA LeasesType ==
  ASSUME NEW s \in State, NEW ts \in SUBSET Tasks, LeasesFit,
         lastLease + Cardinality(ts) <= MaxLeases
  PROVE  /\ WithLeases(s, ts) \in State
         /\ \A t \in ts : WithLeases(s, ts).tasks[t].lease \in Leases
<1>1. \A t \in ts : LeaseFor(ts, t) \in Leases
  BY Zenon DEF LeasesFit
<1>2. Leases \subseteq 0..MaxLeases
  BY NetGuardAssumption DEF Leases
<1> DEFINE f == [t \in Tasks |->
             IF t \in ts THEN [s.tasks[t] EXCEPT !.status = "leased", !.lease = LeaseFor(ts, t)]
             ELSE s.tasks[t]]
<1>3. f \in [Tasks -> Task]
  BY <1>1, <1>2, ZenonT(40) DEF State, Task
<1>4. WithLeases(s, ts) = [s EXCEPT !.tasks = f]
  BY DEF WithLeases
<1> HIDE DEF f
<1>5. [s EXCEPT !.tasks = f] \in State
  BY <1>3 DEF State
<1> QED
  BY <1>1, <1>4, <1>5, LeasesWritten, ZenonT(40)

\* The task j is k, cancelled.
Cancelled(j, k) ==
  /\ j.status = "cancelled" /\ j.approval = k.approval /\ j.lease = k.lease
  /\ j.receipt = k.receipt

\* What dropping superseded tasks writes: some waiting tasks are cancelled and
\* their approvals, of legacy plans, rejected.
LEMMA SupersededDropped ==
  ASSUME NEW s \in State
  PROVE  LET n == DropSuperseded(s) IN
         /\ n \in State /\ n.binding = s.binding /\ n.deps = s.deps
         /\ \A t \in Tasks :
              \/ n.tasks[t] = s.tasks[t]
              \/ taskTargetAwaitingResult(s, t) /\ Cancelled(n.tasks[t], s.tasks[t])
         /\ \A a \in Approvals :
              \/ n.approvals[a] = s.approvals[a]
              \/ /\ s.approvals[a].plan = NoPlan /\ s.approvals[a].status = "approved"
                 /\ n.approvals[a].plan = NoPlan /\ n.approvals[a].status = "rejected"
<1> DEFINE due == {t \in Tasks : taskCanLeaseTarget(s, t) /\ Superseded(s, t)}
           gone == {t \in due : \A u \in due :
                                  s.tasks[u].approval = s.tasks[t].approval => t <= u}
           as == [a \in Approvals |-> IF \E t \in gone : s.tasks[t].approval = a
                                        THEN [s.approvals[a] EXCEPT !.status = "rejected"]
                                        ELSE s.approvals[a]]
           ts == [t \in Tasks |-> IF t \in gone THEN [s.tasks[t] EXCEPT !.status = "cancelled"]
                                  ELSE s.tasks[t]]
<1>1. DropSuperseded(s) = [s EXCEPT !.approvals = as, !.tasks = ts]
  BY DEF DropSuperseded
<1>2. \A t \in gone : /\ t \in Tasks /\ taskTargetAwaitingResult(s, t)
                      /\ s.approvals[s.tasks[t].approval].status = "approved"
                      /\ s.approvals[s.tasks[t].approval].plan = NoPlan
  BY DEF taskCanLeaseTarget, Superseded, NetGuardSide
<1> HIDE DEF gone
<1>3. as \in [Approvals -> Approval] /\ ts \in [Tasks -> Task]
  BY DEF State, Approval, Task
<1>4. \A t \in Tasks :
        \/ ts[t] = s.tasks[t]
        \/ taskTargetAwaitingResult(s, t) /\ Cancelled(ts[t], s.tasks[t])
  BY <1>2 DEF State, Task, Cancelled
<1>5. \A a \in Approvals :
        \/ as[a] = s.approvals[a]
        \/ /\ s.approvals[a].plan = NoPlan /\ s.approvals[a].status = "approved"
           /\ as[a].plan = NoPlan /\ as[a].status = "rejected"
  BY <1>2 DEF State, Approval
<1> HIDE DEF due, as, ts
<1> DEFINE n == DropSuperseded(s)
<1>6. /\ n \in State /\ n.binding = s.binding /\ n.deps = s.deps
      /\ n.approvals = as /\ n.tasks = ts
  BY <1>1, <1>3, Zenon DEF State
<1> HIDE DEF n
<1>7. \A t \in Tasks :
        \/ n.tasks[t] = s.tasks[t]
        \/ taskTargetAwaitingResult(s, t) /\ Cancelled(n.tasks[t], s.tasks[t])
  BY <1>4, <1>6
<1>8. \A a \in Approvals :
        \/ n.approvals[a] = s.approvals[a]
        \/ /\ s.approvals[a].plan = NoPlan /\ s.approvals[a].status = "approved"
           /\ n.approvals[a].plan = NoPlan /\ n.approvals[a].status = "rejected"
  BY <1>5, <1>6, Zenon
<1> QED
  BY <1>6, <1>7, <1>8, Zenon DEF n

\* A write of one task's status and receipt and of one approval's status.
WithOutcome(s, t, a, x, y, v) ==
  [s EXCEPT !.tasks[t].status = x, !.tasks[t].receipt = y, !.approvals[a].status = v]

OutcomeOf(n, s, t, a, x, y, v) ==
  /\ n \in State /\ n.deps = s.deps
  /\ n.tasks[t].status = x /\ n.tasks[t].receipt = y
  /\ n.tasks[t].lease = s.tasks[t].lease /\ n.tasks[t].approval = s.tasks[t].approval
  /\ \A u \in Tasks : u # t => n.tasks[u] = s.tasks[u]
  /\ n.approvals[a].status = v /\ n.approvals[a].plan = s.approvals[a].plan
  /\ \A b \in Approvals : b # a => n.approvals[b] = s.approvals[b]

LEMMA OutcomeWritten ==
  ASSUME NEW s \in State, NEW t \in Tasks, NEW a \in Approvals,
         NEW x \in {"finished", "failed"}, NEW y \in {"ok", "failed"},
         NEW v \in {"applied", "rejected"}
  PROVE  OutcomeOf(WithOutcome(s, t, a, x, y, v), s, t, a, x, y, v)
<1> DEFINE n == WithOutcome(s, t, a, x, y, v)
           row == [s.tasks[t] EXCEPT !.status = x, !.receipt = y]
           app == [s.approvals[a] EXCEPT !.status = v]
<1>1. s.tasks \in [Tasks -> Task] /\ s.approvals \in [Approvals -> Approval]
  BY DEF State
<1>2. /\ row \in Task /\ row.status = x /\ row.receipt = y
      /\ row.lease = s.tasks[t].lease /\ row.approval = s.tasks[t].approval
  BY <1>1, Zenon DEF Task
<1>3. app \in Approval /\ app.status = v /\ app.plan = s.approvals[a].plan
  BY <1>1 DEF Approval
<1>4. n = [s EXCEPT !.tasks = [s.tasks EXCEPT ![t] = row],
                    !.approvals = [s.approvals EXCEPT ![a] = app]]
  BY <1>1, Zenon DEF WithOutcome, State, Task, Approval
<1> HIDE DEF n, row, app
<1>5. n \in State /\ n.deps = s.deps
  BY <1>1, <1>2, <1>3, <1>4, Zenon DEF State
<1>6. n.tasks[t] = row /\ \A u \in Tasks : u # t => n.tasks[u] = s.tasks[u]
  BY <1>1, <1>4 DEF State
<1>7. n.approvals[a] = app /\ \A b \in Approvals : b # a => n.approvals[b] = s.approvals[b]
  BY <1>1, <1>4 DEF State
<1> QED
  BY <1>2, <1>3, <1>5, <1>6, <1>7 DEF n, OutcomeOf

\* What a completed result writes.
LEMMA ResultWritten ==
  ASSUME NEW s \in State, NEW q, q.run \in Run, q.verdict \in {"applied", "rejected"},
         q.binding \in Binding, s.tasks[q.run.task].approval \in Approvals
  PROVE  LET n == Completed(s, q)
             t == q.run.task
             a == s.tasks[t].approval
         IN
         /\ n \in State /\ n.deps = s.deps
         /\ n.binding.version = q.binding.version + 1
         /\ n.binding.applied = IF q.verdict = "applied" THEN s.approvals[a].plan
                                ELSE q.binding.applied
         /\ n.tasks[t].status = IF q.run.ok THEN "finished" ELSE "failed"
         /\ n.tasks[t].receipt = Answers(q.run.ok)
         /\ n.tasks[t].lease = s.tasks[t].lease /\ n.tasks[t].approval = a
         /\ \A u \in Tasks : u # t => n.tasks[u] = s.tasks[u]
         /\ n.approvals[a].status = q.verdict /\ n.approvals[a].plan = s.approvals[a].plan
         /\ \A b \in Approvals : b # a => n.approvals[b] = s.approvals[b]
<1> DEFINE t == q.run.task
           a == s.tasks[t].approval
           st == IF q.run.ok THEN "finished" ELSE "failed"
           m == WithOutcome(s, t, a, st, Answers(q.run.ok), q.verdict)
           b == IF q.verdict = "applied" THEN [q.binding EXCEPT !.applied = s.approvals[a].plan]
                ELSE q.binding
<1>1. t \in Tasks /\ a \in Approvals /\ s.approvals[a].plan \in Plans \cup {NoPlan}
  BY DEF Run, State, Approval
<1>2. st \in {"finished", "failed"} /\ Answers(q.run.ok) \in {"ok", "failed"}
  BY Zenon DEF Answers
<1>3. b \in Binding
  BY <1>1, Zenon DEF Binding
<1>4. /\ b.version = q.binding.version
      /\ b.applied = IF q.verdict = "applied" THEN s.approvals[a].plan ELSE q.binding.applied
  BY DEF Binding
<1>5. Completed(s, q) = WithBinding(m, b)
  BY DEF Completed, WithOutcome
<1> DEFINE y == Answers(q.run.ok)
           v == q.verdict
<1> HIDE DEF st, b, t, a, y, v, m
<1>6. OutcomeOf(m, s, t, a, st, y, v)
  <2>1. y \in {"ok", "failed"} /\ v \in {"applied", "rejected"}
    BY <1>2 DEF y, v
  <2>2. m = WithOutcome(s, t, a, st, y, v)
    BY DEF m, y, v
  <2> QED
    BY <1>1, <1>2, <2>1, <2>2, OutcomeWritten
<1> DEFINE n == Completed(s, q)
<1>7. /\ n \in State /\ n.deps = m.deps /\ n.approvals = m.approvals /\ n.tasks = m.tasks
      /\ n.binding.version = b.version + 1 /\ n.binding.applied = b.applied
  BY <1>3, <1>5, <1>6, WithBindingType DEF OutcomeOf
<1> HIDE DEF n
<1> QED
  BY <1>4, <1>6, <1>7, Zenon DEF n, st, t, a, y, v, OutcomeOf

\* The initial states have the types.
LEMMA InitType == Init => TypeOK
<1> SUFFICES ASSUME Init PROVE TypeOK
  OBVIOUS
<1>1. PICK managed \in BOOLEAN, r \in Rules, d \in Deps : InitStateFile(emptyState(managed, r, d))
  BY DEF Init
<1> DEFINE b == IF managed THEN [noBinding(r) EXCEPT !.managed = TRUE, !.version = 1]
                ELSE noBinding(r)
<1>2. b \in Binding
  BY Zenon DEF noBinding, Binding
<1> HIDE DEF b
<1>3. 0 \in 0..MaxApprovals /\ 0 \in 0..MaxTasks /\ 0 \in 0..MaxLeases
  BY NetGuardAssumption
<1>4. emptyState(managed, r, d) \in State
  BY <1>2, <1>3 DEF emptyState, State, Approval, Task, b
<1>5. live \in State /\ disk \in State /\ recoverable \subseteq State
  BY <1>1, <1>4 DEF InitStateFile
<1>6. req \in [Handlers -> Request]
  BY RequestMade DEF Init
<1>7. changes \in Seq({"deps", "adopt", "edit", "delete"})
  BY DEF Init
<1> QED
  BY <1>1, <1>3, <1>5, <1>6, <1>7, Zenon DEF Init, InitStateFile, TypeOK

\* What a write of a well formed state leaves.
LEMMA WriteType ==
  ASSUME TypeOK, NEW s \in State, NEW oc \in Outcomes, Staged(s, oc) \/ Save(s, oc)
  PROVE  /\ live' \in State /\ disk' \in State /\ recoverable' \subseteq State
         /\ degraded' \in BOOLEAN /\ faults' \in Nat /\ crashes' \in Nat
<1>1. AllStates \subseteq State
  BY DEF TypeOK, AllStates
<1>2. AllStates' \subseteq State
  BY <1>1, StagedStates
<1>3. faults \in Nat /\ crashes \in Nat /\ degraded \in BOOLEAN
  BY DEF TypeOK
<1>4. degraded' \in BOOLEAN
  BY <1>3, DegradedType
<1> QED
  BY <1>2, <1>3, <1>4, StagedStates DEF AllStates

\* What confirming durability leaves.
LEMMA ConfirmType ==
  ASSUME TypeOK, NEW oc, confirmDurabilityLocked(oc)
  PROVE  /\ live' \in State /\ disk' \in State /\ recoverable' \subseteq State
         /\ degraded' \in BOOLEAN /\ faults' \in Nat /\ crashes' \in Nat
BY DEF TypeOK, confirmDurabilityLocked

\* A handler's new request, and what it waits with.
LEMMA RequestStep ==
  ASSUME req \in [Handlers -> Request], NEW h \in Handlers
  PROVE  /\ Answer(h) => /\ req' \in [Handlers -> Request] /\ req'[h] = Idle
                         /\ \A g \in Handlers : g # h => req'[g] = req[g]
         /\ \A q \in Request :
              Waits(h, q) => /\ req' \in [Handlers -> Request] /\ req'[h] = q
                             /\ \A g \in Handlers : g # h => req'[g] = req[g]
BY RequestMade DEF Answer, Waits

\* The changes counted by a step that makes one.
LEMMA ChangeType ==
  ASSUME changes \in Seq({"deps", "adopt", "edit", "delete"}),
         NEW k \in {"deps", "adopt", "edit", "delete"}, Change(k)
  PROVE  changes' \in Seq({"deps", "adopt", "edit", "delete"})
BY DEF Change

\* The binding an operator's edit or adoption writes.
LEMMA NewBindingType ==
  ASSUME live \in State, NEW op, NEW m \in BOOLEAN, NEW r \in Rules
  PROVE  /\ NewBinding(op, m, r) \in Binding
         /\ NewBinding(op, m, r).applied \in {live.binding.applied, NoPlan}
BY Zenon DEF NewBinding, State, Binding

\* Dropping the plan anchor.
LEMMA InvalidatedType ==
  ASSUME NEW b \in Binding
  PROVE  LET n == invalidateGuardBindingLocked(b) IN
         /\ n \in Binding /\ n.applied = b.applied
         /\ (n = b /\ b.sha = NoPlan) \/ n.version = b.version + 1
<1>1. b.version + 1 \in Nat /\ NoPlan \in Plans \cup {NoPlan}
  BY DEF Binding
<1>2. CASE b.sha = NoPlan
  BY <1>2 DEF invalidateGuardBindingLocked
<1>3. CASE b.sha # NoPlan
  <2> DEFINE n == [b EXCEPT !.sha = NoPlan, !.version = @ + 1]
  <2>1. n \in Binding /\ n.applied = b.applied /\ n.version = b.version + 1
    BY <1>1, Zenon DEF Binding
  <2> QED
    BY <1>3, <2>1 DEF invalidateGuardBindingLocked
<1> QED
  BY <1>2, <1>3

\* A plan about to be anchored is one: only a managed binding is compiled.
Anchors == \A h \in Handlers : req[h].op = "anchor" => req[h].binding.sha \in Plans

\* Every step of an operator's request keeps the types.
LEMMA OperatorType ==
  ASSUME TypeOK, Anchors, NEW h \in Handlers, Operator(h)
  PROVE  TypeOK'
<1>1. /\ live \in State /\ req \in [Handlers -> Request] /\ req[h] \in Request
      /\ lastApproval \in 0..MaxApprovals /\ lastTask \in 0..MaxTasks
  BY DEF TypeOK
<1>2. live.binding \in Binding
  BY <1>1 DEF State
<1>3. CASE PlanCompile(h)
  <2> DEFINE b == [live.binding EXCEPT !.sha = currentNetGuardPlan(live)]
  <2>1. b \in Binding
    BY <1>1, <1>2, CompiledType DEF Binding
  <2> HIDE DEF b
  <2>2. req' \in [Handlers -> Request]
    BY <1>1, <1>3, <2>1, RequestMade, RequestStep, Zenon DEF PlanCompile, b
  <2> QED
    BY <1>3, <2>2 DEF PlanCompile, TypeOK, stateFile, bounds, counters, agent
<1>4. ASSUME NEW oc \in Outcomes, PlanAnchor(h, oc) PROVE TypeOK'
  <2>1. req[h].binding \in Binding /\ req[h].binding.sha \in Plans
    BY <1>1, <1>4, RequestFields DEF PlanAnchor, Anchors
  <2>2. WithBinding(live, req[h].binding) \in State
    BY <1>1, <2>1, WithBindingType
  <2>3. /\ live' \in State /\ disk' \in State /\ recoverable' \subseteq State
        /\ degraded' \in BOOLEAN /\ faults' \in Nat /\ crashes' \in Nat
    BY <1>4, <2>2, WriteType, Zenon DEF PlanAnchor, stateFile, bounds, TypeOK
  <2>4. req' \in [Handlers -> Request]
    BY <1>1, <1>4, <2>1, RequestMade, RequestStep DEF PlanAnchor
  <2> QED
    BY <1>4, <2>3, <2>4 DEF PlanAnchor, TypeOK, counters, agent
<1>5. ASSUME NEW oc \in Outcomes, PlanSubmit(h, oc) PROVE TypeOK'
  <2>1. req[h].plan \in Plans
    BY <1>1, <1>5, RequestFields DEF PlanSubmit
  <2>2. lastApproval + 1 \in Approvals /\ lastApproval' \in 0..MaxApprovals
    BY <1>1, <1>5, NetGuardAssumption DEF PlanSubmit, UpsertNewApproval, Approvals
  <2>3. /\ live' \in State /\ disk' \in State /\ recoverable' \subseteq State
        /\ degraded' \in BOOLEAN /\ faults' \in Nat /\ crashes' \in Nat
    BY <1>1, <1>5, <2>1, <2>2, ApprovalFiled, WriteType DEF PlanSubmit, UpsertNewApproval
  <2>4. req' \in [Handlers -> Request]
    BY <1>1, <1>5, RequestStep, Zenon DEF PlanSubmit
  <2> QED
    BY <1>5, <2>2, <2>3, <2>4 DEF PlanSubmit, TypeOK, agent
<1>6. ASSUME NEW a \in Approvals, ApproveRead(h, a) \/ RejectRead(h, a) PROVE TypeOK'
  <2>1. req' \in [Handlers -> Request]
    BY <1>1, <1>6, RequestMade, RequestStep, Zenon DEF ApproveRead, RejectRead
  <2> QED
    BY <1>6, <2>1, Zenon DEF ApproveRead, RejectRead, TypeOK, stateFile, bounds, counters, agent
<1>7. CASE ApproveInFlight(h)
  <2>1. req[h].approval \in Approvals
    BY <1>1, <1>7, RequestFields DEF ApproveInFlight
  <2>2. req' \in [Handlers -> Request]
    BY <1>1, <1>7, <2>1, RequestMade, RequestStep, Zenon DEF ApproveInFlight
  <2> QED
    BY <1>7, <2>2 DEF ApproveInFlight, TypeOK, stateFile, bounds, counters, agent
<1>8. ASSUME NEW queue \in BOOLEAN, NEW oc \in Outcomes, ApproveNetGuard(h, queue, oc) PROVE TypeOK'
  <2> DEFINE a == req[h].approval
             s == [live EXCEPT !.approvals[a].status = "approved"]
             n == IF queue THEN NewTask(s, a) ELSE s
  <2>1. a \in Approvals
    BY <1>1, <1>8, RequestFields DEF ApproveNetGuard
  <2>2. s \in State
    BY <1>1, <2>1, StatusWritten, Zenon
  <2> HIDE DEF s
  <2>3. queue => lastTask + 1 \in Tasks
    BY <1>1, <1>8, NetGuardAssumption DEF ApproveNetGuard, Tasks
  <2>4. n \in State
    BY <2>1, <2>2, <2>3, TaskFiled, Zenon
  <2>5. UNCHANGED <<stateFile, bounds>> \/ Staged(n, oc)
    BY <1>8 DEF ApproveNetGuard, s
  <2> HIDE DEF n
  <2>6. /\ live' \in State /\ disk' \in State /\ recoverable' \subseteq State
        /\ degraded' \in BOOLEAN /\ faults' \in Nat /\ crashes' \in Nat
    BY <2>4, <2>5, WriteType DEF stateFile, bounds, TypeOK
  <2>7. lastTask' \in 0..MaxTasks
    BY <1>1, <1>8, <2>3 DEF ApproveNetGuard, Tasks
  <2>8. req' \in [Handlers -> Request]
    BY <1>1, <1>8, RequestStep DEF ApproveNetGuard
  <2> QED
    BY <1>8, <2>6, <2>7, <2>8 DEF ApproveNetGuard, TypeOK, agent
<1>9. ASSUME NEW queue \in BOOLEAN, NEW oc \in Outcomes, ApproveLegacy(h, queue, oc) PROVE TypeOK'
  <2>1. req[h].approval \in Approvals
    BY <1>1, <1>9, RequestFields, Zenon DEF ApproveLegacy
  <2>2. [live EXCEPT !.approvals[req[h].approval].status = "approved"] \in State
    BY <1>1, <2>1, StatusWritten, Zenon
  <2>3. /\ live' \in State /\ disk' \in State /\ recoverable' \subseteq State
        /\ degraded' \in BOOLEAN /\ faults' \in Nat /\ crashes' \in Nat
    BY <1>9, <2>2, WriteType DEF ApproveLegacy
  <2>4. req' \in [Handlers -> Request]
    BY <1>1, <1>9, <2>1, RequestMade, RequestStep, Zenon DEF ApproveLegacy
  <2> QED
    BY <1>9, <2>3, <2>4 DEF ApproveLegacy, TypeOK, counters, agent
<1>10. ASSUME NEW oc \in Outcomes, QueueTask(h, oc) PROVE TypeOK'
  <2>1. req[h].approval \in Approvals
    BY <1>1, <1>10, RequestFields DEF QueueTask
  <2>2. lastTask + 1 \in Tasks /\ lastTask' \in 0..MaxTasks
    BY <1>1, <1>10, NetGuardAssumption DEF QueueTask, Tasks
  <2>3. NewTask(live, req[h].approval) \in State
    BY <1>1, <2>1, <2>2, TaskFiled, Zenon
  <2>4. /\ live' \in State /\ disk' \in State /\ recoverable' \subseteq State
        /\ degraded' \in BOOLEAN /\ faults' \in Nat /\ crashes' \in Nat
    BY <1>10, <2>3, WriteType DEF QueueTask
  <2>5. req' \in [Handlers -> Request]
    BY <1>1, <1>10, RequestStep DEF QueueTask
  <2> QED
    BY <1>10, <2>2, <2>4, <2>5 DEF QueueTask, TypeOK, agent
<1>11. ASSUME NEW oc \in Outcomes, RejectWrite(h, oc) PROVE TypeOK'
  <2>1. req[h].approval \in Approvals
    BY <1>1, <1>11, RequestFields, Zenon DEF RejectWrite
  <2>2. [live EXCEPT !.approvals[req[h].approval].status = "rejected"] \in State
    BY <1>1, <2>1, StatusWritten, Zenon
  <2>3. /\ live' \in State /\ disk' \in State /\ recoverable' \subseteq State
        /\ degraded' \in BOOLEAN /\ faults' \in Nat /\ crashes' \in Nat
    BY <1>11, <2>2, WriteType DEF RejectWrite
  <2>4. req' \in [Handlers -> Request]
    BY <1>1, <1>11, RequestStep DEF RejectWrite
  <2> QED
    BY <1>11, <2>3, <2>4 DEF RejectWrite, TypeOK, counters, agent
<1>12. ASSUME NEW op \in Requests, NEW m \in BOOLEAN, NEW r \in Rules, ReadBinding(h, op, m, r)
       PROVE  TypeOK'
  <2>1. req' \in [Handlers -> Request]
    BY <1>1, <1>12, NewBindingType, RequestMade, RequestStep, Zenon DEF ReadBinding
  <2>2. changes' \in Seq({"deps", "adopt", "edit", "delete"})
    BY <1>12, ChangeType, Zenon DEF ReadBinding, TypeOK
  <2> QED
    BY <1>12, <2>1, <2>2, Zenon DEF ReadBinding, TypeOK, stateFile, bounds, agent
<1>13. ASSUME NEW oc \in Outcomes, UpsertNodeGuardBinding(h, oc) PROVE TypeOK'
  <2>1. req[h].binding \in Binding
    BY <1>1, <1>13, RequestFields DEF UpsertNodeGuardBinding
  <2>2. WithBinding(live, req[h].binding) \in State
    BY <1>1, <2>1, WithBindingType, Zenon
  <2>3. /\ live' \in State /\ disk' \in State /\ recoverable' \subseteq State
        /\ degraded' \in BOOLEAN /\ faults' \in Nat /\ crashes' \in Nat
    BY <1>13, <2>2, WriteType, Zenon DEF UpsertNodeGuardBinding, stateFile, bounds, TypeOK
  <2>4. req' \in [Handlers -> Request]
    BY <1>1, <1>13, RequestStep DEF UpsertNodeGuardBinding
  <2> QED
    BY <1>13, <2>3, <2>4, Zenon DEF UpsertNodeGuardBinding, TypeOK, counters, agent
<1> QED
  BY <1>3, <1>4, <1>5, <1>6, <1>7, <1>8, <1>9, <1>10, <1>11, <1>12, <1>13 DEF Operator

\* A task that exists was filed for an approval.
Filed(s) == \A t \in Tasks : s.tasks[t].status # "none" => s.tasks[t].approval \in Approvals

\* Every step of a result request keeps the types.
LEMMA ResultType ==
  ASSUME TypeOK, Filed(live), NEW h \in Handlers, Result(h)
  PROVE  TypeOK'
<1>1. /\ live \in State /\ req \in [Handlers -> Request] /\ req[h] \in Request
      /\ live.binding \in Binding
  BY Zenon DEF TypeOK, State
<1>2. ASSUME NEW i \in held, NEW ok \in BOOLEAN, ResultGate(h, i, ok) PROVE TypeOK'
  <2>1. [task |-> i.task, lease |-> i.lease, ok |-> ok] \in Run
    BY DEF TypeOK, Run
  <2>2. 1 \in 1..MaxTransitionAttempts
    BY NetGuardAssumption
  <2>3. ran' \subseteq Run
    BY <1>2, <2>1, Zenon DEF ResultGate, TypeOK
  <2>4. req' \in [Handlers -> Request]
    BY <1>1, <1>2, <2>1, <2>2, RequestMade, RequestStep, Zenon DEF ResultGate
  <2> QED
    BY <1>2, <2>3, <2>4 DEF ResultGate, TypeOK, stateFile, bounds, counters
<1>3. CASE ResultJudge(h)
  <2>1. req[h].run \in Run /\ req[h].attempt \in 1..MaxTransitionAttempts
    BY <1>1, <1>3, RequestFields, Zenon DEF ResultJudge
  <2>2. Verdict(live, req[h].run) \in {"applied", "rejected"}
    BY Zenon DEF Verdict
  <2>3. req' \in [Handlers -> Request]
    BY <1>1, <1>3, <2>1, <2>2, RequestMade, RequestStep, Zenon DEF ResultJudge
  <2> QED
    BY <1>3, <2>3, Zenon DEF ResultJudge, TypeOK, stateFile, bounds, counters, agent
<1>4. ASSUME NEW oc \in Outcomes, CompleteNetGuardTaskResult(h, oc) PROVE TypeOK'
  <2> DEFINE q == req[h]
  <2>1. /\ q.run \in Run /\ q.attempt \in 1..MaxTransitionAttempts
        /\ q.verdict \in {"applied", "rejected"} /\ q.binding \in Binding
    BY <1>1, <1>4, RequestFields, Zenon DEF CompleteNetGuardTaskResult
  <2>2. req' \in [Handlers -> Request]
    <3>1. q.attempt < MaxTransitionAttempts => q.attempt + 1 \in 1..MaxTransitionAttempts
      BY <2>1, NetGuardAssumption
    <3> QED
      BY <1>1, <1>4, <2>1, <3>1, RequestMade, RequestStep, Zenon DEF CompleteNetGuardTaskResult
  <2>3. acked' \subseteq Run
    BY <1>4, <2>1, Zenon DEF CompleteNetGuardTaskResult, TypeOK
  <2>4. \/ UNCHANGED <<stateFile, bounds>>
        \/ Staged(Completed(live, q), oc) /\ taskLeaseMatches(live, q.run)
    BY <1>4, Zenon DEF CompleteNetGuardTaskResult
  <2>5. taskLeaseMatches(live, q.run) => Completed(live, q) \in State
    <3>1. taskLeaseMatches(live, q.run) => live.tasks[q.run.task].approval \in Approvals
      BY <2>1 DEF taskLeaseMatches, Filed, Run
    <3> QED
      BY <1>1, <2>1, <3>1, ResultWritten, Zenon
  <2>6. /\ live' \in State /\ disk' \in State /\ recoverable' \subseteq State
        /\ degraded' \in BOOLEAN /\ faults' \in Nat /\ crashes' \in Nat
    BY <2>4, <2>5, WriteType, Zenon DEF stateFile, bounds, TypeOK
  <2> QED
    BY <1>4, <2>2, <2>3, <2>6, Zenon DEF CompleteNetGuardTaskResult, TypeOK, counters
<1> QED
  BY <1>2, <1>3, <1>4 DEF Result

\* What a poll hands out is what the state says of the tasks handed out.
LEMMA DeliverType ==
  ASSUME held \subseteq [task : Tasks, lease : Leases], NEW s, NEW ts \in SUBSET Tasks,
         \A t \in ts : s.tasks[t].lease \in Leases, NEW arrives, Deliver(s, ts, arrives)
  PROVE  /\ held' \subseteq [task : Tasks, lease : Leases]
         /\ \A i \in held' : i \in held \/ (i.task \in ts /\ i.lease = s.tasks[i.task].lease)
BY DEF Deliver

\* Every poll keeps the types.
LEMMA PollType ==
  ASSUME TypeOK, LeasesFit, Poll
  PROVE  TypeOK'
<1>1. /\ live \in State /\ lastLease \in Nat /\ lastLease \in 0..MaxLeases
      /\ held \subseteq [task : Tasks, lease : Leases]
  BY NetGuardAssumption DEF TypeOK
<1>2. \A ts \in SUBSET Tasks : lastLease + Cardinality(ts) <= MaxLeases =>
                                lastLease + Cardinality(ts) \in 0..MaxLeases
  BY Zenon DEF LeasesFit
<1>3. ASSUME NEW oc \in Outcomes, NEW arrives \in BOOLEAN, Redeliver(oc, arrives) PROVE TypeOK'
  <2> DEFINE ts == IF oc = "synced" THEN Redeliveries(live) ELSE {}
  <2>1. ts \in SUBSET Tasks /\ \A t \in ts : live.tasks[t].lease # 0
    BY DEF Redeliveries
  <2>2. \A t \in ts : live.tasks[t].lease \in Leases
    BY <1>1, <2>1, NetGuardAssumption DEF State, Task, Leases
  <2>3. Deliver(live, ts, arrives)
    BY <1>3 DEF Redeliver
  <2> HIDE DEF ts
  <2>4. held' \subseteq [task : Tasks, lease : Leases]
    BY <1>1, <2>1, <2>2, <2>3, DeliverType
  <2>5. /\ live' \in State /\ disk' \in State /\ recoverable' \subseteq State
        /\ degraded' \in BOOLEAN /\ faults' \in Nat /\ crashes' \in Nat
    BY <1>3, ConfirmType DEF Redeliver
  <2> QED
    BY <1>3, <2>4, <2>5, Zenon DEF Redeliver, TypeOK, counters
<1>4. ASSUME NEW oc \in Outcomes, NEW arrives \in BOOLEAN, LeaseDurable(oc, arrives) PROVE TypeOK'
  <2> DEFINE ts == FreshDurable(live)
             n == WithLeases(live, ts)
             out == IF oc = "synced" THEN ts ELSE {}
  <2>1. ts \in SUBSET Tasks /\ lastLease + Cardinality(ts) <= MaxLeases
    BY <1>4, Zenon DEF FreshDurable, LeaseDurable
  <2>2. n \in State /\ \A t \in ts : n.tasks[t].lease \in Leases
    BY <1>1, <2>1, LeasesType, Zenon
  <2>3. Staged(n, oc) /\ Deliver(n, out, arrives)
    BY <1>4 DEF LeaseDurable
  <2>4. lastLease' \in 0..MaxLeases
    BY <1>2, <1>4, <2>1, Zenon DEF LeaseDurable
  <2>5. out \in SUBSET Tasks /\ \A t \in out : n.tasks[t].lease \in Leases
    BY <2>1, <2>2
  <2> HIDE DEF ts, n, out
  <2>6. held' \subseteq [task : Tasks, lease : Leases]
    BY <1>1, <2>3, <2>5, DeliverType
  <2>7. /\ live' \in State /\ disk' \in State /\ recoverable' \subseteq State
        /\ degraded' \in BOOLEAN /\ faults' \in Nat /\ crashes' \in Nat
    BY <2>2, <2>3, WriteType, Zenon
  <2> QED
    BY <1>4, <2>4, <2>6, <2>7, Zenon DEF LeaseDurable, TypeOK
<1>5. ASSUME NEW oc \in Outcomes, NEW arrives \in BOOLEAN, LeaseGeneric(oc, arrives) PROVE TypeOK'
  <2> DEFINE ts == FreshGeneric(DropSuperseded(live))
             n == WithLeases(DropSuperseded(live), ts)
             out == IF oc # "failed" THEN ts ELSE {}
  <2>1. ts \in SUBSET Tasks /\ lastLease + Cardinality(ts) <= MaxLeases
    BY <1>5, Zenon DEF FreshGeneric, LeaseGeneric
  <2>2. n \in State /\ \A t \in ts : n.tasks[t].lease \in Leases
    BY <1>1, <2>1, SupersededDropped, LeasesType, Zenon
  <2>3. Staged(n, oc) /\ Deliver(n, out, arrives)
    BY <1>5 DEF LeaseGeneric
  <2>4. lastLease' \in 0..MaxLeases
    BY <1>2, <1>5, <2>1, Zenon DEF LeaseGeneric
  <2>5. out \in SUBSET Tasks /\ \A t \in out : n.tasks[t].lease \in Leases
    BY <2>1, <2>2, Zenon
  <2> HIDE DEF ts, n, out
  <2>6. held' \subseteq [task : Tasks, lease : Leases]
    BY <1>1, <2>3, <2>5, DeliverType
  <2>7. /\ live' \in State /\ disk' \in State /\ recoverable' \subseteq State
        /\ degraded' \in BOOLEAN /\ faults' \in Nat /\ crashes' \in Nat
    BY <2>2, <2>3, WriteType
  <2> QED
    BY <1>5, <2>4, <2>6, <2>7, Zenon DEF LeaseGeneric, TypeOK
<1> QED
  BY <1>3, <1>4, <1>5 DEF Poll

\* Every step keeps the types.
LEMMA StepType == TypeOK /\ LeasesFit /\ Anchors /\ Filed(live) /\ [Next]_vars => TypeOK'
<1> SUFFICES ASSUME TypeOK, LeasesFit, Anchors, Filed(live), [Next]_vars PROVE TypeOK'
  OBVIOUS
<1>1. live \in State /\ live.binding \in Binding /\ lastApproval \in 0..MaxApprovals
  BY DEF TypeOK, State
<1>2. ASSUME NEW d \in Deps, NEW oc \in Outcomes, ChangeDeps(d, oc) PROVE TypeOK'
  <2> DEFINE b == invalidateGuardBindingLocked(live.binding)
             n == [live EXCEPT !.deps = d, !.binding = b]
  <2>1. b \in Binding
    BY <1>1, InvalidatedType
  <2>2. Save(n, oc)
    BY <1>2, Zenon DEF ChangeDeps
  <2> HIDE DEF b
  <2>3. n \in State
    BY <1>1, <2>1, BindingWritten, Zenon
  <2> HIDE DEF n
  <2>4. changes' \in Seq({"deps", "adopt", "edit", "delete"})
    BY <1>2, ChangeType DEF ChangeDeps, TypeOK
  <2> QED
    BY <1>2, <2>2, <2>3, <2>4, WriteType, Zenon DEF ChangeDeps, TypeOK, agent
<1>3. ASSUME NEW oc \in Outcomes, DeleteNodeGuardBinding(oc) PROVE TypeOK'
  <2> DEFINE b == noBinding(live.binding.rules)
             n == [live EXCEPT !.binding = b]
  <2>1. b \in Binding
    BY <1>1 DEF noBinding, Binding
  <2>2. Save(n, oc)
    BY <1>3 DEF DeleteNodeGuardBinding
  <2> HIDE DEF b
  <2>3. n \in State
    BY <1>1, <2>1 DEF State
  <2> HIDE DEF n
  <2>4. changes' \in Seq({"deps", "adopt", "edit", "delete"})
    BY <1>3, ChangeType DEF DeleteNodeGuardBinding, TypeOK
  <2> QED
    BY <1>3, <2>2, <2>3, <2>4, WriteType, Zenon DEF DeleteNodeGuardBinding, TypeOK, agent
<1>4. ASSUME NEW oc \in Outcomes, LegacyPlan(oc) PROVE TypeOK'
  <2>1. lastApproval + 1 \in Approvals /\ lastApproval' \in 0..MaxApprovals
    BY <1>1, <1>4, NetGuardAssumption DEF LegacyPlan, UpsertNewApproval, Approvals
  <2>2. /\ live' \in State /\ disk' \in State /\ recoverable' \subseteq State
        /\ degraded' \in BOOLEAN /\ faults' \in Nat /\ crashes' \in Nat
    BY <1>1, <1>4, <2>1, ApprovalFiled, WriteType, Zenon DEF LegacyPlan, UpsertNewApproval
  <2> QED
    BY <1>4, <2>1, <2>2 DEF LegacyPlan, TypeOK, agent
<1>5. ASSUME NEW t \in Tasks, NEW oc \in Outcomes, CancelTask(t, oc) PROVE TypeOK'
  <2>1. [live EXCEPT !.tasks[t].status = "cancelled"] \in State
    BY <1>1, TaskWritten, Zenon
  <2> QED
    BY <1>5, <2>1, WriteType, Zenon DEF CancelTask, TypeOK, counters, agent
<1>6. ASSUME NEW i \in held, NEW oc \in Outcomes, ResultReplay(i, oc) PROVE TypeOK'
  <2>1. acked' \subseteq Run
    BY <1>6 DEF ResultReplay, Runs, TypeOK
  <2>2. /\ live' \in State /\ disk' \in State /\ recoverable' \subseteq State
        /\ degraded' \in BOOLEAN /\ faults' \in Nat /\ crashes' \in Nat
    BY <1>6, ConfirmType, Zenon DEF ResultReplay
  <2> QED
    BY <1>6, <2>1, <2>2 DEF ResultReplay, TypeOK, counters
<1>7. ASSUME NEW i \in held, NEW ok \in BOOLEAN, NEW oc \in Outcomes, GenericResult(i, ok, oc)
      PROVE  TypeOK'
  <2> DEFINE st == IF ok THEN "finished" ELSE "failed"
             n == [live EXCEPT !.tasks[i.task].status = st]
  <2>1. i.task \in Tasks /\ [task |-> i.task, lease |-> i.lease, ok |-> ok] \in Run
    BY DEF TypeOK, Run
  <2>2. Staged(n, oc)
    BY <1>7, Zenon DEF GenericResult
  <2>3. n \in State
    BY <1>1, <2>1, TaskWritten, Zenon
  <2> HIDE DEF n
  <2>4. ran' \subseteq Run
    BY <1>7, <2>1 DEF GenericResult, TypeOK
  <2> QED
    BY <1>7, <2>2, <2>3, <2>4, WriteType, Zenon DEF GenericResult, TypeOK, counters
<1>8. ASSUME NEW l \in Leases, Expire(l) PROVE TypeOK'
  BY <1>8 DEF Expire, TypeOK, stateFile, bounds, counters
<1>9. ASSUME NEW kind \in Crashes, NEW oc \in Outcomes, Crash(kind, oc) PROVE TypeOK'
  <2>1. Restart(kind, oc) /\ req' \in [Handlers -> Request]
    BY <1>9, RequestMade, Zenon DEF Crash
  <2>2. AllStates' \subseteq State
    BY <2>1, RestartStates DEF TypeOK, AllStates
  <2>3. degraded' \in BOOLEAN /\ faults' \in Nat /\ crashes' \in Nat
    BY <2>1, RestartStates DEF TypeOK
  <2> QED
    BY <1>9, <2>1, <2>2, <2>3, Zenon DEF Crash, TypeOK, AllStates, counters, agent
<1>10. CASE UNCHANGED vars
  BY <1>10 DEF vars, TypeOK, stateFile, bounds, counters, agent
<1> QED
  BY <1>2, <1>3, <1>4, <1>5, <1>6, <1>7, <1>8, <1>9, <1>10, OperatorType, ResultType, PollType, Zenon
     DEF Next
=============================================================================
