------------------------------- MODULE NetGuard -------------------------------
(***************************************************************************)
(* The firewall table lattice_guard of one node and its two writers.       *)
(* NetGuard compiles a plan from the node's binding and what it refers to, *)
(* anchors it in the binding, and has it applied by a durable task: the    *)
(* agent journals the lease, and its result is repeated until it is        *)
(* acknowledged.  The legacy firewall route queues an ordinary one-shot    *)
(* task.  Each apply replaces the whole table.                             *)
(*                                                                         *)
(* Every store call is atomic (Store.mu) and a handler makes several: what *)
(* a handler read and has not used yet is in req.  A plan is what it was   *)
(* compiled from, <<rules of the binding, everything it refers to>>.       *)
(*                                                                         *)
(* One node, one target per task.  A run that is "ok" exited 0 and printed *)
(* the hash of the table it installed.  Left out: the agent's capability   *)
(* for durable tasks (assumed), reruns of finished tasks, the other two    *)
(* writers of the table (beacon and self-DNS), group coverage of nodes,    *)
(* and the cap on lease attempts, which TaskQueue has (MaxLeases stays     *)
(* below it).                                                              *)
(***************************************************************************)
EXTENDS StateFile, Sequences

CONSTANTS
  Handlers,      \* concurrent operator and agent requests
  Rules,         \* contents of a binding
  Deps,          \* contents of groups, zones and addresses the rules refer to
  Requests,      \* the operator and agent requests a run admits
  MaxApprovals, MaxTasks, MaxLeases,  \* bounds: ids ever drawn
  MaxChanges,    \* bound: binding and dependency changes
  MaxTransitionAttempts   \* maxTransitionAttempts, 4 in the code

ASSUME NetGuardAssumption ==
  /\ MaxApprovals \in Nat /\ MaxTasks \in Nat /\ MaxLeases \in Nat /\ MaxChanges \in Nat
  /\ MaxTransitionAttempts \in Nat \ {0}
  /\ Requests \subseteq {"plan", "legacy", "approve", "reject", "adopt", "edit",
                         "delete", "cancel", "result"}
  /\ <<>> \notin Rules

VARIABLES
  req,           \* what each handler has read
  lastApproval, lastTask, lastLease,  \* ids drawn
  changes,       \* history: the kinds of changes made, in order
  held,          \* deliveries that reached the agent, [task, lease]
  ran,           \* runs an agent ended, [task, lease, ok]
  acked,         \* history: durable results answered 200, [task, lease, ok]
  dead           \* leases past their timeout and margin

counters == <<lastApproval, lastTask, lastLease, changes>>
agent == <<held, ran, acked, dead>>
vars == <<stateFile, bounds, req, counters, agent>>

-----------------------------------------------------------------------------
(* State.  A binding of version 0 is an absent one, status "none" a row    *)
(* that does not exist.                                                    *)

Plans == Rules \X Deps
NoPlan == <<>>
Approvals == 1..MaxApprovals
Tasks == 1..MaxTasks
Leases == 1..MaxLeases

Binding == [managed : BOOLEAN, rules : Rules, sha : Plans \cup {NoPlan},
            applied : Plans \cup {NoPlan}, version : Nat]
Approval == [status : {"none", "pending", "approved", "rejected", "applied"},
             plan : Plans \cup {NoPlan}]   \* NoPlan: a legacy firewall plan
Task == [status : {"none", "queued", "leased", "finished", "failed", "cancelled"},
         approval : 0..MaxApprovals, lease : 0..MaxLeases,
         receipt : {"none", "ok", "failed"}]
State == [binding : Binding, deps : Deps,
          approvals : [Approvals -> Approval], tasks : [Tasks -> Task]]

noBinding(r) == [managed |-> FALSE, rules |-> r, sha |-> NoPlan, applied |-> NoPlan,
                 version |-> 0]

Idle == [op |-> "idle"]

\* Compile refuses a binding that is not managed.
currentNetGuardPlan(s) ==
  IF s.binding.managed THEN <<s.binding.rules, s.deps>> ELSE NoPlan

NetGuardSide(s, t) == s.approvals[s.tasks[t].approval].plan # NoPlan

taskTargetAwaitingResult(s, t) == s.tasks[t].status \in {"queued", "leased"}

\* Guard writing tasks that may still run; a first run counts only while its
\* approval is approved.
GuardWritersInFlight(s, side) ==
  {t \in Tasks : /\ taskTargetAwaitingResult(s, t)
                 /\ s.approvals[s.tasks[t].approval].status = "approved"
                 /\ NetGuardSide(s, t) = side}

guardWriterInFlightRefusal(s, side) == GuardWritersInFlight(s, ~side) # {}

WithBinding(s, b) == [s EXCEPT !.binding = [b EXCEPT !.version = @ + 1]]

Answer(h) == req' = [req EXCEPT ![h] = Idle]

Waits(h, r) == req' = [req EXCEPT ![h] = r]

\* The next approval id is drawn even when the write fails.
UpsertNewApproval(plan, oc) ==
  /\ lastApproval < MaxApprovals
  /\ lastApproval' = lastApproval + 1
  /\ Save([live EXCEPT !.approvals[lastApproval + 1] =
             [status |-> "pending", plan |-> plan]], oc)

-----------------------------------------------------------------------------
(* Bindings and what they refer to.                                        *)

Change(kind) == Len(changes) < MaxChanges /\ changes' = Append(changes, kind)

\* Mutant: a change leaves the plan anchor alone.
invalidateNothing(b) == b

invalidateGuardBindingLocked(b) ==
  IF b.sha = NoPlan THEN b ELSE [b EXCEPT !.sha = NoPlan, !.version = @ + 1]

\* A security group, a zone, a node's addresses or its NFT inputs change.
ChangeDeps(d, oc) ==
  /\ Change("deps") /\ d # live.deps
  /\ Save([live EXCEPT !.deps = d, !.binding = invalidateGuardBindingLocked(@)], oc)
  /\ UNCHANGED <<req, lastApproval, lastTask, lastLease, agent>>

\* serverAuthoritativeGuardBinding: an edit of the intent drops the anchor; an
\* adoption starts from the converted baseline.
NewBinding(op, m, r) ==
  LET b == [live.binding EXCEPT !.managed = m, !.rules = r] IN
  IF op = "adopt" THEN [b EXCEPT !.sha = NoPlan, !.applied = NoPlan]
  ELSE IF b = live.binding THEN b ELSE [b EXCEPT !.sha = NoPlan]

\* handleNetGuardBindings and handleNetGuardAdopt up to their last store call:
\* the version is the one the operator saw, and turning managed on waits for
\* legacy applies.
ReadBinding(h, op, m, r) ==
  /\ op \in Requests \cap {"adopt", "edit"} /\ req[h] = Idle
  /\ op = "adopt" => m /\ ~live.binding.managed
  /\ m /\ ~live.binding.managed => ~guardWriterInFlightRefusal(live, TRUE)
  /\ Change(op)
  /\ Waits(h, [op |-> "bind", binding |-> NewBinding(op, m, r)])
  /\ UNCHANGED <<stateFile, bounds, lastApproval, lastTask, lastLease, agent>>

\* Written unless the version moved.
UpsertNodeGuardBinding(h, oc) ==
  /\ req[h].op = "bind"
  /\ Answer(h)
  /\ IF req[h].binding.version = live.binding.version
       THEN Save(WithBinding(live, req[h].binding), oc)
       ELSE UNCHANGED <<stateFile, bounds>>
  /\ UNCHANGED <<counters, agent>>

DeleteNodeGuardBinding(oc) ==
  /\ "delete" \in Requests /\ Change("delete")
  /\ live.binding.version # 0 /\ ~live.binding.managed
  /\ Save([live EXCEPT !.binding = noBinding(@.rules)], oc)
  /\ UNCHANGED <<req, lastApproval, lastTask, lastLease, agent>>

-----------------------------------------------------------------------------
(* Plans and decisions.                                                    *)

\* handleNetGuardPlan compiles a snapshot...
PlanCompile(h) ==
  /\ "plan" \in Requests /\ req[h] = Idle /\ lastApproval < MaxApprovals
  /\ currentNetGuardPlan(live) # NoPlan
  /\ Waits(h, [op |-> "anchor",
               binding |-> [live.binding EXCEPT !.sha = currentNetGuardPlan(live)]])
  /\ UNCHANGED <<stateFile, bounds, counters, agent>>

\* ... writes the binding of the snapshot back with the plan's hash, unless
\* its version moved ...
PlanAnchor(h, oc) ==
  /\ req[h].op = "anchor"
  /\ IF req[h].binding.version = live.binding.version
       THEN /\ Save(WithBinding(live, req[h].binding), oc)
            /\ IF oc = "synced" THEN Waits(h, [op |-> "submit", plan |-> req[h].binding.sha])
                                ELSE Answer(h)
       ELSE Answer(h) /\ UNCHANGED <<stateFile, bounds>>
  /\ UNCHANGED <<counters, agent>>

\* ... and files the approval.
PlanSubmit(h, oc) ==
  /\ req[h].op = "submit"
  /\ Answer(h)
  /\ UpsertNewApproval(req[h].plan, oc)
  /\ UNCHANGED <<lastTask, lastLease, changes, agent>>

\* The legacy route; approving judges the owner again.
LegacyPlan(oc) ==
  /\ "legacy" \in Requests /\ ~live.binding.managed
  /\ UpsertNewApproval(NoPlan, oc)
  /\ UNCHANGED <<req, lastTask, lastLease, changes, agent>>

requireCurrentNetGuardApproval(s, a) ==
  /\ s.approvals[a].plan = s.binding.sha
  /\ s.approvals[a].plan = currentNetGuardPlan(s)

\* approveApprovalCore: the approval is pending and its plan current, or, for a
\* legacy plan, NetGuard does not own the table.
ApproveRead(h, a) ==
  /\ "approve" \in Requests /\ req[h] = Idle
  /\ live.approvals[a].status = "pending"
  /\ IF live.approvals[a].plan # NoPlan THEN requireCurrentNetGuardApproval(live, a)
                                        ELSE ~live.binding.managed
  /\ Waits(h, [op |-> "decide", approval |-> a])
  /\ UNCHANGED <<stateFile, bounds, counters, agent>>

\* One side at a time: looked up after the plan was judged.
ApproveInFlight(h) ==
  /\ req[h].op = "decide"
  /\ LET a == req[h].approval
         side == live.approvals[a].plan # NoPlan
     IN IF guardWriterInFlightRefusal(live, side) THEN Answer(h)
        ELSE Waits(h, [op |-> IF side THEN "commit" ELSE "overwrite", approval |-> a])
  /\ UNCHANGED <<stateFile, bounds, counters, agent>>

NewTask(s, a) ==
  [s EXCEPT !.tasks[lastTask + 1] =
     [status |-> "queued", approval |-> a, lease |-> 0, receipt |-> "none"]]

\* Decision and task in one write, if the approval is still pending and the
\* reviewed plan still anchored.
ApproveNetGuard(h, queue, oc) ==
  /\ req[h].op = "commit" /\ (queue => lastTask < MaxTasks)
  /\ Answer(h)
  /\ LET a == req[h].approval
         s == [live EXCEPT !.approvals[a].status = "approved"]
     IN IF live.approvals[a].status = "pending" /\ live.binding.sha = live.approvals[a].plan
          THEN /\ Staged(IF queue THEN NewTask(s, a) ELSE s, oc)
               /\ lastTask' = IF queue THEN lastTask + 1 ELSE lastTask
          ELSE UNCHANGED <<stateFile, bounds, lastTask>>
  /\ UNCHANGED <<lastApproval, lastLease, changes, agent>>

\* The other plugins: UpsertApproval writes what the handler read, decided ...
ApproveLegacy(h, queue, oc) ==
  /\ req[h].op = "overwrite"
  /\ Save([live EXCEPT !.approvals[req[h].approval].status = "approved"], oc)
  /\ IF oc = "synced" /\ queue THEN Waits(h, [op |-> "queue", approval |-> req[h].approval])
                               ELSE Answer(h)
  /\ UNCHANGED <<counters, agent>>

\* ... and queueTask files the task in a write of its own.
QueueTask(h, oc) ==
  /\ req[h].op = "queue" /\ lastTask < MaxTasks
  /\ Answer(h)
  /\ lastTask' = lastTask + 1
  /\ Save(NewTask(live, req[h].approval), oc)
  /\ UNCHANGED <<lastApproval, lastLease, changes, agent>>

RejectRead(h, a) ==
  /\ "reject" \in Requests /\ req[h] = Idle
  /\ live.approvals[a].status = "pending"
  /\ Waits(h, [op |-> "reject", approval |-> a])
  /\ UNCHANGED <<stateFile, bounds, counters, agent>>

\* UpsertApproval of the row that was read: whatever happened to it since is
\* overwritten.  (The reason is a record of its own, SetApprovalRejection, which
\* nothing here reads.)
RejectWrite(h, oc) ==
  /\ req[h].op = "reject"
  /\ Answer(h)
  /\ Save([live EXCEPT !.approvals[req[h].approval].status = "rejected"], oc)
  /\ UNCHANGED <<counters, agent>>

CancelTask(t, oc) ==
  /\ "cancel" \in Requests
  /\ live.tasks[t].status \in {"queued", "leased"}
  /\ Save([live EXCEPT !.tasks[t].status = "cancelled"], oc)
  /\ UNCHANGED <<req, counters, agent>>

-----------------------------------------------------------------------------
(* Polls: leaseTaskDeliveries for guard writing tasks.                     *)

\* The gate of a durable task: approved, and its plan still anchored.
gated(s, t) ==
  LET a == s.approvals[s.tasks[t].approval] IN
  a.status = "approved" /\ s.binding.sha = a.plan

\* Deliveries that were leased before and still owe a result.
Redeliveries(s) ==
  {t \in Tasks : /\ taskTargetAwaitingResult(s, t) /\ NetGuardSide(s, t) /\ gated(s, t)
                 /\ s.tasks[t].lease # 0}

Live(s, t) == s.tasks[t].lease # 0 /\ s.tasks[t].lease \notin dead

\* Mutant: nothing waits for the other side.
NeverHold(s, t) == FALSE

\* A writer of the other side is leased and may be running.
Hold(s, t) ==
  /\ s.approvals[s.tasks[t].approval].status = "approved"
  /\ \E u \in GuardWritersInFlight(s, ~NetGuardSide(s, t)) : Live(s, u)

\* NetGuard took the table over since the legacy plan was approved.
Superseded(s, t) ==
  /\ s.approvals[s.tasks[t].approval].status = "approved"
  /\ ~NetGuardSide(s, t) /\ s.binding.managed

taskCanLeaseTarget(s, t) == taskTargetAwaitingResult(s, t) /\ ~Live(s, t)

FreshDurable(s) ==
  {t \in Tasks : /\ taskCanLeaseTarget(s, t) /\ NetGuardSide(s, t) /\ gated(s, t)
                 /\ ~Hold(s, t)}

FreshGeneric(s) ==
  {t \in Tasks : /\ taskCanLeaseTarget(s, t) /\ ~NetGuardSide(s, t)
                 /\ ~Superseded(s, t) /\ ~Hold(s, t)}

\* The walk is oldest first: once an approval is rejected with one of its tasks,
\* a second task of it no longer counts as a guard writer.
DropSuperseded(s) ==
  LET due == {t \in Tasks : taskCanLeaseTarget(s, t) /\ Superseded(s, t)}
      gone == {t \in due : \A u \in due : s.tasks[u].approval = s.tasks[t].approval => t <= u}
  IN
  [s EXCEPT
     !.approvals = [a \in Approvals |-> IF \E t \in gone : s.tasks[t].approval = a
                                          THEN [s.approvals[a] EXCEPT !.status = "rejected"]
                                          ELSE s.approvals[a]],
     !.tasks = [t \in Tasks |-> IF t \in gone THEN [s.tasks[t] EXCEPT !.status = "cancelled"]
                                ELSE s.tasks[t]]]

LeaseFor(ts, t) == lastLease + Cardinality({u \in ts : u <= t})

WithLeases(s, ts) ==
  [s EXCEPT !.tasks = [t \in Tasks |->
     IF t \in ts THEN [s.tasks[t] EXCEPT !.status = "leased", !.lease = LeaseFor(ts, t)]
     ELSE s.tasks[t]]]

Deliver(s, ts, arrives) ==
  held' = IF arrives THEN held \cup {[task |-> t, lease |-> s.tasks[t].lease] : t \in ts}
          ELSE held

\* The same leases again, once the state file is known to be durable.
Redeliver(oc, arrives) ==
  /\ Redeliveries(live) # {}
  /\ confirmDurabilityLocked(oc)
  /\ Deliver(live, IF oc = "synced" THEN Redeliveries(live) ELSE {}, arrives)
  /\ UNCHANGED <<req, counters, ran, acked, dead>>

\* Mutant: a durable lease is answered although its write may be lost.
LeaseDurableOptimistic(oc, arrives) ==
  LET ts == FreshDurable(live) IN
  /\ Redeliveries(live) = {} /\ ts # {}
  /\ lastLease + Cardinality(ts) <= MaxLeases
  /\ lastLease' = lastLease + Cardinality(ts)
  /\ Staged(WithLeases(live, ts), oc)
  /\ Deliver(WithLeases(live, ts), IF oc # "failed" THEN ts ELSE {}, arrives)
  /\ UNCHANGED <<req, lastApproval, lastTask, changes, ran, acked, dead>>

\* A durable lease is not handed out before its write is durable.
LeaseDurable(oc, arrives) ==
  LET ts == FreshDurable(live) IN
  /\ Redeliveries(live) = {} /\ ts # {}
  /\ lastLease + Cardinality(ts) <= MaxLeases
  /\ lastLease' = lastLease + Cardinality(ts)
  /\ Staged(WithLeases(live, ts), oc)
  /\ Deliver(WithLeases(live, ts), IF oc = "synced" THEN ts ELSE {}, arrives)
  /\ UNCHANGED <<req, lastApproval, lastTask, changes, ran, acked, dead>>

\* Generic tasks only when no durable one is due; superseded ones go in the
\* same write.  A committed lease is answered even if it is not durable.
LeaseGeneric(oc, arrives) ==
  LET ts == FreshGeneric(DropSuperseded(live))
      s == WithLeases(DropSuperseded(live), ts)
  IN /\ Redeliveries(live) = {} /\ FreshDurable(live) = {} /\ s # live
     /\ lastLease + Cardinality(ts) <= MaxLeases
     /\ lastLease' = lastLease + Cardinality(ts)
     /\ Staged(s, oc)
     /\ Deliver(s, IF oc # "failed" THEN ts ELSE {}, arrives)
     /\ UNCHANGED <<req, lastApproval, lastTask, changes, ran, acked, dead>>

-----------------------------------------------------------------------------
(* Results.  The agent runs a lease once and repeats its result.           *)

Runs(i) == {r \in ran : r.task = i.task /\ r.lease = i.lease}

Answers(ok) == IF ok THEN "ok" ELSE "failed"

taskLeaseMatches(s, i) ==
  s.tasks[i.task].status = "leased" /\ s.tasks[i.task].lease = i.lease

\* handleAgentTaskResult finds no receipt and the lease current.  The binding
\* is read afterwards.
ResultGate(h, i, ok) ==
  /\ "result" \in Requests /\ req[h] = Idle /\ i \in held
  /\ live.tasks[i.task].status # "none" /\ NetGuardSide(live, i.task)
  /\ live.tasks[i.task].receipt = "none" /\ taskLeaseMatches(live, i)
  /\ \A r \in Runs(i) : r.ok = ok
  /\ LET r == [task |-> i.task, lease |-> i.lease, ok |-> ok] IN
     /\ ran' = ran \cup {r}
     /\ Waits(h, [op |-> "judge", run |-> r, attempt |-> 1])
  /\ UNCHANGED <<stateFile, bounds, counters, held, acked, dead>>

\* ConfirmTaskResultReplay: the recorded result again is acknowledged once the
\* file is durable; a different one is refused.
ResultReplay(i, oc) ==
  /\ i \in held
  /\ \E r \in Runs(i) :
       /\ live.tasks[i.task].receipt = Answers(r.ok)
       /\ live.tasks[i.task].lease = i.lease
       /\ acked' = IF oc = "synced" THEN acked \cup {r} ELSE acked
  /\ confirmDurabilityLocked(oc)
  /\ UNCHANGED <<req, counters, held, ran, dead>>

\* A result of a plan that is no longer anchored or no longer what would be
\* compiled is a failed apply.
Verdict(s, r) ==
  LET plan == s.approvals[s.tasks[r.task].approval].plan IN
  IF r.ok /\ s.binding.sha = plan /\ currentNetGuardPlan(s) = plan THEN "applied"
  ELSE "rejected"

\* handleNetGuardTaskResult reads the binding and compiles; without a binding
\* there is nothing to record.
ResultJudge(h) ==
  /\ req[h].op = "judge"
  /\ IF live.binding.version = 0 THEN Answer(h)
     ELSE Waits(h, [op |-> "complete", run |-> req[h].run, attempt |-> req[h].attempt,
                    verdict |-> Verdict(live, req[h].run), binding |-> live.binding])
  /\ UNCHANGED <<stateFile, bounds, counters, agent>>

\* Result, receipt, approval and binding in one snapshot.
Completed(s, q) ==
  LET t == q.run.task
      a == s.tasks[t].approval
  IN WithBinding(
       [s EXCEPT !.tasks[t].status = IF q.run.ok THEN "finished" ELSE "failed",
                 !.tasks[t].receipt = Answers(q.run.ok),
                 !.approvals[a].status = q.verdict],
       IF q.verdict = "applied" THEN [q.binding EXCEPT !.applied = s.approvals[a].plan]
                                ELSE q.binding)

\* The lease, the decision and the binding's version are compared under the
\* lock; a version that moved is judged again, a few times.
CompleteNetGuardTaskResult(h, oc) ==
  LET q == req[h] IN
  /\ q.op = "complete"
  /\ IF \/ ~taskLeaseMatches(live, q.run)
        \/ live.approvals[live.tasks[q.run.task].approval].status # "approved"
       THEN Answer(h) /\ UNCHANGED <<stateFile, bounds, acked>>
     ELSE IF q.binding.version # live.binding.version
       THEN /\ IF q.attempt < MaxTransitionAttempts
                 THEN Waits(h, [op |-> "judge", run |-> q.run, attempt |-> q.attempt + 1])
                 ELSE Answer(h)
            /\ UNCHANGED <<stateFile, bounds, acked>>
       ELSE /\ Staged(Completed(live, q), oc)
            /\ acked' = IF oc = "synced" THEN acked \cup {q.run} ELSE acked
            /\ Answer(h)
  /\ UNCHANGED <<counters, held, ran, dead>>

\* A legacy firewall task's result; its approval stays approved.  TaskQueue
\* has the two steps of this request.
GenericResult(i, ok, oc) ==
  /\ "result" \in Requests /\ i \in held
  /\ live.tasks[i.task].status # "none" /\ ~NetGuardSide(live, i.task)
  /\ taskLeaseMatches(live, i)
  /\ \A r \in Runs(i) : r.ok = ok
  /\ ran' = ran \cup {[task |-> i.task, lease |-> i.lease, ok |-> ok]}
  /\ Staged([live EXCEPT !.tasks[i.task].status = IF ok THEN "finished" ELSE "failed"], oc)
  /\ UNCHANGED <<req, counters, held, acked, dead>>

Expire(l) ==
  /\ l \in 1..lastLease \ dead
  /\ dead' = dead \cup {l}
  /\ UNCHANGED <<stateFile, bounds, req, counters, held, ran, acked>>

Crash(kind, oc) ==
  /\ Restart(kind, oc)
  /\ req' = [h \in Handlers |-> Idle]
  /\ UNCHANGED <<counters, agent>>

-----------------------------------------------------------------------------
emptyState(managed, r, d) ==
  [binding |-> IF managed THEN [noBinding(r) EXCEPT !.managed = TRUE, !.version = 1]
               ELSE noBinding(r),
   deps |-> d,
   approvals |-> [a \in Approvals |-> [status |-> "none", plan |-> NoPlan]],
   tasks |-> [t \in Tasks |-> [status |-> "none", approval |-> 0, lease |-> 0,
                               receipt |-> "none"]]]

\* A node before or after its adoption, with nothing planned yet.
Init ==
  /\ \E managed \in BOOLEAN, r \in Rules, d \in Deps :
       InitStateFile(emptyState(managed, r, d))
  /\ req = [h \in Handlers |-> Idle]
  /\ lastApproval = 0 /\ lastTask = 0 /\ lastLease = 0 /\ changes = << >>
  /\ held = {} /\ ran = {} /\ acked = {} /\ dead = {}

Operator(h) ==
  \/ PlanCompile(h)
  \/ \E oc \in Outcomes : PlanAnchor(h, oc)
  \/ \E oc \in Outcomes : PlanSubmit(h, oc)
  \/ \E a \in Approvals : ApproveRead(h, a)
  \/ ApproveInFlight(h)
  \/ \E queue \in BOOLEAN, oc \in Outcomes : ApproveNetGuard(h, queue, oc)
  \/ \E queue \in BOOLEAN, oc \in Outcomes : ApproveLegacy(h, queue, oc)
  \/ \E oc \in Outcomes : QueueTask(h, oc)
  \/ \E a \in Approvals : RejectRead(h, a)
  \/ \E oc \in Outcomes : RejectWrite(h, oc)
  \/ \E op \in Requests, m \in BOOLEAN, r \in Rules : ReadBinding(h, op, m, r)
  \/ \E oc \in Outcomes : UpsertNodeGuardBinding(h, oc)

Result(h) ==
  \/ \E i \in held, ok \in BOOLEAN : ResultGate(h, i, ok)
  \/ ResultJudge(h)
  \/ \E oc \in Outcomes : CompleteNetGuardTaskResult(h, oc)

Poll ==
  \E oc \in Outcomes, arrives \in BOOLEAN :
    \/ Redeliver(oc, arrives)
    \/ LeaseDurable(oc, arrives)
    \/ LeaseGeneric(oc, arrives)

Next ==
  \/ \E h \in Handlers : Operator(h) \/ Result(h)
  \/ \E d \in Deps, oc \in Outcomes : ChangeDeps(d, oc)
  \/ \E oc \in Outcomes : DeleteNodeGuardBinding(oc)
  \/ \E oc \in Outcomes : LegacyPlan(oc)
  \/ \E t \in Tasks, oc \in Outcomes : CancelTask(t, oc)
  \/ Poll
  \/ \E i \in held, oc \in Outcomes : ResultReplay(i, oc)
  \/ \E i \in held, ok \in BOOLEAN, oc \in Outcomes : GenericResult(i, ok, oc)
  \/ \E l \in Leases : Expire(l)
  \/ \E kind \in Crashes, oc \in Outcomes : Crash(kind, oc)

Spec == Init /\ [][Next]_vars

-----------------------------------------------------------------------------
(* Properties.                                                             *)

Run == [task : Tasks, lease : Leases, ok : BOOLEAN]
Request ==
  {Idle}
  \cup [op : {"bind", "anchor"}, binding : Binding]
  \cup [op : {"submit"}, plan : Plans]
  \cup [op : {"decide", "commit", "overwrite", "queue", "reject"}, approval : Approvals]
  \cup [op : {"judge"}, run : Run, attempt : 1..MaxTransitionAttempts]
  \cup [op : {"complete"}, run : Run, attempt : 1..MaxTransitionAttempts,
        verdict : {"applied", "rejected"}, binding : Binding]

\* Memory, file and everything a power loss may bring back are states of the
\* node, and a handler holds only what its request reads.
TypeOK ==
  /\ live \in State /\ disk \in State /\ recoverable \subseteq State
  /\ degraded \in BOOLEAN /\ faults \in Nat /\ crashes \in Nat
  /\ req \in [Handlers -> Request]
  /\ lastApproval \in 0..MaxApprovals /\ lastTask \in 0..MaxTasks
  /\ lastLease \in 0..MaxLeases /\ changes \in Seq({"deps", "adopt", "edit", "delete"})
  /\ held \subseteq [task : Tasks, lease : Leases]
  /\ ran \subseteq Run /\ acked \subseteq Run /\ dead \subseteq Leases

AnyState == recoverable \cup {live, disk}

Durable(s, t) == s.tasks[t].status # "none" /\ NetGuardSide(s, t)

\* "this closes the lost-response hole without creating a second execution
\* authority": a durable lease the agent holds is the task's lease in every
\* state a restart or a power loss can bring back, so no other is ever issued.
HeldLeaseStands ==
  \A i \in held : Durable(live, i.task) \/ Durable(disk, i.task) =>
    \A s \in AnyState : Durable(s, i.task) /\ s.tasks[i.task].lease = i.lease

\* "callers never acknowledge a task whose authoritative apply state was
\* dropped": after a 200, receipt, terminal task and terminal approval are in
\* every state that can come back.
AckedIsWhole ==
  \A r \in acked, s \in AnyState :
    LET t == s.tasks[r.task] IN
    /\ t.receipt = Answers(r.ok) /\ t.lease = r.lease
    /\ t.status = (IF r.ok THEN "finished" ELSE "failed")
    /\ s.approvals[t.approval].status \in {"applied", "rejected"}

\* An approval becomes applied only with a successful run of a plan that is
\* still what would be compiled when the result is recorded: the version of the
\* binding tells CompleteNetGuardTaskResult of every change since it was judged.
\* (A deleted binding forgets its version, and one adopted again counts anew.)
AppliedIsCurrent ==
  [][\A a \in Approvals :
       /\ live.approvals[a].status = "approved" /\ live'.approvals[a].status = "applied"
       /\ \A i \in 1..Len(changes) : changes[i] # "delete"
       => /\ live.approvals[a].plan = currentNetGuardPlan(live)
          /\ \E r \in ran : r.ok /\ live.tasks[r.task].approval = a]_vars

\* The plan recorded as applied was run with success on the node.
AppliedWasRun ==
  live.binding.applied # NoPlan =>
    \E r \in ran : r.ok /\ live.approvals[live.tasks[r.task].approval].plan = live.binding.applied

\* Leases, receipts and the applied plan agree in memory, in the file and in
\* whatever a power loss brings back (CompleteNetGuardTaskResult).
GuardSound == TypeOK /\ HeldLeaseStands /\ AckedIsWhole /\ AppliedWasRun

\* A new lease of one side is not given out while an approved apply of the
\* other side is leased and may be running, however the decisions raced.
FreshLeaseAlone ==
  [][\A t, u \in Tasks :
       /\ live'.tasks[t].lease # live.tasks[t].lease
       /\ live'.approvals[live'.tasks[t].approval].status = "approved"
       /\ u \in GuardWritersInFlight(live', ~NetGuardSide(live', t))
       => ~Live(live', u)]_vars

-----------------------------------------------------------------------------
(* What comments in the code say and the model refutes: README.md names    *)
(* the instances that show it.                                             *)

\* A durable task is only handed out while its plan is what would be compiled.
LeasedIsCurrent ==
  [][\A i \in held' \ held : NetGuardSide(live, i.task) =>
       live.approvals[live.tasks[i.task].approval].plan = currentNetGuardPlan(live)]_vars

\* "the task waits for the next poll instead of racing it": the agent is never
\* handed an apply while it may be running one of the other side.
OneSideAtATime ==
  [][\A i \in held' \ held, j \in held :
       NetGuardSide(live', i.task) # NetGuardSide(live', j.task) =>
         j.lease \in dead \/ ~taskLeaseMatches(live', j)]_vars

\* NetGuard "is the only writer on a node it covers": no legacy apply is
\* handed out on a managed node.
OwnerWrites ==
  [][\A i \in held' \ held : ~NetGuardSide(live', i.task) => ~live'.binding.managed]_vars
=============================================================================
