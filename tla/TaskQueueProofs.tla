--------------------------- MODULE TaskQueueProofs ---------------------------
(***************************************************************************)
(* TaskQueue for any number of nodes, tasks, leases, results and handlers, *)
(* and any combination of failing writes and process deaths.               *)
(***************************************************************************)
EXTENDS TaskQueue, StateFileProofs, FiniteSetTheorems

-----------------------------------------------------------------------------
(* The lease ids a poll draws are fresh and different.                     *)

\* What a poll hands out is a finite set of tasks.
LEMMA HandedOutFinite ==
  ASSUME NEW s, NEW n, NEW P, P \in SUBSET HandedOut(s, n)
  PROVE  IsFiniteSet(P) /\ Cardinality(P) \in Nat
<1>1. Tasks \subseteq Nat /\ \A t \in Tasks : t <= MaxTasks
  BY TaskQueueAssumption DEF Tasks
<1>2. P \in SUBSET Nat /\ \A t \in P : t <= MaxTasks
  BY <1>1 DEF HandedOut, Leasable
<1>3. MaxTasks \in Nat
  BY TaskQueueAssumption
<1>4. IsFiniteSet(P)
  BY <1>2, <1>3, FS_BoundedSetOfNaturals
<1> QED
  BY <1>4, FS_CardinalityType

\* A poll draws ids above the last one, and as many as it hands out tasks.
LEMMA LeaseForRange ==
  ASSUME NEW s, NEW n, NEW t \in HandedOut(s, n), lastLease \in Nat
  PROVE  LeaseFor(s, n, t) \in lastLease + 1 .. lastLease + Cardinality(HandedOut(s, n))
<1> DEFINE H == HandedOut(s, n)
           upTo == {u \in H : u <= t}
<1>1. IsFiniteSet(H) /\ Cardinality(H) \in Nat /\ IsFiniteSet(upTo) /\ Cardinality(upTo) \in Nat
  BY HandedOutFinite
<1>2. Cardinality(upTo) <= Cardinality(H)
  BY <1>1, FS_Subset
<1>3. t \in upTo
  BY TaskQueueAssumption DEF HandedOut, Leasable, Tasks
<1>4. Cardinality(upTo) # 0
  BY <1>1, <1>3, FS_EmptySet
<1> QED
  BY <1>1, <1>2, <1>4 DEF LeaseFor

\* Two tasks of one poll get different leases.
LEMMA LeaseForInjective ==
  ASSUME NEW s, NEW n, NEW t \in HandedOut(s, n), NEW u \in HandedOut(s, n),
         lastLease \in Nat, LeaseFor(s, n, t) = LeaseFor(s, n, u)
  PROVE  t = u
<1> DEFINE H == HandedOut(s, n)
           upTo(v) == {w \in H : w <= v}
<1>1. \A v : IsFiniteSet(upTo(v)) /\ Cardinality(upTo(v)) \in Nat
  BY HandedOutFinite
<1>2. Cardinality(upTo(t)) = Cardinality(upTo(u))
  <2>1. Cardinality(upTo(t)) \in Nat /\ Cardinality(upTo(u)) \in Nat
    BY <1>1
  <2>2. lastLease + Cardinality(upTo(t)) = lastLease + Cardinality(upTo(u))
    BY DEF LeaseFor
  <2> QED
    BY <2>1, <2>2
<1>3. \A v \in H : v \in Nat
  BY TaskQueueAssumption DEF HandedOut, Leasable, Tasks
<1>4. ASSUME NEW v \in H, NEW w \in H, v <= w, Cardinality(upTo(v)) = Cardinality(upTo(w))
      PROVE  v = w
  <2>1. upTo(v) \in SUBSET upTo(w)
    BY <1>3, <1>4
  <2>2. upTo(w) = upTo(v)
    BY <1>1, <1>4, <2>1, FS_Subset
  <2>3. w \in upTo(w)
    BY <1>3
  <2>4. w <= v
    BY <2>2, <2>3
  <2> QED
    BY <2>4, <1>3, <1>4
<1> QED
  BY <1>2, <1>3, <1>4

-----------------------------------------------------------------------------
(* Types.                                                                  *)

\* An aggregated status is one of an existing task.
LEMMA AggregateType ==
  ASSUME NEW t, NEW ts, NEW rs
  PROVE  taskAggregateStatus(t, ts, rs) \in Status \ {"none"}
BY DEF taskAggregateStatus, Status

\* The empty queue is a state.
LEMMA EmptyStateType == emptyState \in State
BY TaskQueueAssumption DEF emptyState, State, Status

\* What a poll writes is a state, and its leases are leases.
LEMMA LeasedType ==
  ASSUME NEW s \in State, NEW n \in Nodes, lastLease \in Nat,
         lastLease + Cardinality(HandedOut(s, n)) <= MaxLeases
  PROVE  /\ Leased(s, n) \in State
         /\ NewLeases(s, n) \subseteq [lease : Leases, task : Tasks, node : Nodes]
<1>1. Cardinality(HandedOut(s, n)) \in Nat
  BY HandedOutFinite
<1>2. \A t \in HandedOut(s, n) : LeaseFor(s, n, t) \in Leases
  BY <1>1, LeaseForRange, TaskQueueAssumption DEF Leases
<1>3. \A t \in HandedOut(s, n) : LeaseFor(s, n, t) \in 0..MaxLeases
  BY <1>2 DEF Leases
<1>4. HandedOut(s, n) \subseteq Tasks /\ GivenUp(s, n) \subseteq Tasks
  BY DEF HandedOut, Leasable, GivenUp
<1>5. \A t \in Tasks : Attempts(s, t, n) \in Nat
  BY DEF State, Attempts
<1>6. Leased(s, n).status \in [Tasks -> Status]
  BY DEF Leased, State, Status
<1>7. Leased(s, n).lease \in [Tasks -> [Nodes -> 0..MaxLeases]]
  BY <1>3 DEF Leased, State
<1>8. Leased(s, n).attempts \in [Tasks -> [Nodes -> Nat]]
  BY <1>5 DEF Leased, State
<1>9. Leased(s, n).stalled \in [Tasks -> SUBSET Nodes]
  BY DEF Leased, State
<1>10. Leased(s, n) \in State
  BY <1>6, <1>7, <1>8, <1>9, Zenon DEF Leased, State
<1> QED
  BY <1>2, <1>4, <1>10 DEF NewLeases

\* What a result writes is a state.
LEMMA WithResultType ==
  ASSUME NEW s \in State, NEW p \in Post, appended \in Nat
  PROVE  WithResult(s, p) \in State
<1> DEFINE row == [no |-> appended + 1, task |-> p.task, node |-> p.node,
                   lease |-> p.lease, ok |-> p.ok]
           all == s.results \cup {row}
           kept == all \ Dropped(all)
<1>1. row \in Result
  BY DEF Post, Result
<1>2. kept \in SUBSET Result
  BY <1>1 DEF State
<1>3. taskAggregateStatus(p.task, s.targets[p.task], kept) \in Status
  BY AggregateType
<1> HIDE DEF kept
<1>4. [s EXCEPT !.results = kept,
                !.status[p.task] = IF @ = "none" THEN @
                                   ELSE taskAggregateStatus(p.task, s.targets[p.task], kept)]
        \in State
  BY <1>2, <1>3, Zenon DEF State, Post
<1> QED
  BY <1>4 DEF WithResult, kept

\* What the task API writes are states.
LEMMA SavedType ==
  ASSUME NEW s \in State, NEW t \in Tasks
  PROVE  /\ \A ts \in SUBSET Nodes :
              [s EXCEPT !.status[t] = "queued", !.targets[t] = ts] \in State
         /\ [s EXCEPT !.status[t] = "cancelled"] \in State
         /\ [s EXCEPT !.status[t] = "none", !.targets[t] = {},
                      !.lease[t] = [n \in Nodes |-> 0],
                      !.attempts[t] = [n \in Nodes |-> 0],
                      !.stalled[t] = {},
                      !.results = {r \in @ : r.task # t}] \in State
<1> DEFINE d == [s EXCEPT !.status[t] = "none", !.targets[t] = {},
                          !.lease[t] = [n \in Nodes |-> 0],
                          !.attempts[t] = [n \in Nodes |-> 0],
                          !.stalled[t] = {},
                          !.results = {r \in @ : r.task # t}]
<1>1. \A ts \in SUBSET Nodes :
        [s EXCEPT !.status[t] = "queued", !.targets[t] = ts] \in State
  BY Zenon DEF State, Status
<1>2. [s EXCEPT !.status[t] = "cancelled"] \in State
  BY Zenon DEF State, Status
<1>3. [n \in Nodes |-> 0] \in [Nodes -> 0..MaxLeases] /\ [n \in Nodes |-> 0] \in [Nodes -> Nat]
  BY TaskQueueAssumption
<1>4. /\ d.status \in [Tasks -> Status] /\ d.targets \in [Tasks -> SUBSET Nodes]
      /\ d.stalled \in [Tasks -> SUBSET Nodes] /\ d.results \subseteq Result
  BY DEF State, Status
<1>5. d.lease \in [Tasks -> [Nodes -> 0..MaxLeases]] /\ d.attempts \in [Tasks -> [Nodes -> Nat]]
  BY <1>3 DEF State
<1>6. d \in State
  BY <1>4, <1>5, Zenon DEF State
<1> QED
  BY <1>1, <1>2, <1>6, Zenon

\* The initial states have the types.
LEMMA InitType == Init => TypeOK
<1> SUFFICES ASSUME Init PROVE TypeOK
  OBVIOUS
<1>1. live \in State /\ disk \in State /\ recoverable \subseteq State
  BY EmptyStateType DEF Init, InitStateFile
<1>2. 0 \in 0..MaxTasks /\ 0 \in 0..MaxLeases
  BY TaskQueueAssumption
<1> QED
  BY <1>1, <1>2, Zenon DEF Init, InitStateFile, TypeOK

\* What a write of a well formed state leaves.
LEMMA WriteType ==
  ASSUME TypeOK, NEW s \in State, NEW oc \in Outcomes, Staged(s, oc) \/ Save(s, oc)
  PROVE  /\ live' \in State /\ disk' \in State /\ recoverable' \subseteq State
         /\ degraded' \in BOOLEAN /\ faults' \in Nat /\ crashes' \in Nat
<1>1. AllStates \subseteq State
  BY DEF TypeOK, AllStates
<1>2. AllStates' \subseteq State
  BY <1>1, StagedStates
<1>3. faults \in Nat /\ crashes \in Nat /\ degraded \in BOOLEAN
  BY DEF TypeOK
<1>4. degraded' \in BOOLEAN
  BY <1>3, DegradedType, Zenon
<1> QED
  BY <1>2, <1>3, <1>4, StagedStates DEF AllStates

\* Every step keeps the types.
LEMMA StepType == TypeOK /\ [Next]_vars => TypeOK'
<1> SUFFICES ASSUME TypeOK, [Next]_vars PROVE TypeOK'
  OBVIOUS
<1>1. ASSUME NEW ts \in SUBSET Nodes, NEW oc \in Outcomes, CreateTask(ts, oc)
      PROVE  TypeOK'
  <2>1. created + 1 \in Tasks /\ created' \in 0..MaxTasks
    BY <1>1, TaskQueueAssumption DEF CreateTask, TypeOK, Tasks
  <2>2. [live EXCEPT !.status[created + 1] = "queued", !.targets[created + 1] = ts] \in State
    BY <2>1, SavedType, Zenon DEF TypeOK
  <2> QED
    BY <1>1, <2>1, <2>2, WriteType, Zenon DEF CreateTask, TypeOK, agents, history, clock
<1>2. ASSUME NEW t \in Tasks, NEW oc \in Outcomes, CancelTask(t, oc)
      PROVE  TypeOK'
  <2>1. [live EXCEPT !.status[t] = "cancelled"] \in State
    BY SavedType, Zenon DEF TypeOK
  <2> QED
    BY <1>2, <2>1, WriteType DEF CancelTask, TypeOK, agents, history, clock
<1>3. ASSUME NEW t \in Tasks, NEW oc \in Outcomes, DeleteTask(t, oc)
      PROVE  TypeOK'
  <2> DEFINE s == [live EXCEPT !.status[t] = "none", !.targets[t] = {},
                       !.lease[t] = [n \in Nodes |-> 0],
                       !.attempts[t] = [n \in Nodes |-> 0],
                       !.stalled[t] = {},
                       !.results = {r \in @ : r.task # t}]
  <2>1. s \in State
    BY SavedType, Zenon DEF TypeOK
  <2>2. Save(s, oc)
    BY <1>3, Zenon DEF DeleteTask
  <2> HIDE DEF s
  <2> QED
    BY <1>3, <2>1, <2>2, WriteType DEF DeleteTask, TypeOK, agents, history, clock
<1>4. ASSUME NEW n \in Nodes, NEW oc \in Outcomes, NEW arrives \in BOOLEAN,
             LeaseTasks(n, oc, arrives)
      PROVE  TypeOK'
  <2>1. live \in State /\ lastLease \in Nat
    BY TaskQueueAssumption DEF TypeOK
  <2>2. lastLease + Cardinality(HandedOut(live, n)) <= MaxLeases
    BY <1>4, Zenon DEF LeaseTasks
  <2>3. /\ Leased(live, n) \in State
        /\ NewLeases(live, n) \subseteq [lease : Leases, task : Tasks, node : Nodes]
    BY <2>1, <2>2, LeasedType
  <2>4. Cardinality(HandedOut(live, n)) \in Nat
    BY HandedOutFinite
  <2>5. lastLease + Cardinality(HandedOut(live, n)) \in 0..MaxLeases
    BY <2>1, <2>2, <2>4, TaskQueueAssumption
  <2>6. lastLease' \in 0..MaxLeases
    BY <1>4, <2>5, Zenon DEF LeaseTasks, TypeOK
  <2>7. /\ issued' \subseteq [lease : Leases, task : Tasks, node : Nodes]
        /\ held' \subseteq Leases
    BY <1>4, <2>3 DEF LeaseTasks, TypeOK
  <2>8. Staged(Leased(live, n), oc)
    BY <1>4 DEF LeaseTasks
  <2>9. /\ live' \in State /\ disk' \in State /\ recoverable' \subseteq State
        /\ degraded' \in BOOLEAN /\ faults' \in Nat /\ crashes' \in Nat
    BY <2>3, <2>8, WriteType, Zenon
  <2> QED
    BY <1>4, <2>6, <2>7, <2>9, Zenon DEF LeaseTasks, TypeOK, history, clock
<1>5. ASSUME NEW h \in Handlers, NEW i \in issued, NEW ok \in BOOLEAN, requireTaskLease(h, i, ok)
      PROVE  TypeOK'
  <2>1. [task |-> i.task, node |-> i.node, lease |-> i.lease, ok |-> ok] \in Post
    BY Zenon DEF TypeOK, Post
  <2>2. posting' \in [Handlers -> SUBSET Post]
    BY <1>5, <2>1, Zenon DEF requireTaskLease, TypeOK
  <2>3. ran' \subseteq [lease : Leases, ok : BOOLEAN]
    BY <1>5 DEF requireTaskLease, TypeOK
  <2> QED
    BY <1>5, <2>2, <2>3, Zenon DEF requireTaskLease, TypeOK, stateFile, bounds, history, clock
<1>6. ASSUME NEW h \in Handlers, NEW p \in posting[h], NEW oc \in Outcomes, AddTaskResult(h, p, oc)
      PROVE  TypeOK'
  <2>1. p \in Post /\ live \in State /\ appended \in Nat
    BY DEF TypeOK
  <2>2. WithResult(live, p) \in State
    BY <2>1, WithResultType, Zenon
  <2>3. Staged(WithResult(live, p), oc)
    BY <1>6, Zenon DEF AddTaskResult
  <2>4. /\ live' \in State /\ disk' \in State /\ recoverable' \subseteq State
        /\ degraded' \in BOOLEAN /\ faults' \in Nat /\ crashes' \in Nat
    BY <2>2, <2>3, WriteType, Zenon
  <2>5. posting' \in [Handlers -> SUBSET Post]
    BY <1>6, Zenon DEF AddTaskResult, TypeOK
  <2>6. appended' \in Nat /\ acked' \subseteq Leases
    BY <1>6, <2>1 DEF AddTaskResult, TypeOK, Post
  <2>7. pruned' \subseteq Leases
    <3>1. \A r \in live.results : r.lease \in Leases
      BY <2>1, Zenon DEF State, Result
    <3>2. pruned' \subseteq pruned \cup {r.lease : r \in live.results}
      BY <1>6 DEF AddTaskResult
    <3> QED
      BY <3>1, <3>2, Zenon DEF TypeOK
  <2> QED
    BY <1>6, <2>4, <2>5, <2>6, <2>7, Zenon DEF AddTaskResult, TypeOK, agents, clock
<1>7. ASSUME NEW l \in Leases, Expire(l) PROVE TypeOK'
  BY <1>7, Zenon DEF Expire, TypeOK, stateFile, bounds, agents, history
<1>8. ASSUME NEW t \in Tasks, PassDeadline(t) PROVE TypeOK'
  BY <1>8, Zenon DEF PassDeadline, TypeOK, stateFile, bounds, agents, history
<1>9. ASSUME NEW t \in Tasks, NEW n \in Nodes, Outrank(t, n) PROVE TypeOK'
  BY <1>9 DEF Outrank, TypeOK, stateFile, bounds, agents, history
<1>10. ASSUME NEW kind \in Crashes, NEW oc \in Outcomes, Crash(kind, oc) PROVE TypeOK'
  <2>1. Restart(kind, oc)
    BY <1>10 DEF Crash
  <2>2. AllStates' \subseteq State
    BY <2>1, RestartStates, Zenon DEF TypeOK, AllStates
  <2>3. degraded' \in BOOLEAN /\ faults' \in Nat /\ crashes' \in Nat
    BY <2>1, RestartStates DEF TypeOK
  <2>4. posting' \in [Handlers -> SUBSET Post]
    BY <1>10, Zenon DEF Crash
  <2> QED
    BY <1>10, <2>2, <2>3, <2>4, Zenon DEF Crash, TypeOK, AllStates, agents, history, clock
<1>11. CASE UNCHANGED vars
  BY <1>11 DEF vars, TypeOK, stateFile, bounds, agents, history, clock
<1> QED
  BY <1>1, <1>2, <1>3, <1>4, <1>5, <1>6, <1>7, <1>8, <1>9, <1>10, <1>11, Zenon
     DEF Next, Poll, PostResult, CommitResult

\* The queue, its copies on disk and the requests in flight stay well formed.
THEOREM TypeCorrect == Spec => []TypeOK
<1> QED
  BY InitType, StepType, PTL DEF Spec

-----------------------------------------------------------------------------
(* The states the handlers write, field by field.                          *)

Created(s, t, ts) == [s EXCEPT !.status[t] = "queued", !.targets[t] = ts]

Cancelled(s, t) == [s EXCEPT !.status[t] = "cancelled"]

Deleted(s, t) ==
  [s EXCEPT !.status[t] = "none", !.targets[t] = {},
            !.lease[t] = [n \in Nodes |-> 0], !.attempts[t] = [n \in Nodes |-> 0],
            !.stalled[t] = {}, !.results = {r \in @ : r.task # t}]

Row(p, k) == [no |-> k, task |-> p.task, node |-> p.node, lease |-> p.lease, ok |-> p.ok]

\* Filing a task.
LEMMA CreatedFields ==
  ASSUME NEW s \in State, NEW t \in Tasks, NEW ts \in SUBSET Nodes
  PROVE  LET n == Created(s, t, ts) IN
         /\ n.results = s.results /\ n.lease = s.lease /\ n.attempts = s.attempts
         /\ n.status[t] = "queued"
         /\ \A u \in Tasks : u # t => n.status[u] = s.status[u] /\ n.targets[u] = s.targets[u]
BY Zenon DEF Created, State

\* Cancelling one.
LEMMA CancelledFields ==
  ASSUME NEW s \in State, NEW t \in Tasks
  PROVE  LET n == Cancelled(s, t) IN
         /\ n.results = s.results /\ n.lease = s.lease /\ n.attempts = s.attempts
         /\ n.targets = s.targets /\ n.status[t] = "cancelled"
         /\ \A u \in Tasks : u # t => n.status[u] = s.status[u]
BY Zenon DEF Cancelled, State

\* Deleting one: its row and results go,
LEMMA DeletedFields ==
  ASSUME NEW s \in State, NEW t \in Tasks
  PROVE  /\ Deleted(s, t).results = {r \in s.results : r.task # t}
         /\ Deleted(s, t).status[t] = "none"
         /\ \A m \in Nodes : Deleted(s, t).lease[t][m] = 0 /\ Deleted(s, t).attempts[t][m] = 0
<1> DEFINE n == Deleted(s, t)
<1>1. n.results = {r \in s.results : r.task # t} /\ n.status[t] = "none"
  BY Zenon DEF Deleted, State
<1>2. n.lease[t] = [m \in Nodes |-> 0] /\ n.attempts[t] = [m \in Nodes |-> 0]
  BY Zenon DEF Deleted, State
<1> HIDE DEF n
<1>3. \A m \in Nodes : n.lease[t][m] = 0 /\ n.attempts[t][m] = 0
  BY <1>2, Zenon
<1> QED
  BY <1>1, <1>3, Zenon DEF n

\* and the others stay.
LEMMA DeletedOthers ==
  ASSUME NEW s \in State, NEW t \in Tasks, NEW u \in Tasks, u # t
  PROVE  /\ Deleted(s, t).status[u] = s.status[u] /\ Deleted(s, t).targets[u] = s.targets[u]
         /\ Deleted(s, t).lease[u] = s.lease[u] /\ Deleted(s, t).attempts[u] = s.attempts[u]
BY Zenon DEF Deleted, State

\* A poll of the node n: it moves no result and no target,
LEMMA LeasedFields ==
  ASSUME NEW s \in State, NEW n \in Nodes
  PROVE  Leased(s, n).results = s.results /\ Leased(s, n).targets = s.targets
BY Zenon DEF Leased, State

\* makes what it hands out a leased task,
LEMMA LeasedStatus ==
  ASSUME NEW s \in State, NEW n \in Nodes, NEW t \in Tasks
  PROVE  /\ t \in HandedOut(s, n) => Leased(s, n).status[t] = "leased"
         /\ t \notin HandedOut(s, n) => Leased(s, n).status[t] = s.status[t]
BY Zenon DEF Leased, State

\* puts the new lease on record for the node, and none else,
LEMMA LeasedLease ==
  ASSUME NEW s \in State, NEW n \in Nodes, NEW t \in Tasks, NEW m \in Nodes
  PROVE  /\ t \in HandedOut(s, n) /\ m = n => Leased(s, n).lease[t][m] = LeaseFor(s, n, t)
         /\ ~(t \in HandedOut(s, n) /\ m = n) => Leased(s, n).lease[t][m] = s.lease[t][m]
<1>1. Leased(s, n).lease[t] = IF t \in HandedOut(s, n)
                                THEN [s.lease[t] EXCEPT ![n] = LeaseFor(s, n, t)]
                                ELSE s.lease[t]
  BY Zenon DEF Leased, State
<1>2. s.lease[t] \in [Nodes -> 0..MaxLeases]
  BY Zenon DEF State
<1> QED
  BY <1>1, <1>2, Zenon

\* and counts it.
LEMMA LeasedAttempts ==
  ASSUME NEW s \in State, NEW n \in Nodes, NEW t \in Tasks, NEW m \in Nodes
  PROVE  /\ t \in HandedOut(s, n) /\ m = n =>
              Leased(s, n).attempts[t][m] = Attempts(s, t, m) + 1
         /\ ~(t \in HandedOut(s, n) /\ m = n) =>
              Leased(s, n).attempts[t][m] \in {s.attempts[t][m], Attempts(s, t, m)}
<1> DEFINE a == Leased(s, n).attempts[t]
<1>1. a = IF t \in HandedOut(s, n)
            THEN [s.attempts[t] EXCEPT ![n] = Attempts(s, t, n) + 1]
            ELSE IF t \in GivenUp(s, n) THEN [s.attempts[t] EXCEPT ![n] = Attempts(s, t, n)]
                                        ELSE s.attempts[t]
  BY Zenon DEF Leased, State
<1>2. s.attempts[t] \in [Nodes -> Nat]
  BY Zenon DEF State
<1> HIDE DEF a
<1>3. CASE t \in HandedOut(s, n)
  <2>1. a = [s.attempts[t] EXCEPT ![n] = Attempts(s, t, n) + 1]
    BY <1>1, <1>3, Zenon
  <2> QED
    BY <1>2, <1>3, <2>1, Zenon DEF a
<1>4. CASE t \notin HandedOut(s, n)
  <2>1. a = [s.attempts[t] EXCEPT ![n] = Attempts(s, t, n)] \/ a = s.attempts[t]
    BY <1>1, <1>4, Zenon
  <2> QED
    BY <1>2, <1>4, <2>1, Zenon DEF a
<1> QED
  BY <1>3, <1>4, Zenon

\* Recording a result.
LEMMA ResultFields ==
  ASSUME NEW s \in State, NEW p \in Post
  PROVE  LET n == WithResult(s, p)
             all == s.results \cup {Row(p, appended + 1)}
         IN  /\ n.results = all \ Dropped(all)
             /\ n.lease = s.lease /\ n.attempts = s.attempts /\ n.targets = s.targets
             /\ \A u \in Tasks : u # p.task => n.status[u] = s.status[u]
             /\ n.status[p.task] = IF s.status[p.task] = "none" THEN "none"
                                   ELSE taskAggregateStatus(p.task, s.targets[p.task], n.results)
<1>1. p.task \in Tasks
  BY DEF Post
<1> QED
  BY <1>1, Zenon DEF WithResult, Row, State

\* The cap never drops the row just written: it is the newest.
LEMMA RowKept ==
  ASSUME NEW s \in State, NEW p \in Post, appended \in Nat,
         \A r \in s.results : r.no <= appended
  PROVE  Row(p, appended + 1) \in WithResult(s, p).results
<1> DEFINE row == Row(p, appended + 1)
           all == s.results \cup {row}
<1>1. WithResult(s, p).results = all \ Dropped(all)
  BY ResultFields, Zenon
<1>2. row.no = appended + 1
  BY Zenon DEF Row
<1>3. \A x : Cardinality({x}) = 1
  BY FS_Singleton, Zenon
<1>4. Cardinality({row}) = 1
  BY <1>3, Zenon
<1>5. \A r \in s.results : r.no \in Nat
  BY Zenon DEF State, Result
<1> HIDE DEF row
<1>6. ASSUME row \in Dropped(all) PROVE FALSE
  <2>1. Cardinality(all) > MaxTaskResults /\ row \in Oldest(all)
    BY <1>6, Zenon DEF Dropped
  <2>2. all # {row}
    <3> HIDE DEF all
    <3> QED
      BY <1>4, <2>1, TaskQueueAssumption
  <2>3. PICK r \in s.results : TRUE
    BY <2>2, Zenon
  <2>4. row.no <= r.no
    BY <2>1, Zenon DEF Oldest
  <2> QED
    BY <1>2, <1>5, <2>3, <2>4
<1>7. row \in all \ Dropped(all)
  BY <1>6, Zenon
<1> QED
  BY <1>1, <1>7, Zenon DEF row

-----------------------------------------------------------------------------
(* Acknowledged results.  The property is not inductive: deleting a task   *)
(* removes results by their task, so results must carry the task of their  *)
(* lease; and a fresh lease or task must not be one an acknowledged result *)
(* is recorded for, so nothing recorded is numbered beyond the counters.   *)

Consistent(s) ==
  /\ \A t \in Tasks : t > created => s.status[t] = "none"
  /\ \A r \in s.results : r.lease <= lastLease /\ r.no <= appended
  /\ \A r \in s.results, i \in issued : r.lease = i.lease => r.task = i.task

Keeps(s) ==
  \A i \in issued : i.lease \in acked \ pruned =>
    \/ s.status[i.task] = "none"
    \/ \E r \in s.results : r.lease = i.lease

LeasesInv ==
  /\ \A i \in issued : i.lease <= lastLease /\ i.task <= created
  /\ \A i, j \in issued : i.lease = j.lease => i = j
  /\ \A h \in Handlers : \A p \in posting[h] :
       /\ p.lease <= lastLease
       /\ \A i \in issued : i.lease = p.lease => i.task = p.task
  /\ \A l \in acked : l <= lastLease

QueueInv == TypeOK /\ LeasesInv /\ \A s \in AllStates : Consistent(s) /\ Keeps(s)

\* The inductive invariant holds at first.
LEMMA QueueInvInit == Init => QueueInv
<1> SUFFICES ASSUME Init PROVE QueueInv
  OBVIOUS
<1>1. TypeOK
  BY InitType
<1>2. AllStates = {emptyState}
  BY Zenon DEF Init, InitStateFile, AllStates
<1>3. Consistent(emptyState) /\ Keeps(emptyState)
  BY DEF Init, Consistent, Keeps, emptyState
<1>4. LeasesInv
  BY DEF Init, LeasesInv
<1> QED
  BY <1>1, <1>2, <1>3, <1>4 DEF QueueInv

\* A step that leaves the counters, the leases and the history alone.
LEMMA SaveKeeps ==
  ASSUME QueueInv, NEW s, NEW oc \in Outcomes, Save(s, oc),
         UNCHANGED <<created, lastLease, issued, agents, posting, appended, history, clock>>,
         Consistent(s), Keeps(s), TypeOK'
  PROVE  QueueInv'
<1>1. AllStates' \subseteq AllStates \cup {s}
  BY StagedStates
<1>2. \A q \in AllStates' : Consistent(q) /\ Keeps(q)
  BY <1>1, Zenon DEF QueueInv
<1>3. \A q \in AllStates' : Consistent(q)' /\ Keeps(q)'
  BY <1>2, Zenon DEF Consistent, Keeps, history
<1>4. LeasesInv'
  BY DEF QueueInv, LeasesInv, history
<1> QED
  BY <1>3, <1>4, Zenon DEF QueueInv

\* A write that commits nothing changes nothing.
LEMMA FailedStates ==
  ASSUME NEW s, Staged(s, "failed")
  PROVE  AllStates' = AllStates
BY Zenon DEF Staged, persistState, AllStates

\* A step that brings no new state and leaves the counters and the history alone.
LEMMA StatesKept ==
  ASSUME QueueInv, AllStates' \subseteq AllStates,
         UNCHANGED <<created, lastLease, issued, appended, acked, pruned>>
  PROVE  \A q \in AllStates' : Consistent(q)' /\ Keeps(q)'
<1> SUFFICES ASSUME NEW q \in AllStates' PROVE Consistent(q)' /\ Keeps(q)'
  OBVIOUS
<1>1. Consistent(q) /\ Keeps(q)
  BY Zenon DEF QueueInv
<1>2. Consistent(q)'
  BY <1>1, Zenon DEF Consistent
<1>3. Keeps(q)'
  BY <1>1, Zenon DEF Keeps
<1> QED
  BY <1>2, <1>3, Zenon

\* Every step keeps the inductive invariant.
LEMMA QueueInvStep == QueueInv /\ [Next]_vars => QueueInv'
<1> SUFFICES ASSUME QueueInv, [Next]_vars PROVE QueueInv'
  OBVIOUS
<1>0. TypeOK' /\ TypeOK
  BY StepType, Zenon DEF QueueInv
<1>l. live \in AllStates /\ live \in State
  BY <1>0 DEF AllStates, TypeOK
<1>c. Consistent(live) /\ Keeps(live)
  BY <1>l DEF QueueInv
<1>1. ASSUME NEW ts \in SUBSET Nodes, NEW oc \in Outcomes, CreateTask(ts, oc)
      PROVE  QueueInv'
  <2> DEFINE t == created + 1
             s == [live EXCEPT !.status[t] = "queued", !.targets[t] = ts]
  <2>1. t \in Tasks /\ created \in Nat
    BY <1>0, <1>1, TaskQueueAssumption DEF CreateTask, TypeOK, Tasks
  <2>2. /\ s.results = live.results
        /\ \A u \in Tasks \ {t} : s.status[u] = live.status[u]
    BY <1>l, <2>1 DEF State
  <2>3. AllStates' \subseteq AllStates \cup {s}
    BY <1>1, StagedStates DEF CreateTask
  <2>4. Tasks \subseteq Nat
    BY TaskQueueAssumption DEF Tasks
  <2>5. \A i \in issued : i.task # t
    BY <1>0, <2>1, <2>4 DEF QueueInv, LeasesInv, TypeOK
  <2>6. \A i \in issued : i.task \in Tasks
    BY <1>0, Zenon DEF TypeOK
  <2>7. Keeps(s)
    BY <1>c, <2>2, <2>5, <2>6, Zenon DEF Keeps
  <2>8. created' = t /\ UNCHANGED <<lastLease, issued, posting, appended, acked, pruned>>
    BY <1>1 DEF CreateTask, history
  <2>9. created \in Nat /\ \A i \in issued : i.task \in Nat
    BY <2>1, <2>4, <2>6, Zenon
  <2>10. \A u \in Tasks : u > t => u > created /\ u # t
    BY <2>4, <2>9
  <2>11. /\ \A u \in Tasks : u > t => s.status[u] = "none"
         /\ \A r \in s.results : r.lease <= lastLease /\ r.no <= appended
         /\ \A r \in s.results, i \in issued : r.lease = i.lease => r.task = i.task
    BY <1>c, <2>2, <2>10, Zenon DEF Consistent
  <2>12. ASSUME NEW q \in AllStates \cup {s} PROVE Consistent(q)' /\ Keeps(q)'
    <3>1. Keeps(q)
      BY <2>7 DEF QueueInv
    <3>2. /\ \A u \in Tasks : u > t => q.status[u] = "none"
          /\ \A r \in q.results : r.lease <= lastLease /\ r.no <= appended
          /\ \A r \in q.results, i \in issued : r.lease = i.lease => r.task = i.task
      BY <2>10, <2>11, Zenon DEF QueueInv, Consistent
    <3> HIDE DEF t, s
    <3> QED
      BY <2>8, <3>1, <3>2 DEF Consistent, Keeps
  <2>13. LeasesInv'
    BY <2>8, <2>9 DEF QueueInv, LeasesInv
  <2> QED
    BY <1>0, <2>3, <2>12, <2>13, Zenon DEF QueueInv
<1>2. ASSUME NEW t \in Tasks, NEW oc \in Outcomes, CancelTask(t, oc)
      PROVE  QueueInv'
  <2> DEFINE s == [live EXCEPT !.status[t] = "cancelled"]
  <2>1. live.status[t] # "none"
    BY <1>2 DEF CancelTask
  <2>2. /\ s.results = live.results
        /\ \A u \in Tasks \ {t} : s.status[u] = live.status[u]
    BY <1>l, Zenon DEF State
  <2>3. ~(t > created)
    BY <1>c, <2>1 DEF Consistent
  <2>4. Consistent(s)
    BY <1>c, <2>2, <2>3, Zenon DEF Consistent
  <2>5. \A i \in issued : i.task \in Tasks
    BY <1>0, Zenon DEF TypeOK
  <2>6. Keeps(s)
    BY <1>c, <2>1, <2>2, <2>5, Zenon DEF Keeps
  <2>7. Save(s, oc)
    BY <1>2 DEF CancelTask
  <2> HIDE DEF s
  <2> QED
    BY <1>0, <1>2, <2>4, <2>6, <2>7, SaveKeeps, Zenon DEF CancelTask
<1>3. ASSUME NEW t \in Tasks, NEW oc \in Outcomes, DeleteTask(t, oc)
      PROVE  QueueInv'
  <2> DEFINE s == [live EXCEPT !.status[t] = "none", !.targets[t] = {},
                       !.lease[t] = [n \in Nodes |-> 0],
                       !.attempts[t] = [n \in Nodes |-> 0],
                       !.stalled[t] = {},
                       !.results = {r \in @ : r.task # t}]
  <2>1. Save(s, oc)
    BY <1>3 DEF DeleteTask
  <2>2. /\ s.results = {r \in live.results : r.task # t}
        /\ \A u \in Tasks \ {t} : s.status[u] = live.status[u]
        /\ s.status[t] = "none"
    BY <1>l, Zenon DEF State
  <2> HIDE DEF s
  <2>3. Consistent(s)
    BY <1>c, <2>2, Zenon DEF Consistent
  <2>4. \A i \in issued : i.task \in Tasks
    BY <1>0 DEF TypeOK
  <2>5. \A i \in issued, r \in live.results : r.lease = i.lease /\ i.task # t => r \in s.results
    BY <1>c, <2>2, Zenon DEF Consistent
  <2>6. Keeps(s)
    BY <1>c, <2>2, <2>4, <2>5, Zenon DEF Keeps
  <2> QED
    BY <1>0, <1>3, <2>1, <2>3, <2>6, SaveKeeps, Zenon DEF DeleteTask
<1>4. ASSUME NEW n \in Nodes, NEW oc \in Outcomes, NEW arrives \in BOOLEAN,
             LeaseTasks(n, oc, arrives)
      PROVE  QueueInv'
  <2> DEFINE s == Leased(live, n)
             N == NewLeases(live, n)
  <2>1. lastLease \in Nat /\ Staged(s, oc)
    <3>1. lastLease \in 0..MaxLeases /\ Staged(s, oc)
      BY <1>0, <1>4, Zenon DEF TypeOK, LeaseTasks
    <3> QED
      BY <3>1
  <2>2. UNCHANGED <<created, posting, appended, acked, pruned>>
    BY <1>4 DEF LeaseTasks, history
  <2>3. CASE oc = "failed"
    <3>1. UNCHANGED <<lastLease, issued>> /\ AllStates' = AllStates
      BY <1>4, <2>1, <2>3, FailedStates, Zenon DEF LeaseTasks
    <3>2. \A q \in AllStates' : Consistent(q)' /\ Keeps(q)'
      BY <2>2, <3>1, StatesKept, Zenon
    <3>3. LeasesInv'
      BY <2>2, <3>1 DEF QueueInv, LeasesInv
    <3> QED
      BY <1>0, <3>2, <3>3, Zenon DEF QueueInv
  <2>4. CASE oc # "failed"
    <3>1. /\ issued' = issued \cup N
          /\ lastLease' = lastLease + Cardinality(HandedOut(live, n))
      BY <1>4, <2>4, Zenon DEF LeaseTasks
    <3>2. \A i \in N : /\ i.task \in HandedOut(live, n) /\ i.lease > lastLease
                       /\ i.lease <= lastLease' /\ i.lease \in Nat
      <4> SUFFICES ASSUME NEW t \in HandedOut(live, n)
                   PROVE  /\ LeaseFor(live, n, t) > lastLease
                          /\ LeaseFor(live, n, t) <= lastLease'
                          /\ LeaseFor(live, n, t) \in Nat
        BY DEF NewLeases
      <4>1. Cardinality(HandedOut(live, n)) \in Nat
        BY HandedOutFinite, Zenon
      <4> QED
        BY <2>1, <3>1, <4>1, LeaseForRange
    <3>3. lastLease' \in Nat /\ lastLease <= lastLease'
      <4>1. Cardinality(HandedOut(live, n)) \in Nat
        BY HandedOutFinite, Zenon
      <4> QED
        BY <2>1, <3>1, <4>1
    <3>4. \A t \in HandedOut(live, n) : t \in Tasks /\ live.status[t] # "none" /\ t <= created
      <4>1. \A t \in HandedOut(live, n) : t \in Tasks /\ live.status[t] # "none"
        BY Zenon DEF HandedOut, Leasable, taskCanLeaseTarget
      <4>2. created \in Int /\ \A t \in Tasks : t \in Int
        BY <1>0, TaskQueueAssumption DEF TypeOK, Tasks
      <4> QED
        BY <1>c, <4>1, <4>2 DEF Consistent
    <3>5. /\ s.results = live.results
          /\ \A t \in Tasks \ HandedOut(live, n) : s.status[t] = live.status[t]
      BY <1>l, Zenon DEF Leased, State
    <3> HIDE DEF s, N
    <3>6. \A i \in issued : i.lease \in Nat /\ i.task \in Tasks /\ i.lease <= lastLease
      BY <1>0 DEF TypeOK, QueueInv, LeasesInv, Leases
    <3>7. \A q \in AllStates \cup {s} : q \in State /\ \A r \in q.results : r.lease \in Nat
      <4>1. AllStates \subseteq State
        BY <1>0, Zenon DEF TypeOK, AllStates
      <4>2. \A q \in State : \A r \in q.results : r.lease \in Nat
        BY DEF State, Result, Leases
      <4>3. s \in State
        <5>1. lastLease + Cardinality(HandedOut(live, n)) <= MaxLeases
          BY <1>4 DEF LeaseTasks
        <5> QED
          BY <1>l, <2>1, <5>1, LeasedType, Zenon DEF s
      <4> QED
        BY <4>1, <4>2, <4>3, Zenon
    <3>8. Consistent(s) /\ Keeps(s)
      <4>1. \A i \in issued : live.status[i.task] = "none" => s.status[i.task] = "none"
        BY <3>4, <3>5, <3>6, Zenon
      <4>2. \A t \in Tasks : t > created => s.status[t] = "none"
        <5>1. created \in Int /\ \A t \in Tasks : t \in Int
          BY <1>0, TaskQueueAssumption DEF TypeOK, Tasks
        <5> QED
          BY <1>c, <3>4, <3>5, <5>1, Zenon DEF Consistent
      <4> QED
        BY <1>c, <3>5, <4>1, <4>2, Zenon DEF Consistent, Keeps
    <3>9. ASSUME NEW q \in AllStates \cup {s} PROVE Consistent(q)' /\ Keeps(q)'
      <4>1. Consistent(q) /\ Keeps(q)
        BY <3>8, Zenon DEF QueueInv
      <4>2. \A r \in q.results : r.lease <= lastLease' /\ r.no <= appended
        BY <2>1, <3>3, <3>7, <4>1 DEF Consistent
      <4>3. \A r \in q.results, i \in issued' : r.lease = i.lease => r.task = i.task
        BY <2>1, <3>1, <3>2, <3>7, <4>1 DEF Consistent
      <4>4. \A l \in acked : l \in Nat /\ l <= lastLease
        <5>1. \A l \in acked : l \in Leases /\ l <= lastLease
          BY <1>0, Zenon DEF TypeOK, QueueInv, LeasesInv
        <5>2. \A l \in Leases : l \in Nat
          BY TaskQueueAssumption DEF Leases
        <5> QED
          BY <5>1, <5>2, Zenon
      <4>5. Keeps(q)'
        BY <2>1, <2>2, <3>1, <3>2, <4>1, <4>4 DEF Keeps
      <4> QED
        BY <2>2, <4>1, <4>2, <4>3, <4>5, Zenon DEF Consistent
    <3>10. LeasesInv'
      <4>1. \A i \in issued' : i.lease <= lastLease' /\ i.task <= created
        <5>1. \A i \in issued : i.lease <= lastLease'
          BY <2>1, <3>3, <3>6
        <5>2. \A i \in issued : i.task <= created
          BY Zenon DEF QueueInv, LeasesInv
        <5> QED
          BY <3>1, <3>2, <3>4, <5>1, <5>2, Zenon
      <4>2. \A i, j \in N : i.lease = j.lease => i = j
        <5> SUFFICES ASSUME NEW t \in HandedOut(live, n), NEW u \in HandedOut(live, n),
                            LeaseFor(live, n, t) = LeaseFor(live, n, u)
                     PROVE  t = u
          BY DEF N, NewLeases
        <5> QED
          BY <2>1, LeaseForInjective, Zenon
      <4>3. \A i, j \in issued' : i.lease = j.lease => i = j
        <5>1. \A i \in issued, j \in N : i.lease # j.lease
          BY <2>1, <3>2, <3>6
        <5> QED
          BY <3>1, <4>2, <5>1, Zenon DEF QueueInv, LeasesInv
      <4>4. \A h \in Handlers : \A p \in posting[h] : p.lease \in Nat
        BY <1>0 DEF TypeOK, Post, Leases
      <4>5. \A h \in Handlers : \A p \in posting[h] :
              /\ p.lease <= lastLease'
              /\ \A i \in issued' : i.lease = p.lease => i.task = p.task
        <5> SUFFICES ASSUME NEW h \in Handlers, NEW p \in posting[h]
                     PROVE  /\ p.lease <= lastLease'
                            /\ \A i \in issued' : i.lease = p.lease => i.task = p.task
          OBVIOUS
        <5>1. p.lease \in Nat /\ p.lease <= lastLease
          BY <4>4, Zenon DEF QueueInv, LeasesInv
        <5>2. p.lease <= lastLease' /\ \A i \in N : i.lease # p.lease
          BY <2>1, <3>2, <3>3, <5>1
        <5> QED
          BY <3>1, <5>2, Zenon DEF QueueInv, LeasesInv
      <4>6. \A l \in acked : l <= lastLease'
        BY <1>0, <2>1, <3>3 DEF TypeOK, Leases, QueueInv, LeasesInv
      <4> QED
        BY <2>2, <4>1, <4>3, <4>5, <4>6, Zenon DEF LeasesInv
    <3>11. AllStates' \subseteq AllStates \cup {s}
      BY <2>1, StagedStates, Zenon
    <3> QED
      BY <1>0, <3>9, <3>10, <3>11, Zenon DEF QueueInv
  <2> QED
    BY <2>3, <2>4, Zenon
<1>5. ASSUME NEW h \in Handlers, NEW i \in issued, NEW ok \in BOOLEAN, requireTaskLease(h, i, ok)
      PROVE  QueueInv'
  <2>1. AllStates' = AllStates
    BY <1>5, Zenon DEF requireTaskLease, stateFile, AllStates
  <2>2. UNCHANGED <<created, lastLease, issued, appended, acked, pruned>>
    BY <1>5, Zenon DEF requireTaskLease, history
  <2>3. \A q \in AllStates' : Consistent(q)' /\ Keeps(q)'
    BY <2>1, <2>2, StatesKept, Zenon
  <2>4. \A g \in Handlers : \A p \in posting'[g] :
          \/ p \in posting[g]
          \/ p.lease = i.lease /\ p.task = i.task
    <3> DEFINE q == [task |-> i.task, node |-> i.node, lease |-> i.lease, ok |-> ok]
    <3>2. posting' = [posting EXCEPT ![h] = {q}]
      BY <1>5, Zenon DEF requireTaskLease
    <3>3. q.lease = i.lease /\ q.task = i.task
      OBVIOUS
    <3> HIDE DEF q
    <3> QED
      BY <1>0, <3>2, <3>3, Zenon DEF TypeOK
  <2>5. LeasesInv'
    <3>1. i.lease <= lastLease /\ \A j \in issued : j.lease = i.lease => j.task = i.task
      BY Zenon DEF QueueInv, LeasesInv
    <3> QED
      BY <2>2, <2>4, <3>1 DEF QueueInv, LeasesInv
  <2> QED
    BY <1>0, <2>3, <2>5, Zenon DEF QueueInv
<1>6. ASSUME NEW h \in Handlers, NEW p \in posting[h], NEW oc \in Outcomes, AddTaskResult(h, p, oc)
      PROVE  QueueInv'
  <2> DEFINE row == Row(p, appended + 1)
             all == live.results \cup {row}
             s == WithResult(live, p)
  <2>1. Staged(s, oc) /\ UNCHANGED <<created, lastLease, issued>>
    BY <1>6 DEF AddTaskResult
  <2>2. p \in Post /\ appended \in Nat /\ p.lease <= lastLease
    BY <1>0, Zenon DEF TypeOK, QueueInv, LeasesInv
  <2>3. \A g \in Handlers : \A q \in posting'[g] : q \in posting[g]
    BY <1>0, <1>6, Zenon DEF AddTaskResult, TypeOK
  <2>4. acked' \subseteq acked \cup {p.lease}
    BY <1>6, Zenon DEF AddTaskResult
  <2>5. LeasesInv'
    BY <2>1, <2>2, <2>3, <2>4, Zenon DEF QueueInv, LeasesInv
  <2>6. CASE oc = "failed"
    <3>1. AllStates' = AllStates /\ UNCHANGED <<appended, acked, pruned>>
      BY <1>6, <2>1, <2>6, FailedStates, Zenon DEF AddTaskResult
    <3>2. \A q \in AllStates' : Consistent(q)' /\ Keeps(q)'
      BY <2>1, <3>1, StatesKept, Zenon
    <3> QED
      BY <1>0, <2>5, <3>2, Zenon DEF QueueInv
  <2>7. CASE oc # "failed"
    <3>1. /\ appended' = appended + 1
          /\ pruned' = pruned \cup {r.lease : r \in live.results \ s.results}
      BY <1>6, <2>7, Zenon DEF AddTaskResult
    <3>2. s.results = all \ Dropped(all)
      BY <1>l, <2>2, ResultFields, Zenon
    <3>3. \A t \in Tasks : s.status[t] = "none" <=> live.status[t] = "none"
      <4>1. \A t \in Tasks : t # p.task => s.status[t] = live.status[t]
        BY <1>l, <2>2, ResultFields, Zenon
      <4>2. s.status[p.task] = IF live.status[p.task] = "none" THEN "none"
              ELSE taskAggregateStatus(p.task, live.targets[p.task], s.results)
        BY <1>l, <2>2, ResultFields, Zenon
      <4>3. taskAggregateStatus(p.task, live.targets[p.task], s.results) # "none"
        BY AggregateType, Zenon
      <4> HIDE DEF s
      <4> QED
        BY <4>1, <4>2, <4>3, Zenon
    <3>4. row \in s.results
      BY <1>c, <1>l, <2>2, RowKept, Zenon DEF Consistent
    <3>5. \A r \in s.results : r \in live.results \/ r = row
      BY <3>2, Zenon
    <3>6. row.lease = p.lease /\ row.task = p.task /\ row.no = appended + 1
      BY Zenon DEF Row
    <3> HIDE DEF s, row, all
    <3>7. ASSUME NEW q \in AllStates \cup {s} PROVE Consistent(q)'
      <4>1. \A r \in q.results : r.no <= appended' /\ r.lease <= lastLease
        <5>1. \A u \in AllStates : u \in State
          BY <1>0, Zenon DEF TypeOK, AllStates
        <5>2. \A u \in AllStates : \A r \in u.results : r.no \in Nat /\ r.no <= appended /\ r.lease <= lastLease
          BY <5>1, Zenon DEF QueueInv, Consistent, State, Result
        <5> QED
          BY <1>l, <2>2, <3>1, <3>5, <3>6, <5>2
      <4>2. \A r \in q.results, i \in issued : r.lease = i.lease => r.task = i.task
        BY <1>l, <3>5, <3>6 DEF QueueInv, Consistent, LeasesInv
      <4>3. \A t \in Tasks : t > created => q.status[t] = "none"
        BY <1>l, <3>3, Zenon DEF QueueInv, Consistent
      <4> QED
        BY <2>1, <4>1, <4>2, <4>3, Zenon DEF Consistent
    <3>8. \A i \in issued : i.task \in Tasks
      BY <1>0, Zenon DEF TypeOK
    <3>9. ASSUME NEW q, q = s PROVE Keeps(q)'
      <4> SUFFICES ASSUME NEW i \in issued, i.lease \in acked' \ pruned', s.status[i.task] # "none"
                   PROVE  \E r \in s.results : r.lease = i.lease
        BY <2>1, <3>9, Zenon DEF Keeps
      <4>1. CASE i.lease = p.lease
        BY <3>4, <3>6, <4>1, Zenon
      <4>2. CASE i.lease # p.lease
        <5>1. i.lease \in acked \ pruned /\ live.status[i.task] # "none"
          BY <2>4, <3>1, <3>3, <3>8, <4>2, Zenon
        <5>2. PICK r \in live.results : r.lease = i.lease
          BY <1>c, <5>1, Zenon DEF Keeps
        <5>3. r \in s.results
          BY <3>1, <5>2, Zenon
        <5> QED
          BY <5>2, <5>3, Zenon
      <4> QED
        BY <4>1, <4>2, Zenon
    <3>10. CASE oc = "synced"
      <4>1. AllStates' = {s}
        BY <2>1, <3>10, SyncedStates, Zenon
      <4> QED
        BY <1>0, <2>5, <3>7, <3>9, <4>1, Zenon DEF QueueInv
    <3>11. CASE oc # "synced"
      <4>1. acked' = acked
        BY <1>6, <3>11, Zenon DEF AddTaskResult
      <4>2. \A q \in AllStates : Keeps(q)'
        BY <2>1, <3>1, <4>1, Zenon DEF QueueInv, Keeps
      <4>3. AllStates' \subseteq AllStates \cup {s}
        BY <2>1, StagedStates, Zenon
      <4> QED
        BY <1>0, <2>5, <3>7, <3>9, <4>2, <4>3, Zenon DEF QueueInv
    <3> QED
      BY <3>10, <3>11, Zenon
  <2> QED
    BY <2>6, <2>7, Zenon
<1>7. ASSUME \/ \E l \in Leases : Expire(l)
             \/ \E t \in Tasks : PassDeadline(t)
             \/ \E t \in Tasks, n \in Nodes : Outrank(t, n)
             \/ UNCHANGED vars
      PROVE  QueueInv'
  <2>1. UNCHANGED <<stateFile, created, lastLease, issued, posting, appended, acked, pruned>>
    BY <1>7, Zenon DEF Expire, PassDeadline, Outrank, vars, history
  <2>2. AllStates' = AllStates
    BY <2>1 DEF stateFile, AllStates
  <2>3. \A q \in AllStates' : Consistent(q)' /\ Keeps(q)'
    BY <2>1, <2>2, StatesKept, Zenon
  <2>4. LeasesInv'
    BY <2>1, Zenon DEF QueueInv, LeasesInv
  <2> QED
    BY <1>0, <2>3, <2>4, Zenon DEF QueueInv
<1>8. ASSUME NEW kind \in Crashes, NEW oc \in Outcomes, Crash(kind, oc) PROVE QueueInv'
  <2>1. AllStates' \subseteq AllStates
    BY <1>8, RestartStates DEF Crash
  <2>2. /\ UNCHANGED <<created, lastLease, issued, appended, acked, pruned>>
        /\ posting' = [h \in Handlers |-> {}]
    BY <1>8 DEF Crash, history
  <2>3. LeasesInv'
    BY <2>2 DEF QueueInv, LeasesInv
  <2>4. \A q \in AllStates' : Consistent(q)' /\ Keeps(q)'
    BY <2>1, <2>2, StatesKept, Zenon
  <2> QED
    BY <1>0, <2>3, <2>4, Zenon DEF QueueInv
<1> QED
  BY <1>1, <1>2, <1>3, <1>4, <1>5, <1>6, <1>7, <1>8, Zenon
     DEF Next, Poll, PostResult, CommitResult

\* A result the server answered 200 to survives every crash and power loss,
\* however many writes fail and however requests interleave, until its task is
\* deleted or the cap of the history drops it.
THEOREM AcknowledgedResultsKept == Spec => []AckedKept
<1>1. QueueInv => AckedKept
  BY DEF QueueInv, Keeps, AckedKept, AllStates
<1> QED
  BY <1>1, QueueInvInit, QueueInvStep, PTL DEF Spec

-----------------------------------------------------------------------------
(* Giving up is final unless a power loss brings back an older file.       *)
(* Memory may be ahead of the file, but never by a target given up or      *)
(* leased: those writes are staged.                                        *)

StallInv ==
  \A t \in Tasks : \A n \in live.stalled[t] :
    n \in disk.stalled[t] /\ disk.lease[t][n] = live.lease[t][n]

StallStep ==
  \A t \in Tasks : \A n \in live.stalled[t] :
    \/ live'.status[t] = "none"
    \/ n \in live'.stalled[t] /\ live'.lease[t][n] = live.lease[t][n]

StallKept == crashes' = crashes \/ live' = disk => StallStep

\* A committed write leaves nothing that only memory knows.
LEMMA CommittedStall ==
  ASSUME NEW s, NEW oc \in Outcomes, Staged(s, oc) \/ Save(s, oc), oc # "failed"
  PROVE  live' = s /\ disk' = s
BY Zenon DEF Staged, Save, persistState, Outcomes

\* What the task API writes takes back no target that was given up, short of a delete.
LEMMA SaveStall ==
  ASSUME StallInv, NEW s, NEW oc \in Outcomes, Save(s, oc),
         \A t \in Tasks : \/ s.stalled[t] = {}
                          \/ s.stalled[t] = live.stalled[t] /\ s.lease[t] = live.lease[t]
  PROVE  StallInv'
<1>1. CASE oc = "failed"
  <2>1. live' = s /\ disk' = disk
    BY <1>1, Zenon DEF Save, persistState
  <2> QED
    BY <2>1 DEF StallInv
<1>2. CASE oc # "failed"
  BY <1>2, CommittedStall DEF StallInv
<1> QED
  BY <1>1, <1>2, Zenon

\* Every step keeps the file as far as memory in giving up, and takes none back.
LEMMA StallPreserved ==
  ASSUME TypeOK, StallInv, [Next]_vars
  PROVE  StallInv' /\ StallKept
<1>l. live \in State
  BY Zenon DEF TypeOK
<1>1. ASSUME NEW ts \in SUBSET Nodes, NEW oc \in Outcomes, CreateTask(ts, oc)
      PROVE  StallInv' /\ StallStep
  <2> DEFINE t == created + 1
             s == [live EXCEPT !.status[t] = "queued", !.targets[t] = ts]
  <2>1. s.stalled = live.stalled /\ s.lease = live.lease
    BY <1>l DEF State
  <2>2. Save(s, oc)
    BY <1>1 DEF CreateTask
  <2>3. live' = s
    BY <2>2, Zenon DEF Save
  <2> HIDE DEF s
  <2> QED
    BY <2>1, <2>2, <2>3, SaveStall, Zenon DEF StallStep
<1>2. ASSUME NEW t \in Tasks, NEW oc \in Outcomes, CancelTask(t, oc)
      PROVE  StallInv' /\ StallStep
  <2> DEFINE s == [live EXCEPT !.status[t] = "cancelled"]
  <2>1. s.stalled = live.stalled /\ s.lease = live.lease
    BY <1>l DEF State
  <2>2. Save(s, oc)
    BY <1>2 DEF CancelTask
  <2>3. live' = s
    BY <2>2, Zenon DEF Save
  <2> HIDE DEF s
  <2> QED
    BY <2>1, <2>2, <2>3, SaveStall, Zenon DEF StallStep
<1>3. ASSUME NEW t \in Tasks, NEW oc \in Outcomes, DeleteTask(t, oc)
      PROVE  StallInv' /\ StallStep
  <2> DEFINE s == [live EXCEPT !.status[t] = "none", !.targets[t] = {},
                       !.lease[t] = [n \in Nodes |-> 0],
                       !.attempts[t] = [n \in Nodes |-> 0],
                       !.stalled[t] = {},
                       !.results = {r \in @ : r.task # t}]
  <2>1. /\ s.stalled[t] = {} /\ s.status[t] = "none"
        /\ \A u \in Tasks \ {t} : s.stalled[u] = live.stalled[u] /\ s.lease[u] = live.lease[u]
    BY <1>l DEF State
  <2>2. Save(s, oc)
    BY <1>3 DEF DeleteTask
  <2>3. live' = s
    BY <2>2, Zenon DEF Save
  <2> HIDE DEF s
  <2> QED
    BY <2>1, <2>2, <2>3, SaveStall, Zenon DEF StallStep
<1>4. ASSUME NEW m \in Nodes, NEW oc \in Outcomes, NEW arrives \in BOOLEAN,
             LeaseTasks(m, oc, arrives)
      PROVE  StallInv' /\ StallStep
  <2> DEFINE s == Leased(live, m)
  <2>1. Staged(s, oc)
    BY <1>4 DEF LeaseTasks
  <2>2. CASE oc = "failed"
    BY <2>1, <2>2, Zenon DEF Staged, persistState, StallInv, StallStep
  <2>3. CASE oc # "failed"
    <3>1. live' = s /\ disk' = s
      BY <2>1, <2>3, CommittedStall, Zenon
    <3>2. StallInv'
      BY <3>1, Zenon DEF StallInv
    <3>3. ASSUME NEW t \in Tasks, NEW n \in live.stalled[t]
          PROVE  n \in s.stalled[t] /\ s.lease[t][n] = live.lease[t][n]
      <4>1. t \in HandedOut(live, m) => n # m
        BY DEF HandedOut, Leasable, taskCanLeaseTarget
      <4>2. n \in s.stalled[t]
        BY <1>l DEF Leased, State
      <4>3. s.lease[t] = IF t \in HandedOut(live, m)
                           THEN [live.lease[t] EXCEPT ![m] = LeaseFor(live, m, t)]
                           ELSE live.lease[t]
        BY <1>l, Zenon DEF Leased, State
      <4>4. live.lease[t] \in [Nodes -> 0..MaxLeases] /\ n \in Nodes
        BY <1>l, Zenon DEF State
      <4> QED
        BY <4>1, <4>2, <4>3, <4>4, Zenon
    <3> QED
      BY <3>1, <3>2, <3>3, Zenon DEF StallStep
  <2> QED
    BY <2>2, <2>3, Zenon
<1>5. ASSUME NEW h \in Handlers, NEW p \in posting[h], NEW oc \in Outcomes, AddTaskResult(h, p, oc)
      PROVE  StallInv' /\ StallStep
  <2> DEFINE s == WithResult(live, p)
  <2>1. Staged(s, oc)
    BY <1>5 DEF AddTaskResult
  <2>2. s.stalled = live.stalled /\ s.lease = live.lease
    BY <1>l DEF WithResult, State
  <2> HIDE DEF s
  <2>3. CASE oc = "failed"
    BY <2>1, <2>3, Zenon DEF Staged, persistState, StallInv, StallStep
  <2>4. CASE oc # "failed"
    BY <2>1, <2>2, <2>4, CommittedStall, Zenon DEF StallInv, StallStep
  <2> QED
    BY <2>3, <2>4, Zenon
<1>6. ASSUME NEW kind \in Crashes, NEW oc \in Outcomes, Crash(kind, oc)
      PROVE  StallInv' /\ StallKept
  <2>1. live' = disk' /\ crashes' = crashes + 1 /\ crashes \in Nat
    BY <1>6 DEF Crash, Restart, openWithCipher, TypeOK
  <2>2. crashes' # crashes
    BY <2>1
  <2> QED
    BY <2>1, <2>2, Zenon DEF StallInv, StallStep, StallKept
<1>7. ASSUME UNCHANGED stateFile PROVE StallInv' /\ StallStep
  BY <1>7 DEF stateFile, StallInv, StallStep
<1>8. ASSUME \/ \E h \in Handlers, i \in issued, ok \in BOOLEAN : requireTaskLease(h, i, ok)
             \/ \E l \in Leases : Expire(l)
             \/ \E t \in Tasks : PassDeadline(t)
             \/ \E t \in Tasks, n \in Nodes : Outrank(t, n)
             \/ UNCHANGED vars
      PROVE  UNCHANGED stateFile
  BY <1>8, Zenon DEF requireTaskLease, Expire, PassDeadline, Outrank, vars
<1> QED
  BY <1>1, <1>2, <1>3, <1>4, <1>5, <1>6, <1>7, <1>8, Zenon
     DEF Next, Poll, PostResult, CommitResult, StallKept

\* A target that was given up stays so and is never leased again, until its
\* task is deleted, through failing writes and restarts (a power loss may take
\* back a lease whose directory sync failed: such a poll is answered anyway).
THEOREM GivingUpIsFinal == Spec => StallIsFinal
<1>1. Init => StallInv
  BY DEF Init, InitStateFile, emptyState, StallInv
<1>2. TypeOK /\ StallInv /\ [Next]_vars => StallInv' /\ StallKept
  BY StallPreserved, Zenon
<1>3. Spec => [][StallKept]_vars
  BY <1>1, <1>2, TypeCorrect, PTL DEF Spec
<1> QED
  BY <1>3, Zenon DEF StallIsFinal, StallStep, StallKept
=============================================================================
