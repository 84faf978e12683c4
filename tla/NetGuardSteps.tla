---------------------------- MODULE NetGuardSteps ----------------------------
(***************************************************************************)
(* The inductive invariant of NetGuard, and the steps that keep it.        *)
(***************************************************************************)
EXTENDS NetGuardTypes

-----------------------------------------------------------------------------
(* The rows of one state, with A approvals and T tasks filed so far.       *)

Exists(s, t) == s.tasks[t].status # "none"
Decided(s, a) == s.approvals[a].status \in {"applied", "rejected"}

\* A receipt goes with a terminal task and a decided approval of the durable
\* protocol; ids beyond the counters name nothing.
TaskOK(s, t, T) ==
  LET k == s.tasks[t] IN
  /\ k.status = "none" => k.lease = 0 /\ k.receipt = "none"
  /\ k.status # "none" => /\ t <= T /\ k.approval \in Approvals
                          /\ s.approvals[k.approval].status # "none"
  /\ k.receipt = "ok" => k.status = "finished"
  /\ k.receipt = "failed" => k.status = "failed"
  /\ k.receipt # "none" => NetGuardSide(s, t) /\ Decided(s, k.approval)

ApprovalOK(s, a, A) ==
  /\ s.approvals[a].status # "none" => a <= A
  /\ s.approvals[a].status = "applied" => s.approvals[a].plan # NoPlan

RowsOK(s, A, T) ==
  /\ \A t \in Tasks : TaskOK(s, t, T)
  /\ \A a \in Approvals : ApprovalOK(s, a, A)

\* An id names the same row in two states.
Agree(s, u) ==
  /\ \A t \in Tasks : Exists(s, t) /\ Exists(u, t) => s.tasks[t].approval = u.tasks[t].approval
  /\ \A a \in Approvals :
       s.approvals[a].status # "none" /\ u.approvals[a].status # "none" =>
         s.approvals[a].plan = u.approvals[a].plan

\* What no write does to the rows of s: forget one or give it another plan,
\* use an id again, move a durable lease, touch a task with a receipt or take
\* a durable decision back.
Follows(n, s, A, T) ==
  /\ \A t \in Tasks :
       /\ Exists(s, t) => Exists(n, t) /\ n.tasks[t].approval = s.tasks[t].approval
       /\ Exists(n, t) /\ ~Exists(s, t) => t > T
       /\ Durable(s, t) /\ s.tasks[t].lease # 0 => n.tasks[t].lease = s.tasks[t].lease
       /\ s.tasks[t].receipt # "none" => n.tasks[t] = s.tasks[t]
  /\ \A a \in Approvals :
       /\ s.approvals[a].status # "none" => /\ n.approvals[a].status # "none"
                                            /\ n.approvals[a].plan = s.approvals[a].plan
       /\ n.approvals[a].status # "none" /\ s.approvals[a].status = "none" => a > A
       /\ Decided(s, a) /\ s.approvals[a].plan # NoPlan => Decided(n, a)

\* Some run in R installed plan p, and s has its task.
RunOf(s, p, R) ==
  \E r \in R : r.ok /\ Exists(s, r.task) /\ s.approvals[s.tasks[r.task].approval].plan = p

AppliedOK(s, b, R) == b.applied # NoPlan => RunOf(s, b.applied, R)

\* The binding and what it refers to as a version sees them.
Moves(n, s) ==
  \/ n.binding.version > s.binding.version
  \/ n.binding = s.binding /\ (n.deps = s.deps \/ s.binding.sha = NoPlan)

Deleted(c) == \E i \in 1..Len(c) : c[i] = "delete"

\* What a handler holds still fits the state s: the approval it read exists and
\* is of the same side; the run it judges is one of R, of a durable task; and
\* its verdict stands unless the version moved or the binding was deleted.
ReqOK(q, s, R, D) ==
  /\ q.op \in {"decide", "commit", "overwrite", "queue", "reject"} =>
       s.approvals[q.approval].status # "none"
  /\ q.op = "commit" => s.approvals[q.approval].plan # NoPlan
  /\ q.op \in {"overwrite", "queue"} => s.approvals[q.approval].plan = NoPlan
  /\ q.op = "anchor" => q.binding.sha \in Plans
  /\ q.op \in {"bind", "anchor", "complete"} => AppliedOK(s, q.binding, R)
  /\ q.op \in {"judge", "complete"} => q.run \in R /\ Durable(s, q.run.task)
  /\ q.op = "complete" /\ q.verdict = "applied" => q.run.ok
  /\ q.op = "complete" /\ ~D =>
       /\ q.binding.version <= s.binding.version
       /\ q.binding.version = s.binding.version /\ q.verdict = "applied" =>
            Verdict(s, q.run) = "applied"

\* A lease the agent holds, in the states S.
HeldOK(i, S) ==
  (\E s \in S : Durable(s, i.task)) =>
    \A s \in S : Durable(s, i.task) /\ s.tasks[i.task].lease = i.lease

\* An acknowledged run, in the state s.
WholeOK(r, s) ==
  /\ s.tasks[r.task].receipt = Answers(r.ok) /\ s.tasks[r.task].lease = r.lease
  /\ s.tasks[r.task].status = (IF r.ok THEN "finished" ELSE "failed")
  /\ Decided(s, s.tasks[r.task].approval)

-----------------------------------------------------------------------------
(* The inductive invariant.                                                *)

StatesInv ==
  /\ \A s \in AllStates : RowsOK(s, lastApproval, lastTask) /\ AppliedOK(s, s.binding, ran)
  /\ \A s, u \in AllStates : Agree(s, u)
  /\ Settled
  /\ \A t \in Tasks : live.tasks[t].lease = disk.tasks[t].lease
  /\ \A t \in Tasks : live.tasks[t].receipt # "none" => disk.tasks[t] = live.tasks[t]
  /\ \A s \in AllStates, a \in Approvals :
       s.approvals[a].status = "applied" => Decided(live, a) /\ Decided(disk, a)

AgentInv ==
  /\ \A i \in held : i.task <= lastTask /\ HeldOK(i, AllStates)
  /\ \A r \in acked, s \in AllStates : WholeOK(r, s)

ReqInv == \A h \in Handlers : ReqOK(req[h], live, ran, Deleted(changes))

GuardInv == TypeOK /\ StatesInv /\ AgentInv /\ ReqInv

\* The invariant gives the properties.
LEMMA GuardInvSound == GuardInv => GuardSound
<1> SUFFICES ASSUME GuardInv PROVE GuardSound
  OBVIOUS
<1>1. AnyState = AllStates /\ live \in AllStates /\ disk \in AllStates
  BY Zenon DEF AnyState, AllStates
<1>2. HeldLeaseStands
  BY <1>1, Zenon DEF GuardInv, AgentInv, HeldOK, HeldLeaseStands
<1>3. AckedIsWhole
  BY <1>1, Zenon DEF GuardInv, AgentInv, WholeOK, Decided, AckedIsWhole
<1>4. AppliedWasRun
  BY <1>1, Zenon DEF GuardInv, StatesInv, AppliedOK, RunOf, AppliedWasRun
<1> QED
  BY <1>2, <1>3, <1>4 DEF GuardInv, GuardSound

-----------------------------------------------------------------------------
(* What a state that follows another one keeps.                            *)

\* A row's plan is reached through an approval that exists.
LEMMA DurableFollows ==
  ASSUME NEW n, NEW s, NEW A, NEW T, NEW B, NEW U, Follows(n, s, A, T), RowsOK(s, B, U),
         NEW t \in Tasks, Exists(s, t)
  PROVE  /\ Exists(n, t) /\ n.tasks[t].approval = s.tasks[t].approval
         /\ n.approvals[n.tasks[t].approval].plan = s.approvals[s.tasks[t].approval].plan
         /\ Durable(n, t) <=> Durable(s, t)
<1>1. s.tasks[t].approval \in Approvals /\ s.approvals[s.tasks[t].approval].status # "none"
  BY Zenon DEF RowsOK, TaskOK, Exists
<1> QED
  BY <1>1, Zenon DEF Follows, Durable, NetGuardSide, Exists

\* Ids keep their meaning.
LEMMA AgreeFollows ==
  ASSUME NEW n, NEW s, NEW u, NEW A \in Nat, NEW T \in Nat,
         Follows(n, s, A, T), Agree(s, u), RowsOK(u, A, T)
  PROVE  Agree(n, u) /\ Agree(u, n)
<1>1. \A t \in Tasks : Exists(u, t) /\ Exists(n, t) => Exists(s, t)
  BY NetGuardAssumption DEF Follows, RowsOK, TaskOK, Exists, Tasks
<1>2. \A a \in Approvals : u.approvals[a].status # "none" /\ n.approvals[a].status # "none" =>
        s.approvals[a].status # "none"
  BY NetGuardAssumption DEF Follows, RowsOK, ApprovalOK, Approvals
<1> QED
  BY <1>1, <1>2, Zenon DEF Agree, Follows

\* A state stays well formed when more ids are drawn.
LEMMA RowsGrow ==
  ASSUME NEW s, NEW A \in Nat, NEW T \in Nat, NEW B \in Nat, NEW U \in Nat,
         A <= B, T <= U, RowsOK(s, A, T)
  PROVE  RowsOK(s, B, U)
<1>1. \A t \in Tasks : t \in Nat
  BY NetGuardAssumption DEF Tasks
<1>2. \A a \in Approvals : a \in Nat
  BY NetGuardAssumption DEF Approvals
<1>3. \A t \in Tasks : TaskOK(s, t, U)
  BY <1>1 DEF RowsOK, TaskOK
<1>4. \A a \in Approvals : ApprovalOK(s, a, B)
  BY <1>2 DEF RowsOK, ApprovalOK
<1> QED
  BY <1>3, <1>4 DEF RowsOK

\* A lease the agent holds stays the lease of its task.
LEMMA HeldFollows ==
  ASSUME NEW S, NEW s \in S, NEW n, NEW A \in Nat, NEW T \in Nat,
         Follows(n, s, A, T), RowsOK(s, A, T),
         NEW i, i.task \in Tasks, i.task <= T, i.lease # 0, HeldOK(i, S)
  PROVE  HeldOK(i, S \cup {n})
<1>1. Exists(n, i.task) => Exists(s, i.task)
  BY NetGuardAssumption DEF Follows, Tasks
<1>2. Durable(n, i.task) => Durable(s, i.task)
  BY <1>1, DurableFollows, ZenonT(40) DEF Durable, Exists
<1>3. (\E u \in S \cup {n} : Durable(u, i.task)) => Durable(s, i.task)
  BY <1>2, Zenon DEF HeldOK
<1>4. Durable(s, i.task) => Durable(n, i.task)
  BY DurableFollows, Zenon DEF Durable, Exists
<1>5. Durable(s, i.task) => \A u \in S : Durable(u, i.task) /\ u.tasks[i.task].lease = i.lease
  BY Zenon DEF HeldOK
<1>6. Durable(s, i.task) => n.tasks[i.task].lease = i.lease
  BY <1>5, Zenon DEF Follows
<1> QED
  BY <1>3, <1>4, <1>5, <1>6, Zenon DEF HeldOK

\* Fewer states are fewer to agree in.
LEMMA HeldSubset ==
  ASSUME NEW S, NEW V \in SUBSET S, NEW i, HeldOK(i, S)
  PROVE  HeldOK(i, V)
BY Zenon DEF HeldOK

\* An acknowledged run stays whole.
LEMMA WholeFollows ==
  ASSUME NEW n, NEW s, NEW A, NEW T, Follows(n, s, A, T), RowsOK(s, A, T),
         NEW r, r.task \in Tasks, WholeOK(r, s)
  PROVE  WholeOK(r, n)
<1>1. s.tasks[r.task].receipt # "none"
  BY Zenon DEF WholeOK, Answers
<1>2. /\ NetGuardSide(s, r.task) /\ Decided(s, s.tasks[r.task].approval)
      /\ s.tasks[r.task].approval \in Approvals
  BY <1>1 DEF RowsOK, TaskOK
<1>3. n.tasks[r.task] = s.tasks[r.task]
  BY <1>1, Zenon DEF Follows
<1>4. Decided(n, s.tasks[r.task].approval)
  BY <1>2, ZenonT(40) DEF Follows, NetGuardSide
<1> QED
  BY <1>3, <1>4 DEF WholeOK

\* A run of a plan stays one.
LEMMA RunFollows ==
  ASSUME NEW n, NEW s, NEW A, NEW T, NEW B, NEW U, Follows(n, s, A, T), RowsOK(s, B, U),
         NEW R, NEW Q, R \subseteq Q, \A r \in R : r.task \in Tasks, NEW p, RunOf(s, p, R)
  PROVE  RunOf(n, p, Q)
<1>1. PICK r \in R : /\ r.ok /\ Exists(s, r.task)
                     /\ s.approvals[s.tasks[r.task].approval].plan = p
  BY ZenonT(40) DEF RunOf
<1>2. Exists(n, r.task) /\ n.approvals[n.tasks[r.task].approval].plan = p
  BY <1>1, DurableFollows
<1> QED
  BY <1>1, <1>2, Zenon DEF RunOf

\* What a handler holds still fits.
LEMMA RequestFollows ==
  ASSUME NEW n \in State, NEW s \in State, NEW A, NEW T, Follows(n, s, A, T), RowsOK(s, A, T),
         NEW R, NEW Q, R \subseteq Q, R \subseteq Run, NEW D \in BOOLEAN, NEW E \in BOOLEAN,
         D => E, E \/ Moves(n, s), NEW q \in Request, ReqOK(q, s, R, D)
  PROVE  ReqOK(q, n, Q, E)
<1>1. q.op \in {"decide", "commit", "overwrite", "queue", "reject"} =>
        /\ n.approvals[q.approval].status # "none"
        /\ n.approvals[q.approval].plan = s.approvals[q.approval].plan
  BY RequestFields DEF ReqOK, Follows
<1>2. \A r \in R : r.task \in Tasks
  BY DEF Run
<1>3. q.op \in {"bind", "anchor", "complete"} => AppliedOK(n, q.binding, Q)
  BY <1>2, RunFollows DEF ReqOK, AppliedOK
<1>4. q.op \in {"judge", "complete"} => q.run \in Q /\ Durable(n, q.run.task)
  BY <1>2, DurableFollows DEF ReqOK, Durable, Exists
<1>5. ASSUME q.op = "complete", ~E
      PROVE  /\ q.binding.version <= n.binding.version
             /\ q.binding.version = n.binding.version /\ q.verdict = "applied" =>
                  Verdict(n, q.run) = "applied"
  <2> DEFINE p == s.approvals[s.tasks[q.run.task].approval].plan
  <2>1. /\ q.binding.version <= s.binding.version
        /\ q.binding.version = s.binding.version /\ q.verdict = "applied" =>
             Verdict(s, q.run) = "applied"
    BY <1>5 DEF ReqOK
  <2>2. q.binding.version \in Nat /\ s.binding.version \in Nat /\ n.binding.version \in Nat
    BY <1>5, RequestFields, BindingFields, StateFields, Zenon
  <2>3. n.approvals[n.tasks[q.run.task].approval].plan = p /\ p # NoPlan
    <3>1. q.run \in R /\ Durable(s, q.run.task)
      BY <1>5, Zenon DEF ReqOK
    <3>2. q.run.task \in Tasks /\ Exists(s, q.run.task) /\ p # NoPlan
      BY <1>2, <3>1, Zenon DEF Durable, Exists, NetGuardSide
    <3> DEFINE u == q.run.task
    <3> HIDE DEF u
    <3>3. u \in Tasks /\ Exists(s, u)
      BY <3>2, ZenonT(40) DEF u
    <3>4. n.approvals[n.tasks[u].approval].plan = s.approvals[s.tasks[u].approval].plan
      BY <3>3, DurableFollows
    <3> QED
      BY <3>2, <3>4, Zenon DEF u
  <2>4. CASE n.binding.version > s.binding.version
    BY <2>1, <2>2, <2>4
  <2>5. CASE n.binding = s.binding /\ (n.deps = s.deps \/ s.binding.sha = NoPlan)
    <3>1. Verdict(s, q.run) = "applied" =>
            q.run.ok /\ s.binding.sha = p /\ currentNetGuardPlan(s) = p
      BY Zenon DEF Verdict
    <3>2. Verdict(s, q.run) = "applied" => n.deps = s.deps
      BY <2>3, <2>5, <3>1, Zenon
    <3>3. Verdict(s, q.run) = "applied" => currentNetGuardPlan(n) = p
      BY <2>5, <3>1, <3>2, Zenon DEF currentNetGuardPlan
    <3>4. Verdict(s, q.run) = "applied" => Verdict(n, q.run) = "applied"
      BY <2>3, <2>5, <3>1, <3>3, Zenon DEF Verdict
    <3> QED
      BY <2>1, <2>5, <3>4, Zenon
  <2> QED
    BY <1>5, <2>4, <2>5 DEF Moves
<1> QED
  BY <1>1, <1>3, <1>4, <1>5 DEF ReqOK

\* Following is reflexive and transitive.
LEMMA FollowsSelf ==
  ASSUME NEW s, NEW A, NEW T
  PROVE  Follows(s, s, A, T)
BY DEF Follows, Exists

LEMMA FollowsTwice ==
  ASSUME NEW n, NEW m, NEW s, NEW A, NEW T, Follows(n, m, A, T), Follows(m, s, A, T), RowsOK(s, A, T)
  PROVE  Follows(n, s, A, T)
<1>1. ASSUME NEW t \in Tasks
      PROVE  /\ Exists(s, t) => Exists(n, t) /\ n.tasks[t].approval = s.tasks[t].approval
             /\ Exists(n, t) /\ ~Exists(s, t) => t > T
             /\ s.tasks[t].receipt # "none" => n.tasks[t] = s.tasks[t]
  BY DEF Follows
<1>2. ASSUME NEW t \in Tasks
      PROVE  Durable(s, t) /\ s.tasks[t].lease # 0 => n.tasks[t].lease = s.tasks[t].lease
  <2>1. Durable(s, t) => Durable(m, t)
    BY DurableFollows DEF Durable, Exists
  <2> QED
    BY <2>1, Zenon DEF Follows
<1>3. ASSUME NEW a \in Approvals
      PROVE  /\ s.approvals[a].status # "none" => /\ n.approvals[a].status # "none"
                                                  /\ n.approvals[a].plan = s.approvals[a].plan
             /\ n.approvals[a].status # "none" /\ s.approvals[a].status = "none" => a > A
             /\ Decided(s, a) /\ s.approvals[a].plan # NoPlan => Decided(n, a)
  BY DEF Follows, Decided
<1> QED
  BY <1>1, <1>2, <1>3 DEF Follows

-----------------------------------------------------------------------------
(* What each write does to the rows.                                       *)

\* A write of the binding touches no row.
LEMMA SameRows ==
  ASSUME NEW n, NEW s, NEW A, NEW T, n.tasks = s.tasks, n.approvals = s.approvals, RowsOK(s, A, T)
  PROVE  Follows(n, s, A, T) /\ RowsOK(n, A, T)
<1>1. Follows(n, s, A, T)
  BY ZenonT(40) DEF Follows, Exists, Decided
<1>2. \A t \in Tasks : TaskOK(n, t, T)
  BY DEF RowsOK, TaskOK, NetGuardSide, Decided
<1>3. \A a \in Approvals : ApprovalOK(n, a, A)
  BY DEF RowsOK, ApprovalOK
<1> QED
  BY <1>1, <1>2, <1>3 DEF RowsOK

\* A decision, of an approval that exists; a durable one is not taken back.
LEMMA StatusRows ==
  ASSUME NEW n, NEW s, NEW A, NEW T, RowsOK(s, A, T), NEW a \in Approvals,
         s.approvals[a].status # "none", n.tasks = s.tasks,
         n.approvals[a].status \in {"approved", "rejected"},
         \A b \in Approvals : /\ n.approvals[b].plan = s.approvals[b].plan
                              /\ b # a => n.approvals[b] = s.approvals[b],
         \/ n.approvals[a].status = "rejected" \/ ~Decided(s, a) \/ s.approvals[a].plan = NoPlan
  PROVE  Follows(n, s, A, T) /\ RowsOK(n, A, T)
<1>1. \A b \in Approvals : Decided(s, b) /\ s.approvals[b].plan # NoPlan => Decided(n, b)
  BY DEF Decided
<1>2. Follows(n, s, A, T)
  BY <1>1, Zenon DEF Follows, Exists
<1>3. \A t \in Tasks : TaskOK(n, t, T)
  BY <1>1 DEF RowsOK, TaskOK, NetGuardSide
<1>4. \A b \in Approvals : ApprovalOK(n, b, A)
  BY DEF RowsOK, ApprovalOK
<1> QED
  BY <1>2, <1>3, <1>4 DEF RowsOK

\* A new approval.
LEMMA ApprovalRows ==
  ASSUME NEW n, NEW s, NEW A \in Nat, NEW T, RowsOK(s, A, T), A + 1 \in Approvals,
         n.tasks = s.tasks, n.approvals[A + 1].status = "pending",
         \A b \in Approvals : b # A + 1 => n.approvals[b] = s.approvals[b]
  PROVE  Follows(n, s, A, T) /\ RowsOK(n, A + 1, T)
<1>1. s.approvals[A + 1].status = "none"
  BY DEF RowsOK, ApprovalOK
<1>2. \A b \in Approvals : s.approvals[b].status # "none" => n.approvals[b] = s.approvals[b]
  BY <1>1
<1>3. A + 1 > A
  OBVIOUS
<1>4. Follows(n, s, A, T)
  BY <1>1, <1>2, <1>3 DEF Follows, Exists, Decided
<1>5. ASSUME NEW t \in Tasks PROVE TaskOK(n, t, T)
  <2>1. TaskOK(s, t, T)
    BY DEF RowsOK
  <2>2. CASE s.tasks[t].status = "none"
    BY <2>1, <2>2, Zenon DEF TaskOK
  <2>3. CASE s.tasks[t].status # "none"
    <3>1. n.approvals[s.tasks[t].approval] = s.approvals[s.tasks[t].approval]
      BY <1>2, <2>1, <2>3 DEF TaskOK
    <3> QED
      BY <2>1, <2>3, <3>1, Zenon DEF TaskOK, NetGuardSide, Decided
  <2> QED
    BY <2>2, <2>3
<1>6. \A b \in Approvals : b \in Nat
  BY NetGuardAssumption DEF Approvals
<1>7. \A b \in Approvals : ApprovalOK(n, b, A + 1)
  BY <1>1, <1>6 DEF RowsOK, ApprovalOK
<1> QED
  BY <1>4, <1>5, <1>7 DEF RowsOK

\* n is s with a new task k, the one after T, for the approval a.
IsFiled(n, s, k, a, T) ==
  /\ T \in Nat /\ k \in Tasks /\ k = T + 1 /\ a \in Approvals /\ s.approvals[a].status # "none"
  /\ n.approvals = s.approvals
  /\ n.tasks[k].status = "queued" /\ n.tasks[k].approval = a
  /\ n.tasks[k].lease = 0 /\ n.tasks[k].receipt = "none"
  /\ \A t \in Tasks : t # k => n.tasks[t] = s.tasks[t]

\* A new task.
LEMMA TaskRows ==
  ASSUME NEW n, NEW s, NEW A, NEW T, NEW k, NEW a, RowsOK(s, A, T), IsFiled(n, s, k, a, T)
  PROVE  /\ Follows(n, s, A, T) /\ RowsOK(n, A, k)
         /\ \A t \in Tasks : n.tasks[t].lease = s.tasks[t].lease
         /\ \A t \in Tasks : n.tasks[t].receipt # "none" => n.tasks[t] = s.tasks[t]
<1>0. /\ T \in Nat /\ k \in Tasks /\ k = T + 1 /\ a \in Approvals
      /\ s.approvals[a].status # "none"
  BY Zenon DEF IsFiled
<1>1. TaskOK(s, k, T)
  BY <1>0, Zenon DEF RowsOK
<1>2. s.tasks[k].status = "none" /\ s.tasks[k].lease = 0 /\ s.tasks[k].receipt = "none"
  <2>1. ~(k <= T)
    BY <1>0
  <2> QED
    BY <1>1, <2>1, Zenon DEF TaskOK
<1>3. k > T
  BY <1>0
<1>4. /\ n.tasks[k].lease = 0 /\ n.tasks[k].receipt = "none" /\ n.tasks[k].approval = a
      /\ n.tasks[k].status = "queued" /\ n.approvals = s.approvals
      /\ \A t \in Tasks : t # k => n.tasks[t] = s.tasks[t]
  BY Zenon DEF IsFiled
<1>5. Follows(n, s, A, T)
  BY <1>0, <1>2, <1>3, <1>4, Zenon DEF Follows, Exists, Durable, Decided
<1>6. \A t \in Tasks : t \in Nat
  BY NetGuardAssumption DEF Tasks
<1>7. ASSUME NEW t \in Tasks PROVE TaskOK(n, t, k)
  <2>1. CASE t = k
    <3>1. t <= k
      BY <1>6, <2>1
    <3> QED
      BY <1>0, <1>4, <2>1, <3>1, Zenon DEF TaskOK
  <2>2. CASE t # k
    <3>1. TaskOK(s, t, T) /\ n.tasks[t] = s.tasks[t]
      BY <1>4, <2>2, Zenon DEF RowsOK
    <3>2. t <= T => t <= k
      BY <1>0, <1>6
    <3> QED
      BY <1>4, <3>1, <3>2, Zenon DEF TaskOK, NetGuardSide, Decided
  <2> QED
    BY <2>1, <2>2, Zenon
<1>8. \A b \in Approvals : ApprovalOK(n, b, A)
  BY <1>4, Zenon DEF RowsOK, ApprovalOK
<1> QED
  BY <1>2, <1>4, <1>5, <1>7, <1>8, Zenon DEF RowsOK

\* Tasks without a receipt are cancelled, finished or leased; a durable lease
\* does not move.
StatusMoved(n, s) ==
  /\ n.approvals = s.approvals
  /\ \A t \in Tasks :
       \/ n.tasks[t] = s.tasks[t]
       \/ /\ Exists(s, t) /\ Exists(n, t)
          /\ s.tasks[t].receipt = "none" /\ n.tasks[t].receipt = "none"
          /\ n.tasks[t].approval = s.tasks[t].approval
          /\ Durable(s, t) /\ s.tasks[t].lease # 0 => n.tasks[t].lease = s.tasks[t].lease

LEMMA TaskStatusRows ==
  ASSUME NEW n, NEW s, NEW A, NEW T, RowsOK(s, A, T), StatusMoved(n, s)
  PROVE  Follows(n, s, A, T) /\ RowsOK(n, A, T)
<1>0. /\ n.approvals = s.approvals
      /\ \A t \in Tasks :
           \/ n.tasks[t] = s.tasks[t]
           \/ /\ Exists(s, t) /\ Exists(n, t)
              /\ s.tasks[t].receipt = "none" /\ n.tasks[t].receipt = "none"
              /\ n.tasks[t].approval = s.tasks[t].approval
              /\ Durable(s, t) /\ s.tasks[t].lease # 0 => n.tasks[t].lease = s.tasks[t].lease
  BY Zenon DEF StatusMoved
<1>1. Follows(n, s, A, T)
  <2>1. \A a \in Approvals : n.approvals[a] = s.approvals[a] /\ (Decided(s, a) => Decided(n, a))
    BY <1>0, Zenon DEF Decided
  <2>2. \A t \in Tasks : n.tasks[t] = s.tasks[t] => (Exists(n, t) <=> Exists(s, t))
    BY Zenon DEF Exists
  <2> QED
    BY <1>0, <2>1, <2>2, Zenon DEF Follows
<1>2. ASSUME NEW t \in Tasks PROVE TaskOK(n, t, T)
  <2>1. TaskOK(s, t, T)
    BY Zenon DEF RowsOK
  <2>2. CASE n.tasks[t] = s.tasks[t]
    BY <1>0, <2>1, <2>2, Zenon DEF TaskOK, NetGuardSide, Decided
  <2>3. CASE /\ Exists(s, t) /\ Exists(n, t) /\ n.tasks[t].receipt = "none"
             /\ n.tasks[t].approval = s.tasks[t].approval
    BY <1>0, <2>1, <2>3, Zenon DEF TaskOK, Exists
  <2> QED
    BY <1>0, <2>2, <2>3, Zenon
<1>3. \A b \in Approvals : ApprovalOK(n, b, A)
  BY <1>0, Zenon DEF RowsOK, ApprovalOK
<1> QED
  BY <1>1, <1>2, <1>3 DEF RowsOK

\* A task that waits for a result has none.
LEMMA AwaitingHasNone ==
  ASSUME NEW s \in State, NEW A, NEW T, RowsOK(s, A, T), NEW t \in Tasks,
         s.tasks[t].status \in {"queued", "leased"}
  PROVE  Exists(s, t) /\ s.tasks[t].receipt = "none"
<1>1. s.tasks[t].receipt \in {"none", "ok", "failed"}
  BY DEF State, Task
<1> QED
  BY <1>1 DEF RowsOK, TaskOK, Exists

\* Dropping superseded tasks.
LEMMA DropRows ==
  ASSUME NEW s \in State, NEW A, NEW T, RowsOK(s, A, T)
  PROVE  /\ Follows(DropSuperseded(s), s, A, T) /\ RowsOK(DropSuperseded(s), A, T)
         /\ \A t \in Tasks : DropSuperseded(s).tasks[t].lease = s.tasks[t].lease
         /\ \A t \in Tasks : DropSuperseded(s).tasks[t].approval = s.tasks[t].approval
         /\ \A a \in Approvals : DropSuperseded(s).approvals[a].plan = s.approvals[a].plan
<1> DEFINE n == DropSuperseded(s)
<1>1. \A t \in Tasks :
        \/ n.tasks[t] = s.tasks[t]
        \/ taskTargetAwaitingResult(s, t) /\ Cancelled(n.tasks[t], s.tasks[t])
  BY SupersededDropped, Zenon
<1>2. \A a \in Approvals :
        \/ n.approvals[a] = s.approvals[a]
        \/ /\ s.approvals[a].plan = NoPlan /\ s.approvals[a].status = "approved"
           /\ n.approvals[a].plan = NoPlan /\ n.approvals[a].status = "rejected"
  BY SupersededDropped, Zenon
<1> HIDE DEF n
<1>3. \A t \in Tasks :
        \/ n.tasks[t] = s.tasks[t]
        \/ /\ Exists(s, t) /\ n.tasks[t].status = "cancelled"
           /\ s.tasks[t].receipt = "none" /\ n.tasks[t].receipt = "none"
           /\ n.tasks[t].approval = s.tasks[t].approval
           /\ n.tasks[t].lease = s.tasks[t].lease
  BY <1>1, AwaitingHasNone DEF taskTargetAwaitingResult, Cancelled
<1>4. \A a \in Approvals :
        /\ n.approvals[a].plan = s.approvals[a].plan
        /\ n.approvals[a].status = "none" <=> s.approvals[a].status = "none"
        /\ n.approvals[a].status = "applied" <=> s.approvals[a].status = "applied"
        /\ Decided(s, a) => Decided(n, a)
  BY <1>2, Zenon DEF Decided
<1>5. Follows(n, s, A, T)
  BY <1>3, <1>4 DEF Follows, Exists
<1>6. ASSUME NEW t \in Tasks PROVE TaskOK(n, t, T)
  <2>1. TaskOK(s, t, T)
    BY Zenon DEF RowsOK
  <2>2. CASE n.tasks[t] = s.tasks[t]
    BY <1>4, <2>1, <2>2, ZenonT(40) DEF TaskOK, NetGuardSide
  <2>3. CASE n.tasks[t] # s.tasks[t]
    BY <1>3, <1>4, <2>1, <2>3 DEF TaskOK, Exists
  <2> QED
    BY <2>2, <2>3
<1>7. \A a \in Approvals : ApprovalOK(n, a, A)
  BY <1>4, Zenon DEF RowsOK, ApprovalOK
<1>8. \A t \in Tasks : n.tasks[t].lease = s.tasks[t].lease /\ n.tasks[t].approval = s.tasks[t].approval
  BY <1>3, Zenon
<1> QED
  BY <1>4, <1>5, <1>6, <1>7, <1>8, Zenon DEF RowsOK, n

\* A completed result.
LEMMA CompletedRows ==
  ASSUME NEW s \in State, NEW A, NEW T, RowsOK(s, A, T), NEW q, q.run \in Run,
         q.verdict \in {"applied", "rejected"}, q.binding \in Binding,
         Durable(s, q.run.task), taskLeaseMatches(s, q.run)
  PROVE  /\ Completed(s, q) \in State
         /\ Follows(Completed(s, q), s, A, T) /\ RowsOK(Completed(s, q), A, T)
         /\ WholeOK(q.run, Completed(s, q))
<1> DEFINE n == Completed(s, q)
           t == q.run.task
           a == s.tasks[t].approval
<1>1. t \in Tasks
  BY Zenon DEF Run
<1>2. /\ a \in Approvals /\ s.approvals[a].status # "none" /\ s.approvals[a].plan # NoPlan
      /\ s.tasks[t].status = "leased" /\ s.tasks[t].lease = q.run.lease
  BY <1>1, Zenon DEF RowsOK, TaskOK, Durable, NetGuardSide, taskLeaseMatches
<1>3. Exists(s, t) /\ s.tasks[t].receipt = "none"
  BY <1>1, <1>2, AwaitingHasNone, Zenon
<1>4. /\ n \in State
      /\ n.tasks[t].status = IF q.run.ok THEN "finished" ELSE "failed"
      /\ n.tasks[t].receipt = Answers(q.run.ok)
      /\ n.tasks[t].lease = s.tasks[t].lease /\ n.tasks[t].approval = a
      /\ \A u \in Tasks : u # t => n.tasks[u] = s.tasks[u]
      /\ n.approvals[a].status = q.verdict /\ n.approvals[a].plan = s.approvals[a].plan
      /\ \A b \in Approvals : b # a => n.approvals[b] = s.approvals[b]
  BY <1>2, ResultWritten, Zenon
<1> HIDE DEF n, t, a
<1>5. /\ Decided(n, a)
      /\ \A b \in Approvals : /\ n.approvals[b].plan = s.approvals[b].plan
                              /\ Decided(s, b) => Decided(n, b)
                              /\ s.approvals[b].status # "none" <=> n.approvals[b].status # "none"
                              /\ n.approvals[b].status = "applied" =>
                                   b = a \/ s.approvals[b].status = "applied"
  BY <1>2, <1>4, Zenon DEF Decided
<1>6. Follows(n, s, A, T)
  <2>1. ASSUME NEW u \in Tasks
        PROVE  /\ Exists(s, u) => Exists(n, u) /\ n.tasks[u].approval = s.tasks[u].approval
               /\ Exists(n, u) /\ ~Exists(s, u) => u > T
               /\ n.tasks[u].lease = s.tasks[u].lease
               /\ s.tasks[u].receipt # "none" => n.tasks[u] = s.tasks[u]
    <3>1. CASE u = t
      BY <1>3, <1>4, <3>1, Zenon DEF Exists, a
    <3>2. CASE u # t
      BY <1>4, <3>2 DEF Exists
    <3> QED
      BY <3>1, <3>2, Zenon
  <2> QED
    BY <1>5, <2>1, Zenon DEF Follows
<1>7. ASSUME NEW u \in Tasks PROVE TaskOK(n, u, T)
  <2>1. TaskOK(s, u, T)
    BY Zenon DEF RowsOK
  <2>2. CASE u = t
    <3>1. t <= T
      BY <1>3, <2>1, <2>2, Zenon DEF TaskOK, Exists
    <3>2. NetGuardSide(n, t) /\ n.approvals[a].status # "none"
      BY <1>2, <1>4, <1>5, Zenon DEF NetGuardSide
    <3>3. /\ n.tasks[t].status \in {"finished", "failed"}
          /\ n.tasks[t].receipt = "ok" => n.tasks[t].status = "finished"
          /\ n.tasks[t].receipt = "failed" => n.tasks[t].status = "failed"
      BY <1>4, Zenon DEF Answers
    <3> QED
      BY <1>2, <1>4, <1>5, <2>2, <3>1, <3>2, <3>3, Zenon DEF TaskOK
  <2>3. CASE u # t
    BY <1>4, <1>5, <2>1, <2>3, ZenonT(40) DEF TaskOK, NetGuardSide
  <2> QED
    BY <2>2, <2>3
<1>8. \A b \in Approvals : ApprovalOK(n, b, A)
  BY <1>2, <1>5 DEF RowsOK, ApprovalOK
<1>9. WholeOK(q.run, n)
  BY <1>2, <1>4, <1>5, Zenon DEF WholeOK, t
<1> QED
  BY <1>4, <1>6, <1>7, <1>8, <1>9, Zenon DEF RowsOK, n

-----------------------------------------------------------------------------
(* What a write keeps of the invariant.                                    *)

\* A state that may be in memory without being in the file: no lease and no
\* receipt is new in it, and no decision that a result brought.
Tame(n) ==
  /\ \A t \in Tasks : n.tasks[t].lease = live.tasks[t].lease
  /\ \A t \in Tasks : n.tasks[t].receipt # "none" => n.tasks[t] = live.tasks[t]
  /\ \A a \in Approvals : n.approvals[a].status = "applied" => live.approvals[a].status = "applied"

\* The state n is written with the counters and runs as they are afterwards.
GoodWrite(n, oc) ==
  /\ n \in State /\ oc \in Outcomes
  /\ Staged(n, oc) \/ (Save(n, oc) /\ Tame(n))
  /\ Follows(n, live, lastApproval, lastTask)
  /\ RowsOK(n, lastApproval', lastTask') /\ AppliedOK(n, n.binding, ran')
  /\ lastApproval' \in Nat /\ lastApproval <= lastApproval'
  /\ lastTask' \in Nat /\ lastTask <= lastTask'
  /\ ran \subseteq ran'
  /\ Deleted(changes) => Deleted(changes')
  /\ Deleted(changes') \/ Moves(n, live)

\* The states stay sound.
LEMMA WriteStates ==
  ASSUME TypeOK, StatesInv, NEW n, NEW oc, GoodWrite(n, oc)
  PROVE  /\ StatesInv' /\ AllStates' \subseteq AllStates \cup {n}
         /\ live' \in {live, n} /\ live' \in State
         /\ Follows(live', live, lastApproval, lastTask)
<1>1. /\ live \in AllStates /\ disk \in AllStates /\ live \in State
      /\ lastApproval \in Nat /\ lastTask \in Nat
  BY NetGuardAssumption DEF AllStates, TypeOK
<1>2. n \in State /\ oc \in Outcomes /\ (Staged(n, oc) \/ Save(n, oc))
  BY DEF GoodWrite
<1>3. AllStates' \subseteq AllStates \cup {n}
  BY <1>2, StagedStates, Zenon
<1>4. RowsOK(live, lastApproval, lastTask) /\ Follows(n, live, lastApproval, lastTask)
  BY <1>1 DEF StatesInv, GoodWrite
<1>5. live' \in {live, n}
  BY <1>2 DEF Staged, Save
<1>6. Follows(live', live, lastApproval, lastTask)
  BY <1>4, <1>5, FollowsSelf, Zenon
<1>7. \A s \in AllStates \cup {n} : RowsOK(s, lastApproval', lastTask')
  <2>1. \A s \in AllStates : RowsOK(s, lastApproval', lastTask')
    BY <1>1, RowsGrow, Zenon DEF StatesInv, GoodWrite
  <2> QED
    BY <2>1, Zenon DEF GoodWrite
<1>8. \A s \in AllStates \cup {n} : AppliedOK(s, s.binding, ran')
  BY Zenon DEF StatesInv, GoodWrite, AppliedOK, RunOf
<1>9. \A s, u \in AllStates \cup {n} : Agree(s, u)
  <2>1. \A u \in AllStates : Agree(n, u) /\ Agree(u, n)
    BY <1>1, <1>4, AgreeFollows, Zenon DEF StatesInv
  <2>2. Agree(n, n)
    BY Zenon DEF Agree
  <2> QED
    BY <2>1, <2>2, Zenon DEF StatesInv
<1>10. Settled'
  BY <1>2, SettledKept, Zenon DEF StatesInv
<1>11. ASSUME NEW s \in AllStates, NEW a \in Approvals, s.approvals[a].status = "applied"
       PROVE  Decided(live, a) /\ Decided(disk, a) /\ Decided(n, a)
  <2>1. Decided(live, a) /\ Decided(disk, a)
    BY <1>11, Zenon DEF StatesInv
  <2>2. s.approvals[a].plan # NoPlan
    BY <1>11, Zenon DEF StatesInv, RowsOK, ApprovalOK
  <2>3. live.approvals[a].plan = s.approvals[a].plan
    BY <1>1, <1>11, <2>1, Zenon DEF StatesInv, Agree, Decided
  <2> QED
    BY <1>4, <2>1, <2>2, <2>3, Zenon DEF Follows
<1>12. /\ \A t \in Tasks : live'.tasks[t].lease = disk'.tasks[t].lease
       /\ \A t \in Tasks : live'.tasks[t].receipt # "none" => disk'.tasks[t] = live'.tasks[t]
       /\ \A s \in AllStates', a \in Approvals :
            s.approvals[a].status = "applied" => Decided(live', a) /\ Decided(disk', a)
  <2>1. CASE oc # "failed"
    <3>1. live' = n /\ disk' = n
      BY <1>2, <2>1, Zenon DEF Staged, Save, persistState
    <3>2. \A a \in Approvals : n.approvals[a].status = "applied" => Decided(n, a)
      BY DEF Decided
    <3> QED
      BY <1>3, <1>11, <3>1, <3>2, Zenon
  <2>2. CASE oc = "failed" /\ Staged(n, oc)
    <3>1. live' = live /\ disk' = disk /\ AllStates' = AllStates
      BY <2>2, Zenon DEF Staged, persistState, AllStates
    <3> QED
      BY <3>1 DEF StatesInv
  <2>3. CASE oc = "failed" /\ Save(n, oc) /\ Tame(n)
    <3>1. live' = n /\ disk' = disk
      BY <2>3, Zenon DEF Save, persistState
    <3>2. \A a \in Approvals : n.approvals[a].status = "applied" => Decided(n, a) /\ Decided(disk, a)
      BY <1>1, <1>11, <2>3, Zenon DEF Tame
    <3>3. /\ \A t \in Tasks : n.tasks[t].lease = disk.tasks[t].lease
          /\ \A t \in Tasks : n.tasks[t].receipt # "none" => disk.tasks[t] = n.tasks[t]
      BY <2>3, Zenon DEF Tame, StatesInv
    <3> QED
      BY <1>3, <1>11, <3>1, <3>2, <3>3, Zenon
  <2> QED
    BY <2>1, <2>2, <2>3, Zenon DEF GoodWrite
<1>13. StatesInv'
  BY <1>3, <1>7, <1>8, <1>9, <1>10, <1>12, Zenon DEF StatesInv
<1> QED
  BY <1>1, <1>2, <1>3, <1>5, <1>6, <1>13, Zenon

\* What the agent was told stands.
LEMMA WriteAgent ==
  ASSUME TypeOK, StatesInv, AgentInv, NEW n, NEW oc, GoodWrite(n, oc)
  PROVE  /\ \A i \in held : i.task <= lastTask' /\ HeldOK(i, AllStates')
         /\ \A r \in acked, s \in AllStates' : WholeOK(r, s)
<1>1. /\ live \in AllStates /\ lastApproval \in Nat /\ lastTask \in Nat
      /\ RowsOK(live, lastApproval, lastTask) /\ Follows(n, live, lastApproval, lastTask)
  BY NetGuardAssumption DEF AllStates, TypeOK, StatesInv, GoodWrite
<1>2. AllStates' \in SUBSET (AllStates \cup {n})
  BY WriteStates
<1>3. ASSUME NEW i \in held PROVE i.task <= lastTask' /\ HeldOK(i, AllStates')
  <2>1. i.task \in Tasks /\ i.lease # 0 /\ i.task \in Nat
    BY NetGuardAssumption DEF TypeOK, Leases, Tasks
  <2>2. i.task <= lastTask /\ HeldOK(i, AllStates)
    BY DEF AgentInv
  <2>3. HeldOK(i, AllStates \cup {n})
    BY <1>1, <2>1, <2>2, HeldFollows
  <2>4. HeldOK(i, AllStates')
    BY <1>2, <2>3, HeldSubset, Zenon
  <2> QED
    BY <1>1, <2>1, <2>2, <2>4 DEF GoodWrite
<1>4. ASSUME NEW r \in acked, NEW s \in AllStates' PROVE WholeOK(r, s)
  <2>1. r.task \in Tasks
    BY DEF TypeOK, Run
  <2>2. WholeOK(r, live)
    BY <1>1 DEF AgentInv
  <2>3. WholeOK(r, n)
    BY <1>1, <2>1, <2>2, WholeFollows, Zenon
  <2> QED
    BY <1>2, <2>3, Zenon DEF AgentInv
<1> QED
  BY <1>3, <1>4, Zenon

\* What the handlers hold still fits.
LEMMA WriteRequests ==
  ASSUME TypeOK, StatesInv, ReqInv, NEW n, NEW oc, GoodWrite(n, oc)
  PROVE  \A h \in Handlers : ReqOK(req[h], live', ran', Deleted(changes'))
<1> SUFFICES ASSUME NEW h \in Handlers PROVE ReqOK(req[h], live', ran', Deleted(changes'))
  BY Zenon
<1>1. /\ live \in State /\ live \in AllStates /\ ran \subseteq Run /\ req[h] \in Request
      /\ RowsOK(live, lastApproval, lastTask)
  BY Zenon DEF AllStates, TypeOK, StatesInv
<1>2. /\ live' \in State /\ live' \in {live, n}
      /\ Follows(live', live, lastApproval, lastTask)
  BY WriteStates, Zenon
<1>3. Deleted(changes') \/ Moves(live', live)
  BY <1>2 DEF GoodWrite, Moves
<1>4. ReqOK(req[h], live, ran, Deleted(changes))
  BY DEF ReqInv
<1>5. Deleted(changes) \in BOOLEAN /\ Deleted(changes') \in BOOLEAN
  BY DEF Deleted
<1> QED
  BY <1>1, <1>2, <1>3, <1>4, <1>5, RequestFollows DEF GoodWrite

\* A write that neither delivers nor acknowledges.
LEMMA WriteKeeps ==
  ASSUME GuardInv, NEW n, NEW oc, GoodWrite(n, oc), UNCHANGED <<held, acked>>, TypeOK',
         \A h \in Handlers : \/ req'[h] = req[h]
                             \/ ReqOK(req'[h], live', ran', Deleted(changes'))
  PROVE  GuardInv'
<1>1. StatesInv'
  BY WriteStates, Zenon DEF GuardInv
<1>2. AgentInv'
  BY WriteAgent, Zenon DEF GuardInv, AgentInv
<1>3. ReqInv'
  BY WriteRequests, Zenon DEF GuardInv, ReqInv
<1> QED
  BY <1>1, <1>2, <1>3, Zenon DEF GuardInv

\* A step that writes nothing.
LEMMA ReadKeeps ==
  ASSUME GuardInv, UNCHANGED <<stateFile, lastApproval, lastTask, held, acked>>, TypeOK',
         ran \subseteq ran', Deleted(changes) => Deleted(changes'),
         \A h \in Handlers : \/ req'[h] = req[h]
                             \/ ReqOK(req'[h], live', ran', Deleted(changes'))
  PROVE  GuardInv'
<1>1. AllStates' = AllStates /\ live' = live /\ disk' = disk
  BY Zenon DEF stateFile, AllStates
<1>2. StatesInv'
  <2>1. Settled'
    BY Zenon DEF GuardInv, StatesInv, Settled, stateFile
  <2>2. \A s \in AllStates : AppliedOK(s, s.binding, ran')
    BY Zenon DEF GuardInv, StatesInv, AppliedOK, RunOf
  <2> QED
    BY <1>1, <2>1, <2>2, Zenon DEF GuardInv, StatesInv
<1>3. AgentInv'
  BY <1>1, Zenon DEF GuardInv, AgentInv
<1>4. ASSUME NEW h \in Handlers PROVE ReqOK(req[h], live, ran', Deleted(changes'))
  <2>1. /\ live \in State /\ live \in AllStates /\ ran \subseteq Run /\ req[h] \in Request
        /\ RowsOK(live, lastApproval, lastTask)
    BY Zenon DEF AllStates, GuardInv, TypeOK, StatesInv
  <2>2. Follows(live, live, lastApproval, lastTask) /\ Moves(live, live)
    BY FollowsSelf, Zenon DEF Moves
  <2>3. ReqOK(req[h], live, ran, Deleted(changes))
    BY DEF GuardInv, ReqInv
  <2>4. Deleted(changes) \in BOOLEAN /\ Deleted(changes') \in BOOLEAN
    BY Zenon DEF Deleted
  <2> QED
    BY <2>1, <2>2, <2>3, <2>4, RequestFollows
<1>5. ReqInv'
  BY <1>1, <1>4, Zenon DEF ReqInv
<1> QED
  BY <1>2, <1>3, <1>5, Zenon DEF GuardInv

\* An idle handler holds nothing.
LEMMA IdleOK ==
  ASSUME NEW s, NEW R, NEW D
  PROVE  ReqOK(Idle, s, R, D)
BY Zenon DEF ReqOK, Idle

\* The plan recorded as applied stays one that was run.
LEMMA AppliedFollows ==
  ASSUME GuardInv, NEW n, NEW Q, Follows(n, live, lastApproval, lastTask), ran \subseteq Q,
         NEW b, NEW c, AppliedOK(live, c, ran), b.applied = c.applied
  PROVE  AppliedOK(n, b, Q)
<1>1. RowsOK(live, lastApproval, lastTask) /\ \A r \in ran : r.task \in Tasks
  BY Zenon DEF GuardInv, TypeOK, StatesInv, AllStates, Run
<1> QED
  BY <1>1, RunFollows, Zenon DEF AppliedOK

\* What every step can use of the invariant.
LEMMA LiveFacts ==
  ASSUME GuardInv
  PROVE  /\ live \in State /\ live.binding \in Binding /\ live \in AllStates
         /\ RowsOK(live, lastApproval, lastTask) /\ AppliedOK(live, live.binding, ran)
         /\ lastApproval \in Nat /\ lastTask \in Nat /\ lastLease \in Nat
         /\ ran \subseteq Run /\ req \in [Handlers -> Request]
         /\ \A h \in Handlers : ReqOK(req[h], live, ran, Deleted(changes))
BY NetGuardAssumption DEF GuardInv, TypeOK, StatesInv, ReqInv, AllStates, State

\* A write by a step that draws no id, ends no run and counts no change.
LEMMA PlainWrite ==
  ASSUME GuardInv, NEW n \in State, NEW oc \in Outcomes,
         Staged(n, oc) \/ (Save(n, oc) /\ Tame(n)),
         Follows(n, live, lastApproval, lastTask), RowsOK(n, lastApproval, lastTask),
         UNCHANGED <<lastApproval, lastTask, ran, changes>>,
         n.binding = live.binding /\ n.deps = live.deps
  PROVE  GoodWrite(n, oc)
<1>1. AppliedOK(n, n.binding, ran')
  BY LiveFacts, AppliedFollows, Zenon
<1>2. Moves(n, live)
  BY ZenonT(40) DEF Moves
<1> QED
  BY <1>1, <1>2, LiveFacts DEF GoodWrite

\* A write of the binding, likewise.
LEMMA BindingWrite ==
  ASSUME GuardInv, NEW b \in Binding, NEW oc \in Outcomes, Save(WithBinding(live, b), oc),
         b.version = live.binding.version, AppliedOK(live, b, ran),
         UNCHANGED <<lastApproval, lastTask, ran, changes>>
  PROVE  GoodWrite(WithBinding(live, b), oc) /\ Tame(WithBinding(live, b))
<1> DEFINE n == WithBinding(live, b)
<1>1. /\ n \in State /\ n.deps = live.deps /\ n.approvals = live.approvals /\ n.tasks = live.tasks
      /\ n.binding.version = b.version + 1 /\ n.binding.applied = b.applied
  BY LiveFacts, WithBindingType, Zenon
<1> HIDE DEF n
<1>2. Follows(n, live, lastApproval, lastTask) /\ RowsOK(n, lastApproval, lastTask)
  BY <1>1, LiveFacts, SameRows, Zenon
<1>3. AppliedOK(n, n.binding, ran')
  BY <1>1, <1>2, AppliedFollows, ZenonT(40)
<1>4. Moves(n, live)
  BY <1>1, LiveFacts, BindingFields DEF Moves
<1>5. Tame(n)
  BY <1>1, Zenon DEF Tame
<1> QED
  BY <1>1, <1>2, <1>3, <1>4, <1>5, LiveFacts DEF GoodWrite, n

\* A decision, of an approval that exists.
LEMMA StatusWrite ==
  ASSUME GuardInv, NEW a \in Approvals, NEW x \in {"approved", "rejected"}, NEW oc \in Outcomes,
         live.approvals[a].status # "none",
         \/ x = "rejected" \/ ~Decided(live, a) \/ live.approvals[a].plan = NoPlan
  PROVE  LET n == [live EXCEPT !.approvals[a].status = x] IN
         /\ n \in State /\ n.binding = live.binding /\ n.deps = live.deps
         /\ Follows(n, live, lastApproval, lastTask) /\ RowsOK(n, lastApproval, lastTask)
         /\ Tame(n) /\ n.approvals[a].status = x /\ n.approvals[a].plan = live.approvals[a].plan
<1> DEFINE n == [live EXCEPT !.approvals[a].status = x]
<1>1. /\ n \in State /\ n.binding = live.binding /\ n.deps = live.deps /\ n.tasks = live.tasks
      /\ n.approvals[a].status = x
      /\ \A b \in Approvals : /\ n.approvals[b].plan = live.approvals[b].plan
                              /\ b # a => n.approvals[b] = live.approvals[b]
  <2>1. live \in State
    BY LiveFacts, Zenon
  <2> QED
    BY <2>1, Zenon DEF State, Approval
<1> HIDE DEF n
<1>2. Follows(n, live, lastApproval, lastTask) /\ RowsOK(n, lastApproval, lastTask)
  BY <1>1, LiveFacts, StatusRows, Zenon
<1>3. Tame(n)
  BY <1>1, Zenon DEF Tame
<1> QED
  BY <1>1, <1>2, <1>3, Zenon DEF n

\* A new approval.
LEMMA ApprovalWrite ==
  ASSUME GuardInv, NEW p \in Plans \cup {NoPlan}, NEW oc \in Outcomes, UpsertNewApproval(p, oc),
         UNCHANGED <<lastTask, ran, changes>>
  PROVE  \E n : GoodWrite(n, oc) /\ Tame(n)
<1> DEFINE n == [live EXCEPT !.approvals[lastApproval + 1] = [status |-> "pending", plan |-> p]]
<1>1. /\ lastApproval + 1 \in Approvals /\ lastApproval' = lastApproval + 1 /\ Save(n, oc)
      /\ lastApproval' \in Nat /\ lastApproval <= lastApproval'
  BY LiveFacts, NetGuardAssumption DEF UpsertNewApproval, Approvals
<1>2. /\ n \in State /\ n.binding = live.binding /\ n.deps = live.deps /\ n.tasks = live.tasks
      /\ n.approvals[lastApproval + 1] = [status |-> "pending", plan |-> p]
      /\ \A b \in Approvals : b # lastApproval + 1 => n.approvals[b] = live.approvals[b]
  BY <1>1, LiveFacts, ApprovalFiled
<1> HIDE DEF n
<1>3. n.approvals[lastApproval + 1].status = "pending"
  BY <1>2
<1>4. Follows(n, live, lastApproval, lastTask) /\ RowsOK(n, lastApproval + 1, lastTask)
  BY <1>1, <1>2, <1>3, LiveFacts, ApprovalRows, Zenon
<1>5. Tame(n)
  BY <1>2, <1>3, Zenon DEF Tame
<1>6. AppliedOK(n, n.binding, ran')
  BY <1>2, <1>4, LiveFacts, AppliedFollows, Zenon
<1>7. Moves(n, live)
  BY <1>2, ZenonT(40) DEF Moves
<1>8. GoodWrite(n, oc)
  BY <1>1, <1>2, <1>4, <1>5, <1>6, <1>7, LiveFacts DEF GoodWrite
<1> QED
  BY <1>5, <1>8, Zenon

\* Numbers drawn by counting up.
LEMMA NextIsLater ==
  /\ \A x \in Nat : x <= x
  /\ \A x \in Nat : \A y : y = x + 1 => y \in Nat /\ x <= y /\ y > x
OBVIOUS

\* A new task, for an approval that exists in s.
LEMMA TaskWrite ==
  ASSUME GuardInv, NEW s \in State, NEW a \in Approvals, NEW oc \in Outcomes, lastTask + 1 \in Tasks,
         Follows(s, live, lastApproval, lastTask), RowsOK(s, lastApproval, lastTask), Tame(s),
         s.binding = live.binding /\ s.deps = live.deps, s.approvals[a].status # "none",
         Staged(NewTask(s, a), oc) \/ Save(NewTask(s, a), oc),
         lastTask' = lastTask + 1, UNCHANGED <<lastApproval, ran, changes>>
  PROVE  GoodWrite(NewTask(s, a), oc) /\ Tame(NewTask(s, a))
<1> DEFINE n == NewTask(s, a)
<1>1. /\ n \in State /\ n.binding = s.binding /\ n.deps = s.deps /\ n.approvals = s.approvals
      /\ n.tasks[lastTask + 1].status = "queued" /\ n.tasks[lastTask + 1].approval = a
      /\ n.tasks[lastTask + 1].lease = 0 /\ n.tasks[lastTask + 1].receipt = "none"
      /\ \A t \in Tasks : t # lastTask + 1 => n.tasks[t] = s.tasks[t]
  BY TaskFiled, Zenon
<1>9. Staged(n, oc) \/ Save(n, oc)
  BY Zenon
<1> HIDE DEF n
<1> DEFINE k == lastTask + 1
<1>10. lastTask \in Nat /\ k \in Tasks /\ k = lastTask + 1
  BY LiveFacts, Zenon
<1>11. IsFiled(n, s, k, a, lastTask)
  BY <1>1, <1>10, Zenon DEF IsFiled
<1> HIDE DEF k
<1>2. /\ Follows(n, s, lastApproval, lastTask) /\ RowsOK(n, lastApproval, k)
      /\ \A t \in Tasks : n.tasks[t].lease = s.tasks[t].lease
      /\ \A t \in Tasks : n.tasks[t].receipt # "none" => n.tasks[t] = s.tasks[t]
  BY <1>11, TaskRows, ZenonT(40)
<1>3. Follows(n, live, lastApproval, lastTask)
  BY <1>2, LiveFacts, FollowsTwice, Zenon
<1>4. Tame(n)
  BY <1>1, <1>2, ZenonT(40) DEF Tame
<1>5. AppliedOK(n, n.binding, ran')
  BY <1>1, <1>3, LiveFacts, AppliedFollows, Zenon
<1>6. Moves(n, live)
  BY <1>1, Zenon DEF Moves
<1>7. /\ lastTask' \in Nat /\ lastTask <= lastTask'
      /\ lastApproval' \in Nat /\ lastApproval <= lastApproval'
      /\ RowsOK(n, lastApproval', lastTask') /\ (Deleted(changes) => Deleted(changes'))
  <2>1. lastTask' = k /\ UNCHANGED <<lastApproval, changes>>
    BY <1>10, Zenon
  <2>2. lastApproval \in Nat
    BY LiveFacts, Zenon
  <2> QED
    BY <1>2, <1>10, <2>1, <2>2, NextIsLater, Zenon
<1>8. GoodWrite(n, oc)
  BY <1>9, <1>1, <1>3, <1>4, <1>5, <1>6, <1>7, Zenon DEF GoodWrite
<1> QED
  BY <1>4, <1>8, Zenon DEF n

-----------------------------------------------------------------------------
(* The steps of a request.                                                 *)

\* What a handler may hold.
LEMMA RequestOK ==
  ASSUME NEW s, NEW R, NEW D
  PROVE  /\ \A p : ReqOK([op |-> "submit", plan |-> p], s, R, D)
         /\ \A b : AppliedOK(s, b, R) => ReqOK([op |-> "bind", binding |-> b], s, R, D)
         /\ \A b : AppliedOK(s, b, R) /\ b.sha \in Plans =>
              ReqOK([op |-> "anchor", binding |-> b], s, R, D)
         /\ \A a : s.approvals[a].status # "none" =>
              /\ ReqOK([op |-> "decide", approval |-> a], s, R, D)
              /\ ReqOK([op |-> "reject", approval |-> a], s, R, D)
              /\ s.approvals[a].plan # NoPlan => ReqOK([op |-> "commit", approval |-> a], s, R, D)
              /\ s.approvals[a].plan = NoPlan => /\ ReqOK([op |-> "overwrite", approval |-> a], s, R, D)
                                                 /\ ReqOK([op |-> "queue", approval |-> a], s, R, D)
         /\ \A k : \A r \in R : Durable(s, r.task) =>
              ReqOK([op |-> "judge", run |-> r, attempt |-> k], s, R, D)
<1>1. \A p : ReqOK([op |-> "submit", plan |-> p], s, R, D)
  BY Zenon DEF ReqOK
<1>2. \A b : AppliedOK(s, b, R) => ReqOK([op |-> "bind", binding |-> b], s, R, D)
  BY Zenon DEF ReqOK
<1>3. \A b : AppliedOK(s, b, R) /\ b.sha \in Plans =>
        ReqOK([op |-> "anchor", binding |-> b], s, R, D)
  BY Zenon DEF ReqOK
<1>4. \A a : s.approvals[a].status # "none" =>
        /\ ReqOK([op |-> "decide", approval |-> a], s, R, D)
        /\ ReqOK([op |-> "reject", approval |-> a], s, R, D)
  BY Zenon DEF ReqOK
<1>5. \A a : s.approvals[a].status # "none" /\ s.approvals[a].plan # NoPlan =>
        ReqOK([op |-> "commit", approval |-> a], s, R, D)
  BY Zenon DEF ReqOK
<1>6. \A a : s.approvals[a].status # "none" /\ s.approvals[a].plan = NoPlan =>
        /\ ReqOK([op |-> "overwrite", approval |-> a], s, R, D)
        /\ ReqOK([op |-> "queue", approval |-> a], s, R, D)
  BY Zenon DEF ReqOK
<1>7. \A k : \A r \in R : Durable(s, r.task) =>
        ReqOK([op |-> "judge", run |-> r, attempt |-> k], s, R, D)
  BY ZenonT(40) DEF ReqOK
<1> QED
  BY <1>1, <1>2, <1>3, <1>4, <1>5, <1>6, <1>7, Zenon

\* A judged result: the verdict is on the state it was read from.
LEMMA JudgedOK ==
  ASSUME NEW s \in State, NEW R, NEW D, NEW r \in R, NEW k, Durable(s, r.task),
         AppliedOK(s, s.binding, R)
  PROVE  ReqOK([op |-> "complete", run |-> r, attempt |-> k, verdict |-> Verdict(s, r),
                binding |-> s.binding], s, R, D)
<1>1. s.binding.version \in Nat
  BY StateFields, BindingFields
<1>2. Verdict(s, r) = "applied" => r.ok
  BY Zenon DEF Verdict
<1> DEFINE v == Verdict(s, r)
           q == [op |-> "complete", run |-> r, attempt |-> k, verdict |-> v, binding |-> s.binding]
<1>3. /\ q.op = "complete" /\ q.run = r /\ q.verdict = v /\ q.binding = s.binding
  BY Zenon
<1> HIDE DEF q, v
<1>4. q.binding.version <= s.binding.version
  BY <1>1, <1>3, NextIsLater, Zenon
<1>5. ReqOK(q, s, R, D)
  BY <1>2, <1>3, <1>4, Zenon DEF ReqOK, v
<1> QED
  BY <1>5, Zenon DEF q, v

\* A step of a request that writes nothing.
LEMMA ReadStep ==
  ASSUME GuardInv, NEW h \in Handlers, NEW q \in Request, Waits(h, q), TypeOK',
         UNCHANGED <<stateFile, lastApproval, lastTask, held, acked>>,
         ran \subseteq ran', Deleted(changes) => Deleted(changes'),
         ReqOK(q, live, ran', Deleted(changes'))
  PROVE  GuardInv'
<1>1. live' = live
  BY Zenon DEF stateFile
<1>2. req'[h] = q /\ \A g \in Handlers : g # h => req'[g] = req[g]
  BY LiveFacts, RequestStep, Zenon
<1> QED
  BY <1>1, <1>2, ReadKeeps, Zenon

\* A step of a request that writes.
LEMMA WriteStep ==
  ASSUME GuardInv, NEW h \in Handlers, NEW q \in Request, Waits(h, q), TypeOK',
         NEW n, NEW oc, GoodWrite(n, oc), UNCHANGED <<held, acked>>,
         ReqOK(q, live', ran', Deleted(changes'))
  PROVE  GuardInv'
<1>1. req'[h] = q /\ \A g \in Handlers : g # h => req'[g] = req[g]
  BY LiveFacts, RequestStep, Zenon
<1> QED
  BY <1>1, WriteKeeps, Zenon

\* The request ends.
LEMMA AnswerStep ==
  ASSUME GuardInv, NEW h \in Handlers, Answer(h), TypeOK', UNCHANGED <<held, acked>>,
         \/ UNCHANGED <<stateFile, counters, ran>>
         \/ \E n, oc : GoodWrite(n, oc)
  PROVE  GuardInv'
<1>1. Waits(h, Idle) /\ Idle \in Request
  BY RequestMade, Zenon DEF Answer, Waits
<1>2. ReqOK(Idle, live, ran', Deleted(changes')) /\ ReqOK(Idle, live', ran', Deleted(changes'))
  BY IdleOK, Zenon
<1>3. CASE UNCHANGED <<stateFile, counters, ran>>
  BY <1>1, <1>2, <1>3, ReadStep, Zenon DEF counters
<1>4. CASE \E n, oc : GoodWrite(n, oc)
  BY <1>1, <1>2, <1>4, WriteStep, Zenon
<1> QED
  BY <1>3, <1>4, Zenon

\* A step that brings no lease and no applied plan.
LEMMA QuietWrite ==
  ASSUME GuardInv, NEW n, NEW oc, GoodWrite(n, oc), Tame(n)
  PROVE  Tame(live')
<1>1. live' \in {live, n}
  BY WriteStates, Zenon DEF GuardInv
<1>2. Tame(live)
  BY DEF Tame
<1> QED
  BY <1>1, <1>2, Zenon

LEMMA QuietRead ==
  ASSUME UNCHANGED stateFile
  PROVE  Tame(live')
BY DEF Tame, stateFile

\* A deletion stays counted.
LEMMA DeletedKept ==
  ASSUME changes \in Seq({"deps", "adopt", "edit", "delete"}),
         NEW k \in {"deps", "adopt", "edit", "delete"}, Change(k)
  PROVE  (Deleted(changes) => Deleted(changes')) /\ (k = "delete" => Deleted(changes'))
BY DEF Change, Deleted

\* The reads of an operator's request.
LEMMA OperatorReads ==
  ASSUME GuardInv, TypeOK', NEW h \in Handlers,
         \/ PlanCompile(h) \/ ApproveInFlight(h)
         \/ \E a \in Approvals : ApproveRead(h, a) \/ RejectRead(h, a)
         \/ \E op \in Requests, m \in BOOLEAN, r \in Rules : ReadBinding(h, op, m, r)
  PROVE  GuardInv'
<1>1. ReqOK(req[h], live, ran, Deleted(changes)) /\ req[h] \in Request
  BY LiveFacts, Zenon
<1>2. CASE PlanCompile(h)
  <2> DEFINE b == [live.binding EXCEPT !.sha = currentNetGuardPlan(live)]
  <2>1. currentNetGuardPlan(live) \in Plans
    BY <1>2, LiveFacts, CompiledType, Zenon DEF PlanCompile
  <2>2. b \in Binding /\ b.sha \in Plans /\ b.applied = live.binding.applied
    BY <2>1, LiveFacts DEF Binding
  <2>3. Waits(h, [op |-> "anchor", binding |-> b])
    BY <1>2 DEF PlanCompile
  <2> HIDE DEF b
  <2>4. AppliedOK(live, b, ran)
    BY <2>2, LiveFacts DEF AppliedOK
  <2>5. UNCHANGED <<stateFile, counters, agent>>
    BY <1>2 DEF PlanCompile
  <2> QED
    BY <2>2, <2>3, <2>4, <2>5, RequestOK, RequestMade, ReadStep, Zenon DEF counters, agent
<1>3. CASE ApproveInFlight(h)
  <2>1. req[h].approval \in Approvals /\ live.approvals[req[h].approval].status # "none"
    BY <1>1, <1>3, RequestFields, Zenon DEF ApproveInFlight, ReqOK
  <2>2. UNCHANGED <<stateFile, counters, agent>>
    BY <1>3, Zenon DEF ApproveInFlight
  <2>3. CASE Answer(h)
    BY <2>2, <2>3, AnswerStep, Zenon DEF agent
  <2>4. CASE ~Answer(h)
    <3> DEFINE o == IF live.approvals[req[h].approval].plan # NoPlan THEN "commit" ELSE "overwrite"
               q == [op |-> o, approval |-> req[h].approval]
    <3>1. Waits(h, q)
      BY <1>3, <2>4, Zenon DEF ApproveInFlight
    <3>2. q \in Request
      BY <2>1, RequestMade, Zenon
    <3>3. ReqOK(q, live, ran, Deleted(changes))
      BY <2>1, RequestOK, Zenon
    <3> QED
      BY <2>2, <3>1, <3>2, <3>3, ReadStep, Zenon DEF counters, agent
  <2> QED
    BY <2>3, <2>4, Zenon
<1>4. ASSUME NEW a \in Approvals, ApproveRead(h, a) \/ RejectRead(h, a) PROVE GuardInv'
  <2>1. live.approvals[a].status # "none" /\ UNCHANGED <<stateFile, counters, agent>>
    BY <1>4, Zenon DEF ApproveRead, RejectRead
  <2>2. PICK o \in {"decide", "reject"} : Waits(h, [op |-> o, approval |-> a])
    BY <1>4, Zenon DEF ApproveRead, RejectRead
  <2>3. [op |-> o, approval |-> a] \in Request
    BY RequestMade, Zenon
  <2>4. ReqOK([op |-> o, approval |-> a], live, ran, Deleted(changes))
    BY <2>1, RequestOK, Zenon
  <2> QED
    BY <2>1, <2>2, <2>3, <2>4, ReadStep, Zenon DEF counters, agent
<1>5. ASSUME NEW op \in Requests, NEW m \in BOOLEAN, NEW r \in Rules, ReadBinding(h, op, m, r)
      PROVE  GuardInv'
  <2> DEFINE b == NewBinding(op, m, r)
  <2>1. b \in Binding /\ b.applied \in {live.binding.applied, NoPlan}
    BY LiveFacts, NewBindingType, Zenon
  <2>2. /\ Waits(h, [op |-> "bind", binding |-> b]) /\ Change(op) /\ op \in {"adopt", "edit"}
        /\ UNCHANGED <<stateFile, lastApproval, lastTask, agent>>
    BY <1>5, Zenon DEF ReadBinding
  <2> HIDE DEF b
  <2>3. AppliedOK(live, b, ran)
    BY <2>1, LiveFacts, Zenon DEF AppliedOK
  <2>4. Deleted(changes) => Deleted(changes')
    BY <2>2, DeletedKept, Zenon DEF GuardInv, TypeOK
  <2> QED
    BY <2>1, <2>2, <2>3, <2>4, RequestOK, RequestMade, ReadStep, Zenon DEF agent
<1> QED
  BY <1>2, <1>3, <1>4, <1>5, Zenon

\* The writes of an operator's request.
LEMMA OperatorWrites ==
  ASSUME GuardInv, TypeOK', NEW h \in Handlers, NEW oc \in Outcomes,
         \/ PlanAnchor(h, oc) \/ PlanSubmit(h, oc) \/ QueueTask(h, oc) \/ RejectWrite(h, oc)
         \/ UpsertNodeGuardBinding(h, oc)
         \/ \E queue \in BOOLEAN : ApproveNetGuard(h, queue, oc) \/ ApproveLegacy(h, queue, oc)
  PROVE  GuardInv' /\ Tame(live')
<1>1. ReqOK(req[h], live, ran, Deleted(changes)) /\ req[h] \in Request
  BY LiveFacts, Zenon
<1>2. CASE PlanAnchor(h, oc)
  <2>1. req[h].binding \in Binding /\ req[h].binding.sha \in Plans /\ AppliedOK(live, req[h].binding, ran)
    BY <1>1, <1>2, RequestFields, Zenon DEF PlanAnchor, ReqOK
  <2>2. UNCHANGED <<counters, agent>>
    BY <1>2, Zenon DEF PlanAnchor
  <2>3. CASE req[h].binding.version = live.binding.version
    <3>1. GoodWrite(WithBinding(live, req[h].binding), oc) /\ Tame(WithBinding(live, req[h].binding))
      BY <1>2, <2>1, <2>2, <2>3, BindingWrite, Zenon DEF PlanAnchor, counters, agent
    <3>2. Answer(h) \/ Waits(h, [op |-> "submit", plan |-> req[h].binding.sha])
      BY <1>2, <2>3, Zenon DEF PlanAnchor
    <3>3. CASE Answer(h)
      BY <2>2, <3>1, <3>3, AnswerStep, QuietWrite, Zenon DEF agent
    <3>4. CASE Waits(h, [op |-> "submit", plan |-> req[h].binding.sha])
      <4>1. [op |-> "submit", plan |-> req[h].binding.sha] \in Request
        BY <2>1, RequestMade, Zenon
      <4>2. ReqOK([op |-> "submit", plan |-> req[h].binding.sha], live', ran', Deleted(changes'))
        BY RequestOK, Zenon
      <4> QED
        BY <2>2, <3>1, <3>4, <4>1, <4>2, WriteStep, QuietWrite, Zenon DEF agent
    <3> QED
      BY <3>2, <3>3, <3>4, Zenon
  <2>4. CASE req[h].binding.version # live.binding.version
    BY <1>2, <2>2, <2>4, AnswerStep, QuietRead, Zenon DEF PlanAnchor, agent
  <2> QED
    BY <2>3, <2>4, Zenon
<1>3. CASE PlanSubmit(h, oc)
  <2>1. req[h].plan \in Plans
    BY <1>1, <1>3, RequestFields, Zenon DEF PlanSubmit
  <2>2. \E n : GoodWrite(n, oc) /\ Tame(n)
    BY <1>3, <2>1, ApprovalWrite, Zenon DEF PlanSubmit, agent
  <2> QED
    BY <1>3, <2>2, AnswerStep, QuietWrite, Zenon DEF PlanSubmit, agent
<1>4. CASE QueueTask(h, oc)
  <2>1. /\ req[h].approval \in Approvals /\ live.approvals[req[h].approval].status # "none"
    BY <1>1, <1>4, RequestFields, Zenon DEF QueueTask, ReqOK
  <2>2. lastTask + 1 \in Tasks
    BY <1>4, LiveFacts, NetGuardAssumption DEF QueueTask, Tasks
  <2>3. Follows(live, live, lastApproval, lastTask) /\ Tame(live)
    BY FollowsSelf, Zenon DEF Tame
  <2>4. Save(NewTask(live, req[h].approval), oc) /\ lastTask' = lastTask + 1
        /\ UNCHANGED <<lastApproval, changes, agent>> /\ Answer(h)
    BY <1>4, Zenon DEF QueueTask
  <2>5. GoodWrite(NewTask(live, req[h].approval), oc) /\ Tame(NewTask(live, req[h].approval))
    BY <2>1, <2>2, <2>3, <2>4, LiveFacts, TaskWrite, Zenon DEF agent
  <2> QED
    BY <2>4, <2>5, AnswerStep, QuietWrite, Zenon DEF agent
<1>5. CASE RejectWrite(h, oc)
  <2> DEFINE a == req[h].approval
             n == [live EXCEPT !.approvals[a].status = "rejected"]
  <2>1. a \in Approvals /\ live.approvals[a].status # "none"
    BY <1>1, <1>5, RequestFields, Zenon DEF RejectWrite, ReqOK
  <2>2. Save(n, oc) /\ UNCHANGED <<counters, agent>> /\ Answer(h)
    BY <1>5, Zenon DEF RejectWrite
  <2>3. /\ n \in State /\ n.binding = live.binding /\ n.deps = live.deps
        /\ Follows(n, live, lastApproval, lastTask) /\ RowsOK(n, lastApproval, lastTask) /\ Tame(n)
    BY <2>1, StatusWrite, Zenon
  <2> HIDE DEF n
  <2>4. GoodWrite(n, oc)
    BY <2>2, <2>3, PlainWrite, Zenon DEF counters, agent
  <2> QED
    BY <2>2, <2>3, <2>4, AnswerStep, QuietWrite, Zenon DEF agent
<1>6. CASE UpsertNodeGuardBinding(h, oc)
  <2>1. req[h].binding \in Binding /\ AppliedOK(live, req[h].binding, ran)
    BY <1>1, <1>6, RequestFields, Zenon DEF UpsertNodeGuardBinding, ReqOK
  <2>2. UNCHANGED <<counters, agent>> /\ Answer(h)
    BY <1>6, Zenon DEF UpsertNodeGuardBinding
  <2>3. CASE req[h].binding.version = live.binding.version
    <3>1. GoodWrite(WithBinding(live, req[h].binding), oc) /\ Tame(WithBinding(live, req[h].binding))
      BY <1>6, <2>1, <2>2, <2>3, BindingWrite, Zenon DEF UpsertNodeGuardBinding, counters, agent
    <3> QED
      BY <2>2, <3>1, AnswerStep, QuietWrite, Zenon DEF agent
  <2>4. CASE req[h].binding.version # live.binding.version
    BY <1>6, <2>2, <2>4, AnswerStep, QuietRead, Zenon DEF UpsertNodeGuardBinding, agent
  <2> QED
    BY <2>3, <2>4, Zenon
<1>7. ASSUME NEW queue \in BOOLEAN, ApproveNetGuard(h, queue, oc) PROVE GuardInv' /\ Tame(live')
  <2> DEFINE a == req[h].approval
             s == [live EXCEPT !.approvals[a].status = "approved"]
             fresh == live.approvals[a].status = "pending" /\ live.binding.sha = live.approvals[a].plan
  <2>1. a \in Approvals
    BY <1>1, <1>7, RequestFields, Zenon DEF ApproveNetGuard
  <2>2. Answer(h) /\ UNCHANGED <<lastApproval, lastLease, changes, agent>>
    BY <1>7, Zenon DEF ApproveNetGuard
  <2>3. CASE ~fresh
    BY <1>7, <2>2, <2>3, AnswerStep, QuietRead, Zenon DEF ApproveNetGuard, counters, agent
  <2>4. CASE fresh
    <3>1. /\ s \in State /\ s.binding = live.binding /\ s.deps = live.deps
          /\ Follows(s, live, lastApproval, lastTask) /\ RowsOK(s, lastApproval, lastTask)
          /\ Tame(s) /\ s.approvals[a].status = "approved"
      BY <2>1, <2>4, StatusWrite, Zenon DEF Decided
    <3>2. /\ Staged(IF queue THEN NewTask(s, a) ELSE s, oc)
          /\ lastTask' = IF queue THEN lastTask + 1 ELSE lastTask
      BY <1>7, <2>4 DEF ApproveNetGuard
    <3> HIDE DEF s
    <3>3. CASE queue
      <4>1. lastTask + 1 \in Tasks
        BY <1>7, <3>3, LiveFacts, NetGuardAssumption DEF ApproveNetGuard, Tasks
      <4>2. GoodWrite(NewTask(s, a), oc) /\ Tame(NewTask(s, a))
        BY <2>1, <2>2, <3>1, <3>2, <3>3, <4>1, TaskWrite, Zenon DEF agent
      <4> QED
        BY <2>2, <4>2, AnswerStep, QuietWrite DEF agent
    <3>4. CASE ~queue
      <4>1. GoodWrite(s, oc)
        BY <2>2, <3>1, <3>2, <3>4, PlainWrite, Zenon DEF agent
      <4> QED
        BY <2>2, <3>1, <4>1, AnswerStep, QuietWrite, Zenon DEF agent
    <3> QED
      BY <3>3, <3>4, Zenon
  <2> QED
    BY <2>3, <2>4, Zenon
<1>8. ASSUME NEW queue \in BOOLEAN, ApproveLegacy(h, queue, oc) PROVE GuardInv' /\ Tame(live')
  <2> DEFINE a == req[h].approval
             n == [live EXCEPT !.approvals[a].status = "approved"]
  <2>1. a \in Approvals /\ live.approvals[a].status # "none" /\ live.approvals[a].plan = NoPlan
    BY <1>1, <1>8, RequestFields, Zenon DEF ApproveLegacy, ReqOK
  <2>2. /\ Save(n, oc) /\ UNCHANGED <<counters, agent>> /\ live' = n
        /\ Answer(h) \/ Waits(h, [op |-> "queue", approval |-> a])
    BY <1>8, Zenon DEF ApproveLegacy, Save
  <2>3. /\ n \in State /\ n.binding = live.binding /\ n.deps = live.deps
        /\ Follows(n, live, lastApproval, lastTask) /\ RowsOK(n, lastApproval, lastTask) /\ Tame(n)
        /\ n.approvals[a].status = "approved" /\ n.approvals[a].plan = live.approvals[a].plan
    BY <2>1, StatusWrite, Zenon
  <2> HIDE DEF n
  <2>4. GoodWrite(n, oc)
    BY <2>2, <2>3, PlainWrite, Zenon DEF counters, agent
  <2>5. CASE Answer(h)
    BY <2>2, <2>3, <2>4, <2>5, AnswerStep, QuietWrite, Zenon DEF agent
  <2>6. CASE Waits(h, [op |-> "queue", approval |-> a])
    <3>1. [op |-> "queue", approval |-> a] \in Request
      BY <2>1, RequestMade, Zenon
    <3>2. ReqOK([op |-> "queue", approval |-> a], live', ran', Deleted(changes'))
      BY <2>1, <2>2, <2>3, RequestOK, Zenon
    <3> QED
      BY <2>2, <2>3, <2>4, <2>6, <3>1, <3>2, WriteStep, QuietWrite, Zenon DEF agent
  <2> QED
    BY <2>2, <2>5, <2>6, Zenon
<1> QED
  BY <1>2, <1>3, <1>4, <1>5, <1>6, <1>7, <1>8, Zenon

-----------------------------------------------------------------------------
(* The other steps.                                                        *)

\* Writes that no handler waits for.
LEMMA OtherWrites ==
  ASSUME GuardInv, TypeOK', NEW oc \in Outcomes,
         \/ \E d \in Deps : ChangeDeps(d, oc)
         \/ DeleteNodeGuardBinding(oc) \/ LegacyPlan(oc)
         \/ \E t \in Tasks : CancelTask(t, oc)
         \/ \E i \in held, ok \in BOOLEAN : GenericResult(i, ok, oc)
  PROVE  GuardInv' /\ Tame(live')
<1>1. changes \in Seq({"deps", "adopt", "edit", "delete"})
  BY DEF GuardInv, TypeOK
<1>2. ASSUME NEW n, GoodWrite(n, oc), Tame(n), UNCHANGED <<req, held, acked>>
      PROVE  GuardInv' /\ Tame(live')
  BY <1>2, WriteKeeps, QuietWrite
<1>3. ASSUME NEW d \in Deps, ChangeDeps(d, oc) PROVE GuardInv' /\ Tame(live')
  <2> DEFINE b == invalidateGuardBindingLocked(live.binding)
             n == [live EXCEPT !.deps = d, !.binding = b]
  <2>1. /\ b \in Binding /\ b.applied = live.binding.applied
        /\ (b = live.binding /\ live.binding.sha = NoPlan) \/ b.version = live.binding.version + 1
    BY LiveFacts, InvalidatedType, Zenon
  <2>2. /\ Save(n, oc) /\ Change("deps")
        /\ UNCHANGED <<req, lastApproval, lastTask, lastLease, agent>>
    BY <1>3, Zenon DEF ChangeDeps
  <2> HIDE DEF b
  <2>3. /\ n \in State /\ n.binding = b /\ n.approvals = live.approvals /\ n.tasks = live.tasks
    <3>1. live \in State
      BY LiveFacts
    <3> QED
      BY <2>1, <3>1, Zenon DEF State
  <2> HIDE DEF n
  <2>4. Follows(n, live, lastApproval, lastTask) /\ RowsOK(n, lastApproval, lastTask)
    BY <2>3, LiveFacts, SameRows
  <2>5. AppliedOK(n, n.binding, ran')
    BY <2>1, <2>2, <2>3, <2>4, LiveFacts, AppliedFollows, Zenon DEF agent
  <2>6. Moves(n, live)
    <3>1. live.binding.version \in Nat
      BY LiveFacts, BindingFields, ZenonT(40)
    <3>2. b.version = live.binding.version + 1 => b.version > live.binding.version
      BY <3>1, NextIsLater, Zenon
    <3> QED
      BY <2>1, <2>3, <3>2, Zenon DEF Moves
  <2>7. Deleted(changes) => Deleted(changes')
    BY <1>1, <2>2, DeletedKept, Zenon
  <2>8. Tame(n)
    BY <2>3 DEF Tame
  <2>9. GoodWrite(n, oc)
    BY <2>2, <2>3, <2>4, <2>5, <2>6, <2>7, <2>8, LiveFacts DEF GoodWrite, agent
  <2> QED
    BY <1>2, <2>2, <2>8, <2>9, Zenon DEF agent
<1>4. CASE DeleteNodeGuardBinding(oc)
  <2> DEFINE b == noBinding(live.binding.rules)
             n == [live EXCEPT !.binding = b]
  <2>1. b \in Binding /\ b.applied = NoPlan
    BY LiveFacts DEF noBinding, Binding
  <2>2. /\ Save(n, oc) /\ Change("delete")
        /\ UNCHANGED <<req, lastApproval, lastTask, lastLease, agent>>
    BY <1>4 DEF DeleteNodeGuardBinding
  <2> HIDE DEF b
  <2>3. /\ n \in State /\ n.binding = b /\ n.approvals = live.approvals /\ n.tasks = live.tasks
    BY <2>1, LiveFacts, Zenon DEF State
  <2> HIDE DEF n
  <2>4. Follows(n, live, lastApproval, lastTask) /\ RowsOK(n, lastApproval, lastTask)
    BY <2>3, LiveFacts, SameRows, Zenon
  <2>5. AppliedOK(n, n.binding, ran')
    BY <2>1, <2>3 DEF AppliedOK
  <2>6. Deleted(changes')
    BY <1>1, <2>2, DeletedKept, ZenonT(40)
  <2>7. Tame(n)
    BY <2>3 DEF Tame
  <2>8. GoodWrite(n, oc)
    BY <2>2, <2>3, <2>4, <2>5, <2>6, <2>7, LiveFacts DEF GoodWrite, agent
  <2> QED
    BY <1>2, <2>2, <2>7, <2>8, ZenonT(40) DEF agent
<1>5. CASE LegacyPlan(oc)
  <2>1. \E n : GoodWrite(n, oc) /\ Tame(n)
    BY <1>5, ApprovalWrite DEF LegacyPlan, agent
  <2> QED
    BY <1>2, <1>5, <2>1, Zenon DEF LegacyPlan, agent
<1>6. ASSUME NEW t \in Tasks, CancelTask(t, oc) PROVE GuardInv' /\ Tame(live')
  <2> DEFINE n == [live EXCEPT !.tasks[t].status = "cancelled"]
  <2>1. /\ n \in State /\ n.binding = live.binding /\ n.deps = live.deps
        /\ n.approvals = live.approvals
        /\ n.tasks[t].status = "cancelled" /\ n.tasks[t].approval = live.tasks[t].approval
        /\ n.tasks[t].lease = live.tasks[t].lease /\ n.tasks[t].receipt = live.tasks[t].receipt
        /\ \A u \in Tasks : u # t => n.tasks[u] = live.tasks[u]
    <3>1. live \in State
      BY LiveFacts
    <3> QED
      BY <3>1 DEF State, Task
  <2>2. Save(n, oc) /\ UNCHANGED <<req, counters, agent>>
    BY <1>6, Zenon DEF CancelTask
  <2>3. Exists(live, t) /\ live.tasks[t].receipt = "none"
    BY <1>6, LiveFacts, AwaitingHasNone, Zenon DEF CancelTask
  <2> HIDE DEF n
  <2>4. Follows(n, live, lastApproval, lastTask) /\ RowsOK(n, lastApproval, lastTask)
    <3>1. StatusMoved(n, live)
      BY <2>1, <2>3, Zenon DEF StatusMoved, Exists
    <3> QED
      BY <3>1, LiveFacts, TaskStatusRows, Zenon
  <2>5. Tame(n)
    BY <2>1, <2>3, Zenon DEF Tame
  <2>6. GoodWrite(n, oc)
    BY <2>1, <2>2, <2>4, <2>5, PlainWrite, Zenon DEF counters, agent
  <2> QED
    BY <1>2, <2>2, <2>5, <2>6, Zenon DEF agent
<1>7. ASSUME NEW i \in held, NEW ok \in BOOLEAN, GenericResult(i, ok, oc) PROVE GuardInv' /\ Tame(live')
  <2> DEFINE t == i.task
             st == IF ok THEN "finished" ELSE "failed"
             n == [live EXCEPT !.tasks[t].status = st]
  <2>1. t \in Tasks /\ st \in {"finished", "failed"}
    BY DEF GuardInv, TypeOK
  <2>2. /\ Staged(n, oc) /\ UNCHANGED <<req, counters, held, acked>> /\ ran \subseteq ran'
        /\ taskLeaseMatches(live, i)
    BY <1>7 DEF GenericResult
  <2> HIDE DEF st
  <2>3. /\ n \in State /\ n.binding = live.binding /\ n.deps = live.deps
        /\ n.approvals = live.approvals
        /\ n.tasks[t].status = st /\ n.tasks[t].approval = live.tasks[t].approval
        /\ n.tasks[t].lease = live.tasks[t].lease /\ n.tasks[t].receipt = live.tasks[t].receipt
        /\ \A u \in Tasks : u # t => n.tasks[u] = live.tasks[u]
    <3>1. live \in State
      BY LiveFacts
    <3> HIDE DEF t
    <3> QED
      BY <2>1, <3>1, ZenonT(40) DEF State, Task
  <2>4. Exists(live, t) /\ live.tasks[t].receipt = "none"
    BY <2>1, <2>2, LiveFacts, AwaitingHasNone DEF taskLeaseMatches
  <2> HIDE DEF n
  <2>5. Follows(n, live, lastApproval, lastTask) /\ RowsOK(n, lastApproval, lastTask)
    <3>1. StatusMoved(n, live)
      BY <2>1, <2>3, <2>4, Zenon DEF StatusMoved, Exists
    <3> QED
      BY <3>1, LiveFacts, TaskStatusRows, Zenon
  <2>6. AppliedOK(n, n.binding, ran')
    BY <2>2, <2>3, <2>5, LiveFacts, AppliedFollows, Zenon
  <2>7. GoodWrite(n, oc)
    <3>1. Moves(n, live)
      BY <2>3 DEF Moves
    <3>2. UNCHANGED <<lastApproval, lastTask, changes>>
      BY <2>2 DEF counters
    <3>3. /\ RowsOK(n, lastApproval', lastTask') /\ (Deleted(changes) => Deleted(changes'))
          /\ lastApproval' \in Nat /\ lastApproval <= lastApproval'
          /\ lastTask' \in Nat /\ lastTask <= lastTask'
      BY <2>5, <3>2, LiveFacts
    <3> QED
      BY <2>2, <2>3, <2>5, <2>6, <3>1, <3>3, Zenon DEF GoodWrite
  <2>8. Tame(n)
    BY <2>1, <2>3, <2>4, Zenon DEF Tame
  <2> QED
    BY <1>2, <2>2, <2>7, <2>8, Zenon
<1> QED
  BY <1>3, <1>4, <1>5, <1>6, <1>7

\* Confirming durability changes no row and no request.
LEMMA ConfirmKeeps ==
  ASSUME GuardInv, NEW oc, confirmDurabilityLocked(oc), UNCHANGED <<req, counters, ran>>
  PROVE  /\ StatesInv' /\ ReqInv' /\ AllStates' \in SUBSET AllStates
         /\ live' = live /\ disk' = disk
<1>1. AllStates' \in SUBSET AllStates /\ live' = live /\ disk' = disk
  BY ConfirmStates, Zenon DEF confirmDurabilityLocked
<1>2. Settled'
  BY SettledKept, Zenon DEF GuardInv, StatesInv
<1>3. StatesInv'
  BY <1>1, <1>2, Zenon DEF GuardInv, StatesInv, counters
<1>4. ReqInv'
  BY <1>1 DEF GuardInv, ReqInv, counters
<1> QED
  BY <1>1, <1>3, <1>4, ZenonT(40)

\* A poll that delivers the leases of the tasks ts as the state m has them.
LEMMA DeliverKeeps ==
  ASSUME GuardInv, TypeOK', StatesInv', ReqInv', NEW ts \in SUBSET Tasks, NEW m,
         \A t \in ts : Exists(m, t) /\ m.tasks[t].lease \in Leases,
         RowsOK(m, lastApproval', lastTask'),
         NEW arrives, Deliver(m, ts, arrives), UNCHANGED acked,
         \A i \in held : i.task <= lastTask' /\ HeldOK(i, AllStates'),
         \A r \in acked, s \in AllStates' : WholeOK(r, s),
         \A i : i.task \in ts /\ i.lease = m.tasks[i.task].lease => HeldOK(i, AllStates')
  PROVE  GuardInv'
<1>1. \A i \in held' : i \in held \/ (i.task \in ts /\ i.lease = m.tasks[i.task].lease)
  BY DeliverType, ZenonT(40) DEF GuardInv, TypeOK
<1>2. \A t \in ts : t <= lastTask'
  BY DEF RowsOK, TaskOK, Exists
<1>3. AgentInv'
  BY <1>1, <1>2 DEF AgentInv
<1> QED
  BY <1>3, Zenon DEF GuardInv

\* Every poll.
LEMMA PollKeeps ==
  ASSUME GuardInv, LeasesFit, TypeOK', NEW oc \in Outcomes, NEW arrives \in BOOLEAN,
         Redeliver(oc, arrives) \/ LeaseDurable(oc, arrives) \/ LeaseGeneric(oc, arrives)
  PROVE  GuardInv'
<1>1. CASE Redeliver(oc, arrives)
  <2> DEFINE ts == IF oc = "synced" THEN Redeliveries(live) ELSE {}
  <2>1. /\ Deliver(live, ts, arrives) /\ confirmDurabilityLocked(oc)
        /\ UNCHANGED <<req, counters, ran, acked, dead>>
    BY <1>1 DEF Redeliver
  <2>2. /\ ts \in SUBSET Tasks
        /\ \A t \in ts : /\ Exists(live, t) /\ Durable(live, t) /\ live.tasks[t].lease # 0
                         /\ oc = "synced"
    BY DEF Redeliveries, taskTargetAwaitingResult, Exists, Durable
  <2>3. \A t \in ts : live.tasks[t].lease \in Leases
    BY <2>2, LiveFacts, NetGuardAssumption DEF State, Task, Leases
  <2> HIDE DEF ts
  <2>4. /\ StatesInv' /\ ReqInv' /\ AllStates' \in SUBSET AllStates
        /\ live' = live /\ disk' = disk
    BY <2>1, ConfirmKeeps, Zenon
  <2>5. /\ \A i \in held : i.task <= lastTask' /\ HeldOK(i, AllStates')
        /\ \A r \in acked, s \in AllStates' : WholeOK(r, s)
    BY <2>1, <2>4, HeldSubset, Zenon DEF GuardInv, AgentInv, counters
  <2>6. ASSUME NEW i, i.task \in ts, i.lease = live.tasks[i.task].lease
        PROVE  HeldOK(i, AllStates')
    <3>1. AllStates' = {live, disk}
      BY <2>1, <2>2, <2>6, ConfirmedStates, Zenon DEF GuardInv, StatesInv
    <3>2. i.task \in Tasks /\ Durable(live, i.task) /\ disk.tasks[i.task].lease = i.lease /\ i.lease # 0
      BY <2>2, <2>6, Zenon DEF GuardInv, StatesInv
    <3>3. disk \in AllStates /\ RowsOK(disk, lastApproval, lastTask) /\ Agree(live, disk)
      BY Zenon DEF AllStates, GuardInv, StatesInv
    <3>4. Exists(disk, i.task)
      BY <3>2, <3>3, Zenon DEF RowsOK, TaskOK, Exists
    <3>5. disk.tasks[i.task].approval = live.tasks[i.task].approval
      BY <3>2, <3>3, <3>4, Zenon DEF Agree, Durable, Exists
    <3>6. /\ live.tasks[i.task].approval \in Approvals
          /\ live.approvals[live.tasks[i.task].approval].status # "none"
          /\ disk.approvals[live.tasks[i.task].approval].status # "none"
      BY <3>2, <3>3, <3>4, <3>5, LiveFacts, Zenon DEF RowsOK, TaskOK, Durable, Exists
    <3>7. Durable(disk, i.task)
      BY <3>2, <3>3, <3>4, <3>5, <3>6, Zenon DEF Durable, NetGuardSide, Agree, Exists
    <3> QED
      BY <2>6, <3>1, <3>2, <3>7, Zenon DEF HeldOK
  <2>7. RowsOK(live, lastApproval', lastTask')
    BY <2>1, LiveFacts, Zenon DEF counters
  <2> QED
    BY <2>1, <2>2, <2>3, <2>4, <2>5, <2>6, <2>7, DeliverKeeps, Zenon
<1>2. CASE LeaseDurable(oc, arrives)
  <2> DEFINE ts == FreshDurable(live)
             n == WithLeases(live, ts)
             out == IF oc = "synced" THEN ts ELSE {}
  <2>1. /\ Redeliveries(live) = {} /\ lastLease + Cardinality(ts) <= MaxLeases
        /\ Staged(n, oc) /\ Deliver(n, out, arrives)
        /\ UNCHANGED <<req, lastApproval, lastTask, changes, ran, acked, dead>>
    BY <1>2, Zenon DEF LeaseDurable
  <2>2. /\ ts \in SUBSET Tasks
        /\ \A t \in ts : /\ live.tasks[t].status \in {"queued", "leased"}
                         /\ NetGuardSide(live, t) /\ live.tasks[t].lease = 0
    BY <2>1, Zenon DEF FreshDurable, Redeliveries, taskCanLeaseTarget, taskTargetAwaitingResult
  <2>3. /\ n \in State /\ n.binding = live.binding /\ n.deps = live.deps
        /\ n.approvals = live.approvals
        /\ \A t \in ts : /\ n.tasks[t].status = "leased" /\ n.tasks[t].lease \in Leases
                         /\ n.tasks[t].approval = live.tasks[t].approval
                         /\ n.tasks[t].receipt = live.tasks[t].receipt
        /\ \A t \in Tasks : t \notin ts => n.tasks[t] = live.tasks[t]
    BY <2>1, <2>2, LiveFacts, LeasesWritten, LeasesType, ZenonT(40)
  <2>4. out \in SUBSET ts /\ (out # {} => oc = "synced")
    BY Zenon
  <2> HIDE DEF ts, n, out
  <2>5. \A t \in ts : Exists(live, t) /\ live.tasks[t].receipt = "none"
    BY <2>2, LiveFacts, AwaitingHasNone, Zenon
  <2>6. Follows(n, live, lastApproval, lastTask) /\ RowsOK(n, lastApproval, lastTask)
    <3>1. \A t \in ts : Exists(n, t)
      BY <2>3, Zenon DEF Exists
    <3>2. StatusMoved(n, live)
      BY <2>2, <2>3, <2>5, <3>1, ZenonT(40) DEF StatusMoved
    <3> QED
      BY <3>2, LiveFacts, TaskStatusRows, Zenon
  <2>7. GoodWrite(n, oc)
    BY <2>1, <2>3, <2>6, PlainWrite, Zenon
  <2>8. StatesInv' /\ ReqInv'
    BY <2>1, <2>7, WriteStates, WriteRequests, Zenon DEF GuardInv, ReqInv
  <2>9. /\ \A i \in held : i.task <= lastTask' /\ HeldOK(i, AllStates')
        /\ \A r \in acked, s \in AllStates' : WholeOK(r, s)
    BY <2>7, WriteAgent, Zenon DEF GuardInv
  <2>10. ASSUME NEW i, i.task \in out, i.lease = n.tasks[i.task].lease
         PROVE  HeldOK(i, AllStates')
    <3>1. AllStates' = {n}
      BY <2>1, <2>4, <2>10, SyncedStates, Zenon
    <3>2. Durable(n, i.task)
      BY <2>2, <2>3, <2>4, <2>10, Zenon DEF Durable, NetGuardSide
    <3> QED
      BY <2>10, <3>1, <3>2, Zenon DEF HeldOK
  <2>11. \A t \in out : Exists(n, t) /\ n.tasks[t].lease \in Leases
    BY <2>3, <2>4, Zenon DEF Exists
  <2> QED
    BY <2>1, <2>2, <2>4, <2>6, <2>8, <2>9, <2>10, <2>11, DeliverKeeps, Zenon
<1>3. CASE LeaseGeneric(oc, arrives)
  <2> DEFINE m == DropSuperseded(live)
             ts == FreshGeneric(m)
             n == WithLeases(m, ts)
             out == IF oc # "failed" THEN ts ELSE {}
  <2>1. /\ lastLease + Cardinality(ts) <= MaxLeases
        /\ Staged(n, oc) /\ Deliver(n, out, arrives)
        /\ UNCHANGED <<req, lastApproval, lastTask, changes, ran, acked, dead>>
    BY <1>3, Zenon DEF LeaseGeneric
  <2>2. /\ ts \in SUBSET Tasks
        /\ \A t \in ts : m.tasks[t].status \in {"queued", "leased"} /\ ~NetGuardSide(m, t)
    BY Zenon DEF FreshGeneric, taskCanLeaseTarget, taskTargetAwaitingResult
  <2>3. /\ m \in State /\ m.binding = live.binding /\ m.deps = live.deps
        /\ Follows(m, live, lastApproval, lastTask) /\ RowsOK(m, lastApproval, lastTask)
    BY LiveFacts, SupersededDropped, DropRows, Zenon
  <2> HIDE DEF m
  <2>4. /\ n \in State /\ n.binding = m.binding /\ n.deps = m.deps /\ n.approvals = m.approvals
        /\ \A t \in ts : /\ n.tasks[t].status = "leased" /\ n.tasks[t].lease \in Leases
                         /\ n.tasks[t].approval = m.tasks[t].approval
                         /\ n.tasks[t].receipt = m.tasks[t].receipt
        /\ \A t \in Tasks : t \notin ts => n.tasks[t] = m.tasks[t]
    BY <2>1, <2>2, <2>3, LiveFacts, LeasesWritten, LeasesType, Zenon
  <2>5. out \in SUBSET ts /\ (out # {} => oc # "failed")
    BY Zenon
  <2> HIDE DEF ts, n, out
  <2>6. \A t \in ts : Exists(m, t) /\ m.tasks[t].receipt = "none"
    BY <2>2, <2>3, AwaitingHasNone, Zenon
  <2>7. Follows(n, m, lastApproval, lastTask) /\ RowsOK(n, lastApproval, lastTask)
    <3>1. \A t \in ts : Exists(n, t) /\ ~Durable(m, t)
      BY <2>2, <2>4, Zenon DEF Exists, Durable
    <3>2. StatusMoved(n, m)
      BY <2>4, <2>6, <3>1, Zenon DEF StatusMoved
    <3> QED
      BY <2>3, <3>2, TaskStatusRows, Zenon
  <2>8. Follows(n, live, lastApproval, lastTask)
    BY <2>3, <2>7, LiveFacts, FollowsTwice, Zenon
  <2>9. GoodWrite(n, oc)
    BY <2>1, <2>3, <2>4, <2>7, <2>8, PlainWrite, Zenon
  <2>10. StatesInv' /\ ReqInv'
    BY <2>1, <2>9, WriteStates, WriteRequests, Zenon DEF GuardInv, ReqInv
  <2>11. /\ \A i \in held : i.task <= lastTask' /\ HeldOK(i, AllStates')
         /\ \A r \in acked, s \in AllStates' : WholeOK(r, s)
    BY <2>9, WriteAgent DEF GuardInv
  <2>12. \A t \in out : Exists(n, t) /\ n.tasks[t].lease \in Leases /\ ~NetGuardSide(n, t)
    BY <2>2, <2>4, <2>5, Zenon DEF Exists, NetGuardSide
  <2>13. ASSUME NEW i, i.task \in out PROVE HeldOK(i, AllStates')
    <3>1. live' = n /\ n \in AllStates'
      BY <2>1, <2>5, <2>13, Zenon DEF Staged, AllStates
    <3>2. ASSUME NEW s \in AllStates', Durable(s, i.task) PROVE FALSE
      <4>1. /\ Agree(s, n) /\ RowsOK(s, lastApproval', lastTask') /\ i.task \in Tasks
        BY <2>2, <2>5, <2>10, <2>13, <3>1, Zenon DEF StatesInv
      <4>2. s.tasks[i.task].approval = n.tasks[i.task].approval
        BY <2>12, <2>13, <3>2, <4>1, Zenon DEF Agree, Durable, Exists
      <4>3. /\ n.tasks[i.task].approval \in Approvals
            /\ s.approvals[n.tasks[i.task].approval].status # "none"
            /\ n.approvals[n.tasks[i.task].approval].status # "none"
        BY <2>7, <2>12, <2>13, <3>2, <4>1, <4>2, Zenon DEF RowsOK, TaskOK, Durable, Exists
      <4> QED
        BY <2>12, <2>13, <3>2, <4>1, <4>2, <4>3, Zenon DEF Agree, Durable, NetGuardSide
    <3> QED
      BY <3>2, Zenon DEF HeldOK
  <2> QED
    BY <2>1, <2>2, <2>5, <2>7, <2>10, <2>11, <2>12, <2>13, DeliverKeeps, Zenon
<1> QED
  BY <1>1, <1>2, <1>3, Zenon

\* A completed result that was written.
LEMMA CompleteWrite ==
  ASSUME GuardInv, NEW h \in Handlers, NEW oc \in Outcomes, CompleteNetGuardTaskResult(h, oc),
         taskLeaseMatches(live, req[h].run), req[h].binding.version = live.binding.version,
         Staged(Completed(live, req[h]), oc)
  PROVE  GoodWrite(Completed(live, req[h]), oc) /\ WholeOK(req[h].run, Completed(live, req[h]))
<1> DEFINE q == req[h]
           n == Completed(live, q)
<1>1. /\ q.op = "complete" /\ UNCHANGED <<counters, held, ran, dead>> /\ q \in Request
      /\ ReqOK(q, live, ran, Deleted(changes))
  BY LiveFacts, Zenon DEF CompleteNetGuardTaskResult
<1>2. /\ q.run \in Run /\ q.verdict \in {"applied", "rejected"} /\ q.binding \in Binding
  BY <1>1, RequestFields, Zenon
<1>3. /\ q.run \in ran /\ Durable(live, q.run.task) /\ AppliedOK(live, q.binding, ran)
      /\ q.verdict = "applied" => q.run.ok
  BY <1>1, Zenon DEF ReqOK
<1> HIDE DEF q
<1>4. /\ n \in State /\ Follows(n, live, lastApproval, lastTask)
      /\ RowsOK(n, lastApproval, lastTask) /\ WholeOK(q.run, n)
  BY <1>2, <1>3, LiveFacts, CompletedRows, Zenon DEF q
<1>5. q.run.task \in Tasks /\ live.tasks[q.run.task].approval \in Approvals
  BY <1>2, <1>3, LiveFacts, Zenon DEF Run, RowsOK, TaskOK, Durable
<1>6. /\ n.binding.version = q.binding.version + 1
      /\ n.binding.applied = IF q.verdict = "applied"
                             THEN live.approvals[live.tasks[q.run.task].approval].plan
                             ELSE q.binding.applied
  BY <1>2, <1>5, LiveFacts, ResultWritten, ZenonT(40)
<1> HIDE DEF n
<1>7. AppliedOK(n, n.binding, ran)
  <2>1. CASE q.verdict = "applied"
    <3>1. /\ Exists(n, q.run.task)
          /\ n.approvals[n.tasks[q.run.task].approval].plan = n.binding.applied
      <4> DEFINE u == q.run.task
      <4> HIDE DEF u
      <4>1. u \in Tasks /\ Exists(live, u) /\ RowsOK(live, lastApproval, lastTask)
        BY <1>3, <1>5, LiveFacts, Zenon DEF Durable, Exists, u
      <4>2. /\ Exists(n, u)
            /\ n.approvals[n.tasks[u].approval].plan = live.approvals[live.tasks[u].approval].plan
        BY <1>4, <4>1, DurableFollows, ZenonT(40)
      <4> QED
        BY <1>6, <2>1, <4>2, Zenon DEF u
    <3> QED
      BY <1>3, <2>1, <3>1, Zenon DEF AppliedOK, RunOf
  <2>2. CASE q.verdict # "applied"
    BY <1>3, <1>4, <1>6, <2>2, AppliedFollows, Zenon
  <2> QED
    BY <2>1, <2>2
<1>8. Moves(n, live)
  <2>1. live.binding.version \in Nat /\ n.binding.version = live.binding.version + 1
    BY <1>6, LiveFacts, BindingFields, Zenon DEF q
  <2> QED
    BY <2>1 DEF Moves
<1>9. GoodWrite(n, oc)
  <2>1. Staged(n, oc)
    BY Zenon DEF n, q
  <2>2. UNCHANGED <<lastApproval, lastTask, changes, ran>>
    BY <1>1, Zenon DEF counters
  <2>3. /\ RowsOK(n, lastApproval', lastTask') /\ (Deleted(changes) => Deleted(changes'))
        /\ lastApproval' \in Nat /\ lastApproval <= lastApproval'
        /\ lastTask' \in Nat /\ lastTask <= lastTask' /\ AppliedOK(n, n.binding, ran')
    BY <1>4, <1>7, <2>2, LiveFacts, NextIsLater, Zenon
  <2> QED
    BY <1>4, <1>8, <2>1, <2>2, <2>3, Zenon DEF GoodWrite
<1> QED
  BY <1>4, <1>9, Zenon DEF n, q

\* The steps of a result.
LEMMA ResultKeeps ==
  ASSUME GuardInv, TypeOK', NEW h \in Handlers, Result(h)
  PROVE  GuardInv'
<1>1. ReqOK(req[h], live, ran, Deleted(changes)) /\ req[h] \in Request
  BY LiveFacts, Zenon
<1>2. ASSUME NEW i \in held, NEW ok \in BOOLEAN, ResultGate(h, i, ok) PROVE GuardInv'
  <2> DEFINE r == [task |-> i.task, lease |-> i.lease, ok |-> ok]
  <2>1. /\ ran' = ran \cup {r} /\ Waits(h, [op |-> "judge", run |-> r, attempt |-> 1])
        /\ UNCHANGED <<stateFile, counters, held, acked>>
        /\ live.tasks[i.task].status # "none" /\ NetGuardSide(live, i.task)
    BY <1>2, Zenon DEF ResultGate
  <2>2. r \in Run /\ r.task = i.task
    BY Zenon DEF GuardInv, TypeOK, Run
  <2> HIDE DEF r
  <2>3. [op |-> "judge", run |-> r, attempt |-> 1] \in Request
    <3>1. 1 \in 1..MaxTransitionAttempts
      BY NetGuardAssumption
    <3> QED
      BY <2>2, <3>1, RequestMade, Zenon
  <2>4. Durable(live, r.task) /\ r \in ran'
    BY <2>1, <2>2, Zenon DEF Durable
  <2>5. ReqOK([op |-> "judge", run |-> r, attempt |-> 1], live, ran', Deleted(changes'))
    BY <2>4, RequestOK, Zenon
  <2> QED
    BY <2>1, <2>3, <2>5, ReadStep, Zenon DEF counters
<1>3. CASE ResultJudge(h)
  <2>1. /\ req[h].run \in Run /\ req[h].attempt \in 1..MaxTransitionAttempts
        /\ req[h].run \in ran /\ Durable(live, req[h].run.task)
    BY <1>1, <1>3, RequestFields, Zenon DEF ResultJudge, ReqOK
  <2>2. UNCHANGED <<stateFile, bounds, counters, agent>>
    BY <1>3, Zenon DEF ResultJudge
  <2>3. CASE live.binding.version = 0
    BY <1>3, <2>2, <2>3, AnswerStep, Zenon DEF ResultJudge, agent
  <2>4. CASE live.binding.version # 0
    <3> DEFINE q == [op |-> "complete", run |-> req[h].run, attempt |-> req[h].attempt,
                     verdict |-> Verdict(live, req[h].run), binding |-> live.binding]
    <3>1. Waits(h, q)
      BY <1>3, <2>4, Zenon DEF ResultJudge
    <3>2. Verdict(live, req[h].run) \in {"applied", "rejected"}
      BY Zenon DEF Verdict
    <3>3. q \in Request
      BY <2>1, <3>2, LiveFacts, RequestMade, Zenon
    <3>4. ReqOK(q, live, ran, Deleted(changes))
      BY <2>1, LiveFacts, JudgedOK, Zenon
    <3> QED
      BY <2>2, <3>1, <3>3, <3>4, ReadStep, Zenon DEF counters, agent
  <2> QED
    BY <2>3, <2>4, Zenon
<1>4. ASSUME NEW oc \in Outcomes, CompleteNetGuardTaskResult(h, oc) PROVE GuardInv'
  <2> DEFINE q == req[h]
  <2>1. /\ q.op = "complete" /\ UNCHANGED <<counters, held, ran, dead>>
        /\ q.run \in Run /\ q.attempt \in 1..MaxTransitionAttempts
        /\ q.run \in ran /\ Durable(live, q.run.task)
    BY <1>1, <1>4, RequestFields, Zenon DEF CompleteNetGuardTaskResult, ReqOK
  <2>2. CASE Answer(h) /\ UNCHANGED <<stateFile, bounds, acked>>
    BY <2>1, <2>2, AnswerStep, Zenon
  <2>3. CASE /\ Waits(h, [op |-> "judge", run |-> q.run, attempt |-> q.attempt + 1])
             /\ q.attempt < MaxTransitionAttempts /\ UNCHANGED <<stateFile, bounds, acked>>
    <3>1. q.attempt + 1 \in 1..MaxTransitionAttempts
      <4> DEFINE k == q.attempt
      <4>1. k \in 1..MaxTransitionAttempts /\ k < MaxTransitionAttempts
        BY <2>1, <2>3, Zenon
      <4> HIDE DEF k
      <4>2. k + 1 \in 1..MaxTransitionAttempts
        BY <4>1, NetGuardAssumption
      <4> QED
        BY <4>2, Zenon DEF k
    <3>2. [op |-> "judge", run |-> q.run, attempt |-> q.attempt + 1] \in Request
      BY <2>1, <3>1, RequestMade, Zenon
    <3>3. ReqOK([op |-> "judge", run |-> q.run, attempt |-> q.attempt + 1], live, ran,
                Deleted(changes))
      BY <2>1, RequestOK, Zenon
    <3> QED
      BY <2>1, <2>3, <3>2, <3>3, ReadStep, Zenon DEF counters
  <2>4. CASE /\ taskLeaseMatches(live, q.run) /\ q.binding.version = live.binding.version
             /\ Staged(Completed(live, q), oc) /\ Answer(h)
             /\ acked' = IF oc = "synced" THEN acked \cup {q.run} ELSE acked
    <3> DEFINE n == Completed(live, q)
    <3>1. GoodWrite(n, oc) /\ WholeOK(q.run, n) /\ Staged(n, oc)
      BY <1>4, <2>4, CompleteWrite, Zenon
    <3> HIDE DEF n
    <3>2. StatesInv'
      BY <3>1, WriteStates, Zenon DEF GuardInv
    <3>3. /\ \A i \in held : i.task <= lastTask' /\ HeldOK(i, AllStates')
          /\ \A r \in acked, s \in AllStates' : WholeOK(r, s)
      BY <3>1, WriteAgent, Zenon DEF GuardInv
    <3>4. oc = "synced" => AllStates' = {n}
      BY <3>1, SyncedStates, Zenon
    <3>5. AgentInv'
      BY <2>1, <2>4, <3>1, <3>3, <3>4, Zenon DEF AgentInv
    <3>6. ReqInv'
      <4>1. \A g \in Handlers : ReqOK(req[g], live', ran', Deleted(changes'))
        BY <3>1, WriteRequests, Zenon DEF GuardInv
      <4>2. req'[h] = Idle /\ \A g \in Handlers : g # h => req'[g] = req[g]
        BY <2>4, LiveFacts, RequestStep, Zenon
      <4> QED
        BY <4>1, <4>2, IdleOK, Zenon DEF ReqInv
    <3> QED
      BY <3>2, <3>5, <3>6, Zenon DEF GuardInv
  <2> QED
    BY <1>4, <2>2, <2>3, <2>4, Zenon DEF CompleteNetGuardTaskResult
<1> QED
  BY <1>2, <1>3, <1>4, Zenon DEF Result

\* A result answered again.
LEMMA ReplayKeeps ==
  ASSUME GuardInv, TypeOK', NEW i \in held, NEW oc \in Outcomes, ResultReplay(i, oc)
  PROVE  GuardInv'
<1>1. confirmDurabilityLocked(oc) /\ UNCHANGED <<req, counters, held, ran, dead>>
  BY Zenon DEF ResultReplay
<1>2. PICK r \in ran : /\ r.task = i.task /\ r.lease = i.lease
                       /\ live.tasks[i.task].receipt = Answers(r.ok)
                       /\ live.tasks[i.task].lease = i.lease
                       /\ acked' = IF oc = "synced" THEN acked \cup {r} ELSE acked
  BY DEF ResultReplay, Runs
<1>3. /\ StatesInv' /\ ReqInv' /\ AllStates' \in SUBSET AllStates /\ live' = live /\ disk' = disk
  BY <1>1, ConfirmKeeps, Zenon
<1>4. i.task \in Tasks /\ live.tasks[i.task].receipt # "none" /\ disk.tasks[i.task] = live.tasks[i.task]
  BY <1>2, Zenon DEF GuardInv, TypeOK, StatesInv, Answers
<1>5. ASSUME NEW s \in {live, disk} PROVE WholeOK(r, s)
  <2>1. RowsOK(s, lastApproval, lastTask) /\ s.tasks[i.task] = live.tasks[i.task]
    BY <1>4, Zenon DEF GuardInv, StatesInv, AllStates
  <2>2. TaskOK(s, i.task, lastTask)
    BY <1>4, <2>1, Zenon DEF RowsOK
  <2>3. Decided(s, s.tasks[i.task].approval)
    BY <1>4, <2>1, <2>2, Zenon DEF TaskOK
  <2> QED
    BY <1>2, <2>1, <2>2, <2>3, Zenon DEF WholeOK, TaskOK, Answers
<1>6. \A s \in AllStates' : oc = "synced" => s \in {live, disk}
  BY <1>1, ConfirmedStates, Zenon DEF GuardInv, StatesInv
<1>7. AgentInv'
  <2>1. \A j \in held : j.task <= lastTask /\ HeldOK(j, AllStates')
    BY <1>3, HeldSubset, Zenon DEF GuardInv, AgentInv
  <2>2. \A k \in acked', s \in AllStates' : WholeOK(k, s)
    BY <1>2, <1>3, <1>5, <1>6, Zenon DEF GuardInv, AgentInv
  <2> QED
    BY <1>1, <2>1, <2>2, Zenon DEF AgentInv, counters
<1> QED
  BY <1>3, <1>7, Zenon DEF GuardInv

\* A process death.
LEMMA CrashKeeps ==
  ASSUME GuardInv, TypeOK', NEW kind, NEW oc, Crash(kind, oc)
  PROVE  GuardInv'
<1>1. /\ Restart(kind, oc) /\ req' = [h \in Handlers |-> Idle] /\ UNCHANGED <<counters, agent>>
  BY DEF Crash
<1>2. /\ AllStates' \in SUBSET AllStates /\ live' = disk'
      /\ live' = disk \/ AllStates' = {live'}
  BY <1>1, RestartStates, RestartReads, Zenon
<1>3. Settled'
  BY <1>1, SettledKept, Zenon DEF GuardInv, StatesInv
<1>4. \A s \in AllStates', a \in Approvals :
        s.approvals[a].status = "applied" => Decided(live', a) /\ Decided(disk', a)
  <2>1. CASE live' = disk
    BY <1>2, <2>1, Zenon DEF GuardInv, StatesInv
  <2>2. CASE AllStates' = {live'}
    BY <1>2, <2>2, Zenon DEF Decided
  <2> QED
    BY <1>2, <2>1, <2>2, Zenon
<1>5. /\ \A s \in AllStates' : RowsOK(s, lastApproval', lastTask') /\ AppliedOK(s, s.binding, ran')
      /\ \A s, u \in AllStates' : Agree(s, u)
  BY <1>1, <1>2, Zenon DEF GuardInv, StatesInv, counters, agent
<1>6. StatesInv'
  BY <1>2, <1>3, <1>4, <1>5, Zenon DEF StatesInv
<1>7. AgentInv'
  BY <1>1, <1>2, HeldSubset, Zenon DEF GuardInv, AgentInv, counters, agent
<1>8. ReqInv'
  BY <1>1, IdleOK DEF ReqInv
<1> QED
  BY <1>6, <1>7, <1>8, Zenon DEF GuardInv
=============================================================================
