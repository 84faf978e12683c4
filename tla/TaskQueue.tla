------------------------------ MODULE TaskQueue ------------------------------
(***************************************************************************)
(* One-shot tasks: the queue an operator fills, the polls that lease its   *)
(* tasks to the agents of their targets, and the results the agents post.  *)
(* Store.mu makes every store call atomic; an HTTP handler makes several,  *)
(* and the result handler checks the lease in one and commits in another.  *)
(*                                                                         *)
(* Time is abstracted to what the code compares it with: a lease that has  *)
(* outlived its timeout and margin is in dead, a task older than the queue *)
(* deadline in pastDeadline.  Lease ids are random and fresh: 1, 2, ...    *)
(* Tasks are numbered in order of creation.                                *)
(***************************************************************************)
EXTENDS StateFile

CONSTANTS
  Nodes, Handlers,     \* agents, and concurrent result requests
  MaxTasks,            \* bound: tasks ever created
  MaxLeases,           \* bound: leases ever issued
  MaxAppended,         \* bound: results ever recorded
  PollLimit,           \* deliveries per poll (the code passes 3)
  MaxTaskLeaseAttempts,
  MaxTaskResults,      \* maxTaskResults, the cap of the result history
  QueueDeadline,       \* BOOLEAN: a queue deadline is configured
  UpdateTasks          \* tasks filed by an agent update approval

ASSUME TaskQueueAssumption ==
  /\ MaxTasks \in Nat /\ MaxLeases \in Nat /\ MaxAppended \in Nat /\ PollLimit \in Nat
  /\ MaxTaskLeaseAttempts \in Nat \ {0} /\ MaxTaskResults \in Nat \ {0}
  /\ QueueDeadline \in BOOLEAN

Tasks == 1..MaxTasks
Leases == 1..MaxLeases

VARIABLES
  created,       \* how many tasks were ever created
  lastLease,     \* the last lease id drawn
  issued,        \* history: the leases committed so far, [lease, task, node]
  held,          \* leases whose delivery reached the agent
  ran,           \* runs whose end an agent posted, [lease, ok]
  posting,       \* result requests past the lease gate, per handler {} or {post}
  appended,      \* how many results were ever recorded
  acked,         \* history: leases whose result request was answered 200
  pruned,        \* history: leases whose result the cap dropped
  dead, pastDeadline, \* what the clock says
  outranked      \* <<task, node>>: the node runs, or was given, a newer agent

agents == <<held, ran>>
clock == <<dead, pastDeadline, outranked>>
history == <<acked, pruned>>
vars == <<stateFile, bounds, created, lastLease, issued, agents, posting, appended,
          history, clock>>

-----------------------------------------------------------------------------
(* The part of State the queue uses.  status "none" is an absent row.      *)

Status == {"none", "queued", "leased", "finished", "failed", "cancelled"}
Result == [no : Nat, task : Tasks, node : Nodes, lease : Leases, ok : BOOLEAN]
State == [status : [Tasks -> Status],
          targets : [Tasks -> SUBSET Nodes],
          lease : [Tasks -> [Nodes -> 0..MaxLeases]],   \* TargetLeases, 0: none
          attempts : [Tasks -> [Nodes -> Nat]],         \* TaskTargetStates
          stalled : [Tasks -> SUBSET Nodes],            \* StalledReason set
          results : SUBSET Result]

Post == [task : Tasks, node : Nodes, lease : Leases, ok : BOOLEAN]

emptyState ==
  [status |-> [t \in Tasks |-> "none"],
   targets |-> [t \in Tasks |-> {}],
   lease |-> [t \in Tasks |-> [n \in Nodes |-> 0]],
   attempts |-> [t \in Tasks |-> [n \in Nodes |-> 0]],
   stalled |-> [t \in Tasks |-> {}],
   results |-> {}]

ResultsOf(rs, t, n) == {r \in rs : r.task = t /\ r.node = n}

taskLeaseExpired(l) == l \in dead

taskPastQueueDeadline(t) == QueueDeadline /\ t \in pastDeadline

\* Mutant: a live lease does not keep the task from being handed out again.
canLeaseWhileLive(s, t, n) ==
  /\ n \in s.targets[t]
  /\ s.status[t] \in {"queued", "leased"}
  /\ ~taskPastQueueDeadline(t) /\ n \notin s.stalled[t]
  /\ ResultsOf(s.results, t, n) = {}

taskCanLeaseTarget(s, t, n) ==
  /\ n \in s.targets[t]
  /\ s.status[t] \in {"queued", "leased"}
  /\ ~taskPastQueueDeadline(t) /\ n \notin s.stalled[t]
  /\ ResultsOf(s.results, t, n) = {}
  /\ s.lease[t][n] = 0 \/ taskLeaseExpired(s.lease[t][n])

\* A lease recorded before attempts were counted is one attempt.
Attempts(s, t, n) ==
  IF s.lease[t][n] # 0 /\ s.attempts[t][n] = 0 THEN 1 ELSE s.attempts[t][n]

agentUpdateSuperseded(t, n) == t \in UpdateTasks /\ <<t, n>> \in outranked

\* The lease died without a result, and it was the last one this target gets.
GivesUp(s, t, n) ==
  s.lease[t][n] # 0 /\ (\/ agentUpdateSuperseded(t, n)
                        \/ Attempts(s, t, n) >= MaxTaskLeaseAttempts)

-----------------------------------------------------------------------------
(* Operators of the task API.                                              *)

\* handleTasks, and queueTaskFor for a task nothing refuses.  handleRerunTask
\* ends here too: the copy is a new task for the targets of the old one.
CreateTask(ts, oc) ==
  LET t == created + 1
      s == [live EXCEPT !.status[t] = "queued", !.targets[t] = ts]
  IN /\ created < MaxTasks /\ ts # {}
     /\ created' = t
     /\ Save(s, oc)
     /\ UNCHANGED <<lastLease, issued, agents, posting, appended, history, clock>>

CancelTask(t, oc) ==
  /\ live.status[t] \in {"queued", "leased"}
  /\ Save([live EXCEPT !.status[t] = "cancelled"], oc)
  /\ UNCHANGED <<created, lastLease, issued, agents, posting, appended, history, clock>>

\* The row, its target states and its results go.
DeleteTask(t, oc) ==
  /\ live.status[t] # "none"
  /\ Save([live EXCEPT !.status[t] = "none", !.targets[t] = {},
                       !.lease[t] = [n \in Nodes |-> 0],
                       !.attempts[t] = [n \in Nodes |-> 0],
                       !.stalled[t] = {},
                       !.results = {r \in @ : r.task # t}], oc)
  /\ UNCHANGED <<created, lastLease, issued, agents, posting, appended, history, clock>>

-----------------------------------------------------------------------------
(* A poll: leaseTaskDeliveries for tasks of no durable protocol.           *)

Leasable(s, n) == {t \in Tasks : taskCanLeaseTarget(s, t, n) /\ ~GivesUp(s, t, n)}

\* The walk is oldest first and ends once PollLimit tasks are handed out.
Reached(s, n, t) == Cardinality({u \in Leasable(s, n) : u < t}) < PollLimit

HandedOut(s, n) == {t \in Leasable(s, n) : Reached(s, n, t)}

GivenUp(s, n) ==
  {t \in Tasks : taskCanLeaseTarget(s, t, n) /\ GivesUp(s, t, n) /\ Reached(s, n, t)}

LeaseFor(s, n, t) ==
  lastLease + Cardinality({u \in HandedOut(s, n) : u <= t})

Leased(s, n) ==
  [s EXCEPT
     !.status = [t \in Tasks |-> IF t \in HandedOut(s, n) THEN "leased" ELSE s.status[t]],
     !.lease = [t \in Tasks |-> IF t \in HandedOut(s, n)
                                  THEN [s.lease[t] EXCEPT ![n] = LeaseFor(s, n, t)]
                                  ELSE s.lease[t]],
     !.attempts = [t \in Tasks |->
                     IF t \in HandedOut(s, n)
                       THEN [s.attempts[t] EXCEPT ![n] = Attempts(s, t, n) + 1]
                       ELSE IF t \in GivenUp(s, n)
                              THEN [s.attempts[t] EXCEPT ![n] = Attempts(s, t, n)]
                              ELSE s.attempts[t]],
     !.stalled = [t \in Tasks |-> IF t \in GivenUp(s, n) THEN s.stalled[t] \cup {n}
                                                         ELSE s.stalled[t]]]

NewLeases(s, n) ==
  {[lease |-> LeaseFor(s, n, t), task |-> t, node |-> n] : t \in HandedOut(s, n)}

\* Mutant: nothing is written when there is nothing to hand out.
LeaseTasksSkipsEmptyWrite(n, oc, arrives) ==
  /\ HandedOut(live, n) \cup GivenUp(live, n) # {}
  /\ lastLease + Cardinality(HandedOut(live, n)) <= MaxLeases
  /\ IF HandedOut(live, n) = {}
       THEN live' = Leased(live, n) /\ UNCHANGED <<disk, recoverable, degraded, bounds>>
       ELSE Staged(Leased(live, n), oc)
  /\ lastLease' = lastLease + Cardinality(HandedOut(live, n))
  /\ issued' = issued \cup NewLeases(live, n)
  /\ held' = held \cup {i.lease : i \in NewLeases(live, n)}
  /\ UNCHANGED <<created, ran, posting, appended, history, clock>>

\* The state is written before the response.  A committed write whose
\* directory sync failed is answered all the same: these tasks have no
\* redelivery.  The response may be lost on its way (~arrives).
LeaseTasks(n, oc, arrives) ==
  /\ HandedOut(live, n) \cup GivenUp(live, n) # {}
  /\ lastLease + Cardinality(HandedOut(live, n)) <= MaxLeases
  /\ Staged(Leased(live, n), oc)
  /\ IF oc = "failed"
       THEN UNCHANGED <<lastLease, issued, held>>
       ELSE /\ lastLease' = lastLease + Cardinality(HandedOut(live, n))
            /\ issued' = issued \cup NewLeases(live, n)
            /\ held' = IF arrives
                         THEN held \cup {i.lease : i \in NewLeases(live, n)}
                         ELSE held
  /\ UNCHANGED <<created, ran, posting, appended, history, clock>>

-----------------------------------------------------------------------------
(* The agent runs a delivered lease once; it may post the result more than *)
(* once, and late.                                                         *)

\* handleAgentTaskResult up to its commit: the task is read and its lease
\* checked.  The lock is released in between.
requireTaskLease(h, i, ok) ==
  /\ posting[h] = {} /\ i.lease \in held /\ appended < MaxAppended
  /\ \A r \in ran : r.lease = i.lease => r.ok = ok
  /\ live.status[i.task] = "leased" /\ live.lease[i.task][i.node] = i.lease
  /\ ran' = ran \cup {[lease |-> i.lease, ok |-> ok]}
  /\ posting' = [posting EXCEPT ![h] =
       {[task |-> i.task, node |-> i.node, lease |-> i.lease, ok |-> ok]}]
  /\ UNCHANGED <<stateFile, bounds, created, lastLease, issued, held, appended,
                 history, clock>>

\* Mutant: the result recorded last counts, whenever its run ended.
LastRecordedOk(rs) == \E r \in rs : r.ok /\ \A q \in rs : q.no <= r.no

\* The node's latest result by FinishedAt, the first recorded among equals.
LatestOk(rs) ==
  \E r \in rs : /\ r.ok
                /\ \A q \in rs : q.lease < r.lease \/ (q.lease = r.lease /\ q.no >= r.no)

\* Mutant: the first answer settles the task.
firstAnswerSettles(t, targets, rs) ==
  IF \A n \in targets : ResultsOf(rs, t, n) = {} THEN "leased"
  ELSE IF \E n \in targets : ResultsOf(rs, t, n) # {} /\ ~LatestOk(ResultsOf(rs, t, n))
         THEN "failed" ELSE "finished"

taskAggregateStatus(t, targets, rs) ==
  IF \E n \in targets : ResultsOf(rs, t, n) = {} THEN "leased"
  ELSE IF \E n \in targets : ~LatestOk(ResultsOf(rs, t, n)) THEN "failed"
  ELSE "finished"

\* The history keeps the newest MaxTaskResults rows.
Oldest(rs) == {r \in rs : \A q \in rs : r.no <= q.no}
Dropped(rs) == IF Cardinality(rs) > MaxTaskResults THEN Oldest(rs) ELSE {}

WithResult(s, p) ==
  LET all == s.results \cup {[no |-> appended + 1, task |-> p.task, node |-> p.node,
                              lease |-> p.lease, ok |-> p.ok]}
      kept == all \ Dropped(all)
  IN [s EXCEPT !.results = kept,
               !.status[p.task] = IF @ = "none" THEN @
                                  ELSE taskAggregateStatus(p.task, s.targets[p.task], kept)]

\* Mutant: the request is answered 200 although the write is not durable.
AddTaskResultAcksEarly(h, p, oc) ==
  LET s == WithResult(live, p) IN
  /\ p \in posting[h]
  /\ posting' = [posting EXCEPT ![h] = {}]
  /\ Staged(s, oc)
  /\ appended' = IF oc = "failed" THEN appended ELSE appended + 1
  /\ acked' = IF oc # "failed" THEN acked \cup {p.lease} ELSE acked
  /\ pruned' = pruned
  /\ UNCHANGED <<created, lastLease, issued, agents, clock>>

\* AddTaskResultWithContext and the response: nothing is checked again.
AddTaskResult(h, p, oc) ==
  LET s == WithResult(live, p)
      lost == {r.lease : r \in live.results \ s.results}
  IN /\ p \in posting[h]
     /\ posting' = [posting EXCEPT ![h] = {}]
     /\ Staged(s, oc)
     /\ appended' = IF oc = "failed" THEN appended ELSE appended + 1
     /\ acked' = IF oc = "synced" THEN acked \cup {p.lease} ELSE acked
     /\ pruned' = IF oc = "failed" THEN pruned ELSE pruned \cup lost
     /\ UNCHANGED <<created, lastLease, issued, agents, clock>>

-----------------------------------------------------------------------------
(* Time, versions and process deaths.                                      *)

\* timeout_sec plus the five minute margin have passed since the lease.
Expire(l) ==
  /\ l \in {i.lease : i \in issued} \ dead
  /\ dead' = dead \cup {l}
  /\ UNCHANGED <<stateFile, bounds, created, lastLease, issued, agents, posting,
                 appended, history, pastDeadline, outranked>>

PassDeadline(t) ==
  /\ QueueDeadline /\ t <= created /\ t \notin pastDeadline
  /\ pastDeadline' = pastDeadline \cup {t}
  /\ UNCHANGED <<stateFile, bounds, created, lastLease, issued, agents, posting,
                 appended, history, dead, outranked>>

\* A heartbeat, or another update, puts a newer agent on the node.
Outrank(t, n) ==
  /\ t \in UpdateTasks /\ t <= created /\ <<t, n>> \notin outranked
  /\ outranked' = outranked \cup {<<t, n>>}
  /\ UNCHANGED <<stateFile, bounds, created, lastLease, issued, agents, posting,
                 appended, history, dead, pastDeadline>>

\* Requests in flight are gone; the agents live on.
Crash(kind, oc) ==
  /\ Restart(kind, oc)
  /\ posting' = [h \in Handlers |-> {}]
  /\ UNCHANGED <<created, lastLease, issued, agents, appended, history, clock>>

Init ==
  /\ InitStateFile(emptyState)
  /\ created = 0 /\ lastLease = 0 /\ issued = {} /\ held = {} /\ ran = {}
  /\ posting = [h \in Handlers |-> {}] /\ appended = 0
  /\ acked = {} /\ pruned = {}
  /\ dead = {} /\ pastDeadline = {} /\ outranked = {}

Poll(n) == \E oc \in Outcomes, arrives \in BOOLEAN : LeaseTasks(n, oc, arrives)

PostResult(h) == \E i \in issued, ok \in BOOLEAN : requireTaskLease(h, i, ok)

CommitResult(h) == \E p \in posting[h], oc \in Outcomes : AddTaskResult(h, p, oc)

Next ==
  \/ \E ts \in SUBSET Nodes, oc \in Outcomes : CreateTask(ts, oc)
  \/ \E t \in Tasks, oc \in Outcomes : CancelTask(t, oc)
  \/ \E t \in Tasks, oc \in Outcomes : DeleteTask(t, oc)
  \/ \E n \in Nodes : Poll(n)
  \/ \E h \in Handlers : PostResult(h)
  \/ \E h \in Handlers : CommitResult(h)
  \/ \E l \in Leases : Expire(l)
  \/ \E t \in Tasks : PassDeadline(t)
  \/ \E t \in Tasks, n \in Nodes : Outrank(t, n)
  \/ \E kind \in Crashes, oc \in Outcomes : Crash(kind, oc)

Spec == Init /\ [][Next]_vars

-----------------------------------------------------------------------------
(* Properties.                                                             *)

\* Memory, file and everything a power loss may bring back are states of the
\* queue, and leases stay within the ids drawn.
TypeOK ==
  /\ live \in State /\ disk \in State /\ recoverable \subseteq State
  /\ degraded \in BOOLEAN /\ faults \in Nat /\ crashes \in Nat
  /\ created \in 0..MaxTasks /\ lastLease \in 0..MaxLeases
  /\ issued \subseteq [lease : Leases, task : Tasks, node : Nodes]
  /\ held \subseteq Leases /\ ran \subseteq [lease : Leases, ok : BOOLEAN]
  /\ posting \in [Handlers -> SUBSET Post] /\ appended \in Nat
  /\ acked \subseteq Leases /\ pruned \subseteq Leases
  /\ dead \subseteq Leases /\ pastDeadline \subseteq Tasks
  /\ outranked \subseteq Tasks \X Nodes

\* A result the server answered 200 to is in the state a restart reads, after
\* a power loss too, unless its task was deleted or the cap of the history
\* dropped it: AddTaskResultWithContext reports an error for every write that
\* is not yet durable, and nothing else removes a result.
AckedKept ==
  \A i \in issued : i.lease \in acked \ pruned =>
    \A s \in recoverable \cup {live, disk} :
      \/ s.status[i.task] = "none"
      \/ \E r \in s.results : r.lease = i.lease

\* Two agents' runs of one task for one node never overlap: while a lease is
\* within its timeout no second one is issued for that target, whatever writes
\* fail and whenever the process is restarted.
OneLiveLease ==
  \A i, j \in issued :
    i.task = j.task /\ i.node = j.node /\ i.lease \notin dead /\ j.lease \notin dead
      => i = j

\* "MaxTaskLeaseAttempts is how many times a target may be handed a task whose
\* lease keeps dying without a result": no target is ever leased more often,
\* across restarts and failing writes.
AttemptsBounded ==
  \A t \in Tasks, n \in Nodes :
    Cardinality({i \in issued : i.task = t /\ i.node = n}) <= MaxTaskLeaseAttempts

\* A task is reported finished only after every one of its targets has ended a
\* run of it with success.
FinishedMeansAll ==
  \A t \in Tasks : live.status[t] = "finished" =>
    \A n \in live.targets[t] : \E i \in issued, r \in ran :
      i.task = t /\ i.node = n /\ r.lease = i.lease /\ r.ok

\* The queue keeps its rows, hands a target out no more often than it promises
\* and reports a task finished only when every target ended well
\* (leaseTaskForNodeLocked, AddTaskResultWithContext).
QueueSound == TypeOK /\ AttemptsBounded /\ FinishedMeansAll

\* Results may be committed in another order than the runs ended in: only the
\* result of a run later than those recorded can take "finished" back, never a
\* late request of an earlier run or a repeated one.  (A restart may: the task
\* was finished in a state whose write had failed.)
LatestRunDecides ==
  [][\A t \in Tasks :
       crashes' = crashes
         /\ live.status[t] = "finished" /\ live'.status[t] \notin {"finished", "none"} =>
         \E r \in live'.results \ live.results :
           \A q \in ResultsOf(live.results, t, r.node) : q.lease < r.lease]_vars

\* "Once set it is final: nothing clears it short of deleting the task."
\* (StalledReason), and neither is such a target leased again.  Only a power
\* loss that brings back an older file undoes it.
StallIsFinal ==
  [][crashes' = crashes \/ live' = disk =>
       \A t \in Tasks : \A n \in live.stalled[t] :
         \/ live'.status[t] = "none"
         \/ n \in live'.stalled[t] /\ live'.lease[t][n] = live.lease[t][n]]_vars

Answered(t, n) ==
  \E i \in issued : i.task = t /\ i.node = n /\ i.lease \in acked

\* A lease is issued again only because the one before "died without a
\* result": a target whose result was acknowledged is never handed the task
\* again.
AnsweredNotRerun ==
  [][\A i \in issued' \ issued : ~Answered(i.task, i.node)]_vars

\* The outcome of the last run of a target stands: it is neither run again nor
\* overtaken by the result of an earlier run (AddTaskResultWithContext).
LastRunStands == AnsweredNotRerun /\ LatestRunDecides

\* "the server stops offering redelivery and the lease gate refuses any late
\* result": a cancelled task keeps that status until it is deleted.
\* TLC refutes it (README.md, section 6).
CancelHolds ==
  [][\A t \in Tasks : live.status[t] = "cancelled" =>
       live'.status[t] \in {"cancelled", "none"}]_vars

\* The store waits for this target's result.
Owes(t, n) ==
  /\ n \in live.targets[t] /\ live.status[t] \in {"queued", "leased"}
  /\ ResultsOf(live.results, t, n) = {} /\ n \notin live.stalled[t]
  /\ ~taskPastQueueDeadline(t)
=============================================================================
