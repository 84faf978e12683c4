---------------------------- MODULE TaskQueueRuns ----------------------------
(***************************************************************************)
(* Leases and runs of TaskQueue for any number of nodes, tasks, leases,    *)
(* results and handlers: a target is under one lease at a time and is      *)
(* handed a task a bounded number of times, a task is finished only when   *)
(* its runs are, and the last run of a target stands.                      *)
(***************************************************************************)
EXTENDS TaskQueueProofs

-----------------------------------------------------------------------------
(* Leases.  Neither property is inductive: that the lease on record is the *)
(* one that may still run, and that the attempts on record are the leases  *)
(* ever issued, must hold of memory and of the file a restart reads.       *)

Given(t, n) == {i \in issued : i.task = t /\ i.node = n}

\* The lease on record for a target is the one that may still run.
Holds(s) ==
  \A i \in issued : \/ s.status[i.task] = "none" \/ i.lease \in dead
                    \/ s.lease[i.task][i.node] = i.lease

\* a attempts, the last of them under the lease l, are the leases issued.
Tally(l, a, t, n) == a = Cardinality(Given(t, n)) /\ (l = 0 <=> Given(t, n) = {})

\* A row counts the leases ever issued for a target; a row that is gone counts none.
Counts(s) ==
  \A t \in Tasks, n \in Nodes :
    /\ s.status[t] = "none" => s.lease[t][n] = 0 /\ s.attempts[t][n] = 0
    /\ s.status[t] # "none" => Tally(s.lease[t][n], s.attempts[t][n], t, n)

GivenInv ==
  /\ OneLiveLease /\ AttemptsBounded
  /\ \A t \in Tasks, n \in Nodes : IsFiniteSet(Given(t, n))
  /\ Holds(live) /\ Holds(disk) /\ Counts(live) /\ Counts(disk)

-----------------------------------------------------------------------------
(* What a poll adds to the leases.                                         *)

NewLease(n, t) == [lease |-> LeaseFor(live, n, t), task |-> t, node |-> n]

\* A task is handed out as a lease of its own that nobody was given before.
LEMMA NewLeaseFacts ==
  ASSUME TypeOK, LeasesInv, NEW n \in Nodes, NEW t \in HandedOut(live, n)
  PROVE  /\ NewLease(n, t) \in NewLeases(live, n) /\ NewLease(n, t) \notin issued
         /\ NewLease(n, t).task = t /\ NewLease(n, t).node = n
         /\ NewLease(n, t).lease = LeaseFor(live, n, t) /\ LeaseFor(live, n, t) # 0
<1>1. /\ NewLease(n, t) \in NewLeases(live, n)
      /\ NewLease(n, t).task = t /\ NewLease(n, t).node = n
      /\ NewLease(n, t).lease = LeaseFor(live, n, t)
  BY Zenon DEF NewLease, NewLeases
<1>2. lastLease \in 0..MaxLeases /\ \A i \in issued : i.lease <= lastLease /\ i.lease \in Leases
  BY Zenon DEF TypeOK, LeasesInv
<1>3. LeaseFor(live, n, t) \in lastLease + 1 .. lastLease + Cardinality(HandedOut(live, n))
  BY <1>2, LeaseForRange
<1>4. LeaseFor(live, n, t) > lastLease /\ LeaseFor(live, n, t) # 0
  BY <1>2, <1>3
<1>5. \A i \in issued : i.lease # LeaseFor(live, n, t)
  BY <1>2, <1>4 DEF Leases
<1> QED
  BY <1>1, <1>4, <1>5, Zenon

\* Nothing but these leases is new.
LEMMA OnlyNewLeases ==
  ASSUME NEW n, NEW i \in NewLeases(live, n)
  PROVE  \E t \in HandedOut(live, n) : i = NewLease(n, t)
BY Zenon DEF NewLease, NewLeases

\* What is handed out is a row whose last lease for the node is over.
LEMMA HandedOutFacts ==
  ASSUME NEW n \in Nodes, NEW t \in HandedOut(live, n)
  PROVE  /\ t \in Tasks /\ live.status[t] # "none"
         /\ live.lease[t][n] = 0 \/ live.lease[t][n] \in dead
         /\ live.lease[t][n] # 0 => ~(Attempts(live, t, n) >= MaxTaskLeaseAttempts)
<1>1. t \in Tasks /\ taskCanLeaseTarget(live, t, n) /\ ~GivesUp(live, t, n)
  BY Zenon DEF HandedOut, Leasable
<1> QED
  BY <1>1, Zenon DEF taskCanLeaseTarget, GivesUp, taskLeaseExpired

\* A poll that was written.
Polled(n) ==
  /\ n \in Nodes /\ live' = Leased(live, n) /\ disk' = Leased(live, n)
  /\ issued' = issued \cup NewLeases(live, n) /\ dead' = dead

\* It adds one lease to each target it hands out,
LEMMA GivenGrows ==
  ASSUME TypeOK, LeasesInv, NEW n, Polled(n), NEW t \in HandedOut(live, n)
  PROVE  Given(t, n)' = Given(t, n) \cup {NewLease(n, t)}
<1>1. n \in Nodes /\ issued' = issued \cup NewLeases(live, n)
  BY Zenon DEF Polled
<1>2. \A i \in NewLeases(live, n) : i.task = t => i = NewLease(n, t)
  BY DEF NewLease, NewLeases
<1>3. /\ NewLease(n, t) \in NewLeases(live, n)
      /\ NewLease(n, t).task = t /\ NewLease(n, t).node = n
  BY Zenon DEF NewLease, NewLeases
<1>4. \A i : i \in Given(t, n)' => i \in Given(t, n) \cup {NewLease(n, t)}
  BY <1>1, <1>2, Zenon DEF Given
<1>5. \A i : i \in Given(t, n) \cup {NewLease(n, t)} => i \in Given(t, n)'
  BY <1>1, <1>3, Zenon DEF Given
<1> QED
  BY <1>4, <1>5, Zenon

\* and none to another.
LEMMA GivenStays ==
  ASSUME NEW n, Polled(n), NEW t, NEW m, ~(t \in HandedOut(live, n) /\ m = n)
  PROVE  Given(t, m)' = Given(t, m)
<1>1. issued' = issued \cup NewLeases(live, n)
  BY Zenon DEF Polled
<1>2. \A i \in NewLeases(live, n) : i.task \in HandedOut(live, n) /\ i.node = n
  BY DEF NewLeases
<1>3. \A i : i \in Given(t, m)' => i \in Given(t, m)
  BY <1>1, <1>2, Zenon DEF Given
<1>4. \A i : i \in Given(t, m) => i \in Given(t, m)'
  BY <1>1, Zenon DEF Given
<1> QED
  BY <1>3, <1>4, Zenon

\* No lease of a target that is handed out again is still within its time.
LEMMA OldLeasesDead ==
  ASSUME TypeOK, Holds(live), NEW n \in Nodes, NEW t \in HandedOut(live, n),
         NEW i \in Given(t, n)
  PROVE  i.lease \in dead
<1>1. i \in issued /\ i.task = t /\ i.node = n
  BY Zenon DEF Given
<1>2. i.lease \in Leases
  BY <1>1, Zenon DEF TypeOK
<1>3. i.lease # 0
  BY <1>2 DEF Leases
<1>4. /\ live.status[t] # "none"
      /\ live.lease[t][n] = 0 \/ live.lease[t][n] \in dead
  BY HandedOutFacts, Zenon
<1> QED
  BY <1>1, <1>3, <1>4, Zenon DEF Holds

\* The attempts counted for a row are the leases issued for it.
LEMMA AttemptsExact ==
  ASSUME TypeOK, GivenInv, NEW t \in Tasks, NEW n \in Nodes
  PROVE  /\ Attempts(live, t, n) = live.attempts[t][n]
         /\ Cardinality(Given(t, n)) \in Nat
         /\ Cardinality(Given(t, n)) = 0 <=> Given(t, n) = {}
<1>1. IsFiniteSet(Given(t, n))
  BY Zenon DEF GivenInv
<1>2. Cardinality(Given(t, n)) \in Nat
  BY <1>1, FS_CardinalityType, Zenon
<1>3. Cardinality(Given(t, n)) = 0 <=> Given(t, n) = {}
  BY <1>1, FS_EmptySet, Zenon
<1>4. /\ live.status[t] = "none" => live.lease[t][n] = 0 /\ live.attempts[t][n] = 0
      /\ live.status[t] # "none" => /\ live.attempts[t][n] = Cardinality(Given(t, n))
                                    /\ live.lease[t][n] = 0 <=> Given(t, n) = {}
  BY Zenon DEF GivenInv, Counts, Tally
<1>5. live.lease[t][n] # 0 => live.attempts[t][n] # 0
  BY <1>3, <1>4, Zenon
<1>6. Attempts(live, t, n) = live.attempts[t][n]
  BY <1>5, Zenon DEF Attempts
<1> QED
  BY <1>2, <1>3, <1>6, Zenon

\* A target that is handed out gets one lease more, and no more than it may.
LEMMA GivenCounted ==
  ASSUME TypeOK, LeasesInv, GivenInv, NEW n, Polled(n), NEW t \in HandedOut(live, n)
  PROVE  /\ IsFiniteSet(Given(t, n)') /\ Given(t, n)' # {}
         /\ Cardinality(Given(t, n)') = Cardinality(Given(t, n)) + 1
         /\ Cardinality(Given(t, n)') <= MaxTaskLeaseAttempts
         /\ Attempts(live, t, n) = Cardinality(Given(t, n))
<1>1. n \in Nodes /\ t \in Tasks
  BY HandedOutFacts, Zenon DEF Polled
<1>2. NewLease(n, t) \notin Given(t, n)
  BY <1>1, NewLeaseFacts, Zenon DEF Given
<1>3. Given(t, n)' = Given(t, n) \cup {NewLease(n, t)}
  BY GivenGrows, Zenon
<1>4. IsFiniteSet(Given(t, n))
  BY <1>1, Zenon DEF GivenInv
<1>5. IsFiniteSet(Given(t, n)') /\ Cardinality(Given(t, n)') = Cardinality(Given(t, n)) + 1
  BY <1>2, <1>3, <1>4, FS_AddElement
<1>6. live.status[t] # "none" /\ (live.lease[t][n] # 0 => ~(Attempts(live, t, n) >= MaxTaskLeaseAttempts))
  BY <1>1, HandedOutFacts, Zenon
<1>7. /\ live.attempts[t][n] = Cardinality(Given(t, n))
      /\ live.lease[t][n] = 0 <=> Given(t, n) = {}
  BY <1>1, <1>6, Zenon DEF GivenInv, Counts, Tally
<1>8. /\ Attempts(live, t, n) = Cardinality(Given(t, n))
      /\ Cardinality(Given(t, n)) \in Nat
      /\ Cardinality(Given(t, n)) = 0 <=> Given(t, n) = {}
  BY <1>1, <1>7, AttemptsExact, Zenon
<1>9. live.lease[t][n] # 0 \/ Cardinality(Given(t, n)) = 0
  BY <1>7, <1>8, Zenon
<1>10. Cardinality(Given(t, n)) + 1 <= MaxTaskLeaseAttempts
  BY <1>6, <1>8, <1>9, TaskQueueAssumption
<1>11. Given(t, n)' # {}
  BY <1>3, Zenon
<1> QED
  BY <1>5, <1>8, <1>10, <1>11, Zenon

\* A poll that was written keeps at most one lease of a target within its time.
LEMMA PolledOneLive ==
  ASSUME TypeOK, LeasesInv, GivenInv, NEW n, Polled(n)
  PROVE  OneLiveLease'
<1>0. n \in Nodes /\ issued' = issued \cup NewLeases(live, n) /\ dead' = dead /\ Holds(live)
  BY Zenon DEF Polled, GivenInv
<1> SUFFICES ASSUME NEW i \in issued', NEW j \in issued', i.task = j.task, i.node = j.node,
                    i.lease \notin dead, j.lease \notin dead
             PROVE  i = j
  BY <1>0, Zenon DEF OneLiveLease
<1>1. CASE i \in issued /\ j \in issued
  BY <1>1, Zenon DEF GivenInv, OneLiveLease
<1>2. ASSUME NEW a \in NewLeases(live, n), NEW b \in issued, a.task = b.task, a.node = b.node
      PROVE  b.lease \in dead
  <2>1. PICK t \in HandedOut(live, n) : a = NewLease(n, t)
    BY OnlyNewLeases, Zenon
  <2>2. NewLease(n, t).task = t /\ NewLease(n, t).node = n
    BY Zenon DEF NewLease
  <2>3. b \in Given(t, n)
    BY <1>2, <2>1, <2>2, Zenon DEF Given
  <2> QED
    BY <1>0, <2>3, OldLeasesDead, Zenon
<1>3. CASE i \in NewLeases(live, n) /\ j \in NewLeases(live, n)
  <2>1. PICK t \in HandedOut(live, n) : i = NewLease(n, t)
    BY <1>3, OnlyNewLeases, Zenon
  <2>2. PICK u \in HandedOut(live, n) : j = NewLease(n, u)
    BY <1>3, OnlyNewLeases, Zenon
  <2>3. i.task = t /\ j.task = u
    BY <1>0, <2>1, <2>2, NewLeaseFacts, Zenon
  <2> QED
    BY <2>1, <2>2, <2>3, Zenon
<1> QED
  BY <1>0, <1>1, <1>2, <1>3, Zenon

\* What it writes still names the lease that may run.
LEMMA PolledHolds ==
  ASSUME TypeOK, LeasesInv, GivenInv, NEW n, Polled(n), NEW s, s = Leased(live, n)
  PROVE  Holds(s)'
<1>0. n \in Nodes /\ issued' = issued \cup NewLeases(live, n) /\ dead' = dead
  BY Zenon DEF Polled
<1>1. /\ Holds(live) /\ live \in State
      /\ \A i \in issued : i.task \in Tasks /\ i.node \in Nodes
  BY Zenon DEF GivenInv, TypeOK
<1>2. \A t \in Tasks : /\ t \in HandedOut(live, n) => s.status[t] = "leased"
                       /\ t \notin HandedOut(live, n) => s.status[t] = live.status[t]
  BY <1>0, <1>1, LeasedStatus, Zenon
<1>3. \A t \in Tasks, m \in Nodes :
        /\ t \in HandedOut(live, n) /\ m = n => s.lease[t][m] = LeaseFor(live, n, t)
        /\ ~(t \in HandedOut(live, n) /\ m = n) => s.lease[t][m] = live.lease[t][m]
  BY <1>0, <1>1, LeasedLease, Zenon
<1>4. ASSUME NEW i \in issued
      PROVE  s.status[i.task] = "none" \/ i.lease \in dead \/ s.lease[i.task][i.node] = i.lease
  <2>1. i.task \in Tasks /\ i.node \in Nodes
    BY <1>1, Zenon
  <2>2. CASE i.task \in HandedOut(live, n) /\ i.node = n
    <3>1. i \in Given(i.task, n)
      BY <2>2, Zenon DEF Given
    <3> QED
      BY <1>0, <1>1, <2>2, <3>1, OldLeasesDead, Zenon
  <2>3. CASE ~(i.task \in HandedOut(live, n) /\ i.node = n)
    <3>1. s.lease[i.task][i.node] = live.lease[i.task][i.node]
      BY <1>3, <2>1, <2>3, Zenon
    <3>2. i.task \in HandedOut(live, n) => live.status[i.task] # "none"
      BY <1>0, HandedOutFacts, Zenon
    <3>3. live.status[i.task] = "none" => s.status[i.task] = "none"
      BY <1>2, <2>1, <3>2, Zenon
    <3> QED
      BY <1>1, <3>1, <3>3, Zenon DEF Holds
  <2> QED
    BY <2>2, <2>3, Zenon
<1>5. ASSUME NEW i \in NewLeases(live, n)
      PROVE  s.lease[i.task][i.node] = i.lease
  <2>1. PICK t \in HandedOut(live, n) : i = NewLease(n, t)
    BY OnlyNewLeases, Zenon
  <2>2. i.task = t /\ i.node = n /\ i.lease = LeaseFor(live, n, t)
    BY <1>0, <2>1, NewLeaseFacts, Zenon
  <2>3. t \in Tasks
    BY <1>0, HandedOutFacts, Zenon
  <2> QED
    BY <1>0, <1>3, <2>2, <2>3, Zenon
<1> QED
  BY <1>0, <1>4, <1>5, Zenon DEF Holds

\* And it counts the leases issued, the new ones included.
LEMMA PolledCounts ==
  ASSUME TypeOK, LeasesInv, GivenInv, NEW n, Polled(n), NEW s, s = Leased(live, n)
  PROVE  Counts(s)'
<1>0. n \in Nodes /\ live \in State
  BY Zenon DEF Polled, TypeOK
<1> SUFFICES ASSUME NEW t \in Tasks, NEW m \in Nodes
             PROVE  /\ s.status[t] = "none" => s.lease[t][m] = 0 /\ s.attempts[t][m] = 0
                    /\ s.status[t] # "none" => /\ s.attempts[t][m] = Cardinality(Given(t, m)')
                                               /\ s.lease[t][m] = 0 <=> Given(t, m)' = {}
  BY Zenon DEF Counts, Tally
<1>1. /\ live.status[t] = "none" => live.lease[t][m] = 0 /\ live.attempts[t][m] = 0
      /\ live.status[t] # "none" => /\ live.attempts[t][m] = Cardinality(Given(t, m))
                                    /\ live.lease[t][m] = 0 <=> Given(t, m) = {}
  BY Zenon DEF GivenInv, Counts, Tally
<1>2. /\ t \in HandedOut(live, n) => s.status[t] = "leased" /\ live.status[t] # "none"
      /\ t \notin HandedOut(live, n) => s.status[t] = live.status[t]
  <2>1. t \in HandedOut(live, n) => live.status[t] # "none"
    BY <1>0, HandedOutFacts, Zenon
  <2> QED
    BY <1>0, <2>1, LeasedStatus, Zenon
<1>3. CASE t \in HandedOut(live, n) /\ m = n
  <2>1. s.lease[t][m] = LeaseFor(live, n, t) /\ s.attempts[t][m] = Attempts(live, t, n) + 1
    BY <1>0, <1>3, LeasedLease, LeasedAttempts, Zenon
  <2>2. /\ Given(t, n)' # {} /\ Cardinality(Given(t, n)') = Cardinality(Given(t, n)) + 1
        /\ Attempts(live, t, n) = Cardinality(Given(t, n))
    BY <1>3, GivenCounted, Zenon
  <2>3. LeaseFor(live, n, t) # 0
    BY <1>0, <1>3, NewLeaseFacts, Zenon
  <2> QED
    BY <1>2, <1>3, <2>1, <2>2, <2>3, Zenon
<1>4. CASE ~(t \in HandedOut(live, n) /\ m = n)
  <2>1. /\ s.lease[t][m] = live.lease[t][m]
        /\ s.attempts[t][m] \in {live.attempts[t][m], Attempts(live, t, m)}
    BY <1>0, <1>4, LeasedLease, LeasedAttempts, Zenon
  <2>2. Attempts(live, t, m) = live.attempts[t][m]
    BY AttemptsExact, Zenon
  <2>3. Given(t, m)' = Given(t, m)
    BY <1>4, GivenStays
  <2> QED
    BY <1>1, <1>2, <2>1, <2>2, <2>3, Zenon
<1> QED
  BY <1>3, <1>4, Zenon

\* A poll that was written keeps the invariant of the leases.
LEMMA PolledGiven ==
  ASSUME TypeOK, LeasesInv, GivenInv, NEW n, Polled(n)
  PROVE  GivenInv'
<1>1. OneLiveLease'
  BY PolledOneLive, Zenon
<1>2. ASSUME NEW t \in Tasks, NEW m \in Nodes
      PROVE  IsFiniteSet(Given(t, m)') /\ Cardinality(Given(t, m)') <= MaxTaskLeaseAttempts
  <2>1. CASE t \in HandedOut(live, n) /\ m = n
    BY <2>1, GivenCounted, Zenon
  <2>2. CASE ~(t \in HandedOut(live, n) /\ m = n)
    <3>1. Given(t, m)' = Given(t, m)
      BY <2>2, GivenStays
    <3>2. IsFiniteSet(Given(t, m)) /\ Cardinality(Given(t, m)) <= MaxTaskLeaseAttempts
      BY Zenon DEF GivenInv, AttemptsBounded, Given
    <3> QED
      BY <3>1, <3>2, Zenon
  <2> QED
    BY <2>1, <2>2, Zenon
<1>3. AttemptsBounded'
  BY <1>2, Zenon DEF AttemptsBounded, Given
<1>4. PICK s : s = Leased(live, n)
  OBVIOUS
<1>5. live' = s /\ disk' = s
  BY <1>4, Zenon DEF Polled
<1>6. Holds(s)' /\ Counts(s)'
  BY <1>4, PolledHolds, PolledCounts, Zenon
<1>7. Holds(live)' /\ Holds(disk)'
  BY <1>5, <1>6, Zenon DEF Holds
<1>8. Counts(live)' /\ Counts(disk)'
  BY <1>5, <1>6, Zenon DEF Counts
<1> QED
  BY <1>1, <1>2, <1>3, <1>7, <1>8, Zenon DEF GivenInv

\* A step that issues nothing, and writes one sound state if any.
LEMMA GivenFrame ==
  ASSUME GivenInv, NEW s, Holds(s), Counts(s), UNCHANGED <<issued, dead>>,
         live' \in {live, disk, s}, disk' \in {disk, s}
  PROVE  GivenInv'
<1>1. \A t, n : Given(t, n)' = Given(t, n)
  BY Zenon DEF Given
<1>2. OneLiveLease' /\ AttemptsBounded'
  BY Zenon DEF GivenInv, OneLiveLease, AttemptsBounded
<1>3. \A q \in {live, disk, s} : Holds(q) /\ Counts(q)
  BY Zenon DEF GivenInv
<1>4. \A q \in {live, disk, s} : Holds(q)'
  BY <1>3, Zenon DEF Holds
<1>5. ASSUME NEW q \in {live, disk, s} PROVE Counts(q)'
  <2>1. \A l, a, t, n : Tally(l, a, t, n)' <=> Tally(l, a, t, n)
    BY <1>1, Zenon DEF Tally
  <2> QED
    BY <1>3, <2>1, Zenon DEF Counts
<1>6. Holds(live)' /\ Holds(disk)'
  BY <1>4, Zenon DEF Holds
<1>7. Counts(live)' /\ Counts(disk)'
  <2>1. PICK a : a = live'
    OBVIOUS
  <2>2. PICK b : b = disk'
    OBVIOUS
  <2>3. Counts(a)' /\ Counts(b)'
    BY <1>5, <2>1, <2>2, Zenon
  <2> QED
    BY <2>1, <2>2, <2>3, Zenon DEF Counts
<1>8. \A t \in Tasks, n \in Nodes : IsFiniteSet(Given(t, n)')
  BY <1>1, Zenon DEF GivenInv
<1> QED
  BY <1>2, <1>6, <1>7, <1>8, Zenon DEF GivenInv

\* Where a write leaves memory and file.
LEMMA WrittenStates ==
  ASSUME NEW s, NEW oc \in Outcomes, Staged(s, oc) \/ Save(s, oc)
  PROVE  live' \in {live, disk, s} /\ disk' \in {disk, s}
BY Zenon DEF Staged, Save, persistState

\* What the task API and a result write is sound.
LEMMA CreatedGiven ==
  ASSUME QueueInv, GivenInv, created + 1 \in Tasks, NEW ts \in SUBSET Nodes
  PROVE  Holds(Created(live, created + 1, ts)) /\ Counts(Created(live, created + 1, ts))
<1> DEFINE t == created + 1
           s == Created(live, t, ts)
<1>1. live \in State /\ live \in AllStates
  BY Zenon DEF QueueInv, TypeOK, AllStates
<1>2. /\ s.lease = live.lease /\ s.attempts = live.attempts /\ s.status[t] = "queued"
      /\ \A u \in Tasks : u # t => s.status[u] = live.status[u]
  BY <1>1, CreatedFields, Zenon
<1>3. created \in 0..MaxTasks /\ \A i \in issued : i.task \in Tasks /\ i.task <= created
  BY Zenon DEF QueueInv, TypeOK, LeasesInv
<1>4. created + 1 > created /\ \A i \in issued : i.task # created + 1
  BY <1>3 DEF Tasks
<1>5. live.status[t] = "none"
  BY <1>1, <1>4, Zenon DEF QueueInv, Consistent
<1>6. \A m : Given(t, m) = {}
  BY <1>4, Zenon DEF Given
<1>7. Cardinality({}) = 0
  BY FS_EmptySet, Zenon
<1> HIDE DEF s, t
<1>8. Holds(live) /\ Counts(live)
  BY Zenon DEF GivenInv
<1>9. Holds(s)
  BY <1>2, <1>3, <1>4, <1>8, Zenon DEF Holds, t
<1>10. ASSUME NEW u \in Tasks, NEW m \in Nodes
       PROVE  /\ s.status[u] = "none" => s.lease[u][m] = 0 /\ s.attempts[u][m] = 0
              /\ s.status[u] # "none" => Tally(s.lease[u][m], s.attempts[u][m], u, m)
  <2>1. /\ live.status[u] = "none" => live.lease[u][m] = 0 /\ live.attempts[u][m] = 0
        /\ live.status[u] # "none" => Tally(live.lease[u][m], live.attempts[u][m], u, m)
    BY <1>8, Zenon DEF Counts
  <2>2. CASE u = t
    BY <1>2, <1>5, <1>6, <1>7, <2>1, <2>2, Zenon DEF Tally
  <2>3. CASE u # t
    BY <1>2, <2>1, <2>3, Zenon
  <2> QED
    BY <2>2, <2>3, Zenon
<1>11. Counts(s)
  BY <1>10, Zenon DEF Counts
<1> QED
  BY <1>9, <1>11, Zenon DEF s, t

\* A state that agrees with memory on the rows there are, their leases and attempts.
LEMMA SameRowsGiven ==
  ASSUME GivenInv, TypeOK, NEW s, s.lease = live.lease, s.attempts = live.attempts,
         \A u \in Tasks : s.status[u] = "none" <=> live.status[u] = "none"
  PROVE  Holds(s) /\ Counts(s)
<1>1. Holds(live) /\ Counts(live) /\ \A i \in issued : i.task \in Tasks
  BY Zenon DEF GivenInv, TypeOK
<1>2. Holds(s)
  BY <1>1, Zenon DEF Holds
<1>3. Counts(s)
  BY <1>1, ZenonT(40) DEF Counts
<1> QED
  BY <1>2, <1>3, Zenon

\* A deleted row counts nothing and holds no lease.
LEMMA DeletedGiven ==
  ASSUME TypeOK, GivenInv, NEW t \in Tasks
  PROVE  Holds(Deleted(live, t)) /\ Counts(Deleted(live, t))
<1> DEFINE s == Deleted(live, t)
<1>1. Holds(live) /\ Counts(live) /\ live \in State /\ \A i \in issued : i.task \in Tasks
  BY Zenon DEF GivenInv, TypeOK
<1>2. /\ s.status[t] = "none"
      /\ \A m \in Nodes : s.lease[t][m] = 0 /\ s.attempts[t][m] = 0
  BY <1>1, DeletedFields, Zenon
<1>3. \A u \in Tasks : u # t => /\ s.status[u] = live.status[u]
                                /\ s.lease[u] = live.lease[u] /\ s.attempts[u] = live.attempts[u]
  BY <1>1, DeletedOthers, Zenon
<1> HIDE DEF s
<1>4. Holds(s)
  BY <1>1, <1>2, <1>3, Zenon DEF Holds
<1>5. ASSUME NEW u \in Tasks, NEW m \in Nodes
      PROVE  /\ s.status[u] = "none" => s.lease[u][m] = 0 /\ s.attempts[u][m] = 0
             /\ s.status[u] # "none" => Tally(s.lease[u][m], s.attempts[u][m], u, m)
  <2>1. /\ live.status[u] = "none" => live.lease[u][m] = 0 /\ live.attempts[u][m] = 0
        /\ live.status[u] # "none" => Tally(live.lease[u][m], live.attempts[u][m], u, m)
    BY <1>1, Zenon DEF Counts
  <2>2. CASE u = t
    BY <1>2, <2>2, Zenon
  <2>3. CASE u # t
    BY <1>3, <2>1, <2>3, Zenon
  <2> QED
    BY <2>2, <2>3, Zenon
<1>6. Counts(s)
  BY <1>5, Zenon DEF Counts
<1> QED
  BY <1>4, <1>6, Zenon DEF s

\* Recording a result, or cancelling, makes no row appear or go.
LEMMA ResultRows ==
  ASSUME NEW s \in State, NEW p \in Post
  PROVE  /\ WithResult(s, p).lease = s.lease /\ WithResult(s, p).attempts = s.attempts
         /\ \A u \in Tasks : WithResult(s, p).status[u] = "none" <=> s.status[u] = "none"
<1> DEFINE n == WithResult(s, p)
<1>1. n.lease = s.lease /\ n.attempts = s.attempts
  BY ResultFields, Zenon
<1>2. \A u \in Tasks : u # p.task => n.status[u] = s.status[u]
  BY ResultFields, Zenon
<1>3. n.status[p.task] = IF s.status[p.task] = "none" THEN "none"
                         ELSE taskAggregateStatus(p.task, s.targets[p.task], n.results)
  BY ResultFields, Zenon
<1>4. taskAggregateStatus(p.task, s.targets[p.task], n.results) # "none"
  BY AggregateType, Zenon
<1> HIDE DEF n
<1>5. \A u \in Tasks : n.status[u] = "none" <=> s.status[u] = "none"
  BY <1>2, <1>3, <1>4, Zenon
<1> QED
  BY <1>1, <1>5, Zenon DEF n

\* At first nothing is issued.
LEMMA GivenInvInit == Init => GivenInv
<1> SUFFICES ASSUME Init PROVE GivenInv
  OBVIOUS
<1>1. issued = {} /\ live = emptyState /\ disk = emptyState
  BY Zenon DEF Init, InitStateFile
<1>2. \A t, n : Given(t, n) = {}
  BY <1>1, Zenon DEF Given
<1>3. IsFiniteSet({}) /\ Cardinality({}) = 0
  BY FS_EmptySet, Zenon
<1>4. AttemptsBounded
  <2>1. \A t, n : Cardinality(Given(t, n)) = 0
    BY <1>2, <1>3, Zenon
  <2>2. 0 <= MaxTaskLeaseAttempts
    BY TaskQueueAssumption
  <2> QED
    BY <2>1, <2>2, Zenon DEF AttemptsBounded, Given
<1>5. OneLiveLease /\ Holds(emptyState)
  BY <1>1, Zenon DEF OneLiveLease, Holds
<1>6. Counts(emptyState)
  BY Zenon DEF emptyState, Counts
<1> QED
  BY <1>1, <1>2, <1>3, <1>4, <1>5, <1>6, Zenon DEF GivenInv

\* Every step keeps the invariant of the leases, unless a power loss brings
\* back a file from before a lease.
LEMMA GivenInvStep ==
  ASSUME "power" \notin Crashes, QueueInv, GivenInv, [Next]_vars
  PROVE  GivenInv'
<1>0. TypeOK /\ LeasesInv /\ live \in State /\ Holds(live) /\ Counts(live)
  BY Zenon DEF QueueInv, TypeOK, GivenInv
<1>1. ASSUME NEW ts \in SUBSET Nodes, NEW oc \in Outcomes, CreateTask(ts, oc)
      PROVE  GivenInv'
  <2>1. /\ Save(Created(live, created + 1, ts), oc) /\ UNCHANGED <<issued, dead>>
        /\ created < MaxTasks
    BY <1>1, Zenon DEF CreateTask, Created, clock
  <2>2. created + 1 \in Tasks
    BY <1>0, <2>1, TaskQueueAssumption DEF TypeOK, Tasks
  <2>3. Holds(Created(live, created + 1, ts)) /\ Counts(Created(live, created + 1, ts))
    BY <2>2, CreatedGiven, Zenon
  <2> QED
    BY <2>1, <2>3, WrittenStates, GivenFrame, Zenon
<1>2. ASSUME NEW t \in Tasks, NEW oc \in Outcomes, CancelTask(t, oc)
      PROVE  GivenInv'
  <2> DEFINE s == Cancelled(live, t)
  <2>1. Save(s, oc) /\ UNCHANGED <<issued, dead>> /\ live.status[t] # "none"
    BY <1>2 DEF CancelTask, Cancelled, clock
  <2>2. /\ s.lease = live.lease /\ s.attempts = live.attempts /\ s.status[t] = "cancelled"
        /\ \A u \in Tasks : u # t => s.status[u] = live.status[u]
    BY <1>0, CancelledFields, Zenon
  <2> HIDE DEF s
  <2>3. \A u \in Tasks : s.status[u] = "none" <=> live.status[u] = "none"
    BY <2>1, <2>2
  <2>4. Holds(s) /\ Counts(s)
    BY <1>0, <2>2, <2>3, SameRowsGiven, Zenon
  <2> QED
    BY <2>1, <2>4, WrittenStates, GivenFrame, Zenon
<1>3. ASSUME NEW t \in Tasks, NEW oc \in Outcomes, DeleteTask(t, oc)
      PROVE  GivenInv'
  <2>1. Save(Deleted(live, t), oc) /\ UNCHANGED <<issued, dead>>
    BY <1>3, Zenon DEF DeleteTask, Deleted, clock
  <2>2. Holds(Deleted(live, t)) /\ Counts(Deleted(live, t))
    BY <1>0, DeletedGiven, Zenon
  <2> QED
    BY <2>1, <2>2, WrittenStates, GivenFrame, Zenon
<1>4. ASSUME NEW n \in Nodes, NEW oc \in Outcomes, NEW arrives \in BOOLEAN,
             LeaseTasks(n, oc, arrives)
      PROVE  GivenInv'
  <2>1. Staged(Leased(live, n), oc) /\ dead' = dead
    BY <1>4, Zenon DEF LeaseTasks, clock
  <2>2. CASE oc = "failed"
    <3>1. live' = live /\ disk' = disk /\ UNCHANGED <<issued, dead>>
      BY <1>4, <2>1, <2>2, Zenon DEF LeaseTasks, Staged, persistState
    <3> QED
      BY <1>0, <3>1, GivenFrame, Zenon
  <2>3. CASE oc # "failed"
    <3>1. Polled(n)
      BY <1>4, <2>1, <2>3, Zenon DEF LeaseTasks, Staged, persistState, Polled
    <3> QED
      BY <1>0, <3>1, PolledGiven, Zenon
  <2> QED
    BY <2>2, <2>3, Zenon
<1>5. ASSUME NEW h \in Handlers, NEW p \in posting[h], NEW oc \in Outcomes, AddTaskResult(h, p, oc)
      PROVE  GivenInv'
  <2>1. Staged(WithResult(live, p), oc) /\ UNCHANGED <<issued, dead>>
    BY <1>5, Zenon DEF AddTaskResult, clock
  <2>2. p \in Post
    BY <1>0, Zenon DEF TypeOK
  <2>3. Holds(WithResult(live, p)) /\ Counts(WithResult(live, p))
    BY <1>0, <2>2, ResultRows, SameRowsGiven, Zenon
  <2> QED
    BY <2>1, <2>3, WrittenStates, GivenFrame, Zenon
<1>6. ASSUME NEW l \in Leases, Expire(l) PROVE GivenInv'
  <2>1. /\ UNCHANGED <<live, disk, issued>> /\ dead \subseteq dead'
    BY <1>6, Zenon DEF Expire, stateFile
  <2>2. OneLiveLease'
    BY <2>1, Zenon DEF OneLiveLease, GivenInv
  <2>3. \A t, n : Given(t, n)' = Given(t, n)
    BY <2>1, Zenon DEF Given
  <2>4. AttemptsBounded' /\ \A t \in Tasks, n \in Nodes : IsFiniteSet(Given(t, n)')
    BY <2>1, <2>3, Zenon DEF AttemptsBounded, GivenInv
  <2>5. Holds(live)' /\ Holds(disk)'
    BY <2>1, Zenon DEF GivenInv, Holds
  <2>6. Counts(live)' /\ Counts(disk)'
    BY <2>1, <2>3, Zenon DEF GivenInv, Counts, Tally
  <2> QED
    BY <2>2, <2>4, <2>5, <2>6, Zenon DEF GivenInv
<1>7. ASSUME \/ \E h \in Handlers, i \in issued, ok \in BOOLEAN : requireTaskLease(h, i, ok)
             \/ \E t \in Tasks : PassDeadline(t)
             \/ \E t \in Tasks, n \in Nodes : Outrank(t, n)
             \/ UNCHANGED vars
      PROVE  GivenInv'
  <2>1. UNCHANGED <<live, disk, issued, dead>>
    BY <1>7, Zenon DEF requireTaskLease, PassDeadline, Outrank, vars, stateFile, clock
  <2> QED
    BY <1>0, <2>1, GivenFrame, Zenon
<1>8. ASSUME NEW kind \in Crashes, NEW oc \in Outcomes, Crash(kind, oc) PROVE GivenInv'
  <2>1. Restart(kind, oc) /\ UNCHANGED <<issued, dead>> /\ kind # "power"
    BY <1>8, Zenon DEF Crash, clock
  <2>2. live' = disk /\ disk' = disk
    BY <2>1, RestartReads, Zenon
  <2> QED
    BY <1>0, <2>1, <2>2, GivenFrame, Zenon
<1> QED
  BY <1>1, <1>2, <1>3, <1>4, <1>5, <1>6, <1>7, <1>8, Zenon
     DEF Next, Poll, PostResult, CommitResult

\* No target of a task is within two leases at once, through failing writes and
\* restarts, as long as no power loss brings back a file from before a lease.
THEOREM OneLeaseAtATime ==
  ASSUME "power" \notin Crashes
  PROVE  Spec => []OneLiveLease
<1>1. QueueInv /\ GivenInv /\ [Next]_vars => GivenInv'
  BY GivenInvStep
<1>2. GivenInv => OneLiveLease
  BY Zenon DEF GivenInv
<1> QED
  BY <1>1, <1>2, GivenInvInit, QueueInvInit, QueueInvStep, PTL DEF Spec

-----------------------------------------------------------------------------
(* Runs.  A task is finished by results, and a result by a run: whatever   *)
(* is recorded or on its way belongs to a lease of its target and to a run *)
(* an agent has ended, in every state a restart may read.                  *)

\* A result, recorded or on its way, is that of a run of a lease of its target.
Backed(p) ==
  /\ \E i \in issued : i.lease = p.lease /\ i.task = p.task /\ i.node = p.node
  /\ [lease |-> p.lease, ok |-> p.ok] \in ran

EndedWell(t, n) ==
  \E i \in issued, r \in ran : i.task = t /\ i.node = n /\ r.lease = i.lease /\ r.ok

RunsOf(s) ==
  /\ \A r \in s.results : Backed(r)
  /\ \A t \in Tasks : s.status[t] = "finished" => \A n \in s.targets[t] : EndedWell(t, n)

RunsInv ==
  /\ \A h \in Handlers : \A p \in posting[h] : Backed(p)
  /\ \A s \in AllStates : RunsOf(s)

\* Runs and leases are never forgotten.
LEMMA BackedKept ==
  ASSUME issued \subseteq issued', ran \subseteq ran'
  PROVE  /\ \A p : Backed(p) => Backed(p)'
         /\ \A t, n : EndedWell(t, n) => EndedWell(t, n)'
         /\ \A s : RunsOf(s) => RunsOf(s)'
<1>1. \A p : Backed(p) => Backed(p)'
  BY Zenon DEF Backed
<1>2. \A t, n : EndedWell(t, n) => EndedWell(t, n)'
  BY Zenon DEF EndedWell
<1>3. \A s : RunsOf(s) => RunsOf(s)'
  BY <1>1, <1>2, Zenon DEF RunsOf
<1> QED
  BY <1>1, <1>2, <1>3, Zenon

\* A step that writes at most one sound state and takes in no request.
LEMMA RunsFrame ==
  ASSUME RunsInv, issued \subseteq issued', ran \subseteq ran',
         \A h \in Handlers : posting'[h] \subseteq posting[h],
         NEW s, RunsOf(s), AllStates' \subseteq AllStates \cup {s}
  PROVE  RunsInv'
<1>1. \A h \in Handlers : \A p \in posting'[h] : Backed(p)
  BY Zenon DEF RunsInv
<1>2. \A q \in AllStates' : RunsOf(q)
  BY Zenon DEF RunsInv
<1> QED
  BY <1>1, <1>2, BackedKept, Zenon DEF RunsInv

\* A task that its results make finished has ended well everywhere.
LEMMA FinishedBacked ==
  ASSUME NEW t, NEW ts, NEW rs, \A r \in rs : Backed(r),
         taskAggregateStatus(t, ts, rs) = "finished", NEW n \in ts
  PROVE  EndedWell(t, n)
<1>1. LatestOk(ResultsOf(rs, t, n))
  <2>1. ASSUME ~LatestOk(ResultsOf(rs, t, n)) PROVE FALSE
    <3>1. taskAggregateStatus(t, ts, rs) \in {"leased", "failed"}
      BY <2>1, Zenon DEF taskAggregateStatus
    <3> QED
      BY <3>1
  <2> QED
    BY <2>1, Zenon
<1>2. PICK r \in rs : r.task = t /\ r.node = n /\ r.ok
  BY <1>1, Zenon DEF LatestOk, ResultsOf
<1>3. Backed(r)
  BY Zenon
<1>4. PICK i \in issued : i.lease = r.lease /\ i.task = r.task /\ i.node = r.node
  BY <1>3, Zenon DEF Backed
<1>5. PICK e \in ran : e = [lease |-> r.lease, ok |-> r.ok]
  BY <1>3, Zenon DEF Backed
<1>6. e.lease = r.lease /\ e.ok = r.ok
  BY <1>5
<1> QED
  BY <1>2, <1>4, <1>6, Zenon DEF EndedWell

\* What each handler writes is sound.
LEMMA WrittenRuns ==
  ASSUME TypeOK, RunsInv
  PROVE  /\ \A t \in Tasks, ts \in SUBSET Nodes : RunsOf(Created(live, t, ts))
         /\ \A t \in Tasks : RunsOf(Cancelled(live, t)) /\ RunsOf(Deleted(live, t))
         /\ \A n \in Nodes : RunsOf(Leased(live, n))
         /\ \A h \in Handlers : \A p \in posting[h] : RunsOf(WithResult(live, p))
<1>0. live \in State /\ RunsOf(live)
  BY Zenon DEF TypeOK, RunsInv, AllStates
<1>1. /\ \A r \in live.results : Backed(r)
      /\ \A u \in Tasks : live.status[u] = "finished" => \A m \in live.targets[u] : EndedWell(u, m)
  BY <1>0, Zenon DEF RunsOf
<1>2. ASSUME NEW t \in Tasks, NEW ts \in SUBSET Nodes PROVE RunsOf(Created(live, t, ts))
  <2> DEFINE s == Created(live, t, ts)
  <2>1. s.results = live.results /\ s.status[t] = "queued"
    BY <1>0, CreatedFields, Zenon
  <2>2. \A u \in Tasks : u # t => s.status[u] = live.status[u] /\ s.targets[u] = live.targets[u]
    BY <1>0, CreatedFields, Zenon
  <2> HIDE DEF s
  <2>3. ASSUME NEW u \in Tasks, s.status[u] = "finished", NEW m \in s.targets[u] PROVE EndedWell(u, m)
    <3>1. u # t
      BY <2>1, <2>3
    <3> QED
      BY <1>1, <2>2, <2>3, <3>1, Zenon
  <2> QED
    BY <1>1, <2>1, <2>3, Zenon DEF RunsOf, s
<1>3. ASSUME NEW t \in Tasks PROVE RunsOf(Cancelled(live, t))
  <2> DEFINE s == Cancelled(live, t)
  <2>1. s.results = live.results /\ s.targets = live.targets /\ s.status[t] = "cancelled"
    BY <1>0, CancelledFields, Zenon
  <2>2. \A u \in Tasks : u # t => s.status[u] = live.status[u]
    BY <1>0, CancelledFields, Zenon
  <2> HIDE DEF s
  <2>3. ASSUME NEW u \in Tasks, s.status[u] = "finished", NEW m \in s.targets[u] PROVE EndedWell(u, m)
    <3>1. u # t
      BY <2>1, <2>3
    <3> QED
      BY <1>1, <2>1, <2>2, <2>3, <3>1, Zenon
  <2> QED
    BY <1>1, <2>1, <2>3, Zenon DEF RunsOf, s
<1>4. ASSUME NEW t \in Tasks PROVE RunsOf(Deleted(live, t))
  <2> DEFINE s == Deleted(live, t)
  <2>1. s.results = {r \in live.results : r.task # t} /\ s.status[t] = "none"
    BY <1>0, DeletedFields, Zenon
  <2>2. \A u \in Tasks : u # t => s.status[u] = live.status[u] /\ s.targets[u] = live.targets[u]
    BY <1>0, DeletedOthers, Zenon
  <2> HIDE DEF s
  <2>3. ASSUME NEW u \in Tasks, s.status[u] = "finished", NEW m \in s.targets[u] PROVE EndedWell(u, m)
    <3>1. u # t
      BY <2>1, <2>3
    <3> QED
      BY <1>1, <2>2, <2>3, <3>1, Zenon
  <2> QED
    BY <1>1, <2>1, <2>3, Zenon DEF RunsOf, s
<1>5. ASSUME NEW n \in Nodes PROVE RunsOf(Leased(live, n))
  <2> DEFINE s == Leased(live, n)
  <2>1. s.results = live.results /\ s.targets = live.targets
    BY <1>0, LeasedFields, Zenon
  <2>2. \A u \in Tasks : s.status[u] = "leased" \/ s.status[u] = live.status[u]
    BY <1>0, LeasedStatus, Zenon
  <2> HIDE DEF s
  <2>3. ASSUME NEW u \in Tasks, s.status[u] = "finished", NEW m \in s.targets[u] PROVE EndedWell(u, m)
    <3>1. s.status[u] # "leased"
      BY <2>3
    <3> QED
      BY <1>1, <2>1, <2>2, <2>3, <3>1, Zenon
  <2> QED
    BY <1>1, <2>1, <2>3, Zenon DEF RunsOf, s
<1>6. ASSUME NEW h \in Handlers, NEW p \in posting[h] PROVE RunsOf(WithResult(live, p))
  <2> DEFINE s == WithResult(live, p)
             row == Row(p, appended + 1)
  <2>0. p \in Post /\ Backed(p)
    BY Zenon DEF TypeOK, RunsInv
  <2>1. \A r \in s.results : r \in live.results \/ r = row
    <3>1. s.results = (live.results \cup {row}) \ Dropped(live.results \cup {row})
      BY <1>0, <2>0, ResultFields, Zenon
    <3> HIDE DEF s, row
    <3> QED
      BY <3>1, Zenon
  <2>2. \A u \in Tasks : u # p.task => s.status[u] = live.status[u]
    BY <1>0, <2>0, ResultFields, Zenon
  <2>3. s.targets = live.targets
    BY <1>0, <2>0, ResultFields, Zenon
  <2>4. s.status[p.task] = IF live.status[p.task] = "none" THEN "none"
                           ELSE taskAggregateStatus(p.task, live.targets[p.task], s.results)
    BY <1>0, <2>0, ResultFields, Zenon
  <2>5. row.lease = p.lease /\ row.task = p.task /\ row.node = p.node /\ row.ok = p.ok
    BY Zenon DEF Row
  <2> HIDE DEF s, row
  <2>6. Backed(row)
    BY <2>0, <2>5, Zenon DEF Backed
  <2>7. \A r \in s.results : Backed(r)
    BY <1>1, <2>1, <2>6, Zenon
  <2>8. ASSUME NEW u \in Tasks, s.status[u] = "finished", NEW m \in s.targets[u] PROVE EndedWell(u, m)
    <3>1. CASE u = p.task
      <4>1. "finished" # "none"
        OBVIOUS
      <4>2. taskAggregateStatus(u, live.targets[u], s.results) = "finished"
        BY <2>4, <2>8, <3>1, <4>1, Zenon
      <4> QED
        BY <2>3, <2>7, <2>8, <4>2, FinishedBacked, Zenon
    <3>2. CASE u # p.task
      BY <1>1, <2>2, <2>3, <2>8, <3>2, Zenon
    <3> QED
      BY <3>1, <3>2, Zenon
  <2> QED
    BY <2>7, <2>8, Zenon DEF RunsOf, s
<1> QED
  BY <1>2, <1>3, <1>4, <1>5, <1>6, Zenon

\* Every step keeps what the results and the finished tasks rest on.
LEMMA RunsInvStep ==
  ASSUME TypeOK, RunsInv, [Next]_vars
  PROVE  RunsInv'
<1>0. RunsOf(live)
  BY Zenon DEF RunsInv, AllStates
<1>1. ASSUME NEW ts \in SUBSET Nodes, NEW oc \in Outcomes, CreateTask(ts, oc)
      PROVE  RunsInv'
  <2>1. /\ Save(Created(live, created + 1, ts), oc) /\ created < MaxTasks
        /\ UNCHANGED <<issued, ran, posting>>
    BY <1>1, Zenon DEF CreateTask, Created, agents
  <2>2. created + 1 \in Tasks
    BY <2>1, TaskQueueAssumption DEF TypeOK, Tasks
  <2>3. RunsOf(Created(live, created + 1, ts))
    BY <2>2, WrittenRuns, Zenon
  <2> QED
    BY <2>1, <2>3, StagedStates, RunsFrame, Zenon
<1>2. ASSUME NEW t \in Tasks, NEW oc \in Outcomes, CancelTask(t, oc)
      PROVE  RunsInv'
  <2>1. Save(Cancelled(live, t), oc) /\ UNCHANGED <<issued, ran, posting>>
    BY <1>2, Zenon DEF CancelTask, Cancelled, agents
  <2>2. RunsOf(Cancelled(live, t))
    BY WrittenRuns, Zenon
  <2> QED
    BY <2>1, <2>2, StagedStates, RunsFrame, Zenon
<1>3. ASSUME NEW t \in Tasks, NEW oc \in Outcomes, DeleteTask(t, oc)
      PROVE  RunsInv'
  <2>1. Save(Deleted(live, t), oc) /\ UNCHANGED <<issued, ran, posting>>
    BY <1>3, Zenon DEF DeleteTask, Deleted, agents
  <2>2. RunsOf(Deleted(live, t))
    BY WrittenRuns, Zenon
  <2> QED
    BY <2>1, <2>2, StagedStates, RunsFrame, Zenon
<1>4. ASSUME NEW n \in Nodes, NEW oc \in Outcomes, NEW arrives \in BOOLEAN,
             LeaseTasks(n, oc, arrives)
      PROVE  RunsInv'
  <2>1. Staged(Leased(live, n), oc) /\ UNCHANGED <<ran, posting>> /\ issued \subseteq issued'
    BY <1>4, Zenon DEF LeaseTasks
  <2>2. RunsOf(Leased(live, n))
    BY WrittenRuns, Zenon
  <2> QED
    BY <2>1, <2>2, StagedStates, RunsFrame, Zenon
<1>5. ASSUME NEW h \in Handlers, NEW i \in issued, NEW ok \in BOOLEAN, requireTaskLease(h, i, ok)
      PROVE  RunsInv'
  <2> DEFINE p == [task |-> i.task, node |-> i.node, lease |-> i.lease, ok |-> ok]
  <2>1. /\ ran' = ran \cup {[lease |-> i.lease, ok |-> ok]} /\ issued' = issued
        /\ posting' = [posting EXCEPT ![h] = {p}] /\ AllStates' = AllStates
    BY <1>5, Zenon DEF requireTaskLease, stateFile, AllStates
  <2>2. p.task = i.task /\ p.node = i.node /\ p.lease = i.lease /\ p.ok = ok
    BY Zenon
  <2> HIDE DEF p
  <2>3. Backed(p)'
    BY <2>1, <2>2, Zenon DEF Backed
  <2>4. \A g \in Handlers : \A r \in posting'[g] : r \in posting[g] \/ r = p
    BY <2>1, Zenon DEF TypeOK
  <2>5. issued \subseteq issued' /\ ran \subseteq ran'
    BY <2>1, Zenon
  <2>6. \A g \in Handlers : \A r \in posting'[g] : Backed(r)'
    <3>1. \A g \in Handlers : \A r \in posting[g] : Backed(r)'
      BY <2>5, BackedKept, Zenon DEF RunsInv
    <3>2. SUFFICES ASSUME NEW g \in Handlers, NEW r \in posting'[g] PROVE Backed(r)'
      BY Zenon
    <3> QED
      BY <2>3, <2>4, <3>1, Zenon
  <2>7. \A s \in AllStates' : RunsOf(s)'
    BY <2>1, <2>5, BackedKept, Zenon DEF RunsInv
  <2> QED
    BY <2>6, <2>7, Zenon DEF RunsInv
<1>6. ASSUME NEW h \in Handlers, NEW p \in posting[h], NEW oc \in Outcomes, AddTaskResult(h, p, oc)
      PROVE  RunsInv'
  <2>1. /\ Staged(WithResult(live, p), oc) /\ UNCHANGED <<issued, ran>>
        /\ posting' = [posting EXCEPT ![h] = {}]
    BY <1>6, Zenon DEF AddTaskResult, agents
  <2>2. \A g \in Handlers : posting'[g] \subseteq posting[g]
    BY <2>1, Zenon DEF TypeOK
  <2>3. RunsOf(WithResult(live, p))
    BY WrittenRuns, Zenon
  <2> QED
    BY <2>1, <2>2, <2>3, StagedStates, RunsFrame, Zenon
<1>7. ASSUME \/ \E l \in Leases : Expire(l)
             \/ \E t \in Tasks : PassDeadline(t)
             \/ \E t \in Tasks, n \in Nodes : Outrank(t, n)
             \/ UNCHANGED vars
      PROVE  RunsInv'
  <2>1. UNCHANGED <<stateFile, issued, ran, posting>>
    BY <1>7, Zenon DEF Expire, PassDeadline, Outrank, vars, agents
  <2>2. AllStates' = AllStates
    BY <2>1, Zenon DEF stateFile, AllStates
  <2> QED
    BY <1>0, <2>1, <2>2, RunsFrame, Zenon
<1>8. ASSUME NEW kind \in Crashes, NEW oc \in Outcomes, Crash(kind, oc) PROVE RunsInv'
  <2>1. /\ AllStates' \subseteq AllStates /\ UNCHANGED <<issued, ran>>
        /\ posting' = [h \in Handlers |-> {}]
    BY <1>8, RestartStates, Zenon DEF Crash, agents
  <2>2. \A h \in Handlers : posting'[h] \subseteq posting[h]
    BY <2>1, Zenon
  <2> QED
    BY <1>0, <2>1, <2>2, RunsFrame, Zenon
<1> QED
  BY <1>1, <1>2, <1>3, <1>4, <1>5, <1>6, <1>7, <1>8, Zenon
     DEF Next, Poll, PostResult, CommitResult

\* At first there is no result and no task.
LEMMA RunsInvInit == Init => RunsInv
<1> SUFFICES ASSUME Init PROVE RunsInv
  OBVIOUS
<1>1. posting = [h \in Handlers |-> {}] /\ AllStates = {emptyState}
  BY Zenon DEF Init, InitStateFile, AllStates
<1>2. RunsOf(emptyState)
  BY DEF RunsOf, emptyState
<1> QED
  BY <1>1, <1>2, Zenon DEF RunsInv

\* A target is handed a task at most MaxTaskLeaseAttempts times, and a task is
\* reported finished only when every target ended a run of it well, through
\* failing writes and restarts (a power loss may undo the count of a poll).
THEOREM QueueStaysSound ==
  ASSUME "power" \notin Crashes
  PROVE  Spec => []QueueSound
<1>1. QueueInv /\ GivenInv /\ [Next]_vars => GivenInv'
  BY GivenInvStep
<1>2. QueueInv /\ RunsInv /\ [Next]_vars => RunsInv'
  BY RunsInvStep, Zenon DEF QueueInv
<1>3. QueueInv /\ GivenInv /\ RunsInv => QueueSound
  BY ZenonT(40) DEF QueueInv, GivenInv, RunsInv, RunsOf, EndedWell, AllStates, FinishedMeansAll, QueueSound
<1> QED
  BY <1>1, <1>2, <1>3, GivenInvInit, RunsInvInit, QueueInvInit, QueueInvStep, PTL DEF Spec

-----------------------------------------------------------------------------
(* The last run stands, as long as the cap of the history drops no result: *)
(* then a finished task is one its recorded results make finished.         *)

Aggregated(s) ==
  \A t \in Tasks : s.status[t] = "finished" =>
    taskAggregateStatus(t, s.targets[t], s.results) = "finished"

OutcomeInv == pruned = {} => \A s \in AllStates : Aggregated(s)

\* The results of other tasks say nothing about this one.
LEMMA AggregateLocal ==
  ASSUME NEW t, NEW ts, NEW rs, NEW qs,
         \A n : ResultsOf(rs, t, n) = ResultsOf(qs, t, n)
  PROVE  taskAggregateStatus(t, ts, rs) = taskAggregateStatus(t, ts, qs)
<1>1. (\E n \in ts : ResultsOf(rs, t, n) = {}) <=> (\E n \in ts : ResultsOf(qs, t, n) = {})
  BY Zenon
<1>2. (\E n \in ts : ~LatestOk(ResultsOf(rs, t, n))) <=> (\E n \in ts : ~LatestOk(ResultsOf(qs, t, n)))
  BY Zenon
<1> QED
  BY <1>1, <1>2, Zenon DEF taskAggregateStatus

\* The state written for a result while the cap drops nothing.
LEMMA UnprunedResults ==
  ASSUME QueueInv, NEW p \in Post, live.results \ WithResult(live, p).results = {}
  PROVE  /\ WithResult(live, p).results = live.results \cup {Row(p, appended + 1)}
         /\ Row(p, appended + 1) \notin live.results
<1> DEFINE s == WithResult(live, p)
           row == Row(p, appended + 1)
<1>1. live \in State /\ appended \in Nat /\ Consistent(live)
  BY Zenon DEF QueueInv, TypeOK, AllStates
<1>2. \A r \in live.results : r.no <= appended /\ r.no \in Nat
  BY <1>1, Zenon DEF Consistent, State, Result
<1>3. row \in s.results
  BY <1>1, <1>2, RowKept, Zenon
<1>4. s.results = (live.results \cup {row}) \ Dropped(live.results \cup {row})
  BY <1>1, ResultFields, Zenon
<1>5. row.no = appended + 1
  BY Zenon DEF Row
<1> HIDE DEF s, row
<1>6. row \notin live.results
  BY <1>1, <1>2, <1>5
<1>7. \A r \in live.results : r \in s.results
  BY Zenon DEF s
<1>8. \A r : r \in s.results <=> r \in live.results \cup {row}
  BY <1>3, <1>4, <1>7, Zenon
<1>9. s.results = live.results \cup {row}
  BY <1>8, Zenon
<1> QED
  BY <1>6, <1>9, Zenon DEF s, row

\* What the handlers write is aggregated.
LEMMA WrittenOutcome ==
  ASSUME QueueInv, Aggregated(live)
  PROVE  /\ \A t \in Tasks, ts \in SUBSET Nodes : Aggregated(Created(live, t, ts))
         /\ \A t \in Tasks : Aggregated(Cancelled(live, t)) /\ Aggregated(Deleted(live, t))
         /\ \A n \in Nodes : Aggregated(Leased(live, n))
         /\ \A p \in Post : live.results \ WithResult(live, p).results = {}
                              => Aggregated(WithResult(live, p))
<1>0. live \in State
  BY Zenon DEF QueueInv, TypeOK
<1>1. \A u \in Tasks : live.status[u] = "finished" =>
        taskAggregateStatus(u, live.targets[u], live.results) = "finished"
  BY Zenon DEF Aggregated
<1>2. ASSUME NEW t \in Tasks, NEW ts \in SUBSET Nodes PROVE Aggregated(Created(live, t, ts))
  <2> DEFINE s == Created(live, t, ts)
  <2>1. s.results = live.results /\ s.status[t] = "queued"
    BY <1>0, CreatedFields, Zenon
  <2>2. \A u \in Tasks : u # t => s.status[u] = live.status[u] /\ s.targets[u] = live.targets[u]
    BY <1>0, CreatedFields, Zenon
  <2> HIDE DEF s
  <2>3. ASSUME NEW u \in Tasks, s.status[u] = "finished"
        PROVE  taskAggregateStatus(u, s.targets[u], s.results) = "finished"
    <3>1. u # t
      BY <2>1, <2>3
    <3> QED
      BY <1>1, <2>1, <2>2, <2>3, <3>1, Zenon
  <2> QED
    BY <2>3, Zenon DEF Aggregated, s
<1>3. ASSUME NEW t \in Tasks PROVE Aggregated(Cancelled(live, t))
  <2> DEFINE s == Cancelled(live, t)
  <2>1. s.results = live.results /\ s.targets = live.targets /\ s.status[t] = "cancelled"
    BY <1>0, CancelledFields, Zenon
  <2>2. \A u \in Tasks : u # t => s.status[u] = live.status[u]
    BY <1>0, CancelledFields, Zenon
  <2> HIDE DEF s
  <2>3. ASSUME NEW u \in Tasks, s.status[u] = "finished"
        PROVE  taskAggregateStatus(u, s.targets[u], s.results) = "finished"
    <3>1. u # t
      BY <2>1, <2>3
    <3> QED
      BY <1>1, <2>1, <2>2, <2>3, <3>1, Zenon
  <2> QED
    BY <2>3, Zenon DEF Aggregated, s
<1>4. ASSUME NEW t \in Tasks PROVE Aggregated(Deleted(live, t))
  <2> DEFINE s == Deleted(live, t)
  <2>1. s.results = {r \in live.results : r.task # t} /\ s.status[t] = "none"
    BY <1>0, DeletedFields, Zenon
  <2>2. \A u \in Tasks : u # t => s.status[u] = live.status[u] /\ s.targets[u] = live.targets[u]
    BY <1>0, DeletedOthers, Zenon
  <2> HIDE DEF s
  <2>3. ASSUME NEW u \in Tasks, s.status[u] = "finished"
        PROVE  taskAggregateStatus(u, s.targets[u], s.results) = "finished"
    <3>1. u # t
      BY <2>1, <2>3
    <3>2. \A n : ResultsOf(s.results, u, n) = ResultsOf(live.results, u, n)
      BY <2>1, <3>1 DEF ResultsOf
    <3>3. taskAggregateStatus(u, s.targets[u], s.results)
            = taskAggregateStatus(u, s.targets[u], live.results)
      BY <3>2, AggregateLocal, Zenon
    <3> QED
      BY <1>1, <2>2, <2>3, <3>1, <3>3, Zenon
  <2> QED
    BY <2>3, Zenon DEF Aggregated, s
<1>5. ASSUME NEW n \in Nodes PROVE Aggregated(Leased(live, n))
  <2> DEFINE s == Leased(live, n)
  <2>1. s.results = live.results /\ s.targets = live.targets
    BY <1>0, LeasedFields, Zenon
  <2>2. \A u \in Tasks : s.status[u] = "leased" \/ s.status[u] = live.status[u]
    BY <1>0, LeasedStatus, Zenon
  <2> HIDE DEF s
  <2>3. ASSUME NEW u \in Tasks, s.status[u] = "finished"
        PROVE  taskAggregateStatus(u, s.targets[u], s.results) = "finished"
    <3>1. s.status[u] # "leased"
      BY <2>3
    <3> QED
      BY <1>1, <2>1, <2>2, <2>3, <3>1, Zenon
  <2> QED
    BY <2>3, Zenon DEF Aggregated, s
<1>6. ASSUME NEW p \in Post, live.results \ WithResult(live, p).results = {}
      PROVE  Aggregated(WithResult(live, p))
  <2> DEFINE s == WithResult(live, p)
             row == Row(p, appended + 1)
  <2>1. s.results = live.results \cup {row}
    BY <1>6, UnprunedResults, Zenon
  <2>2. \A u \in Tasks : u # p.task => s.status[u] = live.status[u]
    BY <1>0, ResultFields, Zenon
  <2>3. s.targets = live.targets
    BY <1>0, ResultFields, Zenon
  <2>4. s.status[p.task] = IF live.status[p.task] = "none" THEN "none"
                           ELSE taskAggregateStatus(p.task, live.targets[p.task], s.results)
    BY <1>0, ResultFields, Zenon
  <2>5. row.task = p.task
    BY Zenon DEF Row
  <2> HIDE DEF s, row
  <2>6. ASSUME NEW u \in Tasks, s.status[u] = "finished"
        PROVE  taskAggregateStatus(u, s.targets[u], s.results) = "finished"
    <3>1. CASE u = p.task
      <4>1. "finished" # "none"
        OBVIOUS
      <4> QED
        BY <2>3, <2>4, <2>6, <3>1, <4>1, Zenon
    <3>2. CASE u # p.task
      <4>1. \A n : ResultsOf(s.results, u, n) = ResultsOf(live.results, u, n)
        BY <2>1, <2>5, <3>2 DEF ResultsOf
      <4>2. taskAggregateStatus(u, s.targets[u], s.results)
              = taskAggregateStatus(u, s.targets[u], live.results)
        BY <4>1, AggregateLocal, Zenon
      <4> QED
        BY <1>1, <2>2, <2>3, <2>6, <3>2, <4>2, Zenon
    <3> QED
      BY <3>1, <3>2, Zenon
  <2> QED
    BY <2>6, Zenon DEF Aggregated, s
<1> QED
  BY <1>2, <1>3, <1>4, <1>5, <1>6, Zenon

\* A step that writes at most one aggregated state.
LEMMA OutcomeFrame ==
  ASSUME OutcomeInv, pruned \subseteq pruned',
         NEW s, pruned' = {} => Aggregated(s), AllStates' \subseteq AllStates \cup {s}
  PROVE  OutcomeInv'
<1> SUFFICES ASSUME pruned' = {}, NEW q \in AllStates' PROVE Aggregated(q)'
  BY Zenon DEF OutcomeInv
<1>1. Aggregated(q)
  BY Zenon DEF OutcomeInv
<1> QED
  BY <1>1, Zenon DEF Aggregated

\* Every step keeps the outcome of the tasks that are not cut short by the cap.
LEMMA OutcomeInvStep ==
  ASSUME QueueInv, OutcomeInv, [Next]_vars
  PROVE  OutcomeInv'
<1>0. TypeOK /\ (pruned = {} => Aggregated(live))
  BY Zenon DEF QueueInv, OutcomeInv, AllStates
<1>1. ASSUME NEW ts \in SUBSET Nodes, NEW oc \in Outcomes, CreateTask(ts, oc)
      PROVE  OutcomeInv'
  <2>1. /\ Save(Created(live, created + 1, ts), oc) /\ created < MaxTasks /\ pruned' = pruned
    BY <1>1, Zenon DEF CreateTask, Created, history
  <2>2. created + 1 \in Tasks
    BY <1>0, <2>1, TaskQueueAssumption DEF TypeOK, Tasks
  <2>3. pruned = {} => Aggregated(Created(live, created + 1, ts))
    BY <1>0, <2>2, WrittenOutcome, Zenon
  <2> QED
    BY <2>1, <2>3, StagedStates, OutcomeFrame, Zenon
<1>2. ASSUME NEW t \in Tasks, NEW oc \in Outcomes, CancelTask(t, oc)
      PROVE  OutcomeInv'
  <2>1. Save(Cancelled(live, t), oc) /\ pruned' = pruned
    BY <1>2, Zenon DEF CancelTask, Cancelled, history
  <2>2. pruned = {} => Aggregated(Cancelled(live, t))
    BY <1>0, WrittenOutcome, Zenon
  <2> QED
    BY <2>1, <2>2, StagedStates, OutcomeFrame, Zenon
<1>3. ASSUME NEW t \in Tasks, NEW oc \in Outcomes, DeleteTask(t, oc)
      PROVE  OutcomeInv'
  <2>1. Save(Deleted(live, t), oc) /\ pruned' = pruned
    BY <1>3, Zenon DEF DeleteTask, Deleted, history
  <2>2. pruned = {} => Aggregated(Deleted(live, t))
    BY <1>0, WrittenOutcome, Zenon
  <2> QED
    BY <2>1, <2>2, StagedStates, OutcomeFrame, Zenon
<1>4. ASSUME NEW n \in Nodes, NEW oc \in Outcomes, NEW arrives \in BOOLEAN,
             LeaseTasks(n, oc, arrives)
      PROVE  OutcomeInv'
  <2>1. Staged(Leased(live, n), oc) /\ pruned' = pruned
    BY <1>4, Zenon DEF LeaseTasks, history
  <2>2. pruned = {} => Aggregated(Leased(live, n))
    BY <1>0, WrittenOutcome, Zenon
  <2> QED
    BY <2>1, <2>2, StagedStates, OutcomeFrame, Zenon
<1>5. ASSUME NEW h \in Handlers, NEW p \in posting[h], NEW oc \in Outcomes, AddTaskResult(h, p, oc)
      PROVE  OutcomeInv'
  <2> DEFINE lost == live.results \ WithResult(live, p).results
  <2>1. /\ Staged(WithResult(live, p), oc)
        /\ pruned' = IF oc = "failed" THEN pruned ELSE pruned \cup {r.lease : r \in lost}
    BY <1>5, Zenon DEF AddTaskResult
  <2>2. p \in Post
    BY <1>0, Zenon DEF TypeOK
  <2>3. CASE oc = "failed"
    <3>1. AllStates' = AllStates /\ pruned' = pruned
      BY <2>1, <2>3, FailedStates, Zenon
    <3> QED
      BY <1>0, <3>1, OutcomeFrame, Zenon
  <2>4. CASE oc # "failed"
    <3>1. pruned' = {} => pruned = {} /\ lost = {}
      BY <2>1, <2>4
    <3>2. pruned' = {} => Aggregated(WithResult(live, p))
      BY <1>0, <2>2, <3>1, WrittenOutcome, Zenon
    <3>3. pruned \subseteq pruned'
      BY <2>1, Zenon
    <3> QED
      BY <2>1, <3>2, <3>3, StagedStates, OutcomeFrame, Zenon
  <2> QED
    BY <2>3, <2>4, Zenon
<1>6. ASSUME \/ \E h \in Handlers, i \in issued, ok \in BOOLEAN : requireTaskLease(h, i, ok)
             \/ \E l \in Leases : Expire(l)
             \/ \E t \in Tasks : PassDeadline(t)
             \/ \E t \in Tasks, n \in Nodes : Outrank(t, n)
             \/ UNCHANGED vars
      PROVE  OutcomeInv'
  <2>1. UNCHANGED <<stateFile, pruned>>
    BY <1>6, Zenon DEF requireTaskLease, Expire, PassDeadline, Outrank, vars, history
  <2>2. AllStates' = AllStates
    BY <2>1, Zenon DEF stateFile, AllStates
  <2> QED
    BY <1>0, <2>1, <2>2, OutcomeFrame, Zenon
<1>7. ASSUME NEW kind \in Crashes, NEW oc \in Outcomes, Crash(kind, oc) PROVE OutcomeInv'
  <2>1. AllStates' \subseteq AllStates /\ pruned' = pruned
    BY <1>7, RestartStates, Zenon DEF Crash, history
  <2> QED
    BY <1>0, <2>1, OutcomeFrame, Zenon
<1> QED
  BY <1>1, <1>2, <1>3, <1>4, <1>5, <1>6, <1>7, Zenon
     DEF Next, Poll, PostResult, CommitResult

Uncut == pruned = {}

RerunStep == \A i \in issued' \ issued : ~Answered(i.task, i.node)

TakenBack(t) ==
  crashes' = crashes /\ live.status[t] = "finished" /\ live'.status[t] \notin {"finished", "none"}

DecidesStep ==
  \A t \in Tasks : TakenBack(t) =>
    \E r \in live'.results \ live.results :
      \A q \in ResultsOf(live.results, t, r.node) : q.lease < r.lease

\* A poll hands out no target whose result was acknowledged.
LEMMA NotRerun ==
  ASSUME QueueInv, RunsInv, pruned = {}, [Next]_vars
  PROVE  RerunStep
<1>0. TypeOK /\ Keeps(live) /\ RunsOf(live)
  BY Zenon DEF QueueInv, RunsInv, AllStates
<1>1. ASSUME NEW n \in Nodes, NEW t \in HandedOut(live, n) PROVE ~Answered(t, n)
  <2>1. /\ live.status[t] # "none" /\ ResultsOf(live.results, t, n) = {}
    BY HandedOutFacts, Zenon DEF HandedOut, Leasable, taskCanLeaseTarget
  <2>2. SUFFICES ASSUME NEW i \in issued, i.task = t, i.node = n, i.lease \in acked PROVE FALSE
    BY Zenon DEF Answered
  <2>3. PICK r \in live.results : r.lease = i.lease
    BY <1>0, <2>1, <2>2, Zenon DEF Keeps
  <2>4. PICK j \in issued : j.lease = r.lease /\ j.task = r.task /\ j.node = r.node
    BY <1>0, Zenon DEF RunsOf, Backed
  <2>5. i = j
    BY <2>3, <2>4, Zenon DEF QueueInv, LeasesInv
  <2>6. r \in ResultsOf(live.results, t, n)
    BY <2>2, <2>4, <2>5, Zenon DEF ResultsOf
  <2> QED
    BY <2>1, <2>6, Zenon
<1>2. ASSUME NEW n \in Nodes, NEW oc \in Outcomes, NEW arrives \in BOOLEAN,
             LeaseTasks(n, oc, arrives)
      PROVE  RerunStep
  <2>1. issued' \subseteq issued \cup NewLeases(live, n)
    BY <1>2, Zenon DEF LeaseTasks
  <2>2. \A i \in NewLeases(live, n) : i.task \in HandedOut(live, n) /\ i.node = n
    BY DEF NewLeases
  <2> QED
    BY <1>1, <2>1, <2>2, Zenon DEF RerunStep
<1>3. ASSUME \/ \E ts \in SUBSET Nodes, oc \in Outcomes : CreateTask(ts, oc)
             \/ \E t \in Tasks, oc \in Outcomes : CancelTask(t, oc) \/ DeleteTask(t, oc)
             \/ \E h \in Handlers, i \in issued, ok \in BOOLEAN : requireTaskLease(h, i, ok)
             \/ \E h \in Handlers : \E p \in posting[h], oc \in Outcomes : AddTaskResult(h, p, oc)
             \/ \E l \in Leases : Expire(l)
             \/ \E t \in Tasks : PassDeadline(t)
             \/ \E t \in Tasks, n \in Nodes : Outrank(t, n)
             \/ \E kind \in Crashes, oc \in Outcomes : Crash(kind, oc)
             \/ UNCHANGED vars
      PROVE  RerunStep
  <2>1. issued' = issued
    BY <1>3, Zenon DEF CreateTask, CancelTask, DeleteTask, requireTaskLease, AddTaskResult,
       Expire, PassDeadline, Outrank, Crash, vars
  <2> QED
    BY <2>1, Zenon DEF RerunStep
<1> QED
  BY <1>2, <1>3, Zenon DEF Next, Poll, PostResult, CommitResult

\* Only a later run overtakes the results there are.
LEMMA OvertakenByLater ==
  ASSUME NEW R \in SUBSET Result, NEW row \in Result, LatestOk(R), ~LatestOk(R \cup {row}),
         \A q \in R : q.no <= row.no
  PROVE  \A q \in R : q.lease < row.lease
<1>1. PICK b \in R : /\ b.ok
                     /\ \A q \in R : q.lease < b.lease \/ (q.lease = b.lease /\ q.no >= b.no)
  BY Zenon DEF LatestOk
<1>2. /\ \A q \in R : q.lease \in Nat /\ q.no \in Nat
      /\ row.lease \in Nat /\ row.no \in Nat
  BY TaskQueueAssumption DEF Result, Leases
<1>3. ~(row.lease < b.lease \/ (row.lease = b.lease /\ row.no >= b.no))
  BY <1>1, Zenon DEF LatestOk
<1>4. row.no >= b.no /\ b.lease \in Nat
  BY <1>2
<1>5. b.lease < row.lease
  BY <1>2, <1>3, <1>4
<1>6. \A q \in R : q.lease <= b.lease
  BY <1>1, <1>2
<1> QED
  BY <1>2, <1>5, <1>6

\* The result of an earlier run takes no finished task back.
LEMMA ResultDecides ==
  ASSUME QueueInv, OutcomeInv, pruned' = {}, NEW h \in Handlers, NEW p \in posting[h],
         NEW oc \in Outcomes, AddTaskResult(h, p, oc), NEW t \in Tasks, TakenBack(t)
  PROVE  \E r \in live'.results \ live.results :
           \A q \in ResultsOf(live.results, t, r.node) : q.lease < r.lease
<1> DEFINE s == WithResult(live, p)
           row == Row(p, appended + 1)
           lost == live.results \ s.results
<1>1. /\ Staged(s, oc)
      /\ pruned' = IF oc = "failed" THEN pruned ELSE pruned \cup {r.lease : r \in lost}
  BY Zenon DEF AddTaskResult
<1>2. live \in State /\ p \in Post /\ appended \in Nat /\ Consistent(live)
  BY Zenon DEF QueueInv, TypeOK, AllStates
<1>3. live.status[t] = "finished" /\ live'.status[t] # "finished" /\ live'.status[t] # "none"
  BY Zenon DEF TakenBack
<1>4. oc # "failed"
  BY <1>1, <1>3, Zenon DEF Staged
<1>5. live' = s /\ pruned = {} /\ lost = {}
  BY <1>1, <1>4 DEF Staged
<1>6. s.results = live.results \cup {row} /\ row \notin live.results
  BY <1>2, <1>5, UnprunedResults, Zenon
<1>7. /\ row.task = p.task /\ row.node = p.node /\ row.no = appended + 1 /\ row \in Result
  <2>1. row \in Result
    BY <1>2 DEF Row, Post, Result
  <2> QED
    BY <2>1, Zenon DEF Row
<1>8. \A u \in Tasks : u # p.task => s.status[u] = live.status[u]
  BY <1>2, ResultFields, Zenon
<1>9. s.status[p.task] = IF live.status[p.task] = "none" THEN "none"
                         ELSE taskAggregateStatus(p.task, live.targets[p.task], s.results)
  BY <1>2, ResultFields, Zenon
<1>10. /\ \A r \in live.results : r.no <= appended /\ r.no \in Nat
       /\ live.results \in SUBSET Result
  BY <1>2, Zenon DEF Consistent, State, Result
<1> HIDE DEF s, row, lost
<1>11. t = p.task
  BY <1>3, <1>5, <1>8, Zenon
<1>12. taskAggregateStatus(t, live.targets[t], s.results) # "finished"
  BY <1>3, <1>5, <1>9, <1>11, Zenon
<1>13. taskAggregateStatus(t, live.targets[t], live.results) = "finished"
  BY <1>3, <1>5, Zenon DEF OutcomeInv, Aggregated, AllStates
<1>14. \A n \in live.targets[t] :
         ResultsOf(live.results, t, n) # {} /\ LatestOk(ResultsOf(live.results, t, n))
  BY <1>13 DEF taskAggregateStatus
<1>15. PICK n \in live.targets[t] :
         ResultsOf(s.results, t, n) = {} \/ ~LatestOk(ResultsOf(s.results, t, n))
  BY <1>12, Zenon DEF taskAggregateStatus
<1>16. ResultsOf(s.results, t, n) # {}
  BY <1>6, <1>14, Zenon DEF ResultsOf
<1> DEFINE R == ResultsOf(live.results, t, n)
<1>17. n = row.node
  <2>1. ASSUME n # row.node PROVE FALSE
    <3>1. ResultsOf(s.results, t, n) = R
      BY <1>6, <2>1 DEF ResultsOf
    <3> QED
      BY <1>14, <1>15, <1>16, <3>1, Zenon
  <2> QED
    BY <2>1, Zenon
<1>18. ResultsOf(s.results, t, n) = R \cup {row}
  BY <1>6, <1>7, <1>11, <1>17 DEF ResultsOf
<1>19. R \in SUBSET Result /\ LatestOk(R) /\ ~LatestOk(R \cup {row})
  BY <1>10, <1>14, <1>15, <1>16, <1>18, Zenon DEF ResultsOf
<1>20. \A q \in R : q.no <= row.no
  <2>1. \A q \in R : q.no <= appended /\ q.no \in Nat
    BY <1>10, Zenon DEF ResultsOf
  <2> QED
    BY <1>2, <1>7, <2>1
<1> HIDE DEF R
<1>21. \A q \in R : q.lease < row.lease
  BY <1>7, <1>19, <1>20, OvertakenByLater, Zenon
<1> QED
  BY <1>5, <1>6, <1>17, <1>21, Zenon DEF R

\* Nothing but a result takes a finished task back.
LEMMA LaterDecides ==
  ASSUME QueueInv, OutcomeInv, pruned' = {}, [Next]_vars
  PROVE  DecidesStep
<1> SUFFICES ASSUME NEW t \in Tasks, TakenBack(t)
             PROVE  \E r \in live'.results \ live.results :
                      \A q \in ResultsOf(live.results, t, r.node) : q.lease < r.lease
  BY Zenon DEF DecidesStep
<1>0. TypeOK /\ live \in State /\ Consistent(live)
  BY Zenon DEF QueueInv, TypeOK, AllStates
<1>t. /\ crashes' = crashes /\ live.status[t] = "finished"
      /\ live'.status[t] # "finished" /\ live'.status[t] # "none"
  BY Zenon DEF TakenBack
<1>1. ASSUME NEW ts \in SUBSET Nodes, NEW oc \in Outcomes, CreateTask(ts, oc) PROVE FALSE
  <2>1. live' = Created(live, created + 1, ts) /\ created < MaxTasks
    BY <1>1, Zenon DEF CreateTask, Created, Save
  <2>2. created + 1 \in Tasks /\ created + 1 > created
    BY <1>0, <2>1, TaskQueueAssumption DEF TypeOK, Tasks
  <2>3. live.status[created + 1] = "none"
    BY <1>0, <2>2, Zenon DEF Consistent
  <2>4. t # created + 1
    BY <1>t, <2>3
  <2>5. live'.status[t] = live.status[t]
    BY <1>0, <2>1, <2>2, <2>4, CreatedFields, Zenon
  <2> QED
    BY <1>t, <2>5, Zenon
<1>2. ASSUME NEW u \in Tasks, NEW oc \in Outcomes, CancelTask(u, oc) PROVE FALSE
  <2>1. live' = Cancelled(live, u) /\ live.status[u] \in {"queued", "leased"}
    BY <1>2, Zenon DEF CancelTask, Cancelled, Save
  <2>2. t # u
    BY <1>t, <2>1
  <2>3. live'.status[t] = live.status[t]
    BY <1>0, <2>1, <2>2, CancelledFields, ZenonT(40)
  <2> QED
    BY <1>t, <2>3, Zenon
<1>3. ASSUME NEW u \in Tasks, NEW oc \in Outcomes, DeleteTask(u, oc) PROVE FALSE
  <2>1. live' = Deleted(live, u)
    BY <1>3, Zenon DEF DeleteTask, Deleted, Save
  <2>2. CASE t = u
    BY <1>0, <1>t, <2>1, <2>2, DeletedFields, Zenon
  <2>3. CASE t # u
    BY <1>0, <1>t, <2>1, <2>3, DeletedOthers, Zenon
  <2> QED
    BY <2>2, <2>3, Zenon
<1>4. ASSUME NEW n \in Nodes, NEW oc \in Outcomes, NEW arrives \in BOOLEAN,
             LeaseTasks(n, oc, arrives)
      PROVE  FALSE
  <2>1. live' = live \/ live' = Leased(live, n)
    BY <1>4, Zenon DEF LeaseTasks, Staged
  <2>2. t \notin HandedOut(live, n)
    <3>1. t \in HandedOut(live, n) => live.status[t] \in {"queued", "leased"}
      BY Zenon DEF HandedOut, Leasable, taskCanLeaseTarget
    <3> QED
      BY <1>t, <3>1
  <2>3. Leased(live, n).status[t] = live.status[t]
    BY <1>0, <2>2, LeasedStatus, Zenon
  <2> QED
    BY <1>t, <2>1, <2>3, Zenon
<1>5. ASSUME NEW h \in Handlers, NEW p \in posting[h], NEW oc \in Outcomes, AddTaskResult(h, p, oc)
      PROVE  \E r \in live'.results \ live.results :
               \A q \in ResultsOf(live.results, t, r.node) : q.lease < r.lease
  BY <1>5, ResultDecides, Zenon
<1>6. ASSUME \/ \E h \in Handlers, i \in issued, ok \in BOOLEAN : requireTaskLease(h, i, ok)
             \/ \E l \in Leases : Expire(l)
             \/ \E u \in Tasks : PassDeadline(u)
             \/ \E u \in Tasks, n \in Nodes : Outrank(u, n)
             \/ UNCHANGED vars
      PROVE  FALSE
  <2>1. live' = live
    BY <1>6, Zenon DEF requireTaskLease, Expire, PassDeadline, Outrank, vars, stateFile
  <2> QED
    BY <1>t, <2>1, Zenon
<1>7. ASSUME NEW kind \in Crashes, NEW oc \in Outcomes, Crash(kind, oc) PROVE FALSE
  <2>1. crashes' = crashes + 1 /\ crashes \in Nat
    BY <1>0, <1>7, Zenon DEF Crash, Restart, TypeOK
  <2> QED
    BY <1>t, <2>1
<1> QED
  BY <1>1, <1>2, <1>3, <1>4, <1>5, <1>6, <1>7, Zenon
     DEF Next, Poll, PostResult, CommitResult

\* As long as the cap of the history drops no result, a target whose result was
\* acknowledged is never run again, and no late or repeated result of an
\* earlier run takes "finished" back, through failing writes, restarts and
\* power losses.
THEOREM LastRunDecides == Spec /\ [](pruned = {}) => LastRunStands
<1>1. QueueInv /\ RunsInv /\ [Next]_vars => RunsInv'
  BY RunsInvStep, Zenon DEF QueueInv
<1>2. QueueInv /\ OutcomeInv /\ [Next]_vars => OutcomeInv'
  BY OutcomeInvStep
<1>3. Init => OutcomeInv
  <2> SUFFICES ASSUME Init PROVE OutcomeInv
    OBVIOUS
  <2>1. AllStates = {emptyState}
    BY Zenon DEF Init, InitStateFile, AllStates
  <2>2. Aggregated(emptyState)
    BY DEF Aggregated, emptyState
  <2> QED
    BY <2>1, <2>2, Zenon DEF OutcomeInv
<1>4. QueueInv /\ RunsInv /\ Uncut /\ [Next]_vars => RerunStep
  BY NotRerun DEF Uncut
<1>5. QueueInv /\ OutcomeInv /\ Uncut' /\ [Next]_vars => DecidesStep
  BY LaterDecides DEF Uncut
<1>6. Spec /\ []Uncut => [][RerunStep]_vars /\ [][DecidesStep]_vars
  BY <1>1, <1>2, <1>3, <1>4, <1>5, RunsInvInit, QueueInvInit, QueueInvStep, PTL DEF Spec
<1> QED
  BY <1>6 DEF Uncut, LastRunStands, AnsweredNotRerun, LatestRunDecides, RerunStep, DecidesStep, TakenBack
=============================================================================
