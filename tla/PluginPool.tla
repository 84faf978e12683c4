----------------------------- MODULE PluginPool -----------------------------
(***************************************************************************)
(* One generation of a system plugin: its pool of worker processes         *)
(* (plugin/system_pool.go, system_transport.go) with the supervisor that   *)
(* replenishes it, the invocations that lease workers                      *)
(* (plugin/system_runner.go), the circuit breaker, and the two ways the    *)
(* generation ends: RetireGeneration, which lets invocations finish, and   *)
(* Stop, which aborts them.  One action is one stretch of code under a     *)
(* lock.  A slot of Workers is reused once its process is reaped: what a   *)
(* reaped process leaves in the drain ledger is kept in drainErr.          *)
(***************************************************************************)
EXTENDS Common, Naturals, Sequences, FiniteSets, SequencesExt

CONSTANTS
    Callers,        \* invocations at a time
    Workers,        \* process slots
    Size,           \* SystemPoolConfig.Size
    MaxOverflow,    \* SystemPoolConfig.MaxOverflow
    MaxUses,        \* SystemPoolConfig.MaxUses
    CrashThreshold, \* SystemRunnerOptions.CrashThreshold
    Stubborn        \* whether a process group may survive SIGKILL

ASSUME PoolAssumption == Size >= 1 /\ MaxOverflow >= 0 /\ MaxUses >= 1 /\ CrashThreshold >= 1

VARIABLES
    proc,           \* per worker: none, up (to be reaped if it exited) or stuck (survived the kill)
    uses,           \* pooledWorker.uses, MaxUses as well when the worker is past its maxAge
    idle,           \* systemPool.workers
    leased, active, \* systemPool.leased and its counter
    waiters,        \* systemPool.waiters
    result,         \* per caller, the buffered checkout result
    circuitOpen,
    reg,            \* transports in the drain ledger: asked to terminate, not joined
    drainErr,       \* a joined transport reported an error
    drain,          \* none, graceful or force: beginDrain
    supPending,     \* poolDrainFuture.supervisorPending
    finalized,      \* poolDrainFuture.finalized
    sup, signal, cand, supOwes,   \* replenishSupervisor: where it is, its signal, the worker it starts, the joins it waits for
    pc, workerOf, owes, ctx,          \* per caller: where it is, its worker, the joins it waits for, its context
    refs, gen, failures, startupFailures, tripped,  \* systemPluginState
    stopper, cleanup, workDir

poolVars == <<proc, uses, idle, leased, active, waiters, result, circuitOpen, reg, drainErr,
              drain, supPending, finalized, sup, signal, cand, supOwes, pc, workerOf, owes, ctx,
              refs, gen, failures, startupFailures, tripped, stopper, cleanup, workDir>>

runnerVars == <<refs, gen, failures, startupFailures, tripped, stopper, cleanup, workDir>>
callerVars == <<pc, workerOf, owes, ctx>>
supVars == <<sup, signal, cand, supOwes>>
drainVars == <<drain, supPending, finalized>>

closed == drain # "none"
capacity == Size + MaxOverflow

(* pruneInvalidLocked: the idle workers that stay, and the ones retired. *)
Fit(w) == uses[w] < MaxUses
Kept(ws) == SelectSeq(ws, Fit)
PoolPruned(ws) == {w \in ToSet(ws) : ~Fit(w)}

Replenishes == ~closed /\ ~circuitOpen

(* requestReplenishLocked *)
requestReplenish(wanted) ==
    IF wanted /\ Replenishes
    THEN sup' = (IF sup = "off" THEN "idle" ELSE sup) /\ signal' = TRUE
    ELSE UNCHANGED <<sup, signal>>

(* startTransportRetirements: the transports enter the ledger and are asked to terminate. *)
Retire(ws) == reg' = reg \cup ws

(* finalizeDrainLocked, over the values it is called with. *)
FinalizeWith(d, pending, lent, open) == finalized \/ (d # "none" /\ ~pending /\ lent = {} /\ open = {})

(* wakeLocked: the first waiter gets the first idle worker. *)
PoolWakes(ws, lent, n) ==
    IF waiters # <<>> /\ ws # <<>>
    THEN /\ idle' = Tail(ws) /\ leased' = lent \cup {Head(ws)} /\ active' = n + 1
         /\ waiters' = Tail(waiters) /\ result' = [result EXCEPT ![Head(waiters)] = Head(ws)]
    ELSE idle' = ws /\ leased' = lent /\ active' = n /\ UNCHANGED <<waiters, result>>

(* Every waiter is answered with the error and the queue is emptied. *)
Flush(err) ==
    /\ waiters' = <<>>
    /\ result' = [c \in Callers |-> IF c \in ToSet(waiters) THEN err ELSE result[c]]

-----------------------------------------------------------------------------
(* ---- processes ------------------------------------------------------------ *)

WorkerAges(w) ==
    /\ proc[w] = "up" /\ uses[w] < MaxUses
    /\ uses' = [uses EXCEPT ![w] = MaxUses]
    /\ UNCHANGED <<proc, idle, leased, active, waiters, result, circuitOpen, reg, drainErr, drainVars, supVars, callerVars, runnerVars>>

(* finishAbort and the join: the group is terminated, killed after the grace, and the ledger entry closes.  Our  *)
(* signal is no error, an exit of its own may be, and a group that survives the kill is residual.                *)
JoinTransport(w, how) ==
    /\ w \in reg
    /\ how = "survives" => Stubborn
    /\ proc' = [proc EXCEPT ![w] = IF how = "survives" THEN "stuck" ELSE "none"]
    /\ uses' = [uses EXCEPT ![w] = 0]
    /\ drainErr' = (drainErr \/ how # "clean")
    /\ reg' = reg \ {w}
    /\ owes' = [c \in Callers |-> owes[c] \ {w}] /\ supOwes' = supOwes \ {w}
    /\ finalized' = FinalizeWith(drain, supPending, leased, reg')
    /\ UNCHANGED <<idle, leased, active, waiters, result, circuitOpen, drain, supPending, sup, signal, cand, pc, workerOf, ctx, runnerVars>>

-----------------------------------------------------------------------------
(* ---- the circuit breaker --------------------------------------------------- *)

(* setCircuitOpen(true): idle workers are retired and waiters are told; `also` is what the caller retires with it. *)
OpensCircuit(also) ==
    /\ circuitOpen' = TRUE
    /\ idle' = <<>> /\ Flush("circuit")
    /\ Retire(ToSet(idle) \cup also)

-----------------------------------------------------------------------------
(* ---- invocations ------------------------------------------------------------ *)

Ready(c) == owes[c] = {}

(* AcquireInvocation *)
AcquireInvocation(c) ==
    /\ pc[c] = "out" /\ gen = "admitted"
    /\ refs' = refs + 1
    /\ pc' = [pc EXCEPT ![c] = "checkout"] /\ ctx' = [ctx EXCEPT ![c] = FALSE]
    /\ UNCHANGED <<proc, uses, idle, leased, active, waiters, result, circuitOpen, reg, drainErr, drainVars, supVars, workerOf, owes, gen, failures, startupFailures, tripped, stopper, cleanup, workDir>>

(* The caller gives up, or the invocation's budget runs out. *)
ContextEnds(c) ==
    /\ pc[c] \in {"checkout", "waiting", "leased", "running"} /\ ~ctx[c]
    /\ ctx' = [ctx EXCEPT ![c] = TRUE]
    /\ UNCHANGED <<proc, uses, idle, leased, active, waiters, result, circuitOpen, reg, drainErr, drainVars, supVars, pc, workerOf, owes, runnerVars>>

(* invokeState, then checkout under the lock: an idle worker is leased, an error is returned, or the caller queues. *)
checkout(c) ==
    /\ pc[c] = "checkout"
    /\ IF tripped THEN /\ pc' = [pc EXCEPT ![c] = "release"]
                       /\ UNCHANGED <<uses, idle, leased, active, waiters, workerOf, owes, reg, sup, signal>>
       ELSE LET ws == Kept(idle) IN
            /\ Retire(PoolPruned(idle))
            /\ owes' = [owes EXCEPT ![c] = PoolPruned(idle)]
            /\ IF ws # <<>> /\ ~ctx[c]
               THEN /\ idle' = Tail(ws) /\ leased' = leased \cup {Head(ws)} /\ active' = active + 1
                    /\ workerOf' = [workerOf EXCEPT ![c] = Head(ws)]
                    /\ pc' = [pc EXCEPT ![c] = "leased"]
                    /\ requestReplenish(PoolPruned(idle) # {})
                    /\ UNCHANGED waiters
               ELSE IF ws # <<>> \/ closed \/ circuitOpen
               THEN /\ idle' = ws /\ pc' = [pc EXCEPT ![c] = "release"]
                    /\ requestReplenish(PoolPruned(idle) # {})
                    /\ UNCHANGED <<leased, active, waiters, workerOf>>
               ELSE /\ idle' = ws /\ waiters' = Append(waiters, c) /\ pc' = [pc EXCEPT ![c] = "waiting"]
                    /\ requestReplenish(TRUE)
                    /\ UNCHANGED <<leased, active, workerOf>>
            /\ UNCHANGED uses
    /\ UNCHANGED <<proc, result, circuitOpen, drainErr, drainVars, cand, supOwes, ctx, runnerVars>>

(* checkout, the result arm: a worker or an error was delivered. *)
ReceiveResult(c) ==
    /\ pc[c] = "waiting" /\ Ready(c) /\ result[c] # None
    /\ result' = [result EXCEPT ![c] = None]
    /\ workerOf' = [workerOf EXCEPT ![c] = IF result[c] \in Workers THEN result[c] ELSE None]
    /\ pc' = [pc EXCEPT ![c] = IF result[c] \in Workers THEN "leased" ELSE "release"]
    /\ UNCHANGED <<proc, uses, idle, leased, active, waiters, circuitOpen, reg, drainErr, drainVars, supVars, owes, ctx, runnerVars>>

\* Mutant: a cancelled waiter leaves without looking for a result already delivered.
CancelWaitLoses(c) ==
    /\ pc[c] = "waiting" /\ Ready(c) /\ ctx[c]
    /\ waiters' = SelectSeq(waiters, LAMBDA d : d # c)
    /\ pc' = [pc EXCEPT ![c] = "release"]
    /\ UNCHANGED <<proc, uses, idle, leased, active, result, circuitOpen, reg, drainErr, drainVars, supVars, workerOf, owes, ctx, runnerVars>>

(* checkout, the cancelled arm: the waiter leaves the queue; when wakeLocked took it first, its result is read (ReceiveResult). *)
CancelWait(c) ==
    /\ pc[c] = "waiting" /\ Ready(c) /\ ctx[c] /\ c \in ToSet(waiters)
    /\ waiters' = SelectSeq(waiters, LAMBDA d : d # c)
    /\ pc' = [pc EXCEPT ![c] = "release"]
    /\ UNCHANGED <<proc, uses, idle, leased, active, result, circuitOpen, reg, drainErr, drainVars, supVars, workerOf, owes, ctx, runnerVars>>

(* finishLease: a lease that force took away is ignored; a worker that is spent, or of a closed or tripped pool, is retired. *)
finishLease(c, used) ==
    LET w == workerOf[c] n == IF used /\ Fit(w) THEN uses[w] + 1 ELSE uses[w] spent == closed \/ circuitOpen \/ n >= MaxUses IN
    IF w \notin leased
    THEN UNCHANGED <<uses, idle, leased, active, waiters, result, reg, finalized, sup, signal, owes>>
    ELSE /\ uses' = [uses EXCEPT ![w] = n]
         /\ IF spent
            THEN /\ leased' = leased \ {w} /\ active' = active - 1
                 /\ Retire({w}) /\ owes' = [owes EXCEPT ![c] = {w}]
                 /\ finalized' = FinalizeWith(drain, supPending, leased', reg')
                 /\ requestReplenish(TRUE)
                 /\ UNCHANGED <<idle, waiters, result>>
            ELSE /\ LET ws == Kept(idle) \o <<w>> IN PoolWakes(ws, leased \ {w}, active - 1)
                 /\ Retire(PoolPruned(idle)) /\ owes' = [owes EXCEPT ![c] = PoolPruned(idle)]
                 /\ requestReplenish(PoolPruned(idle) # {})
                 /\ UNCHANGED finalized

(* checkout's last look at the context, and invokeV2's first: an unused worker goes back. *)
BeginInvoke(c) ==
    /\ pc[c] = "leased" /\ Ready(c)
    /\ IF ctx[c]
       THEN finishLease(c, FALSE) /\ pc' = [pc EXCEPT ![c] = "release"] /\ workerOf' = [workerOf EXCEPT ![c] = None]
       ELSE /\ pc' = [pc EXCEPT ![c] = "running"]
            /\ UNCHANGED <<uses, idle, leased, active, waiters, result, reg, finalized, sup, signal, owes, workerOf>>
    /\ UNCHANGED <<proc, circuitOpen, drainErr, drain, supPending, cand, supOwes, ctx, runnerVars>>

(* invokeV2Pooled, the reusable outcome: release, then recordLifecycleSuccess. *)
InvokeSucceeds(c) ==
    /\ pc[c] = "running" /\ proc[workerOf[c]] = "up" /\ workerOf[c] \notin reg
    /\ finishLease(c, TRUE)
    /\ failures' = IF gen # "removed" THEN 0 ELSE failures
    /\ pc' = [pc EXCEPT ![c] = "release"] /\ workerOf' = [workerOf EXCEPT ![c] = None]
    /\ UNCHANGED <<proc, circuitOpen, drainErr, drain, supPending, cand, supOwes, ctx, refs, gen, startupFailures, tripped, stopper, cleanup, workDir>>

(* invokeV2Pooled, an error or a retirement: recordLifecycleFailure, which counts unless the caller gave up and may trip the breaker. *)
InvokeFails(c, gaveUp) ==
    /\ pc[c] = "running" /\ (gaveUp => ctx[c]) /\ (stopper # "none" => gaveUp)
    /\ LET counts == ~gaveUp /\ gen # "removed"
           trips == counts /\ (tripped \/ failures + 1 >= CrashThreshold) IN
       /\ failures' = IF counts /\ failures < CrashThreshold THEN failures + 1 ELSE failures
       /\ tripped' = (tripped \/ trips)
       /\ IF trips THEN OpensCircuit({}) /\ owes' = [owes EXCEPT ![c] = ToSet(idle)]
          ELSE UNCHANGED <<circuitOpen, idle, waiters, result, reg, owes>>
    /\ pc' = [pc EXCEPT ![c] = "poison"]
    /\ UNCHANGED <<proc, uses, leased, active, drainErr, drainVars, supVars, workerOf, ctx, refs, gen, startupFailures, stopper, cleanup, workDir>>

(* poison *)
poison(c) ==
    /\ pc[c] = "poison" /\ Ready(c)
    /\ LET w == workerOf[c] IN
       IF w \in leased
       THEN /\ leased' = leased \ {w} /\ active' = active - 1
            /\ Retire({w}) /\ owes' = [owes EXCEPT ![c] = {w}]
            /\ finalized' = FinalizeWith(drain, supPending, leased', reg')
            /\ requestReplenish(TRUE)
       ELSE UNCHANGED <<leased, active, reg, owes, finalized, sup, signal>>
    /\ pc' = [pc EXCEPT ![c] = "release"] /\ workerOf' = [workerOf EXCEPT ![c] = None]
    /\ UNCHANGED <<proc, uses, idle, waiters, result, circuitOpen, drainErr, drain, supPending, cand, supOwes, ctx, runnerVars>>

(* systemInvocationLease.Release *)
Release(c) ==
    /\ pc[c] = "release" /\ Ready(c)
    /\ refs' = refs - 1
    /\ pc' = [pc EXCEPT ![c] = "out"] /\ ctx' = [ctx EXCEPT ![c] = FALSE] /\ owes' = [owes EXCEPT ![c] = {}]
    /\ UNCHANGED <<proc, uses, idle, leased, active, waiters, result, circuitOpen, reg, drainErr, drainVars, supVars, workerOf, gen, failures, startupFailures, tripped, stopper, cleanup, workDir>>

-----------------------------------------------------------------------------
(* ---- the supervisor ---------------------------------------------------------- *)

SupWakes ==
    /\ sup = "idle" /\ signal /\ supOwes = {}
    /\ sup' = "plan" /\ signal' = FALSE
    /\ UNCHANGED <<proc, uses, idle, leased, active, waiters, result, circuitOpen, reg, drainErr, drainVars, cand, supOwes, callerVars, runnerVars>>

(* superCtx is cancelled by beginDrain. *)
SupEnds ==
    /\ sup \in {"idle", "backoff"} /\ closed /\ supOwes = {}
    /\ sup' = "done" /\ supOwes' = {}
    /\ UNCHANGED <<proc, uses, idle, leased, active, waiters, result, circuitOpen, reg, drainErr, drainVars, signal, cand, callerVars, runnerVars>>

(* replenishSupervisor: what is missing is started; nothing missing, it waits for the next signal. *)
SupPlans ==
    /\ sup = "plan" /\ supOwes = {}
    /\ LET ws == Kept(idle)
           base == IF gen = "prepared" THEN 1 ELSE Size
           desired == IF waiters # <<>> THEN (IF base + MaxOverflow < capacity THEN base + MaxOverflow ELSE capacity) ELSE base
           starts == ~closed /\ ~circuitOpen /\ Len(ws) + active < desired IN
       /\ idle' = ws
       /\ Retire(PoolPruned(idle)) /\ supOwes' = PoolPruned(idle)
       /\ signal' = (signal \/ (PoolPruned(idle) # {} /\ Replenishes))
       /\ IF starts
          THEN \E w \in Workers : proc[w] = "none" /\ w \notin ToSet(idle) \cup leased \cup reg /\ cand' = w /\ sup' = "start"
          ELSE cand' = None /\ sup' = "idle"
    /\ UNCHANGED <<proc, uses, leased, active, waiters, result, circuitOpen, drainErr, drainVars, callerVars, runnerVars>>

PoolRoom == ~closed /\ ~circuitOpen /\ Len(idle) + active < capacity

(* replenishFn returns a ready worker; with no place for it, it is rejected. *)
SupStarted ==
    /\ sup = "start" /\ supOwes = {}
    /\ proc' = [proc EXCEPT ![cand] = "up"]
    /\ IF PoolRoom THEN sup' = "publish" /\ UNCHANGED <<cand, supOwes, reg>>
       ELSE sup' = "backoff" /\ cand' = None /\ Retire({cand}) /\ supOwes' = {cand}
    /\ UNCHANGED <<uses, idle, leased, active, waiters, result, circuitOpen, drainErr, drainVars, signal, callerVars, runnerVars>>

(* replenishFn fails, before the process runs or after; recordGenerationFailure counts a failure that no cancellation caused. *)
SupFails(runs) ==
    /\ sup = "start" /\ supOwes = {}
    /\ LET mine == IF runs THEN {cand} ELSE {}
           counts == ~closed /\ ~circuitOpen /\ gen # "removed"
           trips == counts /\ (tripped \/ startupFailures + 1 >= CrashThreshold) IN
       /\ proc' = IF runs THEN [proc EXCEPT ![cand] = "up"] ELSE proc
       /\ startupFailures' = IF counts /\ startupFailures < CrashThreshold THEN startupFailures + 1 ELSE startupFailures
       /\ tripped' = (tripped \/ trips)
       /\ IF trips THEN OpensCircuit(mine) /\ supOwes' = ToSet(idle) \cup mine
          ELSE Retire(mine) /\ supOwes' = mine /\ UNCHANGED <<circuitOpen, idle, waiters, result>>
    /\ sup' = "backoff" /\ cand' = None
    /\ UNCHANGED <<uses, leased, active, drainErr, drainVars, signal, callerVars, refs, gen, failures, stopper, cleanup, workDir>>

(* recordGenerationSuccess, then the second look under the lock: the worker is published, or dropped. *)
SupPublishes ==
    /\ sup = "publish"
    /\ startupFailures' = IF gen # "removed" THEN 0 ELSE startupFailures
    /\ IF PoolRoom
       THEN /\ PoolWakes(Kept(idle) \o <<cand>>, leased, active)
            /\ Retire(PoolPruned(idle)) /\ supOwes' = PoolPruned(idle)
            /\ signal' = (signal \/ PoolPruned(idle) # {})
            /\ sup' = "plan"
       ELSE sup' = "backoff" /\ supOwes' = {} /\ UNCHANGED <<idle, leased, active, waiters, result, reg, signal>>
    /\ cand' = None
    /\ UNCHANGED <<proc, uses, circuitOpen, drainErr, drainVars, callerVars, refs, gen, failures, tripped, stopper, cleanup, workDir>>

SupRetries ==
    /\ sup = "backoff" /\ supOwes = {}
    /\ sup' = "plan" /\ supOwes' = {}
    /\ UNCHANGED <<proc, uses, idle, leased, active, waiters, result, circuitOpen, reg, drainErr, drainVars, signal, cand, callerVars, runnerVars>>

(* The goroutine of beginDrain that waits for superDone. *)
SupJoined ==
    /\ sup = "done" /\ supPending
    /\ supPending' = FALSE
    /\ finalized' = FinalizeWith(drain, FALSE, leased, reg)
    /\ UNCHANGED <<proc, uses, idle, leased, active, waiters, result, circuitOpen, reg, drainErr, drain, supVars, callerVars, runnerVars>>

-----------------------------------------------------------------------------
(* ---- the generation ends ------------------------------------------------------ *)

(* beginDrain: admission closes, idle workers are retired, waiters are told; force revokes the leases too. *)
beginDrain(force) ==
    /\ drain' = IF force \/ drain = "force" THEN "force" ELSE "graceful"
    /\ idle' = <<>> /\ Flush("closed")
    /\ supPending' = IF closed THEN supPending ELSE sup # "off"
    /\ IF drain' = "force"
       THEN leased' = {} /\ active' = active - Cardinality(leased) /\ Retire(ToSet(idle) \cup leased)
       ELSE UNCHANGED <<leased, active>> /\ Retire(ToSet(idle))
    /\ finalized' = FinalizeWith(drain', supPending', leased', reg')

(* ActivateGeneration *)
ActivateGeneration ==
    /\ gen = "prepared"
    /\ gen' = "admitted"
    /\ requestReplenish(TRUE)
    /\ UNCHANGED <<proc, uses, idle, leased, active, waiters, result, circuitOpen, reg, drainErr, drainVars, cand, supOwes, callerVars, refs, failures, startupFailures, tripped, stopper, cleanup, workDir>>

(* RetireGeneration: no more admissions; the cleanup waits for the invocations. *)
RetireGeneration ==
    /\ gen \in {"prepared", "admitted"}
    /\ gen' = "retiring"
    /\ cleanup' = IF cleanup = "none" THEN "refs" ELSE cleanup
    /\ UNCHANGED <<proc, uses, idle, leased, active, waiters, result, circuitOpen, reg, drainErr, drainVars, supVars, callerVars, refs, failures, startupFailures, tripped, stopper, workDir>>

(* broadcastCleanup(force), first half: no more admissions, and every invocation's context is cancelled. *)
StopGeneration ==
    /\ stopper = "none" /\ gen # "removed"
    /\ stopper' = "marked" /\ gen' = "retiring"
    /\ ctx' = [c \in Callers |-> pc[c] # "out"]
    /\ UNCHANGED <<proc, uses, idle, leased, active, waiters, result, circuitOpen, reg, drainErr, drainVars, supVars, pc, workerOf, owes, refs, failures, startupFailures, tripped, cleanup, workDir>>

(* broadcastCleanup(force), second half: the pool drains by force and the cleanup is armed. *)
StopDrains ==
    /\ stopper = "marked"
    /\ stopper' = "drained"
    /\ IF finalized THEN UNCHANGED <<drain, supPending, idle, leased, active, waiters, result, reg, finalized>> ELSE beginDrain(TRUE)
    /\ cleanup' = IF cleanup = "none" THEN "refs" ELSE cleanup
    /\ UNCHANGED <<proc, uses, circuitOpen, drainErr, supVars, callerVars, refs, gen, failures, startupFailures, tripped, workDir>>

(* cleanupGeneration, once the invocations are gone: drain by the mode asked for so far. *)
CleanupDrains ==
    /\ cleanup = "refs" /\ refs = 0
    /\ cleanup' = "drain"
    /\ IF finalized THEN UNCHANGED <<drain, supPending, idle, leased, active, waiters, result, reg, finalized>> ELSE beginDrain(stopper # "none")
    /\ UNCHANGED <<proc, uses, circuitOpen, drainErr, supVars, callerVars, refs, gen, failures, startupFailures, tripped, stopper, workDir>>

(* cleanupGeneration, the pool drained: the directory goes unless a process is left; with no error the generation is forgotten. *)
CleanupEnds ==
    /\ cleanup = "drain" /\ finalized
    /\ workDir' = (\E w \in Workers : proc[w] = "stuck")
    /\ gen' = IF drainErr THEN gen ELSE "removed"
    /\ cleanup' = IF drainErr THEN "failed" ELSE "done"
    /\ UNCHANGED <<proc, uses, idle, leased, active, waiters, result, circuitOpen, reg, drainErr, drainVars, supVars, callerVars, refs, failures, startupFailures, tripped, stopper>>

-----------------------------------------------------------------------------
(* Prepare has published the first worker. *)
PoolInit ==
    \E w0 \in {CHOOSE w \in Workers : TRUE} :
        /\ proc = [w \in Workers |-> IF w = w0 THEN "up" ELSE "none"]
        /\ idle = <<w0>>
        /\ uses = [w \in Workers |-> 0]
        /\ leased = {} /\ active = 0 /\ waiters = <<>> /\ result = [c \in Callers |-> None] /\ circuitOpen = FALSE
        /\ reg = {} /\ drainErr = FALSE /\ drain = "none" /\ supPending = FALSE /\ finalized = FALSE
        /\ sup = "off" /\ signal = FALSE /\ cand = None /\ supOwes = {}
        /\ pc = [c \in Callers |-> "out"] /\ workerOf = [c \in Callers |-> None]
        /\ owes = [c \in Callers |-> {}] /\ ctx = [c \in Callers |-> FALSE]
        /\ refs = 0 /\ gen = "prepared" /\ failures = 0 /\ startupFailures = 0 /\ tripped = FALSE
        /\ stopper = "none" /\ cleanup = "none" /\ workDir = TRUE

CallerStep(c) ==
    \/ checkout(c) \/ ReceiveResult(c) \/ CancelWait(c) \/ BeginInvoke(c)
    \/ InvokeSucceeds(c) \/ InvokeFails(c, TRUE) \/ InvokeFails(c, FALSE) \/ poison(c) \/ Release(c)

SupStep == SupWakes \/ SupEnds \/ SupPlans \/ SupStarted \/ SupPublishes \/ SupRetries \/ SupJoined

CleanupStep == StopDrains \/ CleanupDrains \/ CleanupEnds

PoolNext ==
    \/ \E c \in Callers : AcquireInvocation(c) \/ CallerStep(c) \/ ContextEnds(c)
    \/ \E w \in Workers : WorkerAges(w) \/ JoinTransport(w, "clean") \/ JoinTransport(w, "error") \/ JoinTransport(w, "survives")
    \/ SupStep \/ SupFails(TRUE) \/ SupFails(FALSE)
    \/ ActivateGeneration \/ RetireGeneration \/ StopGeneration \/ CleanupStep

-----------------------------------------------------------------------------
(* Every variable of the pool and of its generation holds a value of its kind. *)
PoolTypeOK ==
    /\ proc \in [Workers -> {"none", "up", "stuck"}] /\ uses \in [Workers -> 0..MaxUses]
    /\ ToSet(idle) \subseteq Workers /\ leased \subseteq Workers /\ active \in 0..capacity
    /\ ToSet(waiters) \subseteq Callers /\ result \in [Callers -> Workers \cup {None, "circuit", "closed"}]
    /\ reg \subseteq Workers /\ {circuitOpen, drainErr, supPending, finalized, signal, tripped, workDir} \subseteq BOOLEAN
    /\ drain \in {"none", "graceful", "force"} /\ sup \in {"off", "idle", "plan", "start", "publish", "backoff", "done"}
    /\ cand \in Maybe(Workers) /\ supOwes \subseteq Workers /\ workerOf \in [Callers -> Maybe(Workers)]
    /\ pc \in [Callers -> {"out", "checkout", "waiting", "leased", "running", "poison", "release"}]
    /\ refs \in 0..Cardinality(Callers) /\ gen \in {"prepared", "admitted", "retiring", "removed"}
    /\ failures \in 0..CrashThreshold /\ startupFailures \in 0..CrashThreshold
    /\ stopper \in {"none", "marked", "drained"} /\ cleanup \in {"none", "refs", "drain", "done", "failed"}

(* systemPool "owns lifecycle invariants" (system_pool.go:32): a leased worker has exactly one holder, so no lease is   *)
(* lost between wakeLocked and a cancelled waiter; the counter is the number of leases; the pool never exceeds its      *)
(* capacity; no caller waits beside an idle worker; a worker on its way out is neither idle nor leased.                 *)
LeasesSound ==
    /\ \A w \in leased : Cardinality({c \in Callers : workerOf[c] = w \/ (pc[c] = "waiting" /\ result[c] = w)}) = 1
    /\ active = Cardinality(leased)
    /\ Len(idle) + active + (IF sup \in {"start", "publish"} THEN 1 ELSE 0) <= capacity
    /\ waiters = <<>> \/ idle = <<>>
    /\ (ToSet(idle) \cup leased) \cap reg = {} /\ ToSet(idle) \cap leased = {}
    /\ circuitOpen => idle = <<>>

(* The teardown ledger: once the drain reports its end the pool holds nothing, the supervisor is gone, every transport  *)
(* in the ledger was joined; a generation whose directory is removed has no invocation left.                            *)
DrainSound ==
    /\ finalized => idle = <<>> /\ leased = {} /\ waiters = <<>> /\ reg = {} /\ sup \in {"off", "done"}
    /\ cleanup \in {"done", "failed"} => refs = 0 /\ \A c \in Callers : result[c] = None
    /\ gen = "removed" => ~workDir

(* "A worker that started cleanly but has no place in the pool's current state is rejected" (system_pool.go:799): the   *)
(* files of a generation are removed only when none of its processes is left.                                           *)
\* TLC refutes it (README.md, section 6).
NoStrayWorker == ~workDir => \A w \in Workers : proc[w] = "none"

(* The worker pool keeps its books through leases, crashes, cancelled waits and teardown (system_pool.go).     *)
PoolSound == PoolTypeOK /\ LeasesSound /\ DrainSound

=============================================================================
