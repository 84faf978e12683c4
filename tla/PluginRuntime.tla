--------------------------- MODULE PluginRuntime ---------------------------
(***************************************************************************)
(* The runtime manager (plugin/runtime.go) for one plugin on the system    *)
(* runner: Start prepares a generation outside the lock, activates it and  *)
(* retires the one before; Stop and RunClose take a tombstone generation and  *)
(* finish in the background when every start, cleanup and earlier stop     *)
(* they saw has ended; invocations hold a lease on the armed generation.   *)
(* A generation of the runner is what its cleanup shows from outside (its  *)
(* pool is PluginPool).  Every Start, Stop and RunClose takes the next        *)
(* generation number, so a call is named by its number.                    *)
(***************************************************************************)
EXTENDS Common, Naturals, FiniteSets

CONSTANTS
    Invokers,       \* invocations at a time
    MaxGen          \* bound: calls of Start, Stop and RunClose

Gens == 1..MaxGen

VARIABLES
    nextGen, latest,    \* RuntimeManager.nextGen, latestGen of the plugin
    inst,               \* the instance: [state, gen, live], live when it has a runner and a broker
    start,              \* per Start: none, preparing, prepared, failed, retiring (the old generation), aborting or done
    stale,              \* per Start: its context is cancelled
    pending,            \* pendingStarts
    clean,              \* per Start, its cleanup: none, ok or err
    old,                \* per Start, the generation it replaces
    fut,                \* per Stop (and RunClose), its future
    closing, rclosing,  \* RuntimeManager.closing, SystemRunner.closing
    rgen,               \* the runner's generations: none, prepared, admitted, draining, stopping, removed or failed
    lease               \* per invocation, the generation it holds

runVars == <<nextGen, latest, inst, start, stale, pending, clean, old, fut, closing, rclosing, rgen, lease>>

RunPresent(g) == rgen[g] \notin {"none", "removed"}
RunLeased(g) == \E i \in Invokers : lease[i] = g
Ended(g) == rgen[g] \in {"removed", "failed"}
Armed == inst.state = "armed"

-----------------------------------------------------------------------------
(* ---- Start ---------------------------------------------------------------- *)

(* Start takes a generation, becomes the latest and is pending while the runner prepares. *)
Start ==
    /\ ~closing /\ nextGen < MaxGen
    /\ LET g == nextGen + 1 IN
       /\ nextGen' = g /\ latest' = g
       /\ start' = [start EXCEPT ![g] = "preparing"]
       /\ pending' = pending \cup {g}
    /\ UNCHANGED <<inst, stale, clean, old, fut, closing, rclosing, rgen, lease>>

(* SystemRunner.Prepare: refused when its context ended, the runner closed or a newer generation is present. *)
Prepare(g, ok) ==
    /\ start[g] = "preparing"
    /\ ok => ~stale[g] /\ ~rclosing /\ \A h \in Gens : RunPresent(h) => h < g
    /\ start' = [start EXCEPT ![g] = IF ok THEN "prepared" ELSE "failed"]
    /\ rgen' = IF ok THEN [rgen EXCEPT ![g] = "prepared"] ELSE rgen
    /\ UNCHANGED <<nextGen, latest, inst, stale, pending, clean, old, fut, closing, rclosing, lease>>

\* Mutant: a start that was overtaken while it prepared goes on.
CurrentUnchecked(g) == ~closing

Current(g) == ~closing /\ latest = g

(* The second half of Start when it was overtaken: a prepared generation is aborted in the background. *)
StartStale(g) ==
    /\ start[g] \in {"prepared", "failed"} /\ ~(~closing /\ latest = g)
    /\ start' = [start EXCEPT ![g] = IF start[g] = "prepared" THEN "aborting" ELSE "done"]
    /\ clean' = [clean EXCEPT ![g] = IF start[g] = "failed" THEN "ok" ELSE clean[g]]
    /\ pending' = IF start[g] = "failed" THEN pending \ {g} ELSE pending
    /\ rgen' = IF start[g] = "prepared" /\ rgen[g] = "prepared" THEN [rgen EXCEPT ![g] = "stopping"] ELSE rgen
    /\ UNCHANGED <<nextGen, latest, inst, stale, old, fut, closing, rclosing, lease>>

(* The second half of Start when Prepare failed: an armed instance stays, any other is marked failed. *)
StartFailed(g) ==
    /\ start[g] = "failed" /\ Current(g)
    /\ inst' = IF Armed THEN inst ELSE [state |-> "failed", gen |-> g, live |-> FALSE]
    /\ start' = [start EXCEPT ![g] = "done"] /\ clean' = [clean EXCEPT ![g] = "ok"] /\ pending' = pending \ {g}
    /\ UNCHANGED <<nextGen, latest, stale, old, fut, closing, rclosing, rgen, lease>>

(* The second half of Start: ActivateGeneration and the instance, under the manager's lock. *)
StartArms(g) ==
    /\ start[g] = "prepared" /\ Current(g) /\ ~rclosing /\ rgen[g] = "prepared"
    /\ rgen' = [rgen EXCEPT ![g] = "admitted"]
    /\ old' = [old EXCEPT ![g] = IF inst.live THEN inst.gen ELSE 0]
    /\ inst' = [state |-> "armed", gen |-> g, live |-> TRUE]
    /\ start' = [start EXCEPT ![g] = IF inst.live THEN "retiring" ELSE "done"]
    /\ IF inst.live THEN UNCHANGED <<pending, clean>>
       ELSE pending' = pending \ {g} /\ clean' = [clean EXCEPT ![g] = "ok"]
    /\ UNCHANGED <<nextGen, latest, stale, fut, closing, rclosing, lease>>

(* ActivateGeneration refuses: the runner is closing. *)
StartRefused(g) ==
    /\ start[g] = "prepared" /\ Current(g) /\ (rclosing \/ rgen[g] # "prepared")
    /\ inst' = IF Armed THEN inst ELSE [state |-> "failed", gen |-> g, live |-> FALSE]
    /\ start' = [start EXCEPT ![g] = "aborting"]
    /\ rgen' = IF rgen[g] = "prepared" THEN [rgen EXCEPT ![g] = "stopping"] ELSE rgen
    /\ UNCHANGED <<nextGen, latest, stale, pending, clean, old, fut, closing, rclosing, lease>>

(* RetireGeneration of the generation before, after the lock is released. *)
RetireOld(g) ==
    /\ start[g] = "retiring"
    /\ rgen' = IF rgen[old[g]] \in {"prepared", "admitted"} THEN [rgen EXCEPT ![old[g]] = "draining"] ELSE rgen
    /\ start' = [start EXCEPT ![g] = "done"] /\ clean' = [clean EXCEPT ![g] = "ok"] /\ pending' = pending \ {g}
    /\ UNCHANGED <<nextGen, latest, inst, stale, old, fut, closing, rclosing, lease>>

(* launchCleanup's goroutine: AbortGeneration returned; a failed cleanup stays among the pending starts. *)
AbortEnds(g) ==
    /\ start[g] = "aborting" /\ (Ended(g) \/ rgen[g] = "none")
    /\ start' = [start EXCEPT ![g] = "done"]
    /\ clean' = [clean EXCEPT ![g] = IF rgen[g] = "failed" THEN "err" ELSE "ok"]
    /\ pending' = IF rgen[g] = "failed" THEN pending ELSE pending \ {g}
    /\ UNCHANGED <<nextGen, latest, inst, stale, old, fut, closing, rclosing, rgen, lease>>

-----------------------------------------------------------------------------
(* ---- the runner's generations ----------------------------------------------- *)

(* cleanupGeneration, once no invocation holds the generation: it is removed, or kept with its error. *)
GenerationEnds(g, err) ==
    /\ rgen[g] \in {"draining", "stopping"} /\ ~RunLeased(g)
    /\ rgen' = [rgen EXCEPT ![g] = IF err THEN "failed" ELSE "removed"]
    /\ UNCHANGED <<nextGen, latest, inst, start, stale, pending, clean, old, fut, closing, rclosing, lease>>

Stopped(gs) == [g \in Gens |-> IF g \in gs /\ rgen[g] \in {"prepared", "admitted", "draining"} THEN "stopping" ELSE rgen[g]]

-----------------------------------------------------------------------------
(* ---- Stop and RunClose --------------------------------------------------------- *)

(* The pending starts a stop cancels and waits for. *)
PendingSeen == pending

(* Earlier stops that are running or ended with an error. *)
Predecessors == {t \in Gens : fut[t] # None /\ (fut[t] # None => ~fut[t].done \/ fut[t].err)}

(* Stop: the tombstone fences every start before it; the work is left to finishRuntimeStop. *)
Stop ==
    /\ ~closing /\ nextGen < MaxGen
    /\ ~(inst.gen = latest /\ latest # 0 /\ (latest # 0 => fut[latest] # None))
    /\ LET t == nextGen + 1 IN
       /\ nextGen' = t /\ latest' = t
       /\ stale' = [g \in Gens |-> stale[g] \/ g \in pending]
       /\ pending' = {}
       /\ inst' = [state |-> "stopping", gen |-> t, live |-> FALSE]
       /\ fut' = [fut EXCEPT ![t] = [runner |-> IF inst.live THEN "todo" ELSE "ok", sel |-> {}, starts |-> PendingSeen,
                                     preds |-> Predecessors, done |-> FALSE, err |-> FALSE]]
    /\ UNCHANGED <<start, clean, old, closing, rclosing, rgen, lease>>

(* RunClose: as Stop, for every plugin, and no call is accepted any more. *)
RunClose ==
    /\ ~closing /\ nextGen < MaxGen
    /\ LET t == nextGen + 1 IN
       /\ nextGen' = t /\ latest' = t /\ closing' = TRUE
       /\ stale' = [g \in Gens |-> stale[g] \/ g \in pending]
       /\ pending' = {}
       /\ inst' = [state |-> "stopping", gen |-> t, live |-> FALSE]
       /\ fut' = [fut EXCEPT ![t] = [runner |-> "todo", sel |-> {}, starts |-> PendingSeen,
                                     preds |-> {s \in Gens : fut[s] # None}, done |-> FALSE, err |-> FALSE]]
    /\ UNCHANGED <<start, clean, old, rclosing, rgen, lease>>

(* SystemRunner.Stop (every generation up to the tombstone) and StopAll: the contexts of their invocations are cancelled. *)
RunnerStops(t) ==
    /\ fut[t] # None /\ (fut[t] # None => fut[t].runner = "todo")
    /\ LET all == closing /\ t = latest
           gs == {g \in Gens : RunPresent(g) /\ (all \/ g <= t)} IN
       /\ rgen' = Stopped(gs)
       /\ rclosing' = (rclosing \/ all)
       /\ fut' = [fut EXCEPT ![t].runner = "wait", ![t].sel = gs]
    /\ UNCHANGED <<nextGen, latest, inst, start, stale, pending, clean, old, closing, lease>>

RunnerStopped(t) ==
    /\ fut[t] # None /\ (fut[t] # None => fut[t].runner = "wait" /\ \A g \in fut[t].sel : Ended(g))
    /\ fut' = [fut EXCEPT ![t].runner = "ok", ![t].err = \E g \in fut[t].sel : rgen[g] = "failed", ![t].sel = {}]
    /\ UNCHANGED <<nextGen, latest, inst, start, stale, pending, clean, old, closing, rclosing, rgen, lease>>

(* Every part a stop waits for has ended, and whether one of them failed. *)
PartsEnded(t) ==
    /\ ~fut[t].done /\ fut[t].runner = "ok"
    /\ \A g \in fut[t].starts : clean[g] # "none"
    /\ \A s \in fut[t].preds : fut[s].done
PartsFailed(t) == fut[t].err \/ (\E g \in fut[t].starts : clean[g] = "err") \/ (\E s \in fut[t].preds : fut[s].err)

ClosesAt(t) == closing /\ t = nextGen

(* finishRuntimeStop: the instance is updated unless a newer call took it, or the manager is closing. *)
StopFinishes(t) ==
    /\ fut[t] # None /\ (fut[t] # None => PartsEnded(t)) /\ ~ClosesAt(t)
    /\ fut' = [fut EXCEPT ![t].done = TRUE, ![t].err = PartsFailed(t)]
    /\ inst' = IF inst.gen = t /\ latest = t /\ ~closing THEN [inst EXCEPT !.state = IF PartsFailed(t) THEN "degraded" ELSE "stopped"] ELSE inst
    /\ UNCHANGED <<nextGen, latest, start, stale, pending, clean, old, closing, rclosing, rgen, lease>>

(* finishClose: the instance of the closing epoch is settled. *)
CloseFinishes(t) ==
    /\ fut[t] # None /\ (fut[t] # None => PartsEnded(t)) /\ ClosesAt(t)
    /\ fut' = [fut EXCEPT ![t].done = TRUE, ![t].err = PartsFailed(t)]
    /\ inst' = IF inst.gen = t /\ latest = t THEN [inst EXCEPT !.state = IF PartsFailed(t) THEN "degraded" ELSE "stopped"] ELSE inst
    /\ UNCHANGED <<nextGen, latest, start, stale, pending, clean, old, closing, rclosing, rgen, lease>>

(* waitRuntimeStop, the caller's deadline: the instance shows that the stop is pending. *)
StopTimesOut(t) ==
    /\ fut[t] # None /\ (fut[t] # None => ~fut[t].done)
    /\ inst.gen = t /\ latest = t /\ inst.state = "stopping" /\ ~closing
    /\ inst' = [inst EXCEPT !.state = "degraded"]
    /\ UNCHANGED <<nextGen, latest, start, stale, pending, clean, old, fut, closing, rclosing, rgen, lease>>

(* RunClose, the caller's deadline. *)
CloseTimesOut(t) ==
    /\ ClosesAt(t) /\ fut[t] # None /\ (fut[t] # None => ~fut[t].done)
    /\ inst.gen = t /\ latest = t /\ inst.state = "stopping"
    /\ inst' = [inst EXCEPT !.state = "degraded"]
    /\ UNCHANGED <<nextGen, latest, start, stale, pending, clean, old, fut, closing, rclosing, rgen, lease>>

-----------------------------------------------------------------------------
(* ---- invocations ------------------------------------------------------------- *)

(* InvokeConstrained: the lease is taken under the manager's lock, on the armed generation. *)
InvokeConstrained(i) ==
    /\ lease[i] = 0 /\ ~closing /\ Armed /\ inst.live /\ ~rclosing /\ rgen[inst.gen] = "admitted"
    /\ lease' = [lease EXCEPT ![i] = inst.gen]
    /\ UNCHANGED <<nextGen, latest, inst, start, stale, pending, clean, old, fut, closing, rclosing, rgen>>

InvokeEnds(i) ==
    /\ lease[i] # 0
    /\ lease' = [lease EXCEPT ![i] = 0]
    /\ UNCHANGED <<nextGen, latest, inst, start, stale, pending, clean, old, fut, closing, rclosing, rgen>>

-----------------------------------------------------------------------------
RunInit ==
    /\ nextGen = 0 /\ latest = 0
    /\ inst = [state |-> "none", gen |-> 0, live |-> FALSE]
    /\ start = [g \in Gens |-> "none"] /\ stale = [g \in Gens |-> FALSE] /\ pending = {}
    /\ clean = [g \in Gens |-> "none"] /\ old = [g \in Gens |-> 0]
    /\ fut = [g \in Gens |-> None] /\ closing = FALSE /\ rclosing = FALSE
    /\ rgen = [g \in Gens |-> "none"] /\ lease = [i \in Invokers |-> 0]

StartStep(g) ==
    \/ Prepare(g, FALSE) \/ StartStale(g) \/ StartFailed(g) \/ StartArms(g) \/ StartRefused(g) \/ RetireOld(g) \/ AbortEnds(g)

StopStep(t) == RunnerStops(t) \/ RunnerStopped(t) \/ StopFinishes(t) \/ CloseFinishes(t)

RunNext ==
    \/ Start \/ Stop \/ RunClose
    \/ \E g \in Gens : \/ Prepare(g, TRUE) \/ StartStep(g) \/ StopStep(g) \/ StopTimesOut(g) \/ CloseTimesOut(g)
                       \/ GenerationEnds(g, TRUE) \/ GenerationEnds(g, FALSE)
    \/ \E i \in Invokers : InvokeConstrained(i) \/ InvokeEnds(i)

-----------------------------------------------------------------------------
(* Every variable of the manager and of the runner's generations holds a value of its kind. *)
RunTypeOK ==
    /\ nextGen \in 0..MaxGen /\ latest \in 0..MaxGen /\ pending \subseteq Gens
    /\ inst \in [state : {"none", "armed", "stopping", "stopped", "degraded", "failed"}, gen : 0..MaxGen, live : BOOLEAN]
    /\ start \in [Gens -> {"none", "preparing", "prepared", "failed", "retiring", "aborting", "done"}]
    /\ clean \in [Gens -> {"none", "ok", "err"}] /\ lease \in [Invokers -> 0..MaxGen]
    /\ rgen \in [Gens -> {"none", "prepared", "admitted", "draining", "stopping", "removed", "failed"}]

(* A plugin shown as stopped has nothing left (runtimeStoppedMessage): no generation in the runner, no invocation, and  *)
(* of the starts before the stop none that could still arm one.                                                         *)
StoppedMeansGone ==
    inst.state = "stopped" =>
        /\ \A g \in 1..inst.gen : ~RunPresent(g) /\ start[g] \in {"none", "done"}
        /\ \A i \in Invokers : lease[i] = 0

(* The armed instance is admitted in the runner, and every other generation that still admits invocations is about to  *)
(* be retired by the start that replaced it or by a stop that has not reached the runner.                               *)
OneServing ==
    /\ Armed => inst.live /\ rgen[inst.gen] = "admitted"
    /\ \A g \in Gens : rgen[g] = "admitted" /\ ~(Armed /\ inst.gen = g) =>
           \/ \E h \in Gens : start[h] = "retiring" /\ old[h] = g
           \/ \E t \in Gens : t > g /\ fut[t] # None /\ (fut[t] # None => fut[t].runner = "todo")

(* The future of Stop t is done. *)
StopFinished(t) == IF fut[t] = None THEN FALSE ELSE fut[t].done

(* Starts, stops and invocations of one plugin leave one serving generation, or none (runtime manager).       *)
RuntimeSound == RunTypeOK /\ StoppedMeansGone /\ OneServing

=============================================================================
