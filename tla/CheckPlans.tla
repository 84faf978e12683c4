---- MODULE CheckPlans ----
(***************************************************************************)
(* Check definitions, the path set and the monitors they expand into.      *)
(* A definition names sources and targets; a sync plans every definition   *)
(* against the fleet and writes the monitors that differ.  The path set is *)
(* the older form of the same thing: a start of the control plane turns it *)
(* into Fleet mesh definitions that adopt its monitors.  Operators keep    *)
(* monitors of their own beside both, and all of them share one packet     *)
(* budget per source and target.                                           *)
(*                                                                         *)
(* Source: src/internal/server/check_definitions.go, check_definitions_    *)
(* api.go, fleet_mesh.go, latency_probes.go, monitor_checks.go,            *)
(* monitor_update.go, server.go and src/internal/store/latency_probes.go,  *)
(* check_definitions.go, fleet_mesh.go, monitor_settings.go, store.go.     *)
(*                                                                         *)
(* A monitor's id is <<owner, kind, target node>>: "set" for the path set, *)
(* a definition's id, or "op" for an operator's own.  Addresses are not    *)
(* kept apart: a node has one address per kind, or none.  Every check that *)
(* sends packets has rate one.  The beacon kind is left out.               *)
(***************************************************************************)
EXTENDS Naturals, FiniteSets, Common

CONSTANTS
    ChkNodes,      \* node ids
    ChkLegacy,     \* nodes whose agent cannot ping
    ChkSpecs,      \* what an operator may save as a definition
    ChkConfigs,    \* what an operator may save as the path set
    ChkCans,       \* the sets of kinds that may reach a node
    ChkBudget,     \* packets one source may send to one address
    ChkPausedMax,  \* targets a definition may keep paused
    MaxChkOps,     \* bound on operator and fleet changes and faults
    MaxChkFaults   \* bound on crashes, failed writes and rollbacks

VARIABLES
    chkNode,   \* node -> "on", "off" (disabled) or "gone"
    chkCan,    \* node -> the kinds that can reach it now
    chkFilt,   \* nodes whose last ping result reads filtered
    chkDef,    \* definition -> None or its record
    chkMon,    \* monitor id -> None or its record
    chkSet,    \* the path set's configuration, and whether it is migrated
    chkSync,   \* what the holder of checkDefSync read, or None
    chkSave,   \* what the holder of monitorSaves checked, or None
    chkAsk,    \* a handler still has its resync to run
    chkUp,     \* "down", "starting", "new" or "old" (the release before)
    chkOps, chkFaults

fleetVars == <<chkNode, chkCan, chkFilt>>
chkVars == <<chkNode, chkCan, chkFilt, chkDef, chkMon, chkSet, chkSync,
             chkSave, chkAsk, chkUp, chkOps, chkFaults>>

ChkKinds == {"icmp", "tcp"}

\* The Fleet mesh definition, and one an operator makes.
ChkDefs == {"mesh", "d"}

ChkIds == {"set", "op", "mesh", "d"} \X ChkKinds \X ChkNodes

Kind(i) == i[2]

TargetNode(i) == i[3]

Everyone == "*"

Enrolled == {n \in ChkNodes : chkNode[n] # "gone"}

\* groups.ResolveTargets with the disabled nodes left out.
Usable(sel) ==
    {n \in ChkNodes : (Everyone \in sel \/ n \in sel) /\ chkNode[n] = "on"}

\* monitor_owner.go: an adopted monitor belongs to the definition it names.
MonitorOwnerKey(i, m) == IF m.def # None THEN m.def ELSE i[1]

Owned(mons, o) ==
    {i \in ChkIds : mons[i] # None /\ (mons[i] # None => MonitorOwnerKey(i, mons[i]) = o)}

SendsPackets(i) == Kind(i) = "icmp"

\* resolve: the kind reaches the node.
resolve(k, n) == chkNode[n] # "gone" /\ k \in chkCan[n]

\* monitorSources: the sources a monitor is handed to.
monitorSources(m) == m.src \ m.paused

latencyProbeGate(s, k) == k = "icmp" => s \notin ChkLegacy

-----------------------------------------------------------------------------
(* The packet budget. *)

\* Who sends packets from s to n: monitors enabled for s.  A monitor an
\* operator or a definition authored counts only when its target resolves;
\* a path set monitor counts by the address it holds.
Senders(mons, ids, s, n) ==
    {i \in ids : /\ mons[i] # None
                 /\ SendsPackets(i) /\ TargetNode(i) = n
                 /\ IF mons[i] = None THEN FALSE
                    ELSE /\ mons[i].on
                         /\ s \in monitorSources(mons[i])
                         /\ (MonitorOwnerKey(i, mons[i]) # "set" => resolve("icmp", n))}

monitorPacketLoad(mons, ids, s, n) == Cardinality(Senders(mons, ids, s, n))

\* Only the pairs a changed monitor sends on are judged.
checkPacketBudget(mons, changed) ==
    \A i \in changed, s \in ChkNodes :
        monitorPacketLoad(mons, changed, s, TargetNode(i)) > 0 =>
            monitorPacketLoad(mons, ChkIds, s, TargetNode(i)) <= ChkBudget

-----------------------------------------------------------------------------
(* Planning a definition. *)

\* latencyPairMethod with the setting auto.
AutoMethod(s, n, filtered) ==
    LET icmpOK == resolve("icmp", n)
        tcpOK  == resolve("tcp", n)
    IN  IF icmpOK /\ ~filtered /\ latencyProbeGate(s, "icmp") THEN "icmp"
        ELSE IF tcpOK THEN "tcp"
        ELSE IF icmpOK THEN "icmp" ELSE "tcp"

\* latencyICMPFiltered: judged only where a ping monitor already ran.
latencyICMPFiltered(n, had) == had /\ n \in chkFilt

idOf(d, def, k, n) == IF <<k, n>> \in def.adopt THEN <<"set", k, n>> ELSE <<d, k, n>>

\* The sources of one target: not the node itself, not an excluded pair.
SourcesOf(def, n) == {s \in Usable(def.src) : s # n /\ <<s, n>> \notin def.ex}

\* autoEntries: the sources split by the method that fits each; a target no
\* method fits keeps one empty tcp entry.
autoEntries(d, def, n) ==
    LET had == idOf(d, def, "icmp", n) \in Owned(chkMon, d)
        by(k) == {s \in SourcesOf(def, n) : AutoMethod(s, n, latencyICMPFiltered(n, had)) = k}
        used == {k \in ChkKinds : by(k) # {}}
    IN  IF used = {} THEN {[k |-> "tcp", n |-> n, src |-> {}]}
        ELSE {[k |-> k, n |-> n, src |-> by(k)] : k \in used}

\* The pairs of kind and target a definition measures now.
Entries(d, def) ==
    UNION {IF def.type = "auto" THEN autoEntries(d, def, n)
           ELSE {[k |-> def.type, n |-> n, src |-> SourcesOf(def, n)]} : n \in Usable(def.tgt)}

Unpaused == [src |-> {}, paused |-> {}, on |-> FALSE, def |-> None]

\* The monitor an entry wants.  One that never ran is not made for a
\* definition that is off or an entry without a source; one that ran keeps
\* its sources when it has none now.
EntryMonitor(d, def, e) ==
    LET i == idOf(d, def, e.k, e.n)
        prior == IF i \in Owned(chkMon, d) THEN chkMon[i] ELSE None
    IN  IF prior = None /\ (~def.on \/ e.src = {}) THEN None
        ELSE [src |-> IF e.src = {} THEN prior.src ELSE e.src,
              paused |-> {},
              on |-> def.on /\ e.src # {},
              def |-> IF <<e.k, e.n>> \in def.adopt THEN d ELSE None]

\* A monitor whose target left the set is kept, paused, unless the node is
\* gone.
pausedRest(d, inSet) ==
    [i \in {j \in Owned(chkMon, d) \ inSet : chkNode[TargetNode(j)] # "gone"} |->
        [chkMon[i] EXCEPT !.on = FALSE, !.paused = {}]]

\* plan: what definition d should own, before the budget is shared.
plan(d, def) ==
    LET es == Entries(d, def)
        inSet == {idOf(d, def, e.k, e.n) : e \in es}
        entry(i) == CHOOSE e \in es : idOf(d, def, e.k, e.n) = i
        made == {i \in inSet : EntryMonitor(d, def, entry(i)) # None}
        rest == pausedRest(d, inSet)
    IN  [i \in made \cup DOMAIN rest |->
            IF i \in made THEN EntryMonitor(d, def, entry(i)) ELSE rest[i]]

\* The definitions' claims on the packets from s to n, with whether the pair
\* already runs.  A target that does not resolve claims nothing.
Claims(plans, s, n) ==
    IF ~resolve("icmp", n) THEN {}
    ELSE {c \in [d : DOMAIN plans, run : BOOLEAN] :
            \E i \in DOMAIN plans[c.d] :
                /\ SendsPackets(i) /\ TargetNode(i) = n
                /\ plans[c.d][i].on /\ s \in plans[c.d][i].src
                /\ c.run = (/\ i \in Owned(chkMon, c.d)
                            /\ (i \in Owned(chkMon, c.d) =>
                                   chkMon[i].on /\ s \in monitorSources(chkMon[i])))}

\* The pairs that run keep their share first, then the rest, each in the
\* order the definitions were made.
ChkBefore(defs, b, c) ==
    \/ b.run /\ ~c.run
    \/ b.run = c.run /\ defs[b.d].born < defs[c.d].born

ChkOthers(mons) ==
    {i \in ChkIds : mons[i] # None /\ (mons[i] # None => MonitorOwnerKey(i, mons[i]) \notin ChkDefs)}

\* shareBudget pauses the pairs that would push a source over the budget.
shareBudget(defs, plans) ==
    LET over(d, s, n) == \E c \in Claims(plans, s, n) :
            /\ c.d = d
            /\ monitorPacketLoad(chkMon, ChkOthers(chkMon), s, n)
                 + Cardinality({b \in Claims(plans, s, n) : ChkBefore(defs, b, c)}) >= ChkBudget
    IN  [d \in DOMAIN plans |-> [i \in DOMAIN plans[d] |->
            [plans[d][i] EXCEPT !.paused =
                {s \in plans[d][i].src : SendsPackets(i) /\ plans[d][i].on
                                         /\ over(d, s, TargetNode(i))}]]]

\* planAll over the definitions in defs, then the owners of monitors whose
\* definition is not among them: those keep nothing (sets).
planAll(defs) ==
    LET live == {d \in ChkDefs : defs[d] # None}
        plans == shareBudget(defs, [d \in live |-> plan(d, defs[d])])
        left == {d \in ChkDefs \ live : Owned(chkMon, d) # {}}
    IN  [d \in live \cup left |-> IF d \in live THEN plans[d] ELSE [i \in {} |-> Unpaused]]

\* The store's side: every named owner's monitors become its set.  An owner
\* whose definition is gone keeps none; an id another owner holds is left.
applyManagedSets(mons, defs, sets) ==
    [i \in ChkIds |->
        LET owner == IF mons[i] = None THEN None ELSE MonitorOwnerKey(i, mons[i])
            want(o) == IF o \in ChkDefs /\ (o \in ChkDefs => defs[o] = None) THEN {} ELSE DOMAIN sets[o]
            wants == {o \in DOMAIN sets : i \in want(o)}
        IN  IF owner # None /\ owner \notin DOMAIN sets THEN mons[i]
            ELSE IF owner # None /\ owner \notin wants THEN None
            ELSE IF wants = {} THEN mons[i]
            ELSE LET o == IF owner # None THEN owner ELSE CHOOSE w \in wants : TRUE
                 IN  sets[o][i]]

-----------------------------------------------------------------------------
(* Planning the path set. *)

\* The target decision: excluded and disabled nodes are not probed.
latencyTarget(cfg, n) == n \in cfg.tgt /\ chkNode[n] = "on"

latencySources(cfg) == {s \in cfg.src : chkNode[s] = "on"}

\* The pairs of one target that are probed with kind k.
activePairs(cfg, k, n) ==
    IF ~cfg.on THEN {}
    ELSE {s \in latencySources(cfg) \ {n} :
            /\ <<s, n>> \notin cfg.dis
            /\ LET had == <<"set", "icmp", n>> \in Owned(chkMon, "set")
                   m == IF cfg.method = "auto" THEN AutoMethod(s, n, latencyICMPFiltered(n, had))
                        ELSE cfg.method
               IN  m = k /\ resolve(k, n) /\ latencyProbeGate(s, k)}

\* The path set's monitors: one per kind and target once a pair ran; a target
\* that left the set, or that no kind reaches, keeps its monitor paused; one
\* of a node that is gone is left out.
planLatencyProbes(cfg) ==
    LET had(i) == i \in Owned(chkMon, "set")
        probed(i) == latencyTarget(cfg, TargetNode(i)) /\ resolve(Kind(i), TargetNode(i))
        active(i) == activePairs(cfg, Kind(i), TargetNode(i))
        ids == {i \in {"set"} \X ChkKinds \X Enrolled :
                    had(i) \/ (probed(i) /\ active(i) # {})}
    IN  [i \in ids |->
            IF ~probed(i) THEN [chkMon[i] EXCEPT !.on = FALSE]
            ELSE [src |-> IF active(i) # {} THEN active(i) ELSE chkMon[i].src,
                  paused |-> {}, on |-> active(i) # {}, def |-> None]]

-----------------------------------------------------------------------------
(* Operators and the fleet. *)

Served == chkUp \in {"new", "old"}

ChkSpend == chkOps + chkFaults < MaxChkOps /\ chkOps' = chkOps + 1

Fault == chkFaults < MaxChkFaults /\ chkOps + chkFaults < MaxChkOps /\ chkFaults' = chkFaults + 1

\* normalizeCheckSelector: a node named must exist, or be named already.
normalizeCheckSelector(sel, prior) == sel # {} /\ sel \subseteq Enrolled \cup {Everyone} \cup prior

\* normalizeCheckTargets: sources and targets must select something.
normalizeCheckTargets(spec, prior) ==
    /\ normalizeCheckSelector(spec.src, IF prior = None THEN {} ELSE prior.src)
    /\ normalizeCheckSelector(spec.tgt, IF prior = None THEN {} ELSE prior.tgt)

\* normalizeExcludedPairs: two nodes that exist, or a pair excluded before,
\* from a source of the check.
normalizeExcludedPairs(spec, prior) ==
    \A p \in spec.ex :
        /\ p[1] # p[2]
        /\ Everyone \in spec.src \/ p[1] \in spec.src
        /\ {p[1], p[2]} \subseteq Enrolled \/ (prior # None /\ (prior # None => p \in prior.ex))

\* The order definitions were made in.
Borns == {chkDef[d].born : d \in {e \in ChkDefs : chkDef[e] # None}}

NextBorn == IF Borns = {} THEN 1 ELSE 1 + CHOOSE b \in Borns : \A c \in Borns : c <= b

\* normalizeCheckDefinition: what a save may hold; an edit keeps the adoption.
normalizeCheckDefinition(d, spec) ==
    LET prior == chkDef[d]
    IN  [on |-> spec.on, type |-> spec.type, src |-> spec.src, tgt |-> spec.tgt, ex |-> spec.ex,
         adopt |-> IF prior = None THEN {} ELSE prior.adopt,
         born |-> IF prior = None THEN NextBorn ELSE prior.born]

\* checkPlanBounds: how many paused targets a definition may keep.
checkPlanBounds(d, def, sets) ==
    Cardinality({TargetNode(i) : i \in DOMAIN sets[d]} \ {e.n : e \in Entries(d, def)}) <= ChkPausedMax

\* saveCheckDefinition takes monitorSaves and checkDefSync, plans every
\* definition with the new one in place and writes both at once.  That an
\* operator turns the Fleet mesh on beside a path set that runs is left out.
SaveReads(d, spec) ==
    /\ Served /\ chkSync = None /\ chkSave = None /\ ChkSpend
    /\ d = "mesh" => chkDef[d] # None /\ chkSet.migrated
    /\ normalizeCheckTargets(spec, chkDef[d]) /\ normalizeExcludedPairs(spec, chkDef[d])
    /\ LET def == normalizeCheckDefinition(d, spec)
           sets == planAll([chkDef EXCEPT ![d] = def])
       IN  /\ checkPlanBounds(d, def, sets)
           /\ chkSync' = [op |-> "save", d |-> d, def |-> def, sets |-> sets, ids |-> {}]
    /\ UNCHANGED <<fleetVars, chkDef, chkMon, chkSet, chkSave, chkAsk, chkUp, chkFaults>>

SaveCheckDefinition ==
    /\ chkSync # None /\ chkSync.op = "save"
    /\ chkDef' = [chkDef EXCEPT ![chkSync.d] = chkSync.def]
    /\ chkMon' = applyManagedSets(chkMon, chkDef', chkSync.sets)
    /\ chkSync' = None
    /\ UNCHANGED <<fleetVars, chkSet, chkSave, chkAsk, chkUp, chkOps, chkFaults>>

\* DeleteCheckDefinition: the confirmed monitors are exactly those held.
DeleteCheckDefinition(d) ==
    /\ Served /\ chkSync = None /\ ChkSpend
    /\ chkDef[d] # None
    /\ chkDef' = [chkDef EXCEPT ![d] = None]
    /\ chkMon' = [i \in ChkIds |-> IF i \in Owned(chkMon, d) THEN None ELSE chkMon[i]]
    /\ UNCHANGED <<fleetVars, chkSet, chkSync, chkSave, chkAsk, chkUp, chkFaults>>

\* handleCheckDefinitionForget judges the targets against a plan, then the
\* store deletes the monitors named, paused ones only.
ForgetReads(d, i) ==
    /\ Served /\ chkSync = None /\ ChkSpend
    /\ chkDef[d] # None
    /\ i \in ChkIds /\ chkMon[i] # None
    /\ TargetNode(i) \notin {e.n : e \in Entries(d, chkDef[d])}
    /\ chkSync' = [op |-> "forget", d |-> d, def |-> chkDef[d], sets |-> [o \in {} |-> {}], ids |-> {i}]
    /\ UNCHANGED <<fleetVars, chkDef, chkMon, chkSet, chkSave, chkAsk, chkUp, chkFaults>>

\* Mutant: the store forgets monitors that still run.
Forgettable_running(i) == TRUE

Forgettable(i) == ~chkMon[i].on

ForgetCheckMonitors ==
    /\ chkSync # None /\ chkSync.op = "forget"
    /\ chkMon' = IF \A i \in chkSync.ids : i \in Owned(chkMon, chkSync.d) /\ Forgettable(i)
                 THEN [i \in ChkIds |-> IF i \in chkSync.ids THEN None ELSE chkMon[i]]
                 ELSE chkMon
    /\ chkSync' = None
    /\ UNCHANGED <<fleetVars, chkDef, chkSet, chkSave, chkAsk, chkUp, chkOps, chkFaults>>

OpId(n) == <<"op", "icmp", n>>

\* handleMonitors makes a check, enabled, on nodes that exist and a target
\* that resolves; it holds monitorSaves from the budget check to the write.
handleMonitors(n, src) ==
    LET m == [src |-> src, paused |-> {}, on |-> TRUE, def |-> None]
    IN  /\ Served /\ chkSave = None /\ ChkSpend
        /\ chkMon[OpId(n)] = None /\ src # {} /\ src \subseteq Enrolled
        /\ resolve("icmp", n)
        /\ checkPacketBudget([chkMon EXCEPT ![OpId(n)] = m], {OpId(n)})
        /\ chkSave' = [n |-> n, m |-> m, had |-> FALSE]
        /\ UNCHANGED <<fleetVars, chkDef, chkMon, chkSet, chkSync, chkAsk, chkUp, chkFaults>>

\* applyMonitorUpdate: sources that exist or were named, pauses of sources
\* the check still has, and the budget where the load may change.
applyMonitorUpdate(prior, m, n) ==
    /\ m # prior
    /\ m.src # {} /\ m.src \subseteq Enrolled \cup prior.src
    /\ m.paused \subseteq m.src
    /\ m.on => checkPacketBudget([chkMon EXCEPT ![OpId(n)] = m], {OpId(n)})

\* handleMonitorUpdate edits an operator's check under the same lock.
handleMonitorUpdate(n, m) ==
    /\ Served /\ chkSave = None /\ ChkSpend
    /\ chkMon[OpId(n)] # None
    /\ chkMon[OpId(n)] # None => applyMonitorUpdate(chkMon[OpId(n)], m, n)
    /\ chkSave' = [n |-> n, m |-> m, had |-> TRUE]
    /\ UNCHANGED <<fleetVars, chkDef, chkMon, chkSet, chkSync, chkAsk, chkUp, chkFaults>>

\* UpsertMonitor makes it; UpdateMonitor refuses one deleted meanwhile.
MonitorWrites ==
    /\ chkSave # None
    /\ chkMon' = IF chkSave.had /\ chkMon[OpId(chkSave.n)] = None THEN chkMon
                 ELSE [chkMon EXCEPT ![OpId(chkSave.n)] = chkSave.m]
    /\ chkSave' = None
    /\ UNCHANGED <<fleetVars, chkDef, chkSet, chkSync, chkAsk, chkUp, chkOps, chkFaults>>

\* handleDeleteMonitor takes no lock of its own and refuses a generated one.
DeleteMonitor(n) ==
    /\ Served /\ ChkSpend
    /\ chkMon[OpId(n)] # None
    /\ chkMon' = [chkMon EXCEPT ![OpId(n)] = None]
    /\ UNCHANGED <<fleetVars, chkDef, chkSet, chkSync, chkSave, chkAsk, chkUp, chkFaults>>

\* normalizeLatencyProbeConfig: every node it names exists.
normalizeLatencyProbeConfig(cfg) ==
    /\ cfg.src \cup cfg.tgt \subseteq Enrolled
    /\ \A p \in cfg.dis : p[1] # p[2] /\ {p[1], p[2]} \subseteq Enrolled

\* handleLatencyProbes: only while the path set is not migrated.
SetLatencyProbeConfig(cfg) ==
    /\ Served /\ chkSave = None /\ ~chkSet.migrated /\ ChkSpend
    /\ normalizeLatencyProbeConfig(cfg)
    /\ LET next == planLatencyProbes(cfg)
       IN  checkPacketBudget([i \in ChkIds |-> IF i \in DOMAIN next THEN next[i] ELSE chkMon[i]],
                             {i \in DOMAIN next : SendsPackets(i)})
    /\ chkSet' = [cfg |-> cfg, migrated |-> FALSE]
    /\ chkMon' = applyManagedSets(chkMon, chkDef, [o \in {"set"} |-> planLatencyProbes(cfg)])
    /\ UNCHANGED <<fleetVars, chkDef, chkSync, chkSave, chkAsk, chkUp, chkFaults>>

\* A node is disabled, enabled or deleted: the handler writes it and asks for
\* a resync after.
NodeChanges(n, st) ==
    /\ Served /\ ChkSpend
    /\ chkNode[n] # "gone" /\ st # chkNode[n]
    /\ chkNode' = [chkNode EXCEPT ![n] = st]
    /\ chkAsk' = TRUE
    /\ UNCHANGED <<chkCan, chkFilt, chkDef, chkMon, chkSet, chkSync, chkSave, chkUp, chkFaults>>

\* A node's address or lines change, or its last ping reads filtered; no
\* handler asks for a resync, the next sweep sees it.
NodeMoves(n, can, filt) ==
    /\ ChkSpend
    /\ chkCan' = [chkCan EXCEPT ![n] = can]
    /\ chkFilt' = filt
    /\ <<chkCan', chkFilt'>> # <<chkCan, chkFilt>>
    /\ UNCHANGED <<chkNode, chkDef, chkMon, chkSet, chkSync, chkSave, chkAsk, chkUp, chkFaults>>

-----------------------------------------------------------------------------
(* Syncs. *)

\* syncLatencyProbes: plan and write the path set; nothing once migrated.
syncLatencyProbes ==
    /\ Served /\ ~chkSet.migrated
    /\ chkMon' = applyManagedSets(chkMon, chkDef, [o \in {"set"} |-> planLatencyProbes(chkSet.cfg)])
    /\ chkMon' # chkMon
    /\ UNCHANGED <<fleetVars, chkDef, chkSet, chkSync, chkSave, chkAsk, chkUp, chkOps, chkFaults>>

\* syncCheckDefinitions, from a sweep or a handler: it plans, holding
\* checkDefSync, and writes in one state write.
SyncReads ==
    /\ chkUp # "down" /\ chkSync = None
    /\ \/ chkAsk \/ chkUp = "starting"
       \/ applyManagedSets(chkMon, chkDef, planAll(chkDef)) # chkMon
    /\ chkSync' = [op |-> "sync", d |-> "d", def |-> None, sets |-> planAll(chkDef), ids |-> {}]
    /\ chkAsk' = FALSE
    /\ UNCHANGED <<fleetVars, chkDef, chkMon, chkSet, chkSave, chkUp, chkOps, chkFaults>>

SyncManagedMonitorSets ==
    /\ chkSync # None /\ chkSync.op = "sync"
    /\ chkMon' = applyManagedSets(chkMon, chkDef, chkSync.sets)
    /\ chkSync' = None
    /\ chkUp' = IF chkUp = "starting" THEN "new" ELSE chkUp
    /\ UNCHANGED <<fleetVars, chkDef, chkSet, chkSave, chkAsk, chkOps, chkFaults>>

\* The state write of a sync or a save fails: what it changed is put back.
WriteFails ==
    /\ chkSync # None /\ Fault
    /\ chkSync' = None
    /\ chkUp' = IF chkUp = "starting" THEN "new" ELSE chkUp
    /\ UNCHANGED <<fleetVars, chkDef, chkMon, chkSet, chkSave, chkAsk, chkOps>>

-----------------------------------------------------------------------------
(* Starts, the migration and a rollback. *)

\* Every path set monitor is adopted by its kind and target.
adoptsWith(cfg) == {<<Kind(i), TargetNode(i)>> : i \in Owned(chkMon, "set")}

\* planFleetMeshMigration: the path set's settings as one definition that
\* adopts its monitors; it replaces a Fleet mesh left from before.
planFleetMeshMigration(cfg) ==
    [on |-> cfg.on, type |-> cfg.method,
     src |-> cfg.src \cap Enrolled, tgt |-> cfg.tgt \cap Enrolled,
     ex |-> {p \in cfg.dis : {p[1], p[2]} \subseteq Enrolled},
     adopt |-> adoptsWith(cfg),
     born |-> IF chkDef["mesh"] # None THEN chkDef["mesh"].born ELSE NextBorn]

\* MigratePathSet: the definition, the adoption and the marker in one write.
MigratePathSet ==
    LET def == planFleetMeshMigration(chkSet.cfg)
    IN  /\ chkDef' = [chkDef EXCEPT !["mesh"] = def]
        /\ chkMon' = [i \in ChkIds |->
              IF i \in Owned(chkMon, "set") /\ <<Kind(i), TargetNode(i)>> \in def.adopt
              THEN [chkMon[i] EXCEPT !.def = "mesh"] ELSE chkMon[i]]
        /\ chkSet' = [chkSet EXCEPT !.migrated = TRUE]

\* A start migrates before the listeners and the sweeps, then syncs.  A
\* migration whose write fails leaves the path set running.
ChkStart ==
    /\ chkUp = "down"
    /\ \/ /\ ~chkSet.migrated /\ MigratePathSet
          /\ chkUp' = "starting" /\ UNCHANGED chkFaults
       \/ /\ ~chkSet.migrated /\ Fault /\ chkUp' = "new"
          /\ UNCHANGED <<chkDef, chkMon, chkSet>>
       \/ /\ chkSet.migrated /\ chkUp' = "new"
          /\ UNCHANGED <<chkDef, chkMon, chkSet, chkFaults>>
    /\ UNCHANGED <<fleetVars, chkSync, chkSave, chkAsk, chkOps>>

\* The process dies; every write is on disk, what was between is lost.
Crash ==
    /\ chkUp # "down" /\ Fault
    /\ chkUp' = "down" /\ chkSync' = None /\ chkSave' = None /\ chkAsk' = FALSE
    /\ UNCHANGED <<fleetVars, chkDef, chkMon, chkSet, chkOps>>

\* projectedState: the state file shows a definition that adopted monitors
\* as disabled, for the release before.
projectedState(def) == IF def.adopt # {} THEN [def EXCEPT !.on = FALSE] ELSE def

\* The release before the migration reads the state file and drops what it
\* does not know: the marker, the adoption and the projection.
Rollback ==
    /\ chkUp = "down" /\ chkSet.migrated /\ Fault
    /\ chkUp' = "old"
    /\ chkSet' = [chkSet EXCEPT !.migrated = FALSE]
    /\ chkDef' = [d \in ChkDefs |-> IF chkDef[d] = None THEN None
                                    ELSE [projectedState(chkDef[d]) EXCEPT !.adopt = {}]]
    /\ chkMon' = [i \in ChkIds |-> IF chkMon[i] = None THEN None ELSE [chkMon[i] EXCEPT !.def = None]]
    /\ UNCHANGED <<fleetVars, chkSync, chkSave, chkAsk, chkOps>>

-----------------------------------------------------------------------------
(* What an agent is handed. *)

\* MonitorsForNode: enabled monitors with the node among the sources, and the
\* node not paused.
MonitorsForNode(s) ==
    {i \in ChkIds : chkMon[i] # None /\ (chkMon[i] # None => chkMon[i].on /\ s \in monitorSources(chkMon[i]))}

\* agentMonitorsFor: of those, the ones its agent can run and, unless the
\* path set fixed the address, whose target resolves now.
agentMonitorsFor(s) ==
    {i \in MonitorsForNode(s) :
        /\ latencyProbeGate(s, Kind(i))
        /\ MonitorOwnerKey(i, chkMon[i]) # "set" => resolve(Kind(i), TargetNode(i))}

-----------------------------------------------------------------------------
OpMonitors == [src : {{s} : s \in ChkNodes}, paused : {{}} \cup {{s} : s \in ChkNodes}, on : BOOLEAN, def : {None}]

ChkInit ==
    /\ chkNode = [n \in ChkNodes |-> "on"]
    /\ chkCan = [n \in ChkNodes |-> ChkKinds]
    /\ chkFilt = {}
    /\ chkDef = [d \in ChkDefs |-> None]
    /\ chkSet \in [cfg : ChkConfigs, migrated : {FALSE}]
    /\ chkMon = [i \in ChkIds |->
          IF i[1] = "set" /\ TargetNode(i) \in chkSet.cfg.tgt
             /\ (i[1] = "set" /\ TargetNode(i) \in chkSet.cfg.tgt => Kind(i) = "icmp")
          THEN [src |-> chkSet.cfg.src \ {TargetNode(i)}, paused |-> {}, on |-> chkSet.cfg.on, def |-> None]
          ELSE None]
    /\ chkSync = None /\ chkSave = None /\ chkAsk = FALSE
    /\ chkUp = "down" /\ chkOps = 0 /\ chkFaults = 0

ChkNext ==
    \/ \E d \in ChkDefs, spec \in ChkSpecs : SaveReads(d, spec)
    \/ SaveCheckDefinition
    \/ \E d \in ChkDefs : DeleteCheckDefinition(d)
    \/ \E d \in ChkDefs, i \in ChkIds : ForgetReads(d, i)
    \/ ForgetCheckMonitors
    \/ \E n, s \in ChkNodes : handleMonitors(n, {s})
    \/ \E n \in ChkNodes, m \in OpMonitors : handleMonitorUpdate(n, m)
    \/ MonitorWrites
    \/ \E n \in ChkNodes : DeleteMonitor(n)
    \/ \E cfg \in ChkConfigs : SetLatencyProbeConfig(cfg)
    \/ \E n \in ChkNodes, st \in {"on", "off", "gone"} : NodeChanges(n, st)
    \/ \E n \in ChkNodes, can \in ChkCans : NodeMoves(n, can, chkFilt)
    \/ \E n \in ChkNodes : NodeMoves(n, chkCan[n], IF n \in chkFilt THEN chkFilt \ {n} ELSE chkFilt \cup {n})
    \/ syncLatencyProbes
    \/ SyncReads
    \/ SyncManagedMonitorSets
    \/ WriteFails
    \/ ChkStart
    \/ Crash
    \/ Rollback

ChkSpec == ChkInit /\ [][ChkNext]_chkVars

-----------------------------------------------------------------------------
(* Properties. *)

DefRecords == [on : BOOLEAN, type : ChkKinds \cup {"auto"}, src : SUBSET (ChkNodes \cup {Everyone}),
               tgt : SUBSET (ChkNodes \cup {Everyone}), ex : SUBSET (ChkNodes \X ChkNodes),
               adopt : SUBSET (ChkKinds \X ChkNodes), born : 1..4]

ChkTypeOK ==
    /\ chkNode \in [ChkNodes -> {"on", "off", "gone"}]
    /\ chkCan \in [ChkNodes -> SUBSET ChkKinds] /\ chkFilt \subseteq ChkNodes
    /\ \A d \in ChkDefs : chkDef[d] # None => chkDef[d] \in DefRecords
    /\ \A i \in ChkIds : chkMon[i] # None =>
          chkMon[i] \in [src : SUBSET ChkNodes, paused : SUBSET ChkNodes, on : BOOLEAN, def : Maybe(ChkDefs)]
    /\ chkUp \in {"down", "starting", "new", "old"}

\* A monitor that measures is deleted, with its history, only when its target
\* node is gone or its definition was deleted with the monitors confirmed: no
\* sync, save, forget, migration, rollback or roll-forward drops one.  An
\* operator's own monitor is deleted only by its operator, and a paused one
\* of a definition only by a forget (pausedRest, ForgetCheckMonitors,
\* MigratePathSet).
MonitorsStay ==
    \A i \in ChkIds : chkMon[i] # None /\ chkMon'[i] = None =>
        \/ i[1] = "op"
        \/ chkNode[TargetNode(i)] = "gone"
        \/ \E d \in ChkDefs : i \in Owned(chkMon, d) /\ chkDef[d] # None /\ chkDef'[d] = None
        \/ ~chkMon[i].on /\ chkSync # None /\ chkSync.op = "forget"

\* The checks that send packets from s to n.
HandedOut(s, n) == {i \in agentMonitorsFor(s) : SendsPackets(i) /\ TargetNode(i) = n}

OfDefinition(i) == chkMon[i] # None /\ (chkMon[i] # None => MonitorOwnerKey(i, chkMon[i]) \in ChkDefs)

\* No handler or sweep is under way and the next sweep would write nothing.
ChkQuiet ==
    /\ Served /\ chkSync = None /\ chkSave = None /\ ~chkAsk
    /\ ~chkSet.migrated =>
          applyManagedSets(chkMon, chkDef, [o \in {"set"} |-> planLatencyProbes(chkSet.cfg)]) = chkMon
    /\ applyManagedSets(chkMon, chkDef, planAll(chkDef)) = chkMon

\* The fleet is measured as the definitions say.
ChkSettled ==
    \* A source over its budget has no definition's check among its senders.
    /\ \A s, n \in ChkNodes :
          Cardinality(HandedOut(s, n)) > ChkBudget =>
              \A i \in HandedOut(s, n) : ~OfDefinition(i)
    \* Every selected pair of an enabled definition is measured, or waits only
    \* for a budget others use up.
    /\ \A d \in ChkDefs : chkDef[d] # None =>
          \A n \in Usable(chkDef[d].tgt), s \in Usable(chkDef[d].src) :
              s # n /\ <<s, n>> \notin chkDef[d].ex /\ chkDef[d].on =>
                  \E i \in Owned(chkMon, d) :
                      /\ TargetNode(i) = n /\ chkMon[i].on /\ s \in chkMon[i].src
                      /\ s \in chkMon[i].paused => Cardinality(Senders(chkMon, ChkIds, s, n)) >= ChkBudget
    \* Nothing else of a definition runs.
    /\ \A i \in ChkIds : OfDefinition(i) /\ (OfDefinition(i) => chkMon[i].on) =>
          LET d == MonitorOwnerKey(i, chkMon[i])
          IN  /\ chkDef[d] # None
              /\ chkDef[d] # None => chkDef[d].on /\ TargetNode(i) \in Usable(chkDef[d].tgt)
    \* The path set and the Fleet mesh it became measure no pair twice.
    /\ \A s, n \in ChkNodes, k \in ChkKinds :
          Cardinality({i \in {<<"set", k, n>>, <<"mesh", k, n>>} :
              chkMon[i] # None /\ (chkMon[i] # None => chkMon[i].on /\ s \in chkMon[i].src)}) <= 1

\* Where the sweeps have nothing left to write, the monitors measure what the
\* definitions select: inside the packet budget, nothing left over, no pair
\* twice, whatever saves, failed writes, crashes, a failed migration or a
\* rollback and its roll-forward came before (syncCheckDefinitions,
\* shareBudget, migratePathSet, projectedState).
ChecksSound == ChkTypeOK /\ (ChkQuiet => ChkSettled)

\* No step on the way there drops a monitor that measured (syncCheckDefinitions).
MeasuredStay == [][MonitorsStay]_chkVars
====
