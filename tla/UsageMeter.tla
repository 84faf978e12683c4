----------------------------- MODULE UsageMeter -----------------------------
(***************************************************************************)
(* How the bytes a proxy core counts become quota (server_proxy.go,        *)
(* usage_history.go, usage_attribution.go, vpn_policy.go,                  *)
(* server_proxy_notify.go, store/usage_days.go).  The core on one node     *)
(* counts, since it started, the bytes of every inbound and, on lines      *)
(* whose users carry a name, of every user on the line.  The agent posts   *)
(* the counters; a post is lost or repeated.  The server subtracts the    *)
(* previous report, attributes the difference to lines and identities      *)
(* with the topology its in-memory discovery mirror shows it at that       *)
(* moment, adds it to day rows and lifetime totals, and alerts.  A sweep   *)
(* re-evaluates every identity beside the reports.                         *)
(*                                                                         *)
(* Uplink and downlink are one count; an identity is its own accounting    *)
(* row; a line stands for its tag, hash and uuid, and so for the user      *)
(* names built from them.                                                  *)
(***************************************************************************)
EXTENDS Common, Integers, FiniteSets, FiniteSetsExt, Sequences

CONSTANTS
    UseLines, UseUsers,
    UseNamed,            \* lines whose users the core counts by name
    UseEdges,            \* <<source, target>>: a line relays into another
    UseWho,              \* who holds a credential on a line: [UseLines -> SUBSET UseUsers]
    UseCred,             \* the identity whose credential is a line's only one, or None
    UseSub,              \* identities of the Sub-Store records that select a line
    UseMonthly,          \* identities with a monthly quota; the others have a lifetime one
    UseLimit,            \* QuotaBytes, in bytes
    UseExpires,          \* the day an identity expires, or None
    UseSplits,           \* {TRUE}: the collector also reports user_traffic; {FALSE}: it does not
    UseRebinds,          \* an unbound line may be bound to the same identity again
    UseDayLen, UsePeriod,    \* ticks in a day, days in a quota period
    UseHoldMax,          \* usageColdTopologyDeferMax, in ticks
    UseRetention,        \* UsageDayRetentionDays
    UseStale,            \* nodeOfflineThreshold, in ticks
    MaxUseNow, MaxUseBytes, MaxUseFaults   \* bounds

ASSUME UseAssumption == UseDayLen \in Nat \ {0} /\ UsePeriod \in Nat \ {0} /\ UseEdges \subseteq UseLines \X UseLines

VARIABLES
    useCore,             \* the core's counters: inb by line, nam by line and user, and its uptime
    useCarried,          \* bytes every user has sent through every line
    useLast,             \* the last report, which the agent may post again, or None
    useInv,              \* the tick of the mirrored inventory, or None
    useBind,             \* the lines every identity is bound to
    useOnce,             \* bindings there have ever been
    useOn,               \* enabled identities
    useProf,             \* the node's proxy profile: "none", or its last collector status
    useSnap,             \* the stored usage snapshot, or None
    useHeld,             \* usageInboundHeldSince
    useNodeDay,          \* UsageDayNode rows: bytes, users and whether the tag was ever resolved
    useUserDay,          \* UsageDayUser rows: a total and its split by line
    useRow,              \* accounting rows: UsedBytes, Status and the alert cursors
    useSweep,            \* the rows evaluateProxyUserNotifications has read, or None
    useSent,             \* alerts emitted
    useBase,             \* the inbound counters of the first snapshot
    useLate,             \* a hold has run out
    usePruned,           \* bytes of the rows pruned, by line
    useNow, useRestarts, useEdits

useVars == <<useCore, useCarried, useLast, useInv, useBind, useOnce, useOn, useProf, useSnap, useHeld, useNodeDay,
             useUserDay, useRow, useSweep, useSent, useBase, useLate, usePruned, useNow, useRestarts, useEdits>>
useNode == <<useCore, useCarried>>
useMeter == <<useProf, useSnap, useHeld, useNodeDay, useUserDay, useBase, useLate, usePruned>>
useIdent == <<useBind, useOnce, useOn>>

DayOf(t) == t \div UseDayLen
UseToday == DayOf(useNow)
UseDays == 0 .. DayOf(MaxUseNow)
SumOver(S, op(_)) == MapThenSumSet(op, S)
At0(f, x) == IF x \in DOMAIN f THEN f[x] ELSE 0
Positive(f) == [x \in {y \in DOMAIN f : f[y] > 0} |-> f[x]]
Sub0(a, b) == IF a > b THEN a - b ELSE 0
Least2(a, b) == IF a < b THEN a ELSE b

-----------------------------------------------------------------------------
(* ---- the attribution context ---------------------------------------------------------- *)

(* liveSingBoxInventoriesWithNodeExists: an inventory older than the offline threshold is evicted, lines and all. *)
liveSingBoxInventories == IF useInv # None /\ useNow - useInv <= UseStale THEN UseLines ELSE {}

(* userLineNameIndex, nodeNameIndex: the names of enabled bindings, whether or not the line is known just now. *)
nodeNameIndex == {<<l, u>> \in UseLines \X UseUsers : l \in useBind[u]}

UpstreamOf(l) == {s \in liveSingBoxInventories : s # l /\ <<s, l>> \in UseEdges}
DownstreamOf(l) == {t \in liveSingBoxInventories : t # l /\ <<l, t>> \in UseEdges}
BoundTo(l) == {u \in UseUsers : l \in useBind[u]}

(* usageLineRole. *)
usageLineRole(l) ==
    CASE DownstreamOf(l) # {} /\ UpstreamOf(l) # {} -> "relay"
      [] DownstreamOf(l) # {} /\ UpstreamOf(l) = {} -> "entry"
      [] DownstreamOf(l) = {} /\ UpstreamOf(l) # {} -> IF BoundTo(l) \cup UseSub[l] # {} \/ UseCred[l] # None THEN "shared" ELSE "exit"
      [] OTHER -> "direct"

(* usageAttributionContext: what is known of a line, None when the read model does not carry it, and the users whose
   name the stored snapshot holds. *)
usageAttributionContext ==
    [facts |-> [l \in UseLines |->
         IF l \in liveSingBoxInventories
         THEN [role |-> usageLineRole(l), up |-> UpstreamOf(l), bound |-> BoundTo(l), cred |-> UseCred[l], sub |-> UseSub[l]]
         ELSE None],
     reported |-> IF useSnap = None THEN {}
                  ELSE (DOMAIN useSnap.nam \cap nodeNameIndex) \cup DOMAIN useSnap.lub]

(* attributeLine: the named counters, then what was relayed in, then the rest to the single identity that can have
   sent it.  up is None while a report is ingested, and the upstream lines' bytes in a window. *)
attributeLine(f, inbound, named, up) ==
    LET users == {u \in UseUsers : At0(named, u) > 0}
        left == Sub0(inbound, SumOver(users, LAMBDA u : named[u]))
        target == f.up # {}
        relayed == IF target THEN (IF up = None THEN left ELSE Least2(left, up)) ELSE 0
        rest == IF target /\ up = None THEN 0 ELSE left - relayed
        owner == CASE DOMAIN named # {} -> None
                   [] DOMAIN named = {} /\ f.cred # None -> f.cred
                   [] DOMAIN named = {} /\ f.cred = None /\ Cardinality(f.bound) = 1 -> CHOOSE u \in f.bound : TRUE
                   [] DOMAIN named = {} /\ f.cred = None /\ Cardinality(f.bound) # 1 /\ Cardinality(f.sub) = 1 -> CHOOSE u \in f.sub : TRUE
                   [] OTHER -> None
        sure == DOMAIN named = {} /\ (f.cred # None \/ Cardinality(f.bound) = 1)
    IN [named |-> [u \in users |-> named[u]], relayed |-> relayed, rest |-> rest, owner |-> owner,
        counted |-> sure /\ ~target, estimate |-> target]

-----------------------------------------------------------------------------
(* ---- differences --------------------------------------------------------------------------- *)

(* The core has restarted since the stored report when its uptime is smaller. *)
CoreReset(m) == useSnap # None /\ (useSnap # None => m.up < useSnap.up)

(* monotonicDelta: after a restart the counter is the difference; a counter that fell adds nothing. *)
monotonicDelta(current, previous, reset) == IF reset THEN current ELSE Sub0(current, previous)

(* diffTrafficCounters: nothing without a previous report; zero differences are left out. *)
diffTrafficCounters(cur, prev, had, reset) ==
    IF had THEN Positive([x \in DOMAIN cur |-> monotonicDelta(cur[x], At0(prev, x), reset)]) ELSE <<>>

(* usageAttributedTagsForNode: tags resolved in the rows of today and yesterday. *)
usageAttributedTagsForNode ==
    {l \in UseLines : \E d \in UseDays : d \in {UseToday - 1, UseToday} /\ useNodeDay[l][d].known}

\* Mutant: nothing is held, and a tag without a line is recorded for nobody.
holdsNothing(m, held) == m.inb

(* The counters a report is stored with: a held tag carries the previous report's value, or is dropped. *)
heldCounters(m, held) ==
    [l \in {x \in DOMAIN m.inb : x \notin held \/ x \in DOMAIN useSnap.inb} |-> IF l \in held THEN useSnap.inb[l] ELSE m.inb[l]]

(* holdUnresolvableInboundTags: tags with no line just now, on a node with no lines at all or with a resolved past,
   for at most usageColdTopologyDeferMax; never on a first report or after a core restart. *)
holdUnresolvableInboundTags(m, reset) ==
    LET lines == liveSingBoxInventories
        try == {l \in DOMAIN m.inb \ lines : lines = {} \/ l \in usageAttributedTagsForNode}
    IN IF useSnap = None \/ reset THEN {}
       ELSE {l \in try : useHeld[l] = None \/ (useHeld[l] # None => useNow - useHeld[l] <= UseHoldMax)}

HeldSince(m, reset, held) ==
    [l \in UseLines |-> IF l \in DOMAIN m.inb /\ (useSnap = None \/ reset \/ l \in liveSingBoxInventories) THEN None
                        ELSE IF l \in held /\ useHeld[l] = None THEN useNow ELSE useHeld[l]]

-----------------------------------------------------------------------------
(* ---- usageIngest ------------------------------------------------------------------------------ *)

(* What one report adds: to the node-day lines, to the user-day rows, and to the identities beyond their names. *)
usageIngest(inbD, namD, legacyD, lineD, split) ==
    LET ctx == usageAttributionContext
        byLine == [l \in UseLines |-> [u \in {v \in UseUsers : <<l, v>> \in DOMAIN namD} |-> namD[<<l, u>>]]]
        known == {l \in UseLines : ctx.facts[l] # None}
        onlyNamed == {l \in UseLines : DOMAIN byLine[l] # {}} \ (DOMAIN inbD \cap known)
        seen == DOMAIN inbD \cup (onlyNamed \cap known)
        inbound == [l \in seen |-> IF l \in DOMAIN inbD THEN inbD[l] ELSE SumOver(DOMAIN byLine[l], LAMBDA u : byLine[l][u])]
        rows == [l \in seen \cap known |-> attributeLine(ctx.facts[l], inbound[l], byLine[l], None)]
        owned(l, u) == IF l \in DOMAIN rows /\ (l \in DOMAIN rows => rows[l].counted /\ rows[l].owner = u) THEN rows[l].rest ELSE 0
        forUser(l, u) == (IF l \in DOMAIN rows THEN At0(rows[l].named, u) ELSE 0) + owned(l, u)
        dark(l, u) == IF l \in onlyNamed \ known THEN At0(byLine[l], u) ELSE 0
        legacy(u) == IF split[u] THEN 0 ELSE At0(legacyD, u)
    IN [node |-> [l \in seen |-> [b |-> inbound[l], known |-> l \in known, users |-> [u \in UseUsers |-> forUser(l, u)]]],
        user |-> [u \in UseUsers |->
            [tot |-> SumOver(UseLines, LAMBDA l : forUser(l, u) + dark(l, u)) + legacy(u),
             by |-> [l \in UseLines |-> forUser(l, u) + dark(l, u) + IF legacy(u) > 0 THEN At0(lineD, <<l, u>>) ELSE 0]]],
        attributed |-> [u \in UseUsers |-> SumOver(UseLines, LAMBDA l : owned(l, u))]]

(* addUsageDayNode, addUsageDayUser. *)
addUsageDayNode(delta) ==
    [l \in UseLines |-> [useNodeDay[l] EXCEPT ![UseToday] =
        IF l \in DOMAIN delta
        THEN [b |-> @.b + delta[l].b, known |-> @.known \/ delta[l].known, users |-> [u \in UseUsers |-> @.users[u] + delta[l].users[u]]]
        ELSE @]]
addUsageDayUser(delta) ==
    [u \in UseUsers |-> [useUserDay[u] EXCEPT ![UseToday] =
        [tot |-> @.tot + delta[u].tot, by |-> [l \in UseLines |-> @.by[l] + delta[u].by[l]]]]]

(* PruneUsageDays: rows older than the retention go. *)
PruneUsageDays(rows, empty) ==
    [x \in DOMAIN rows |-> [d \in UseDays |-> IF d < UseToday - UseRetention THEN empty ELSE rows[x][d]]]

NoNodeDay == [b |-> 0, known |-> FALSE, users |-> [u \in UseUsers |-> 0]]
NoUserDay == [tot |-> 0, by |-> [l \in UseLines |-> 0]]

-----------------------------------------------------------------------------
(* ---- quota and alerts ------------------------------------------------------------------------------ *)

PeriodStart(d) == (d \div UsePeriod) * UsePeriod
RowsFrom(u, d) == SumOver({e \in UseDays : e >= d /\ e <= UseToday}, LAMBDA e : useUserDay[u][e].tot)

(* vpnUserQuotaMeasure: the rows of the period and what this report adds, or the lifetime total. *)
vpnUserQuotaMeasure(u, used, pending) == IF u \in UseMonthly THEN RowsFrom(u, PeriodStart(UseToday)) + pending ELSE used

(* decideVpnUserPolicy, proxyQuotaExhausted, proxyUserExpiredAt. *)
decideVpnUserPolicy(u, usage) ==
    CASE u \notin useOn -> "disabled"
      [] u \in useOn /\ UseExpires[u] # None /\ (UseExpires[u] # None => UseExpires[u] <= UseToday) -> "expired"
      [] u \in useOn /\ (UseExpires[u] = None \/ (UseExpires[u] # None => UseExpires[u] > UseToday)) /\ usage >= UseLimit -> "over_quota"
      [] OTHER -> "active"

(* proxyQuotaThreshold: 100 at the limit, 80 from four fifths of it. *)
proxyQuotaThreshold(used) == IF used <= 0 THEN 0 ELSE IF used >= UseLimit THEN 100 ELSE IF 5 * used >= 4 * UseLimit THEN 80 ELSE 0

(* proxyExpiryOffset by rank: expired, a day left, a week left. *)
proxyExpiryOffset(u) ==
    IF UseExpires[u] = None THEN 0
    ELSE IF UseExpires[u] <= UseToday THEN 3 ELSE IF UseExpires[u] - UseToday <= 1 THEN 2 ELSE IF UseExpires[u] - UseToday <= 7 THEN 1 ELSE 0

(* nextProxyUserNotificationsForPeriod: the alerts an evaluation owes and the cursors it leaves; a cursor of another
   period does not count. *)
nextProxyUserNotificationsForPeriod(u, row, usage) ==
    LET period == IF u \in UseMonthly THEN PeriodStart(UseToday) ELSE 0
        t == proxyQuotaThreshold(usage)
        quota == u \in useOn /\ t > 0 /\ ~(row.qkey[1] = period /\ row.qkey[2] >= t)
        expiry == u \in useOn /\ proxyExpiryOffset(u) > row.ekey
    IN [row |-> [row EXCEPT !.qkey = IF quota THEN <<period, t>> ELSE @, !.ekey = IF expiry THEN proxyExpiryOffset(u) ELSE @],
        alerts |-> (IF quota THEN {[user |-> u, kind |-> "quota", period |-> period, key |-> t]} ELSE {})
                   \cup (IF expiry THEN {[user |-> u, kind |-> "expiry", period |-> 0, key |-> proxyExpiryOffset(u)]} ELSE {})]

(* quotaEvaluate. *)
quotaEvaluate(u, row, pending) ==
    LET usage == vpnUserQuotaMeasure(u, row.used, pending)
    IN nextProxyUserNotificationsForPeriod(u, [row EXCEPT !.status = decideVpnUserPolicy(u, usage)], usage)

-----------------------------------------------------------------------------
(* ---- the node -------------------------------------------------------------------------------------- *)

Total == SumOver(UseLines \X UseUsers, LAMBDA p : useCarried[p])

(* A user sends a byte through a line, and through the line it relays into; the core counts it on every inbound. *)
Carry(l, u) ==
    LET hit == {l} \cup {t \in UseLines : <<l, t>> \in UseEdges} IN
    /\ u \in UseWho[l] /\ Total < MaxUseBytes
    /\ useCarried' = [useCarried EXCEPT ![<<l, u>>] = @ + 1]
    /\ useCore' = [useCore EXCEPT !.inb = [x \in UseLines |-> @[x] + IF x \in hit THEN 1 ELSE 0],
                                  !.nam = [p \in DOMAIN @ |-> @[p] + IF p = <<l, u>> THEN 1 ELSE 0]]
    /\ UNCHANGED <<useLast, useInv, useIdent, useMeter, useRow, useSweep, useSent, useNow, useRestarts, useEdits>>

(* The core restarts: its counters and its uptime begin again. *)
CoreRestart ==
    /\ useRestarts + useEdits < MaxUseFaults /\ useRestarts' = useRestarts + 1
    /\ useCore' = [inb |-> [l \in UseLines |-> 0], nam |-> [p \in DOMAIN useCore.nam |-> 0], up |-> 0]
    /\ UNCHANGED <<useCarried, useLast, useInv, useIdent, useMeter, useRow, useSweep, useSent, useNow, useEdits>>

(* Time passes on both sides. *)
UseTick ==
    /\ useNow < MaxUseNow /\ useNow' = useNow + 1
    /\ useCore' = [useCore EXCEPT !.up = @ + 1]
    /\ UNCHANGED <<useCarried, useLast, useInv, useIdent, useMeter, useRow, useSweep, useSent, useRestarts, useEdits>>

(* What the agent posts: the counters that are not zero, or that it could not read them.  A post that is lost is one
   that never happened, the counters being cumulative. *)
ReportOf(status, split) ==
    [status |-> status, up |-> useCore.up, split |-> split,
     inb |-> IF status = "ok" THEN Positive(useCore.inb) ELSE <<>>, nam |-> IF status = "ok" THEN Positive(useCore.nam) ELSE <<>>]

(* handleAgentSingBoxInventory: the mirror takes the inventory, stamped with the server's clock. *)
handleAgentSingBoxInventory ==
    /\ useInv # useNow /\ useInv' = useNow
    /\ UNCHANGED <<useNode, useLast, useIdent, useMeter, useRow, useSweep, useSent, useNow, useRestarts, useEdits>>

-----------------------------------------------------------------------------
(* ---- the report ------------------------------------------------------------------------------------- *)

(* UsageCollectorHealth: a report of a failed collector changes the profile and nothing else. *)
UsageCollectorHealth(m) ==
    /\ m.status # "ok" /\ useProf' = m.status
    /\ UNCHANGED <<useSnap, useHeld, useNodeDay, useUserDay, useBase, useLate, usePruned, useRow, useSent>>

(* foldUserLineUsage, keepIndexedUserTraffic, sanitizeProxyUsageLineUserBytes: names of enabled bindings become totals
   of their identity, and totals by line where the line is known. *)
Folded(m) ==
    LET names == DOMAIN m.nam \cap nodeNameIndex
        accts == {u \in UseUsers : \E l \in UseLines : <<l, u>> \in names}
    IN [nam |-> IF m.split THEN [p \in names |-> m.nam[p]] ELSE <<>>,
        ub |-> [u \in accts |-> SumOver({p \in names : p[2] = u}, LAMBDA p : m.nam[p])],
        lub |-> [p \in {q \in names : q[1] \in liveSingBoxInventories} |-> m.nam[p]]]

(* What one report adds to an accounting row. *)
userDelta(u, legacyD, d) == At0(legacyD, u) + d.attributed[u]

(* applyProxyUsageSnapshot: under proxyUsageMu, from the profile it registers to the alerts it sends.  A first report
   only sets the baseline. *)
applyProxyUsageSnapshot(m) ==
    LET had == useSnap # None
        reset == CoreReset(m)
        f == Folded(m)
        held == holdUnresolvableInboundTags(m, reset)
        inb == IF had THEN heldCounters(m, held) ELSE m.inb
        legacyD == IF had THEN diffTrafficCounters(f.ub, useSnap.ub, had, reset) ELSE <<>>
        lineD == IF had THEN diffTrafficCounters(f.lub, useSnap.lub, had, reset) ELSE <<>>
        inbD == IF had THEN diffTrafficCounters(inb, useSnap.inb, had, reset) ELSE <<>>
        namD == IF had THEN diffTrafficCounters(f.nam, useSnap.nam, had, reset) ELSE <<>>
        split == [u \in UseUsers |-> \E l \in UseLines : <<l, u>> \in DOMAIN namD]
    IN \E d \in {usageIngest(inbD, namD, legacyD, lineD, split)} :
       LET saved == IF had THEN {u \in UseUsers : userDelta(u, legacyD, d) > 0} ELSE DOMAIN f.ub
           row(u) == [useRow[u] EXCEPT !.used = @ + (IF had THEN userDelta(u, legacyD, d) ELSE 0), !.stored = TRUE]
       IN \E ev \in {[u \in saved |-> quotaEvaluate(u, row(u), d.user[u].tot)]}, node \in {addUsageDayNode(d.node)} :
          /\ m.status = "ok" /\ useProf' = "ok"
          /\ useSnap' = [up |-> m.up, inb |-> inb, nam |-> f.nam, ub |-> f.ub, lub |-> f.lub]
          /\ useBase' = IF had THEN useBase ELSE m.inb
          /\ useHeld' = HeldSince(m, reset, held)
          /\ useLate' = (useLate \/ \E l \in DOMAIN m.inb : l \notin held \cup liveSingBoxInventories /\ useHeld[l] # None)
          /\ useNodeDay' = PruneUsageDays(node, NoNodeDay)
          /\ usePruned' = [l \in UseLines |-> usePruned[l] + SumOver({e \in UseDays : e < UseToday - UseRetention}, LAMBDA e : node[l][e].b)]
          /\ useUserDay' = PruneUsageDays(addUsageDayUser(d.user), NoUserDay)
          /\ useRow' = [u \in UseUsers |-> IF u \in DOMAIN ev THEN ev[u].row ELSE useRow[u]]
          /\ useSent' = useSent \cup UNION {ev[u].alerts : u \in DOMAIN ev}

(* handleAgentProxyUsage: a new report, or the last one again when its answer was lost.  With no profile, one is
   registered: the report proves a core. *)
handleAgentProxyUsage(m) ==
    /\ useLast' = m
    /\ UsageCollectorHealth(m) \/ applyProxyUsageSnapshot(m)
    /\ UNCHANGED <<useNode, useInv, useIdent, useSweep, useNow, useRestarts, useEdits>>

-----------------------------------------------------------------------------
(* ---- the server's other steps ----------------------------------------------------------------------- *)

(* The server restarts: the mirror and the holds were in memory. *)
UseServerRestart ==
    /\ useRestarts + useEdits < MaxUseFaults /\ useRestarts' = useRestarts + 1
    /\ useInv' = None /\ useHeld' = [l \in UseLines |-> None] /\ useSweep' = None
    /\ UNCHANGED <<useNode, useLast, useIdent, useProf, useSnap, useNodeDay, useUserDay, useBase, useLate, usePruned, useRow, useSent, useNow, useEdits>>

(* vpnUserBind, vpnUserUnbind: the identity's record only; the node is not touched. *)
vpnUserBind(u, l) ==
    /\ useRestarts + useEdits < MaxUseFaults /\ useEdits' = useEdits + 1
    /\ l \notin useBind[u] /\ (<<l, u>> \notin useOnce \/ UseRebinds)
    /\ useBind' = [useBind EXCEPT ![u] = @ \cup {l}] /\ useOnce' = useOnce \cup {<<l, u>>}
    /\ UNCHANGED <<useNode, useLast, useInv, useOn, useMeter, useRow, useSweep, useSent, useNow, useRestarts>>
vpnUserUnbind(u, l) ==
    /\ useRestarts + useEdits < MaxUseFaults /\ useEdits' = useEdits + 1
    /\ l \in useBind[u] /\ useBind' = [useBind EXCEPT ![u] = @ \ {l}]
    /\ UNCHANGED <<useNode, useLast, useInv, useOnce, useOn, useMeter, useRow, useSweep, useSent, useNow, useRestarts>>

(* An operator disables or enables an identity. *)
vpnUserUpdateBy(u) ==
    /\ useRestarts + useEdits < MaxUseFaults /\ useEdits' = useEdits + 1
    /\ useOn' = IF u \in useOn THEN useOn \ {u} ELSE useOn \cup {u}
    /\ UNCHANGED <<useNode, useLast, useInv, useBind, useOnce, useMeter, useRow, useSweep, useSent, useNow, useRestarts>>

(* UsageProfileDeleted: the next report registers a new one. *)
UsageProfileDeleted ==
    /\ useRestarts + useEdits < MaxUseFaults /\ useEdits' = useEdits + 1
    /\ useProf # "none" /\ useProf' = "none"
    /\ UNCHANGED <<useNode, useLast, useInv, useIdent, useSnap, useHeld, useNodeDay, useUserDay, useBase, useLate, usePruned, useRow, useSweep, useSent, useNow, useRestarts>>

(* evaluateProxyUserNotifications reads every row, without proxyUsageMu... *)
SweepReads ==
    /\ useSweep = None /\ useSweep' = useRow
    /\ useRestarts + useEdits < MaxUseFaults /\ useEdits' = useEdits + 1
    /\ UNCHANGED <<useNode, useLast, useInv, useIdent, useMeter, useRow, useSent, useNow, useRestarts>>

(* ...and writes the ones it changed back whole. *)
evaluateProxyUserNotifications ==
    LET ev(u) == quotaEvaluate(u, useSweep[u], 0)
        writes(u) == ev(u).alerts # {} \/ (useSweep[u].stored /\ ev(u).row.status # useSweep[u].status)
    IN /\ useSweep # None /\ useSweep' = None
       /\ useRow' = [u \in UseUsers |-> IF writes(u) THEN [ev(u).row EXCEPT !.stored = TRUE] ELSE useRow[u]]
       /\ useSent' = useSent \cup UNION {ev(u).alerts : u \in UseUsers}
       /\ UNCHANGED <<useNode, useLast, useInv, useIdent, useMeter, useNow, useRestarts, useEdits>>

-----------------------------------------------------------------------------
(* ---- what the usage pages show --------------------------------------------------------------------- *)

(* sumWindow: a line's rows of the window. *)
sumWindow(l, from, to) ==
    LET ds == {d \in UseDays : d >= from /\ d <= to}
    IN [b |-> SumOver(ds, LAMBDA d : useNodeDay[l][d].b), known |-> \E d \in ds : useNodeDay[l][d].known,
        users |-> [u \in UseUsers |-> SumOver(ds, LAMBDA d : useNodeDay[l][d].users[u])]]

(* attributeWindow: the window's lines attributed again, with the topology of the moment and the upstream bytes known;
   None for a line the read model does not carry. *)
attributeWindow(from, to) ==
    LET ctx == usageAttributionContext
        sums == [l \in UseLines |-> sumWindow(l, from, to)]
        named(l) == Positive([u \in {v \in UseUsers : <<l, v>> \in ctx.reported} |-> sums[l].users[u]])
        up(l) == SumOver({s \in ctx.facts[l].up : sums[s].known}, LAMBDA s : sums[s].b)
    IN [l \in UseLines |-> IF ctx.facts[l] = None THEN None
                           ELSE attributeLine(ctx.facts[l], sums[l].b, named(l), IF ctx.facts[l].up = {} THEN None ELSE up(l))]

(* reachableExits: the lines a line relays into, however far. *)
reachableExits(l) ==
    LET grow[n \in 0 .. Cardinality(UseLines)] == IF n = 0 THEN DownstreamOf(l) ELSE grow[n - 1] \cup UNION {DownstreamOf(x) : x \in grow[n - 1]}
    IN grow[Cardinality(UseLines)] \ {l}

(* vpnUserUsageViews: an identity's total, its period, its policy and the bytes shown beside each allocated line. *)
vpnUserUsageViews(u) ==
    LET from == IF u \in UseMonthly THEN PeriodStart(UseToday) ELSE UseToday - 29
        exact(l) == SumOver({d \in UseDays : d >= from /\ d <= UseToday}, LAMBDA d : useUserDay[u][d].by[l])
        report == attributeWindow(from, UseToday)
        est(l) == IF report[l] # None /\ (report[l] # None => report[l].estimate /\ report[l].owner = u) THEN report[l].rest ELSE 0
        allocated == (useBind[u] \cap liveSingBoxInventories) \cup {l \in liveSingBoxInventories : u \in UseSub[l]}
    IN [total |-> RowsFrom(u, UseToday - UseRetention),
        period |-> IF u \in UseMonthly THEN RowsFrom(u, from) ELSE RowsFrom(u, UseToday - UseRetention),
        policy |-> decideVpnUserPolicy(u, vpnUserQuotaMeasure(u, useRow[u].used, 0)),
        lines |-> [l \in allocated |-> IF exact(l) > 0 THEN exact(l) ELSE est(l)],
        relay |-> UNION {reachableExits(l) : l \in allocated} \ allocated]

(* vpnUsageQuery for an identity: the rows of the window, and its lines. *)
vpnUsageQuery(u, from) ==
    [used |-> RowsFrom(u, from),
     lines |-> [l \in UseLines |-> SumOver({d \in UseDays : d >= from /\ d <= UseToday}, LAMBDA d : useUserDay[u][d].by[l])]]

(* usageSeries: a day's bytes of the lines of a role. *)
usageSeries(role, d) == SumOver({l \in liveSingBoxInventories : usageLineRole(l) = role}, LAMBDA l : useNodeDay[l][d].b)

(* buildUsage: an identity's lifetime total and the status stored with it. *)
buildUsage(u) == [used |-> useRow[u].used, status |-> IF u \in useOn THEN useRow[u].status ELSE "disabled"]

-----------------------------------------------------------------------------
(* ---- the specification ------------------------------------------------------------------------------ *)

UseInit ==
    /\ useCore = [inb |-> [l \in UseLines |-> 0], nam |-> [p \in UseNamed \X UseUsers |-> 0], up |-> 0]
    /\ useCarried = [p \in UseLines \X UseUsers |-> 0]
    /\ useLast = None /\ useInv = None
    /\ useBind = [u \in UseUsers |-> {l \in UseLines : u \in UseWho[l]}]
    /\ useOnce = {<<l, u>> \in UseLines \X UseUsers : u \in UseWho[l]} /\ useOn = UseUsers
    /\ useProf = "none" /\ useSnap = None /\ useHeld = [l \in UseLines |-> None]
    /\ useNodeDay = [l \in UseLines |-> [d \in UseDays |-> NoNodeDay]]
    /\ useUserDay = [u \in UseUsers |-> [d \in UseDays |-> NoUserDay]]
    /\ useRow = [u \in UseUsers |-> [used |-> 0, status |-> "active", qkey |-> <<0, 0>>, ekey |-> 0, stored |-> FALSE]]
    /\ useSweep = None /\ useSent = {} /\ useBase = <<>> /\ useLate = FALSE /\ usePruned = [l \in UseLines |-> 0]
    /\ useNow = 0 /\ useRestarts = 0 /\ useEdits = 0

UseNext ==
    \/ \E l \in UseLines, u \in UseUsers : Carry(l, u) \/ vpnUserBind(u, l) \/ vpnUserUnbind(u, l)
    \/ CoreRestart \/ UseTick \/ handleAgentSingBoxInventory \/ UseServerRestart
    \/ \E s \in {"ok", "error"}, split \in UseSplits : handleAgentProxyUsage(ReportOf(s, split))
    \/ useLast # None /\ handleAgentProxyUsage(useLast)
    \/ \E u \in UseUsers : vpnUserUpdateBy(u)
    \/ UsageProfileDeleted \/ SweepReads \/ evaluateProxyUserNotifications

-----------------------------------------------------------------------------
(* ---- properties ------------------------------------------------------------------------------------- *)

(* Every variable holds a value of its kind (model.ProxyUsageSnapshot, model.ProxyUser, the day rows). *)
UseTypeOK ==
    /\ useCore.up \in Nat /\ useCore.inb \in [UseLines -> Nat] /\ useCore.nam \in [UseNamed \X UseUsers -> Nat]
    /\ useCarried \in [UseLines \X UseUsers -> Nat] /\ (useLast # None => useLast.up \in Nat) /\ useInv \in Maybe(0 .. MaxUseNow)
    /\ useBind \in [UseUsers -> SUBSET UseLines] /\ useOn \subseteq UseUsers /\ useProf \in {"none", "ok", "error"}
    /\ useHeld \in [UseLines -> Maybe(0 .. MaxUseNow)]
    /\ \A l \in UseLines, d \in UseDays : useNodeDay[l][d].b \in Nat
    /\ \A u \in UseUsers : useRow[u].used \in Nat /\ useRow[u].status \in {"active", "disabled", "expired", "over_quota"}
    /\ \A u \in UseUsers, d \in UseDays : useUserDay[u][d].tot \in Nat

RecordedOn(l) == SumOver(UseDays, LAMBDA d : useNodeDay[l][d].b) + usePruned[l]
SentOn(l) == SumOver(UseUsers, LAMBDA u : useCarried[<<l, u>>]) +
             SumOver({s \in UseLines : s # l /\ <<s, l>> \in UseEdges}, LAMBDA s : SumOver(UseUsers, LAMBDA u : useCarried[<<s, u>>]))

(* LineBytesOnce: whatever is lost, repeated, held back or restarted, a line is never recorded with more bytes than it
   carried; and while neither side has restarted, the bytes recorded for it are exactly the distance between the first
   stored counter and the last one, so a hold postpones bytes and neither drops nor repeats them
   (holdUnresolvableInboundTags, diffTrafficCounters). *)
LineBytesOnce ==
    \A l \in UseLines :
        /\ RecordedOn(l) <= SentOn(l)
        /\ useSnap # None /\ useRestarts = 0 => RecordedOn(l) = At0(useSnap.inb, l) - At0(useBase, l)

(* HeldIsCharged: while neither side has restarted, no binding has changed and no hold has run out, every byte recorded
   for a line that only the binding attributes is on its identity's rows: quota is not short of what the line shows
   (holdUnresolvableInboundTags: "that traffic is missing from quota permanently"). *)
HeldIsCharged ==
    ~useLate /\ useRestarts + useEdits = 0 /\ DayOf(MaxUseNow) <= UseRetention =>
        \A l \in UseLines \ UseNamed : \A u \in UseWho[l] :
            {s \in UseLines : <<s, l>> \in UseEdges} = {} /\ UseWho[l] = {u} => vpnUsageQuery(u, 0).lines[l] = RecordedOn(l)

(* TotalsFollowRows: an identity's lifetime total never runs ahead of the day rows that explain it
   (applyProxyUsageSnapshot, usageIngest). *)
TotalsFollowRows == \A u \in UseUsers : DayOf(MaxUseNow) <= UseRetention => useRow[u].used <= RowsFrom(u, 0)

(* ViewsAgree: the pages show the same rows.  An identity's total is the query's; a line's bytes in a window are all
   accounted for, to a name, a relay, an owner or nobody; and the series adds up to the window. *)
ViewsAgree ==
    /\ \A u \in UseUsers : vpnUserUsageViews(u).total = vpnUsageQuery(u, UseToday - UseRetention).used
    /\ LET rows == attributeWindow(0, UseToday) IN \A l \in UseLines : LET r == rows[l] IN
         r # None => (r # None => r.relayed + r.rest + SumOver(DOMAIN r.named, LAMBDA u : r.named[u]) >= sumWindow(l, 0, UseToday).b)
    /\ liveSingBoxInventories = UseLines =>
         \A d \in UseDays : SumOver({"relay", "entry", "exit", "shared", "direct"}, LAMBDA r : usageSeries(r, d)) = SumOver(UseLines, LAMBDA l : useNodeDay[l][d].b)

(* UsageSound: every byte of a line is counted once, the bytes held back are charged in the end, totals follow the rows
   that explain them and the pages agree, over core restarts, late reports and re-deliveries (usageIngest). *)
UsageSound == UseTypeOK /\ LineBytesOnce /\ HeldIsCharged /\ TotalsFollowRows /\ ViewsAgree

(* ChargedOnce: an identity is never charged more bytes than it sent (usageIngest). *)
\* TLC refutes it (README.md, section 6).
ChargedOnce == \A u \in UseUsers : RowsFrom(u, 0) <= SumOver(UseLines, LAMBDA l : useCarried[<<l, u>>])

(* TotalsNeverFall: a lifetime total only grows (usageIngest: "the caller adds to the monotonic user totals"). *)
\* TLC refutes it (README.md, section 6).
TotalsNeverFall == [][\A u \in UseUsers : useRow'[u].used >= useRow[u].used]_useVars

(* OneStatus: the usage page never calls an identity over its quota while its policy calls it active, once a sweep is
   not due (buildUsage, decideVpnUserPolicy). *)
\* TLC refutes it (README.md, section 6).
OneStatus == \A u \in UseUsers : buildUsage(u).status = "over_quota" => vpnUserUsageViews(u).policy # "active"
=============================================================================
