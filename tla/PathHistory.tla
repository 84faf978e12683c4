---------------------------- MODULE PathHistory ----------------------------
(***************************************************************************)
(* The results of one (monitor, node) pair (store/monitor_results.go,      *)
(* bolt_monitor_results.go, monitor_rollups.go, monitor_history.go,        *)
(* server/server_monitor_results.go, monitor_paths.go): an agent's         *)
(* buffered batches arrive, perhaps twice; each result becomes a row, a    *)
(* count in two tiers of buckets and a step of the latest record, in one   *)
(* transaction; a sweep prunes what is behind the retention line, which    *)
(* the operator may move; the series read back picks the tier that holds   *)
(* the window.  Without the hot store the rows live in the state file,     *)
(* saved only when the pair changes; a later start moves them into bolt.   *)
(* Time is counted in minutes of a scaled-down clock.                      *)
(***************************************************************************)
EXTENDS Common, Naturals, SequencesExt

CONSTANTS
    FineRes, CoarseRes,  \* MonitorRollupFine and MonitorRollupCoarse
    FineDays,            \* fine retentions an operator may choose
    DefaultDays,         \* MonitorFineRetentionDefaultDays
    Slack,               \* monitorRetentionSlack
    CoarseDays,          \* MonitorCoarseRetentionDays
    PerPair, PerPairJSON,\* MonitorResultsPerPair, monitorResultsPerPairJSON
    HistMaxAge,          \* MonitorResultMaxAge
    SaveEvery,           \* monitorResultPersistenceInterval
    AlertAfter,          \* failures in a row that page
    PruneBatch,          \* monitorPruneBatch
    HistKinds,           \* kinds of check: "tcp", "icmp", "tls"
    HistSpans,           \* window spans a reader asks for
    MaxHistNow, MaxHistProbes, MaxHistBuf,  \* bounds: clock, probes, results an agent buffers
    MaxHistOps,          \* bound: lost responses, failed writes, restarts, settings changes, pauses, deletes and prunes
    HistSaveFails,       \* whether a state file save may fail while the rows live there
    HistMidCrash,        \* whether the process may die between storing a batch and paging
    HistResumes,         \* whether a check paused while down may be resumed while still down
    HistUnkJSON          \* whether results that measured nothing arrive while the rows live in the state file

(* A resent result is younger than every retention and its row is still held. *)
ASSUME HistAssumption ==
    /\ DefaultDays \in FineDays
    /\ \A d \in FineDays : HistMaxAge + FineRes <= d + Slack /\ d <= CoarseDays
    /\ MaxHistBuf <= PerPair /\ MaxHistBuf <= PerPairJSON /\ AlertAfter <= PerPairJSON

VARIABLES
    histNow, histKind,   \* the clock; the check's kind
    histOn,              \* the monitor: "on", "off" or "gone"
    histHot,             \* the hot store is in use
    histRows, histLatest,\* bolt: rows by instant, the latest record
    histTiers,           \* bolt: the fine and coarse buckets
    histSeries, histDisk, histSaved,  \* state file: series in memory, series saved, when
    histKeep,            \* the fine retention in the settings
    histBuf, histProbed, \* the agent: results not acknowledged, its last probe's instant
    histSeen,            \* every result stored in bolt for the pair, in arrival order
    histDown,            \* the pair's monitor.down incident is open
    histPrune,           \* a prune: the tiers it has left with their lines, or None
    histProbes, histOps

storeVars == <<histRows, histLatest, histTiers>>
jsonVars == <<histSeries, histDisk, histSaved>>
agentVars == <<histBuf, histProbed, histProbes>>
histVars == <<histNow, histKind, histOn, histHot, storeVars, jsonVars, histKeep, agentVars, histSeen, histDown,
              histPrune, histOps>>

Instants == 1..MaxHistNow
TierNames == {"fine", "coarse"}
ResOf == [fine |-> FineRes, coarse |-> CoarseRes]
Truncate(t, res) == t - (t % res)
Starts(tier) == {Truncate(t, ResOf[tier]) : t \in Instants}
NoCount == [n |-> 0, f |-> 0]
NoTiers == [tier \in TierNames |-> [s \in Starts(tier) |-> NoCount]]
NoRowsYet == [t \in Instants |-> "none"]

(* monitorHistoryLimitsFor: what each tier keeps; raw rows are kept as long as the coarse tier. *)
keepOf(tier) == (IF tier = "fine" THEN histKeep ELSE CoarseDays) + Slack
Before(t, keep) == IF t > keep THEN t - keep ELSE 0

(* One of the bounded number of faults and operator actions. *)
Spends == histOps < MaxHistOps /\ histOps' = histOps + 1

Result(r) == [at |-> r.at, out |-> r.out]
countable(r) == r.out # "unk"

(* ---- the latest record ----------------------------------------------------- *)

(* advanceMonitorLatest: the record after r, in arrival order; a result that measured nothing keeps the run open. *)
advanceMonitorLatest(prior, r) ==
    LET had == prior # None
        judged == IF had THEN prior.out # "unk" ELSE FALSE
        held == IF had THEN prior.held + 1 ELSE 1
        okBefore == IF judged THEN prior.lastOk ELSE 0
    IN IF ~countable(r)
       THEN IF judged THEN [prior EXCEPT !.held = held, !.unk = TRUE]
            ELSE [out |-> "unk", at |-> r.at, since |-> r.at, unk |-> TRUE, held |-> held, streak |-> 0, lastOk |-> 0]
       ELSE [out |-> r.out, at |-> r.at, unk |-> FALSE, held |-> held,
             since |-> IF judged THEN IF prior.out = r.out THEN prior.since ELSE r.at ELSE r.at,
             streak |-> IF r.out = "ok" THEN 0 ELSE IF judged THEN prior.streak + 1 ELSE 1,
             lastOk |-> IF r.out = "ok" /\ r.at >= okBefore THEN r.at ELSE okBefore]

(* latestFromSeries: the same record derived from a series in arrival order. *)
latestFromSeries(series) ==
    LET judged == {i \in DOMAIN series : countable(series[i])}
        newest == CHOOSE i \in judged : \A j \in judged : j <= i
        run == {i \in judged : \A j \in judged : j >= i => series[j].out = series[newest].out}
        first == CHOOSE i \in run : \A j \in run : i <= j
        oks == {i \in judged : series[i].out = "ok"}
        lastOk == CHOOSE i \in oks : \A j \in oks : j <= i
        end == series[Len(series)]
    IN IF series = <<>> THEN None
       ELSE IF judged = {}
       THEN [out |-> "unk", at |-> end.at, since |-> end.at, unk |-> TRUE, held |-> Len(series), streak |-> 0, lastOk |-> 0]
       ELSE [out |-> series[newest].out, at |-> series[newest].at, since |-> series[first].at, unk |-> newest < Len(series),
             held |-> Len(series), streak |-> IF series[newest].out = "ok" THEN 0 ELSE Cardinality(run),
             lastOk |-> IF oks = {} THEN 0 ELSE series[lastOk].at]

FailStreak(latest) == IF latest = None THEN 0 ELSE latest.streak
EverOk(latest) == IF latest = None THEN FALSE ELSE latest.lastOk # 0

(* ---- one result in the hot store ------------------------------------------- *)

HeldRows(rows) == {t \in Instants : rows[t] # "none"}
Oldest(S, k) == {t \in S : Cardinality({u \in S : u < t}) < k}
Without(rows, gone) == [t \in Instants |-> IF t \in gone THEN "none" ELSE rows[t]]

(* addMonitorRollupsTx: count the result in each tier; a bucket just made trims those behind the line. *)
addMonitorRollupsTx(tiers, r) ==
    [tier \in TierNames |->
        LET start == Truncate(r.at, ResOf[tier])
            cutoff == Before(IF r.got > r.at THEN r.got ELSE r.at, keepOf(tier))
            b == tiers[tier][start]
            counted == [tiers[tier] EXCEPT ![start] = [n |-> b.n + 1, f |-> b.f + IF r.out = "fail" THEN 1 ELSE 0]]
        IN IF start < cutoff THEN tiers[tier]
           ELSE IF b.n > 0 THEN counted
           ELSE [s \in Starts(tier) |-> IF s < cutoff THEN NoCount ELSE counted[s]]]

(* trimMonitorPairTx: drop the oldest rows beyond the limit; rows that run out first correct the count. *)
trimMonitorPairTx(rows, latest) ==
    LET present == Cardinality(HeldRows(rows))
        excess == latest.held - PerPair
        drop == IF present <= excess THEN IF present > PerPair THEN present - PerPair ELSE 0 ELSE excess
    IN IF latest.held <= PerPair THEN [rows |-> rows, latest |-> latest]
       ELSE [rows |-> Without(rows, Oldest(HeldRows(rows), drop)),
             latest |-> [latest EXCEPT !.held = (IF present <= excess THEN present ELSE @) - drop]]

(* recordMonitorResultTx: the row, its count in both tiers, the latest record and the trim; a held instant is a duplicate. *)
recordMonitorResultTx(st, r) ==
    LET t == trimMonitorPairTx([st.rows EXCEPT ![r.at] = r.out], advanceMonitorLatest(st.latest, r))
    IN IF st.rows[r.at] # "none" THEN [st EXCEPT !.new = Append(@, FALSE), !.prior = Append(@, 0)]
       ELSE [st EXCEPT !.rows = t.rows, !.latest = t.latest, !.tiers = IF countable(r) THEN addMonitorRollupsTx(@, r) ELSE @,
                       !.new = Append(@, TRUE), !.prior = Append(@, FailStreak(st.latest)), !.seen = Append(@, Result(r))]

RecordAll(st, batch) == FoldLeft(recordMonitorResultTx, st, batch)
BoltState == [rows |-> histRows, latest |-> histLatest, tiers |-> histTiers, new |-> <<>>, prior |-> <<>>, seen |-> histSeen]

(* ---- one batch without the hot store ---------------------------------------- *)

monitorSeriesHolds(series, at) == \E i \in DOMAIN series : series[i].at = at

trimMonitorSeries(series) ==
    IF Len(series) <= PerPairJSON THEN series ELSE SubSeq(series, Len(series) - PerPairJSON + 1, Len(series))

(* A result is worth a save when the pair changes, reaches the failure that pages, or was last saved long ago. *)
savesFor(prior, r) ==
    \/ IF prior = None THEN TRUE ELSE (prior.out = "ok") # (r.out = "ok")
    \/ r.out # "ok" /\ FailStreak(prior) + 1 = AlertAfter
    \/ histSaved = None
    \/ histSaved # None /\ (histSaved # None => histNow >= histSaved + SaveEvery)

recordSeries(st, r) ==
    LET prior == latestFromSeries(st.series)
    IN IF monitorSeriesHolds(st.series, r.at) THEN [st EXCEPT !.new = Append(@, FALSE), !.prior = Append(@, 0)]
       ELSE [series |-> trimMonitorSeries(Append(st.series, r)), new |-> Append(st.new, TRUE),
             prior |-> Append(st.prior, FailStreak(prior)), save |-> st.save \/ savesFor(prior, r)]

recordMonitorResultsJSON(batch) ==
    FoldLeft(recordSeries, [series |-> histSeries, new |-> <<>>, prior |-> <<>>, save |-> FALSE], batch)

(* ---- paging ------------------------------------------------------------------ *)

Latest == IF histHot THEN histLatest ELSE latestFromSeries(histSeries)

(* resultMayPage: an unmeasured result never pages, and neither does a ping that was never once answered. *)
resultMayPage(r, everOk) == countable(r) /\ (r.out = "fail" /\ histKind = "icmp" => everOk)

(* notifyMonitorTransition: the AlertAfter-th failure in a row opens the incident, the first success resolves it. *)
notifyMonitorTransition(down, r, prior) ==
    IF r.out = "ok" /\ prior = 0 THEN down ELSE IF r.out = "fail" /\ prior # AlertAfter - 1 THEN down ELSE r.out = "fail"

(* ingestAgentMonitorResults: page for each result the batch stored, in its order. *)
PagedAfter(batch, st, ever) ==
    FoldLeft(LAMBDA down, i : IF st.new[i] /\ resultMayPage(batch[i], ever \/ \E j \in 1..i : batch[j].out = "ok" /\ st.new[j])
                              THEN notifyMonitorTransition(down, batch[i], st.prior[i]) ELSE down,
             histDown, [i \in DOMAIN batch |-> i])

(* adoptLegacyAlerts, at every start: a pair past its hold with no incident gets one. *)
adoptedDown(latest) ==
    histOn = "on" /\ FailStreak(latest) >= AlertAfter /\ (histKind = "icmp" => EverOk(latest))

(* ---- the agent ---------------------------------------------------------------- *)

(* A probe is stamped when it starts; one instant holds one result. *)
Probe(out) ==
    /\ histKind # "tls" /\ histOn = "on" /\ histProbes < MaxHistProbes /\ Len(histBuf) < MaxHistBuf /\ histProbed < histNow
    /\ out = "unk" => histHot \/ HistUnkJSON
    /\ histBuf' = Append(histBuf, [at |-> histNow, out |-> out]) /\ histProbed' = histNow /\ histProbes' = histProbes + 1
    /\ UNCHANGED <<histNow, histKind, histOn, histHot, storeVars, jsonVars, histKeep, histSeen, histDown, histPrune, histOps>>

(* admitAgentMonitorResultLocked: the monitor exists, is enabled, and the stamp is inside the window. *)
admitted(r) == histOn = "on" /\ r.at >= Before(histNow, HistMaxAge)
Admitted(buf) == [i \in DOMAIN SelectSeq(buf, admitted) |->
                    [at |-> SelectSeq(buf, admitted)[i].at, out |-> SelectSeq(buf, admitted)[i].out, got |-> histNow]]

StoreBatch(batch, paged) ==
    IF histHot
    THEN LET st == RecordAll(BoltState, batch) IN
         /\ histRows' = st.rows /\ histLatest' = st.latest /\ histTiers' = st.tiers /\ histSeen' = st.seen
         /\ histDown' = IF paged THEN PagedAfter(batch, st, EverOk(histLatest)) ELSE histDown \/ adoptedDown(st.latest)
         /\ UNCHANGED jsonVars
    ELSE LET st == recordMonitorResultsJSON(batch) IN
         /\ histSeries' = st.series
         /\ histDisk' = IF st.save THEN st.series ELSE histDisk
         /\ histSaved' = IF st.save THEN histNow ELSE histSaved
         /\ histDown' = PagedAfter(batch, st, EverOk(latestFromSeries(histSeries)))
         /\ UNCHANGED <<storeVars, histSeen>>

Endings == {"answered", "lost"} \cup IF HistMidCrash THEN {"died"} ELSE {}

(* handleAgentMonitorResults: admit, store in one write, page; the agent forgets the batch when the answer arrives.
   A process that dies before paging starts again and adopts what the latest record says. *)
handleAgentMonitorResults(end) ==
    /\ histBuf # <<>> /\ (end = "died" => histHot)
    /\ StoreBatch(Admitted(histBuf), end # "died")
    /\ histBuf' = IF end = "answered" THEN <<>> ELSE histBuf
    /\ IF end = "answered" THEN UNCHANGED histOps ELSE Spends
    /\ UNCHANGED <<histNow, histKind, histOn, histHot, histKeep, histProbed, histProbes, histPrune>>

(* The write fails: bolt rolls the batch back; the state file's series keeps it in memory.  Nothing is paged. *)
IngestFails ==
    /\ histBuf # <<>> /\ Spends /\ Admitted(histBuf) # <<>>
    /\ histHot \/ HistSaveFails
    /\ IF histHot THEN UNCHANGED histSeries
       ELSE LET st == recordMonitorResultsJSON(Admitted(histBuf))
            IN st.save /\ histSeries' = st.series
    /\ UNCHANGED <<histNow, histKind, histOn, histHot, storeVars, histDisk, histSaved, histKeep, agentVars, histSeen, histDown, histPrune>>

(* sweepTLSMonitorsOnce: the control plane probes a tls check itself, once per interval, stamped with its own clock. *)
sweepTLSMonitorsOnce(out) ==
    /\ histKind = "tls" /\ histOn = "on" /\ histProbes < MaxHistProbes /\ out # "unk"
    /\ Latest # None => (Latest.at < histNow)
    /\ StoreBatch(<<[at |-> histNow, out |-> out, got |-> histNow]>>, TRUE)
    /\ histProbes' = histProbes + 1
    /\ UNCHANGED <<histNow, histKind, histOn, histHot, histKeep, histBuf, histProbed, histPrune, histOps>>

(* ---- pruning and settings -------------------------------------------------------- *)

(* PruneMonitorHistory reads the limits and the clock once; without the hot store it drops old rows in one save. *)
PruneMonitorHistory ==
    /\ histPrune = None /\ Spends
    /\ IF histHot
       THEN /\ histPrune' = <<[tier |-> "fine", cut |-> Before(histNow, keepOf("fine"))],
                              [tier |-> "coarse", cut |-> Before(histNow, keepOf("coarse"))],
                              [tier |-> "rows", cut |-> Before(histNow, keepOf("coarse"))]>>
            /\ UNCHANGED jsonVars
       ELSE /\ histSeries' = SelectSeq(histSeries, LAMBDA r : r.at >= Before(histNow, keepOf("coarse")))
            /\ histDisk' = IF histSeries' = histSeries THEN histDisk ELSE histSeries'
            /\ UNCHANGED <<histSaved, histPrune>>
    /\ UNCHANGED <<histNow, histKind, histOn, histHot, storeVars, histKeep, agentVars, histSeen, histDown>>

\* Mutant: the rows a prune deletes stay in the pair's count.
prunedLatest_same(gone) == histLatest
(* pruneMonitorPairTx takes the deleted rows off the pair's count. *)
prunedLatest(gone) ==
    IF histLatest = None THEN None
    ELSE [histLatest EXCEPT !.held = IF @ > Cardinality(gone) THEN @ - Cardinality(gone) ELSE 0]

prunedTiers(tier, gone, cut) ==
    [t \in TierNames |-> [s \in Starts(t) |-> IF t = tier /\ s \in gone THEN NoCount ELSE histTiers[t][s]]]

(* One write transaction of the prune: at most PruneBatch keys of the tier, each checked against the line again. *)
PruneStep ==
    /\ histPrune # None
    /\ LET job == Head(histPrune)
           keys == IF job.tier = "rows" THEN HeldRows(histRows)
                   ELSE {s \in Starts(job.tier) : histTiers[job.tier][s].n > 0}
           old == {k \in keys : k < job.cut}
           gone == Oldest(old, PruneBatch)
       IN /\ histTiers' = prunedTiers(job.tier, gone, job.cut)
          /\ IF job.tier = "rows" THEN histRows' = Without(histRows, gone) /\ histLatest' = prunedLatest(gone)
             ELSE UNCHANGED <<histRows, histLatest>>
          /\ histPrune' = IF Cardinality(old) > PruneBatch THEN histPrune
                          ELSE IF Len(histPrune) = 1 THEN None ELSE Tail(histPrune)
    /\ UNCHANGED <<histNow, histKind, histOn, histHot, jsonVars, histKeep, agentVars, histSeen, histDown, histOps>>

handleMonitorSettingsUpdate(days) ==
    /\ days # histKeep /\ Spends /\ histKeep' = days
    /\ UNCHANGED <<histNow, histKind, histOn, histHot, storeVars, jsonVars, agentVars, histSeen, histDown, histPrune>>

(* ---- the monitor ------------------------------------------------------------------ *)

(* A paused check's results are refused and the next incident sweep closes its incident (monitorIncidentClosing). *)
SetEnabled(on) ==
    /\ histOn = (IF on THEN "off" ELSE "on") /\ Spends /\ histOn' = IF on THEN "on" ELSE "off"
    /\ on => (FailStreak(Latest) < AlertAfter \/ HistResumes)
    /\ histDown' = (histDown /\ on)
    /\ UNCHANGED <<histNow, histKind, histHot, storeVars, jsonVars, histKeep, agentVars, histSeen, histPrune>>

deletedTiers == NoTiers

(* DeleteMonitorHistory: rows, buckets and latest record go in one transaction before the monitor does; its incidents go with it. *)
DeleteMonitorHistory ==
    /\ histOn # "gone" /\ Spends /\ histOn' = "gone" /\ histRows' = NoRowsYet /\ histLatest' = None /\ histTiers' = deletedTiers
    /\ histSeries' = <<>> /\ histDisk' = <<>> /\ histSaved' = None /\ histSeen' = <<>> /\ histDown' = FALSE
    /\ UNCHANGED <<histNow, histKind, histHot, histKeep, agentVars, histPrune>>

(* ---- restarts and the move to the hot store ------------------------------------------ *)

(* MigrateMonitorResults: the saved series is recorded row by row, once. *)
Restart(hot) ==
    /\ Spends /\ (histHot => hot) /\ histHot' = hot
    /\ IF hot /\ ~histHot
       THEN LET st == RecordAll([BoltState EXCEPT !.seen = <<>>], histDisk) IN
            /\ histRows' = st.rows /\ histLatest' = st.latest /\ histTiers' = st.tiers /\ histSeen' = st.seen
            /\ histDown' = adoptedDown(st.latest) /\ histSeries' = <<>> /\ histDisk' = <<>> /\ histSaved' = None
       ELSE IF hot THEN histDown' = (histDown \/ adoptedDown(histLatest)) /\ UNCHANGED <<storeVars, jsonVars, histSeen>>
       ELSE /\ histSeries' = histDisk /\ histSaved' = None
            /\ histDown' = adoptedDown(latestFromSeries(histDisk)) /\ UNCHANGED <<storeVars, histDisk, histSeen>>
    /\ histPrune' = None
    /\ UNCHANGED <<histNow, histKind, histOn, histKeep, agentVars>>

HistTick ==
    /\ histNow < MaxHistNow /\ histNow' = histNow + 1
    /\ UNCHANGED <<histKind, histOn, histHot, storeVars, jsonVars, histKeep, agentVars, histSeen, histDown, histPrune, histOps>>

(* ---- reading a series back -------------------------------------------------------- *)

(* pathSeriesStep: spans up to an hour read raw rows, up to the retention the fine tier, longer ones the coarse tier. *)
pathSeriesStep(span, days) == IF span <= CoarseRes THEN "rows" ELSE IF span <= days THEN "fine" ELSE "coarse"

pathSeriesFrom(span, res) ==
    LET steps == (span + res - 1) \div res IN Before(Truncate(histNow, res), (steps - 1) * res)

(* fineTierShort: the coarse tier holds hours of the window the fine tier no longer (or not yet) does. *)
fineTierShort(from) ==
    LET held == {s \in Starts("fine") : histTiers["fine"][s].n > 0}
        fine == IF held = {} THEN histNow ELSE CHOOSE s \in held : \A u \in held : s <= u
        missing == IF held = {} THEN histNow + 1 ELSE Before(fine, CoarseRes)
    IN fine > from /\ \E s \in Starts("coarse") : s >= Truncate(from, CoarseRes) /\ s < missing /\ histTiers["coarse"][s].n > 0

(* pathSeriesFor: the tier the series is drawn from and where it starts. *)
pathSeriesFor(span) ==
    LET tier == pathSeriesStep(span, histKeep)
        from == pathSeriesFrom(span, IF tier = "rows" THEN 1 ELSE ResOf[tier])
    IN IF tier = "fine" /\ fineTierShort(from) THEN [tier |-> "coarse", from |-> pathSeriesFrom(span, CoarseRes)]
       ELSE [tier |-> tier, from |-> from]

HistInit ==
    /\ histNow = 1 /\ histKind \in HistKinds /\ histOn = "on" /\ histHot \in BOOLEAN /\ histKeep = DefaultDays
    /\ histRows = NoRowsYet /\ histLatest = None /\ histTiers = NoTiers /\ histSeries = <<>> /\ histDisk = <<>> /\ histSaved = None
    /\ histBuf = <<>> /\ histProbed = 0 /\ histProbes = 0 /\ histSeen = <<>> /\ histDown = FALSE /\ histPrune = None
    /\ histOps = 0

HistNext ==
    \/ \E out \in {"ok", "fail", "unk"} : Probe(out) \/ sweepTLSMonitorsOnce(out)
    \/ \E end \in Endings : handleAgentMonitorResults(end)
    \/ \E b \in BOOLEAN : SetEnabled(b) \/ Restart(b)
    \/ IngestFails
    \/ PruneMonitorHistory
    \/ PruneStep
    \/ \E d \in FineDays : handleMonitorSettingsUpdate(d)
    \/ DeleteMonitorHistory
    \/ HistTick

HistSpec == HistInit /\ [][HistNext]_histVars

(* ---- properties ----------------------------------------------------------------- *)

Outs == {"ok", "fail", "unk"}

(* The variables keep their shape: outcomes, counts and stamps of the pair in either store. *)
HistTypeOK ==
    /\ histNow \in Instants /\ histOn \in {"on", "off", "gone"} /\ histHot \in BOOLEAN /\ histKeep \in FineDays
    /\ histRows \in [Instants -> Outs \cup {"none"}] /\ histDown \in BOOLEAN
    /\ \A s \in {histSeries, histDisk} : \A i \in DOMAIN s : s[i] \in [at : Instants, out : Outs, got : Instants]
    /\ \A i \in DOMAIN histSeen : histSeen[i] \in [at : Instants, out : Outs]
    /\ \A t \in TierNames : \A s \in Starts(t) : histTiers[t][s].f <= histTiers[t][s].n

InBucket(tier, s) == {i \in DOMAIN histSeen : countable(histSeen[i]) /\ Truncate(histSeen[i].at, ResOf[tier]) = s}

(* The count the latest record keeps is the number of rows held, through trims, prunes, duplicates and the move. *)
HeldIsRows == histHot => IF histLatest = None THEN HeldRows(histRows) = {} ELSE histLatest.held = Cardinality(HeldRows(histRows))

(* Every bucket counts each stored result exactly once, or is gone entirely and behind a retention line. *)
BucketsExact ==
    histHot => \A t \in TierNames : \A s \in Starts(t) :
        LET b == histTiers[t][s]
            in == InBucket(t, s)
        IN \/ b.n = Cardinality(in) /\ b.f = Cardinality({i \in in : histSeen[i].out = "fail"})
           \/ b = NoCount /\ s < histNow /\ \E d \in FineDays : s + (IF t = "fine" THEN d ELSE CoarseDays) + Slack < histNow

(* The record advanced result by result says what the whole series in arrival order says. *)
LatestAgrees ==
    histHot => LET whole == latestFromSeries(histSeen) IN
        IF histLatest = None THEN histSeen = <<>>
        ELSE /\ whole # None
             /\ \A x \in {"out", "at", "since", "unk", "streak"} : histLatest[x] = whole[x]
             /\ EverOk(histLatest) = EverOk(whole)

(* The incident is open exactly while the pair is past its hold; a ping never once answered is not paged.  Without the
   hot store a prune may drop the older failures of a run, never its newest row before the others. *)
DownFollowsStreak ==
    histOn = "on" =>
        /\ histDown /\ histHot => FailStreak(Latest) >= AlertAfter /\ (histKind = "icmp" => EverOk(Latest))
        /\ histDown /\ histSeries # <<>> => FailStreak(Latest) > 0
        /\ FailStreak(Latest) >= AlertAfter /\ (histKind = "icmp" => EverOk(Latest)) => histDown

(* A series draws every stored result of its window the coarse tier still holds, but for the hour the fine tier began in. *)
HistSeriesWhole ==
    histHot => \A span \in HistSpans :
        LET series == pathSeriesFor(span)
            shown == {i \in DOMAIN histSeen : countable(histSeen[i]) /\ histSeen[i].at >= series.from}
            held == {s \in Starts("fine") : histTiers["fine"][s].n > 0}
        IN series.tier # "rows" => \A i \in shown :
              \/ histTiers[series.tier][Truncate(histSeen[i].at, ResOf[series.tier])].n > 0
              \/ series.tier = "fine" /\ \E s \in held : s <= histSeen[i].at + CoarseRes
              \/ histTiers["coarse"][Truncate(histSeen[i].at, CoarseRes)].n = 0

(* A result, once stored, is never stored again or rewritten while its check exists: a batch sent again adds nothing. *)
StoredOnce ==
    \A all \in {histSeen, histSeries} : \A i, j \in DOMAIN all : all[i].at = all[j].at => i = j

(* The history of a pair stays whole: counted once in every tier, summed up truthfully, paged on, and drawn without gaps. *)
HistorySound == HistTypeOK /\ HeldIsRows /\ BucketsExact /\ LatestAgrees /\ DownFollowsStreak /\ HistSeriesWhole /\ StoredOnce
=============================================================================
