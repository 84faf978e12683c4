------------------------------ MODULE SubServe ------------------------------
(***************************************************************************)
(* How a subscription link is answered: the snapshot of a plugin's record, *)
(* the cache of rendered bodies, the refreshes and the renders that        *)
(* concurrent requests share, the plugin writes that invalidate them, and  *)
(* the vpn-core changes that make a snapshot due again.  One record of one *)
(* plugin with one link and one cache key is modelled.                     *)
(*                                                                         *)
(* Content is [v, dep, f]: v counts the plugin's writes to the record, dep *)
(* says whether the record reads the fleet, f is the fleet it read (0 when *)
(* it reads none).  Two snapshots have the same revalidation version when  *)
(* their content is equal.                                                 *)
(***************************************************************************)
EXTENDS Integers, FiniteSets, Common

CONSTANTS SubReqs,        \* concurrent requests for the link
          MaxSubFetches,  \* fetches from the provider
          MaxSubOps,      \* requests, writes, faults and passings of time together
          SubJoinerBound  \* TRUE: hold joiners to the fleet promise too

VARIABLES subRec,      \* the plugin's record [v, dep]
          subFleet,    \* vpn-core's state
          subSnap,     \* the stored snapshot
          subGate,     \* the plugin write holding the gate
          subGen,      \* the plugin's generation
          subEpoch,    \* the record's publication epoch
          subVpn,      \* vpn-core generation of its last committed refresh
          subLink,     \* vpn-core generation and its pacing
          subNote,     \* a committed vpn-core write has not been noted yet
          subDeps,     \* what depends_on answers have shown
          subRefine,   \* depends_on questions being asked
          subFlight,   \* the refresh in progress
          subRender,   \* the shared render in progress
          subCache,    \* the rendered body
          subMemo,     \* the remembered bind policy
          subReq,      \* the requests
          subTold,     \* ghost: the fleet a refresh must have read (0: none)
          subDone,     \* ghost: version of the last finished write
          subUsed      \* the budgets spent

subVars == <<subRec, subFleet, subSnap, subGate, subGen, subEpoch, subVpn, subLink, subNote,
             subDeps, subRefine, subFlight, subRender, subCache, subMemo, subReq,
             subTold, subDone, subUsed>>

pubVars == <<subSnap, subGen, subEpoch, subVpn>>
memVars == <<subDeps, subRefine, subFlight, subRender, subCache, subMemo>>
worldVars == <<subRec, subFleet, subGate, subNote>>
ghostVars == <<subTold, subDone>>

\* Faults weigh more than requests, so that one instance holds both.
SpendSub(n) == subUsed.ops + n <= MaxSubOps /\ subUsed' = [subUsed EXCEPT !.ops = @ + n]

SubInit ==
    /\ subRec = [v |-> 0, dep |-> FALSE] /\ subFleet = 1
    /\ subSnap = None /\ subGate = None /\ subGen = 0 /\ subEpoch = 0
    /\ subVpn = 0 /\ subLink = [gen |-> 0, held |-> FALSE, recent |-> FALSE] /\ subNote = FALSE
    /\ subDeps = [dep |-> FALSE, ind |-> None] /\ subRefine = {}
    /\ subFlight = None /\ subRender = None /\ subCache = None /\ subMemo = None
    /\ subReq = [r \in SubReqs |-> None]
    /\ subTold = 1 /\ subDone = 0
    /\ subUsed = [ops |-> 0, fetches |-> 0]

-----------------------------------------------------------------------------
(* Pacing of vpn-core changes and the shares they expire.                  *)

ExpireShare(entry) == IF entry = None THEN None ELSE [entry EXCEPT !.exp = TRUE]

InvalidateShare == None

\* The shares of a record the last answer left out, at the same epoch, keep their bodies.
keepFleetIndependentShares(deps, epoch) == deps.ind # None /\ deps.ind = epoch

\* Expires every body not shown independent, and asks the plugin off this path.
advanceVPNCoreGeneration ==
    LET gen == subLink.gen + 1
        keep == keepFleetIndependentShares(subDeps, subEpoch) IN
    /\ subLink' = [gen |-> gen, held |-> FALSE, recent |-> TRUE]
    /\ subCache' = IF keep THEN subCache ELSE ExpireShare(subCache)
    /\ subRefine' = subRefine \cup {[gen |-> gen, kept |-> keep, at |-> None]}
    /\ subTold' = subFleet

\* The first link fetch after the interval applies a change held back.
settleVPNCoreChanges ==
    IF subLink.held /\ ~subLink.recent
    THEN advanceVPNCoreGeneration
    ELSE UNCHANGED <<subLink, subCache, subRefine, subTold>>

noteVPNCoreChangeForLinks ==
    /\ subNote /\ subNote' = FALSE
    /\ IF subLink.recent
       THEN subLink' = [subLink EXCEPT !.held = TRUE]
            /\ UNCHANGED <<subCache, subRefine, subTold>>
       ELSE advanceVPNCoreGeneration
    /\ UNCHANGED <<subRec, subFleet, subGate, pubVars, subDeps, subFlight, subRender,
                   subMemo, subReq, subDone, subUsed>>

\* A committed vpn-core write: the change is visible before it is noted.
VPNCoreWrite ==
    /\ ~subNote /\ SpendSub(1)
    /\ subFleet' = subFleet + 1 /\ subNote' = TRUE
    /\ UNCHANGED <<subRec, subGate, pubVars, subLink, memVars, subReq, ghostVars>>

\* The epoch is read before the plugin is asked.
RefineReadsEpoch(q) ==
    /\ q.at = None
    /\ subRefine' = (subRefine \ {q}) \cup {[q EXCEPT !.at = subEpoch]}
    /\ UNCHANGED <<worldVars, pubVars, subLink, subDeps, subFlight, subRender, subCache, subMemo,
                   subReq, ghostVars, subUsed>>

\* A record any answer has named stays dependent.
learn(deps, named, at) ==
    IF named \/ deps.dep THEN [dep |-> TRUE, ind |-> None] ELSE [dep |-> FALSE, ind |-> at]

\* The plugin answers: a kept record the answer names is expired, another is carried to the generation.
refineFleetDependentShares(q) ==
    /\ q.at # None
    /\ subRefine' = subRefine \ {q}
    /\ subDeps' = learn(subDeps, subRec.dep, q.at)
    /\ subCache' = IF q.kept /\ subDeps'.dep THEN ExpireShare(subCache) ELSE subCache
    /\ subVpn' = IF q.kept /\ ~subDeps'.dep /\ subVpn = q.gen - 1 THEN q.gen ELSE subVpn
    /\ UNCHANGED <<worldVars, subSnap, subGen, subEpoch, subLink, subFlight, subRender, subMemo,
                   subReq, ghostVars, subUsed>>

\* A failed or malformed answer: judgments are dropped and every share expired.
RefineFails(q) ==
    /\ q.at # None /\ SpendSub(3)
    /\ subRefine' = subRefine \ {q}
    /\ subDeps' = [subDeps EXCEPT !.ind = None]
    /\ subCache' = IF q.kept THEN ExpireShare(subCache) ELSE subCache
    /\ UNCHANGED <<worldVars, pubVars, subLink, subFlight, subRender, subMemo, subReq, ghostVars>>

-----------------------------------------------------------------------------
(* Plugin writes, bracketed by the plugin's gate and generation.           *)

MarkStale(s) == IF s = None THEN None ELSE [s EXCEPT !.stale = TRUE, !.tried = FALSE, !.at = 0]

\* Every source of the plugin gets a new epoch, its shares lose their bodies.
invalidateSharesForPlugin == subEpoch' = subEpoch + 1 /\ subCache' = InvalidateShare

\* A gateway write takes the gate and marks the snapshots stale before it runs.
GatewayWrite ==
    /\ subGate = None /\ SpendSub(2)
    /\ subGate' = "marked"
    /\ subSnap' = MarkStale(subSnap) /\ subGen' = subGen + 1
    /\ invalidateSharesForPlugin
    /\ UNCHANGED <<subRec, subFleet, subNote, subVpn, subLink, subDeps, subRefine,
                   subFlight, subRender, subMemo, subReq, ghostVars>>

\* The generation moves again and the gate is released.
finishSubscriptionMutation ==
    subGate' = None /\ subGen' = subGen + 1 /\ subDone' = subRec'.v

\* The plugin runs the write and the bracket is closed.
GatewayWriteRuns ==
    /\ subGate = "marked"
    /\ \E dep \in BOOLEAN : subRec' = [v |-> subRec.v + 1, dep |-> dep]
    /\ finishSubscriptionMutation
    /\ UNCHANGED <<subFleet, subNote, subSnap, subEpoch, subVpn, subLink, memVars, subReq, subTold, subUsed>>

\* A plan's apply takes the gate and runs before anything is invalidated.
subStorePlanApply ==
    /\ subGate = None /\ SpendSub(2)
    /\ subGate' = "applied"
    /\ \E dep \in BOOLEAN : subRec' = [v |-> subRec.v + 1, dep |-> dep]
    /\ UNCHANGED <<subFleet, subNote, pubVars, subLink, memVars, subReq, ghostVars>>

\* Then the shares are invalidated, the record's snapshot dropped and the bracket closed.
PlanInvalidates ==
    /\ subGate = "applied" /\ UNCHANGED subRec
    /\ invalidateSharesForPlugin /\ subSnap' = None
    /\ finishSubscriptionMutation
    /\ UNCHANGED <<subFleet, subNote, subVpn, subLink, subDeps, subRefine,
                   subFlight, subRender, subMemo, subReq, subTold, subUsed>>

-----------------------------------------------------------------------------
(* Refreshing the snapshot.                                                *)

\* Read under the gate; due is judged after a held change is settled.
Fresh(force) ==
    /\ subSnap # None /\ ~force /\ subVpn = subLink'.gen
    /\ subSnap # None => ~subSnap.stale /\ ~subSnap.old

RecentStale(force) ==
    /\ subSnap # None /\ ~force
    /\ subSnap # None => subSnap.stale /\ subSnap.tried

captureSubscriptionRefreshAuthority == subGate = None /\ settleVPNCoreChanges

\* The refresh itself captures again, fetches without the gate, then commits.
RefreshCaptures ==
    /\ subFlight # None
    /\ subFlight.pc = "capture" /\ captureSubscriptionRefreshAuthority
    /\ subFlight' = IF Fresh(subFlight.force) \/ RecentStale(subFlight.force)
                    THEN [subFlight EXCEPT !.pc = "done", !.snap = subSnap]
                    ELSE [subFlight EXCEPT !.pc = "fetch", !.gen = subGen, !.epoch = subEpoch,
                                           !.vpn = subLink'.gen]
    /\ UNCHANGED <<worldVars, pubVars, subDeps, subRender, subMemo, subReq, subDone, subUsed>>

Content == [v |-> subRec.v, dep |-> subRec.dep, f |-> IF subRec.dep THEN subFleet ELSE 0]

fetchSubscriptionSource ==
    /\ subFlight # None
    /\ subFlight.pc = "fetch" /\ subUsed.fetches < MaxSubFetches
    /\ \/ subFlight' = [subFlight EXCEPT !.pc = "commit", !.raw = Content]
          /\ subUsed' = [subUsed EXCEPT !.fetches = @ + 1]
       \/ subFlight' = [subFlight EXCEPT !.pc = "commit"]
          /\ subUsed.ops + 2 <= MaxSubOps
          /\ subUsed' = [subUsed EXCEPT !.fetches = @ + 1, !.ops = @ + 2]
    /\ UNCHANGED <<worldVars, pubVars, subLink, subDeps, subRefine, subRender, subCache, subMemo,
                   subReq, ghostVars>>

\* Mutant: the fetch is published whatever ran meanwhile.
commitsAnyway(f) == FALSE

\* The plugin or the source moved while the provider was read.
SourceMoved(f) == f.gen # subGen \/ f.epoch # subEpoch

\* The generation a committed refresh settles.
SettledGen(f) == f.vpn

\* A request in progress may be answered with the fleet before this change.
Excuse(q) == IF q = None THEN None ELSE [q EXCEPT !.f0 = 0]

RefreshRefused(f) ==
    /\ SourceMoved(f) \/ (f.raw = None /\ subSnap = None)
    /\ subFlight' = [f EXCEPT !.pc = "done"]
    /\ UNCHANGED <<subSnap, subEpoch, subVpn, subCache, subTold, subReq>>

\* A young snapshot keeps serving; the attempt settles the generation.
KeepsYoung(f) ==
    /\ ~SourceMoved(f) /\ f.raw = None /\ ~f.force
    /\ subSnap # None /\ (subSnap # None => ~subSnap.stale /\ ~subSnap.old)
    /\ subVpn' = SettledGen(f)
    /\ subTold' = 0 /\ subReq' = [r \in SubReqs |-> Excuse(subReq[r])]
    /\ subFlight' = [f EXCEPT !.pc = "done", !.snap = subSnap]
    /\ UNCHANGED <<subSnap, subEpoch, subCache>>

\* The last good snapshot is kept, marked stale.
KeepsStale(f) ==
    /\ ~SourceMoved(f) /\ f.raw = None
    /\ subSnap # None /\ (subSnap # None => f.force \/ subSnap.stale \/ subSnap.old)
    /\ subSnap' = [subSnap EXCEPT !.stale = TRUE, !.tried = TRUE, !.at = subUsed.fetches]
    /\ IF ~subSnap.stale \/ f.force
       THEN subEpoch' = subEpoch + 1 /\ subCache' = InvalidateShare
       ELSE UNCHANGED <<subEpoch, subCache>>
    /\ subFlight' = [f EXCEPT !.pc = "done", !.snap = subSnap']
    /\ UNCHANGED <<subVpn, subTold, subReq>>

\* A refresh that brought back what was served publishes nothing.
Publishes(f) ==
    /\ ~SourceMoved(f) /\ f.raw # None
    /\ subSnap' = [raw |-> f.raw, stale |-> FALSE, old |-> FALSE, tried |-> TRUE, at |-> subUsed.fetches]
    /\ subVpn' = SettledGen(f)
    /\ IF subSnap = None \/ f.force \/ (subSnap # None => subSnap.stale \/ subSnap.raw # f.raw)
       THEN /\ subEpoch' = subEpoch + 1
            /\ subCache' = IF subSnap = None THEN subCache ELSE InvalidateShare
       ELSE UNCHANGED <<subEpoch, subCache>>
    /\ subFlight' = [f EXCEPT !.pc = "done", !.snap = subSnap']
    /\ UNCHANGED <<subTold, subReq>>

refreshSubscriptionSnapshot ==
    /\ subFlight # None
    /\ subFlight.pc = "commit" /\ subGate = None
    /\ \/ RefreshRefused(subFlight) \/ KeepsYoung(subFlight)
       \/ KeepsStale(subFlight) \/ Publishes(subFlight)
    /\ UNCHANGED <<worldVars, subGen, subLink, subDeps, subRefine, subRender, subMemo,
                   subDone, subUsed>>

-----------------------------------------------------------------------------
(* Callers of snapshotFor: requests and the shared render.                 *)

NewFlight(force) == [pc |-> "capture", force |-> force, gen |-> 0, epoch |-> 0, vpn |-> 0,
                     raw |-> None, snap |-> None]

\* Fresh, or recently found stale: the stored snapshot.  Else join or start a refresh.
snapshotForGeneration(force) ==
    /\ captureSubscriptionRefreshAuthority
    /\ subFlight' = IF Fresh(force) \/ RecentStale(force) \/ subFlight # None
                    THEN subFlight ELSE NewFlight(force)

JoinsRefresh(force) == ~(Fresh(force) \/ RecentStale(force)) /\ subFlight # None

\* A caller c (with pc, snap and f0) after that call.
AfterSnapshotFor(c, force) ==
    IF Fresh(force) \/ RecentStale(force) THEN [c EXCEPT !.pc = "have", !.snap = subSnap]
    ELSE [c EXCEPT !.pc = "wait", !.f0 = IF JoinsRefresh(force) /\ ~SubJoinerBound THEN 0 ELSE @,
                   !.again = JoinsRefresh(force) /\ force /\ (subFlight # None => ~subFlight.force)]

\* A forced caller that joined an unforced refresh asks again.
Wakes(c) ==
    IF c = None THEN None
    ELSE IF c.pc # "wait" THEN c
    ELSE IF c.again THEN [c EXCEPT !.pc = "snap", !.again = FALSE]
    ELSE [c EXCEPT !.pc = "have", !.snap = subFlight.snap]

RefreshEnds ==
    /\ subFlight # None
    /\ subFlight.pc = "done" /\ subFlight' = None
    /\ subReq' = [r \in SubReqs |-> Wakes(subReq[r])]
    /\ subRender' = Wakes(subRender)
    /\ UNCHANGED <<worldVars, pubVars, subLink, subDeps, subRefine, subCache, subMemo, ghostVars, subUsed>>

-----------------------------------------------------------------------------
(* Requests.                                                               *)

Request(pc, kind) ==
    [pc |-> pc, kind |-> kind, snap |-> None, again |-> FALSE, ent |-> None, epoch |-> 0,
     v0 |-> subDone, f0 |-> subTold, out |-> None]

Idle(r) == subReq[r] = None \/ (subReq[r] # None => subReq[r].pc = "end")

At(r, pc) == subReq[r] # None /\ (subReq[r] # None => subReq[r].pc = pc)

Answer(q, entry, stale) ==
    [q EXCEPT !.pc = "end", !.out = [raw |-> entry.raw, rend |-> entry.rend, stale |-> stale],
              !.ent = None, !.snap = None, !.epoch = 0]

Deny(q) == [q EXCEPT !.pc = "end", !.out = None, !.ent = None, !.snap = None, !.epoch = 0]

\* A cached body is a hit at the stored snapshot's version, before it expires.
GetVersioned(entry, snap) ==
    /\ entry # None /\ snap # None
    /\ (entry # None /\ snap # None) => ~entry.exp /\ entry.raw = snap.raw

\* The link resolves (slug, token, enabled, unexpired, not archived).  A fresh hit answers;
\* a stale or expired body is revalidated; a miss is rendered.
handleSubscriptionShare(r) ==
    /\ Idle(r) /\ SpendSub(1)
    /\ settleVPNCoreChanges
    /\ LET q == [Request("render", "get") EXCEPT !.f0 = subTold']
           e == subCache'
           hit == GetVersioned(e, subSnap) IN
       subReq' = [subReq EXCEPT ![r] =
           IF e = None THEN q
           ELSE IF hit /\ ~e.stale THEN Answer(q, e, FALSE)
           ELSE [q EXCEPT !.pc = "snap", !.ent = [e EXCEPT !.exp = ~hit], !.epoch = subEpoch]]
    /\ UNCHANGED <<worldVars, pubVars, subDeps, subFlight, subRender, subMemo, subDone>>

\* The operator asks for a forced refresh.
AskRefresh(r) ==
    /\ Idle(r) /\ SpendSub(2)
    /\ subReq' = [subReq EXCEPT ![r] = Request("snap", "force")]
    /\ UNCHANGED <<worldVars, pubVars, subLink, memVars, ghostVars>>

RequestSnapshot(r) ==
    /\ At(r, "snap")
    /\ LET force == subReq[r].kind = "force" IN
       /\ snapshotForGeneration(force)
       /\ subReq' = [subReq EXCEPT ![r] = AfterSnapshotFor(@, force)]
    /\ UNCHANGED <<worldVars, pubVars, subDeps, subRender, subMemo, subDone, subUsed>>

\* The body, the epoch and the snapshot are still the ones revalidated.
MayExtend(q) ==
    /\ subSnap = q.snap /\ subEpoch = q.epoch
    /\ subCache # None /\ (subCache # None => subCache.rev = q.ent.rev)

\* A failed refresh answers nothing; an unchanged version extends the body; else it is
\* rendered, except that a stale hit whose source moved is answered as it was found.
extendSubscriptionCacheForSource(r) ==
    /\ At(r, "have") /\ (At(r, "have") => subReq[r].kind = "get")
    /\ LET q == subReq[r] IN
       \/ /\ q.snap = None
          /\ subCache' = InvalidateShare /\ subReq' = [subReq EXCEPT ![r] = Deny(q)]
       \/ /\ q.snap # None
          /\ q.snap # None => q.snap.raw = q.ent.raw /\ MayExtend(q)
          /\ subCache' = [subCache EXCEPT !.stale = q.snap.stale, !.exp = subVpn # subLink.gen]
          /\ subReq' = [subReq EXCEPT ![r] = Answer(q, q.ent, q.snap.stale)]
       \/ /\ q.snap # None
          /\ q.snap # None => (IF q.snap.raw = q.ent.raw THEN ~MayExtend(q) ELSE q.ent.exp)
          /\ subReq' = [subReq EXCEPT ![r] = [q EXCEPT !.pc = "render", !.ent = None, !.snap = None]]
          /\ UNCHANGED subCache
       \/ /\ q.snap # None
          /\ q.snap # None => q.snap.raw # q.ent.raw /\ ~q.ent.exp
          /\ subReq' = [subReq EXCEPT ![r] = Answer(q, q.ent, q.ent.stale)]
          /\ UNCHANGED subCache
    /\ UNCHANGED <<worldVars, pubVars, subLink, subDeps, subRefine, subFlight, subRender, subMemo,
                   ghostVars, subUsed>>

\* The operator's refresh: a forced snapshot, then the bodies are dropped.
refreshSubscriptionShare(r) ==
    /\ At(r, "have") /\ (At(r, "have") => subReq[r].kind = "force")
    /\ subCache' = IF subReq[r].snap = None THEN subCache ELSE InvalidateShare
    /\ subReq' = [subReq EXCEPT ![r] = Deny(@)]
    /\ UNCHANGED <<worldVars, pubVars, subLink, subDeps, subRefine, subFlight, subRender, subMemo,
                   ghostVars, subUsed>>

-----------------------------------------------------------------------------
(* The shared render of the key.                                           *)

NewRender == [pc |-> "snap", snap |-> None, f0 |-> subTold, again |-> FALSE, epoch |-> 0,
              try |-> 1, rend |-> 0]

\* One render of a key runs at a time; later requests wait for it.
renderShareShared(r) ==
    /\ At(r, "render")
    /\ IF subRender = None
       THEN /\ subRender' = NewRender
            /\ subReq' = [subReq EXCEPT ![r].pc = "rwait"]
       ELSE /\ subReq' = [subReq EXCEPT ![r].pc = "rwait",
                                        ![r].f0 = IF SubJoinerBound THEN @ ELSE 0]
            /\ UNCHANGED subRender
    /\ UNCHANGED <<worldVars, pubVars, subLink, subDeps, subRefine, subFlight, subCache, subMemo,
                   ghostVars, subUsed>>

RenderAt(pc) == subRender # None /\ (subRender # None => subRender.pc = pc)

RenderSnapshot ==
    /\ RenderAt("snap") /\ snapshotForGeneration(FALSE)
    /\ subRender' = AfterSnapshotFor(subRender, FALSE)
    /\ UNCHANGED <<worldVars, pubVars, subDeps, subMemo, subReq, subDone, subUsed>>

\* Every waiter gets the outcome: a body, or a refusal when entry is None.
Outcome(entry) ==
    /\ subRender' = None
    /\ subReq' = [r \in SubReqs |->
         IF ~At(r, "rwait") THEN subReq[r]
         ELSE IF entry = None THEN Deny(subReq[r])
         ELSE Answer([subReq[r] EXCEPT !.f0 = IF subRender.f0 = 0 THEN 0 ELSE @], entry, entry.stale)]

\* The snapshot must still be the stored one; the epoch is read with it.
subscriptionSnapshotEpoch ==
    /\ RenderAt("have")
    /\ IF subRender.snap = None \/ subSnap # subRender.snap
       THEN Outcome(None)
       ELSE /\ subRender' = [subRender EXCEPT !.pc = "call", !.epoch = subEpoch]
            /\ UNCHANGED subReq
    /\ UNCHANGED <<worldVars, pubVars, subLink, subDeps, subRefine, subFlight, subCache, subMemo,
                   ghostVars, subUsed>>

\* The plugin renders the snapshot with its records as they are.
renderShare ==
    /\ RenderAt("call")
    /\ subRender' = [subRender EXCEPT !.pc = "bind", !.rend = subRec.v]
    /\ UNCHANGED <<worldVars, pubVars, subLink, subDeps, subRefine, subFlight, subCache, subMemo,
                   subReq, ghostVars, subUsed>>

\* A policy is remembered only while the epoch the render read is current.
substoreBindRememberPolicy(f) ==
    subMemo' = IF subEpoch = f.epoch THEN [epoch |-> f.epoch, v |-> f.rend] ELSE subMemo

PutAccepted(f) == subEpoch = f.epoch

\* The policy is remembered, the body bound and published; one of a superseded epoch is rendered once more, then refused.
putSubscriptionCacheForSource ==
    /\ RenderAt("bind")
    /\ substoreBindRememberPolicy(subRender)
    /\ IF PutAccepted(subRender)
       THEN LET entry == [raw |-> subRender.snap.raw, rend |-> subRender.rend, stale |-> subRender.snap.stale,
                          exp |-> subVpn # subLink.gen, rev |-> <<subUsed.ops, subUsed.fetches, subEpoch>>] IN
            subCache' = entry /\ Outcome(entry)
       ELSE /\ UNCHANGED subCache
            /\ IF subRender.try = 1
               THEN subRender' = [subRender EXCEPT !.pc = "snap", !.try = 2, !.snap = None]
                    /\ UNCHANGED subReq
               ELSE Outcome(None)
    /\ UNCHANGED <<worldVars, pubVars, subLink, subDeps, subRefine, subFlight, ghostVars, subUsed>>

-----------------------------------------------------------------------------
(* Time and restarts.                                                      *)

\* Half a minute passes: the pacing interval and the stale retry are over.
HalfMinute ==
    /\ SpendSub(1)
    /\ subLink' = [subLink EXCEPT !.recent = FALSE]
    /\ subSnap' = IF subSnap = None THEN None ELSE [subSnap EXCEPT !.tried = FALSE]
    /\ UNCHANGED <<worldVars, subGen, subEpoch, subVpn, memVars, subReq, ghostVars>>

\* Half an hour passes: the snapshot is old and the cached body expired as well.
HalfHour ==
    /\ SpendSub(2)
    /\ subLink' = [subLink EXCEPT !.recent = FALSE]
    /\ subSnap' = IF subSnap = None THEN None ELSE [subSnap EXCEPT !.tried = FALSE, !.old = TRUE]
    /\ subCache' = ExpireShare(subCache)
    /\ UNCHANGED <<worldVars, subGen, subEpoch, subVpn, subDeps, subRefine, subFlight, subRender, subMemo,
                   subReq, ghostVars>>

\* Snapshots survive a restart, everything else is in memory.
Restarts ==
    /\ SpendSub(4)
    /\ subGate' = None /\ subGen' = 0 /\ subEpoch' = 0 /\ subVpn' = 0 /\ subNote' = FALSE
    /\ subLink' = [gen |-> 0, held |-> FALSE, recent |-> FALSE]
    /\ subDeps' = [dep |-> FALSE, ind |-> None] /\ subRefine' = {}
    /\ subFlight' = None /\ subRender' = None /\ subCache' = None /\ subMemo' = None
    /\ subReq' = [r \in SubReqs |-> None] /\ subTold' = 0
    /\ UNCHANGED <<subRec, subFleet, subSnap, subDone>>

SubNext ==
    \/ VPNCoreWrite \/ noteVPNCoreChangeForLinks
    \/ \E q \in subRefine : \/ RefineReadsEpoch(q) \/ RefineFails(q)
                            \/ refineFleetDependentShares(q)
    \/ GatewayWrite \/ GatewayWriteRuns \/ subStorePlanApply \/ PlanInvalidates
    \/ RefreshCaptures \/ fetchSubscriptionSource \/ refreshSubscriptionSnapshot \/ RefreshEnds
    \/ \E r \in SubReqs : \/ handleSubscriptionShare(r) \/ AskRefresh(r)
                          \/ RequestSnapshot(r) \/ renderShareShared(r)
                          \/ extendSubscriptionCacheForSource(r) \/ refreshSubscriptionShare(r)
    \/ RenderSnapshot \/ subscriptionSnapshotEpoch \/ renderShare
    \/ putSubscriptionCacheForSource
    \/ HalfMinute \/ HalfHour \/ Restarts

SubSpec == SubInit /\ [][SubNext]_subVars

-----------------------------------------------------------------------------
\* The stored snapshot, the gate and the generations have their shapes.
SubTypeOK ==
    /\ subGate \in {None, "marked", "applied"}
    /\ subVpn <= subLink.gen
    /\ subSnap # None => subSnap.raw.v <= subRec.v

\* A request that began after a plugin write returned is answered with a body rendered by
\* the written record, and, unless it is marked stale, from content fetched after the
\* write; a request that began after a vpn-core change advanced the generation, and shares
\* no earlier refresh or render, is not answered with the fleet before it.
AnswersCurrent ==
    \A r \in SubReqs : At(r, "end") =>
        LET q == subReq[r] IN
        q.out # None =>
            /\ q.out.rend >= q.v0
            /\ q.out.stale \/ q.out.raw.v >= q.v0
            /\ q.out.stale \/ ~q.out.raw.dep \/ q.out.raw.f >= q.f0

\* The remembered policy, while its epoch is current and no write runs, is the record's.
PolicyCurrent ==
    (subMemo # None /\ subGate = None /\ subRec.v = subDone)
        => (subMemo # None => (subMemo.epoch = subEpoch => subMemo.v = subRec.v))

\* A snapshot not marked stale was fetched after the last finished write.
SnapshotCurrent == (subGate = None /\ subSnap # None) => (subSnap # None => subSnap.stale \/ subSnap.raw.v >= subDone)

\* A share is answered from the current record, policy and snapshot, whatever refreshes,
\* writes and restarts overlap (server_subscription_share.go).
ServeSound == SubTypeOK /\ AnswersCurrent /\ PolicyCurrent /\ SnapshotCurrent
=============================================================================
