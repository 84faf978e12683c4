------------------------------ MODULE SubPlans ------------------------------
(***************************************************************************)
(* Sub-Store plans and shares.  The sub-store plugin keeps a live and a    *)
(* staged revision of every record; a share is a link that serves one      *)
(* record, to one identity when it names one.  A change that can reach an  *)
(* identity's link goes through a plan: it is proposed with what every     *)
(* share will receive, waits as an approval, and is compared with the      *)
(* world again before it is applied record by record.  A change nobody's   *)
(* identity sees is published at once.  Both hold the share-write lock,    *)
(* which every share write takes; the plugin's own staging does not.       *)
(*                                                                         *)
(* Two records: the base "b" (a fleet selection, a legacy fleet export or  *)
(* a plain source) and the collection "c", which gathers b or stands alone *)
(***************************************************************************)
EXTENDS Common, Integers, Sequences, FiniteSets

CONSTANTS
  SplProcs,    \* concurrent requests
  SplShares,   \* share ids
  SplIdents,   \* VPN identities
  SplFirst,    \* what the base may be to begin with
  MaxSplRev,   \* bound on staged revisions
  MaxSplPlans, \* bound on proposed plans
  MaxSplOps    \* bound on requests and on what the world does

VARIABLES
  splDoc,   \* record -> its live and staged documents, as the plugin keeps them
  splRevs,  \* revisions handed out so far
  splShare, \* share id -> row, or None
  splSnap,  \* record -> stored snapshot, or None
  splCat,   \* what the fleet catalogue gives the identities
  splVer,   \* the installed build of the plugin
  splPlan,  \* approvals, oldest first
  splLock,  \* who holds the share-write lock
  splPc,    \* request -> where it is, or None
  splOps

splVars == <<splDoc, splRevs, splShare, splSnap, splCat, splVer, splPlan, splLock, splPc, splOps>>

Records == {"b", "c"}
Sources(r) == IF r = "b" THEN {"fleet", "legacy", "plain"} ELSE {"gathers", "alone"}
Doc(r) == [n : 1..MaxSplRev, src : Sources(r)]
SplChanges == SplIdents \cup {None, "archive"}
PartialOn(S, T) == UNION {[D -> T] : D \in SUBSET S}

(***************************************************************************)
(* The dependency graph depends_on answers with, staged documents counted  *)
(***************************************************************************)
Rev(d) == IF d = None THEN 0 ELSE d.n
Live(G, r) == G[r].live
Staged(G, r) == G[r].staged
Gathers(d) == d # None /\ (d # None => d.src = "gathers")
IsSrc(d, s) == d # None /\ (d # None => d.src = s)

EdgeTo(G) == Gathers(Live(G, "c")) \/ Gathers(Staged(G, "c"))
readers(G, roots) == roots \cup (IF "b" \in roots /\ EdgeTo(G) THEN {"c"} ELSE {})
gathered(G, r) == IF r = "c" /\ EdgeTo(G) THEN {"b"} ELSE {}

FleetBound(G, r) ==
  IF r = "b" THEN IsSrc(Live(G, "b"), "fleet")
             ELSE Gathers(Live(G, "c")) /\ IsSrc(Live(G, "b"), "fleet")
FleetBoundStaged(G, r) ==
  LET base == IsSrc(Live(G, "b"), "fleet") \/ IsSrc(Staged(G, "b"), "fleet")
  IN IF r = "b" THEN base ELSE EdgeTo(G) /\ base

\* The record publishes every user's credentials: it reads the fleet export.
subStoreFleetFeed(r) ==
  IF r = "b" THEN IsSrc(Live(splDoc, "b"), "legacy")
             ELSE Gathers(Live(splDoc, "c")) /\ IsSrc(Live(splDoc, "b"), "legacy")

(***************************************************************************)
(* Share writes: each holds the share-write lock throughout                *)
(***************************************************************************)
LiveShares(r) ==
  {s \in SplShares : splShare[s] # None /\ (splShare[s] # None => splShare[s].rec = r /\ ~splShare[s].arch)}
subStorePlanSharesOf(R) == UNION {LiveShares(r) : r \in R}
IdentOf(s) == splShare[s].ident
subStorePlanRequired(S) == \E s \in S : IdentOf(s) # None \/ splShare[s].fleet

Spend(n) == splOps + n <= MaxSplOps /\ splOps' = splOps + n
LockFree == splLock = None
ShareWrite(s, row) ==
  /\ LockFree
  /\ Spend(1)
  /\ splShare' = [splShare EXCEPT ![s] = row]
  /\ UNCHANGED <<splDoc, splRevs, splSnap, splCat, splVer, splPlan, splLock, splPc>>

RefuseArchived(s) == splShare[s] # None /\ (splShare[s] # None => ~splShare[s].arch)

subStoreIdentityRecordRefusal(r) == ~FleetBound(splDoc, r)

ShareCreate(s, r, i, flag) ==
  /\ splShare[s] = None
  /\ i # None => ~subStoreIdentityRecordRefusal(r)
  /\ subStoreFleetFeed(r) => flag
  /\ ShareWrite(s, [rec |-> r, ident |-> i, arch |-> FALSE, on |-> TRUE, tok |-> 0,
                    fleet |-> subStoreFleetFeed(r)])

ShareSetEnabled(s) ==
  RefuseArchived(s) /\ ShareWrite(s, [splShare[s] EXCEPT !.on = ~@])

ShareRotate(s) ==
  RefuseArchived(s) /\ splShare[s].tok = 0 /\ ShareWrite(s, [splShare[s] EXCEPT !.tok = 1])

ShareArchive(s) ==
  RefuseArchived(s) /\ ShareWrite(s, [splShare[s] EXCEPT !.arch = TRUE])

ShareRestore(s) ==
  /\ splShare[s] # None
  /\ splShare[s].arch
  /\ ShareWrite(s, [splShare[s] EXCEPT !.arch = FALSE])

SharePurge(s) ==
  /\ splShare[s] # None
  /\ splShare[s].arch
  /\ ShareWrite(s, None)

\* The operator's API deletes a share without archiving it first.
ShareDelete(s) == RefuseArchived(s) /\ ShareWrite(s, None)

\* A plan's change to one share: a missing or archived share is skipped, and
\* an identity never replaces another.
ApplyPlanChange(row, ch) ==
  CASE row = None -> row
    [] row # None /\ row.arch -> row
    [] ch = "archive" -> [row EXCEPT !.arch = TRUE]
    [] ch # None /\ row.ident # None -> row
    [] OTHER -> [row EXCEPT !.ident = ch]

WriteChanges(sh, changes, R) ==
  [s \in SplShares |->
     IF s \in DOMAIN changes /\ sh[s] # None /\ (sh[s] # None => sh[s].rec \in R)
     THEN ApplyPlanChange(sh[s], changes[s]) ELSE sh[s]]

(***************************************************************************)
(* What the plugin and the fleet do meanwhile                              *)
(***************************************************************************)
\* The plugin stages a new revision of a record without core's lock.
StageRevision(r) ==
  /\ splRevs < MaxSplRev
  /\ Spend(1)
  /\ \E src \in Sources(r) :
       splDoc' = [splDoc EXCEPT ![r].staged = [n |-> splRevs + 1, src |-> src]]
  /\ splRevs' = splRevs + 1
  /\ UNCHANGED <<splShare, splSnap, splCat, splVer, splPlan, splLock, splPc>>

CatalogueMoves ==
  /\ splCat = 0
  /\ Spend(1)
  /\ splCat' = 1
  /\ UNCHANGED <<splDoc, splRevs, splShare, splSnap, splVer, splPlan, splLock, splPc>>

PluginUpdated ==
  /\ splVer = 0
  /\ Spend(1)
  /\ splVer' = 1
  /\ UNCHANGED <<splDoc, splRevs, splShare, splSnap, splCat, splPlan, splLock, splPc>>

ContentOf(r) ==
  <<Rev(Live(splDoc, r)), IF r = "c" /\ Gathers(Live(splDoc, "c")) THEN Rev(Live(splDoc, "b")) ELSE 0>>
SplSnapshot(r) == [of |-> ContentOf(r), stale |-> FALSE]

\* A poll refreshes the record's snapshot.
SnapshotTaken(r) ==
  /\ Live(splDoc, r) # None
  /\ splSnap[r] # SplSnapshot(r)
  /\ splSnap' = [splSnap EXCEPT ![r] = SplSnapshot(r)]
  /\ UNCHANGED <<splDoc, splRevs, splShare, splCat, splVer, splPlan, splLock, splPc, splOps>>

DropSnapshots(sn, R) == [r \in Records |-> IF r \in R THEN None ELSE sn[r]]
MarkSubscriptionSnapshotsStale(sn, R) ==
  [r \in Records |-> IF r \in R /\ sn[r] # None THEN [sn[r] EXCEPT !.stale = TRUE] ELSE sn[r]]

(***************************************************************************)
(* A plan request                                                          *)
(***************************************************************************)
\* The mode follows from what the request names.
PlanSpecs ==
  LET changes == PartialOn(SplShares, SplChanges)
      noChange == PartialOn({}, SplChanges)
      Assigns(ch) == \E s \in DOMAIN ch : ch[s] \in SplIdents
  IN UNION {
       {[mode |-> "delete", prim |-> r, recs |-> {r}, changes |-> ch] : ch \in noChange, r \in Records},
       {[mode |-> IF Assigns(ch) THEN "assign" ELSE "clear", prim |-> r, recs |-> {}, changes |-> ch] :
          ch \in changes \ noChange, r \in Records},
       {[mode |-> "promote", prim |-> r, recs |-> {r} \cup extra, changes |-> ch] :
          ch \in changes, r \in Records, extra \in SUBSET Records}}

Roots(spec) == IF spec.mode = "assign" THEN {spec.prim} ELSE spec.recs
GraphIds(spec, G) == readers(G, Roots(spec))

\* Every member a collection in reach gathers moves in the same plan, or is
\* already of the kind the collection will gather.
MissingMigrations(spec, G) ==
  {m \in Records \ spec.recs :
     \E c \in GraphIds(spec, G) \cup spec.recs :
       /\ m \in gathered(G, c)
       /\ \/ /\ c \in spec.recs \/ FleetBound(G, c)
             /\ IsSrc(Live(G, m), "legacy")
          \/ c \in spec.recs /\ Live(G, m) = None}

\* A collection that names the record as a member forbids deleting it.
ExplicitDependents(spec, G) == {c \in Records \ {spec.prim} : spec.prim \in gathered(G, c)}

ProposeRefusal(spec, G) ==
  CASE spec.mode = "assign" -> Live(G, spec.prim) = None
    [] spec.mode = "delete" -> Live(G, spec.prim) = None \/ ExplicitDependents(spec, G) # {}
    [] spec.mode = "clear" -> FALSE
    [] OTHER -> \/ \E r \in spec.recs : Staged(G, r) = None
                \/ MissingMigrations(spec, G) # {}

\* The records of a plan and the part each plays.
PlanSections(spec, G) ==
  [r \in IF spec.mode \in {"assign", "clear"} THEN {spec.prim} ELSE GraphIds(spec, G) |->
     CASE spec.mode \in {"assign", "clear"} -> "self"
       [] spec.mode = "delete" /\ r = spec.prim -> "delete"
       [] spec.mode = "promote" /\ r \in spec.recs -> "promote"
       [] Live(G, r) = None -> "staged_only"
       [] OTHER -> "dependent"]
Previewed(sections) == {r \in DOMAIN sections : sections[r] # "staged_only"}

\* A member is applied before the collection that gathers it.
subStorePlanApplyOrder(recs, G) ==
  IF recs = Records THEN <<"b", "c">>
  ELSE IF recs = {} THEN <<>> ELSE <<CHOOSE r \in recs : TRUE>>

ChangeRefusal(spec, G, sections) ==
  \E s \in DOMAIN spec.changes :
    LET ch == spec.changes[s] IN
    \/ s \notin subStorePlanSharesOf(Previewed(sections))
    \/ /\ s \in subStorePlanSharesOf(Previewed(sections))
       /\ ch # "archive"
       /\ \/ ch = IdentOf(s)
          \/ ch # None /\ IdentOf(s) # None
          \/ /\ ch # None
             /\ ~FleetBound(G, splShare[s].rec)
             /\ spec.mode = "promote" => ~FleetBoundStaged(G, splShare[s].rec)

\* The identity every live share of a section names now.
ShareMaps(R) == [r \in R |-> [s \in LiveShares(r) |-> IdentOf(s)]]

\* What the previews say the identities receive.
PlanPreviews == splCat

BuildPlan(spec, G, sections) ==
  [mode |-> spec.mode, prim |-> spec.prim, status |-> "pending", why |-> None,
   roles |-> sections,
   from |-> [r \in DOMAIN sections |-> Rev(Live(G, r))],
   to |-> [r \in DOMAIN sections |-> IF sections[r] = "promote" THEN Rev(Staged(G, r)) ELSE 0],
   order |-> subStorePlanApplyOrder(spec.recs, G),
   closure |-> DOMAIN sections,
   maps |-> ShareMaps(Previewed(sections)),
   changes |-> IF spec.mode = "delete" THEN [s \in LiveShares(spec.prim) |-> "archive"] ELSE spec.changes,
   cat |-> PlanPreviews, ver |-> splVer]

SplGoto(p, c) == splPc' = [splPc EXCEPT ![p] = c]

\* propose: the graph is read first, the shares and the previews after it.
ProposeReads(p, spec) ==
  /\ splPc[p] = None
  /\ Len(splPlan) < MaxSplPlans
  /\ ~ProposeRefusal(spec, splDoc)
  /\ Spend(1)
  /\ SplGoto(p, [op |-> "propose", spec |-> spec, g |-> splDoc])
  /\ UNCHANGED <<splDoc, splRevs, splShare, splSnap, splCat, splVer, splPlan, splLock>>

NeedsPlan(spec, sections) ==
  DOMAIN spec.changes # {} \/ subStorePlanRequired(subStorePlanSharesOf(Previewed(sections)))

\* A preview names the live revision it starts from and fails on another.
SectionsLive(roles, from) ==
  \A r \in DOMAIN roles : roles[r] \in {"staged_only"} \/ Rev(Live(splDoc, r)) = from[r]

ProposeSubmits(p) ==
  /\ splPc[p] # None
  /\ splPc[p].op = "propose"
  /\ LET spec == splPc[p].spec
         G == splPc[p].g
         sections == PlanSections(spec, G)
         plan == BuildPlan(spec, G, sections)
         ok == /\ Len(splPlan) < MaxSplPlans
               /\ ~ChangeRefusal(spec, G, sections)
               /\ NeedsPlan(spec, sections)
               /\ spec.mode = "clear" \/ SectionsLive(plan.roles, plan.from)
     IN splPlan' = IF ok THEN Append(splPlan, plan) ELSE splPlan
  /\ SplGoto(p, None)
  /\ UNCHANGED <<splDoc, splRevs, splShare, splSnap, splCat, splVer, splLock, splOps>>

(***************************************************************************)
(* Deciding a plan                                                         *)
(***************************************************************************)
SplAt(p, op, at) == splPc[p] # None /\ (splPc[p] # None => splPc[p].op = op /\ splPc[p].at = at)
PlanOf(p) == splPlan[splPc[p].plan]

\* The previews run before the lock is taken.
SplApproveReads(p, k) ==
  /\ splPc[p] = None
  /\ splPlan[k].status = "pending"
  /\ Spend(1)
  /\ LET plan == splPlan[k] IN
     SplGoto(p, [op |-> "approve", at |-> "previewed", plan |-> k, cat |-> splCat,
              moved |-> plan.mode # "clear" /\ ~SectionsLive(plan.roles, plan.from), g |-> None])
  /\ UNCHANGED <<splDoc, splRevs, splShare, splSnap, splCat, splVer, splPlan, splLock>>

\* A preview, or depends_on, that does not answer leaves the plan pending.
ApproveGivesUp(p) ==
  /\ SplAt(p, "approve", "previewed")
  /\ PlanOf(p).mode # "clear"
  /\ SplGoto(p, None)
  /\ UNCHANGED <<splDoc, splRevs, splShare, splSnap, splCat, splVer, splPlan, splLock, splOps>>

ApproveLocks(p) ==
  /\ SplAt(p, "approve", "previewed")
  /\ LockFree
  /\ splLock' = p
  /\ splPc' = [splPc EXCEPT ![p].at = "decide", ![p].g = splDoc]
  /\ UNCHANGED <<splDoc, splRevs, splShare, splSnap, splCat, splVer, splPlan, splOps>>

ChainHolds(plan, r) ==
  /\ plan.roles[r] # "staged_only" => Rev(Live(splDoc, r)) = plan.from[r]
  /\ plan.roles[r] = "promote" => Rev(Staged(splDoc, r)) = plan.to[r]

\* Mutant: the shares a plan was reviewed with are not compared again.
SharesMovedUnread(plan) == FALSE

SharesMoved(plan) == ShareMaps(DOMAIN plan.maps) # plan.maps

ClosureMoved(plan, G) ==
  /\ plan.mode \in {"promote", "delete"}
  /\ readers(G, {plan.order[i] : i \in DOMAIN plan.order}) # plan.closure

SectionMoved(plan, G, r) ==
  CASE plan.roles[r] = "staged_only" -> Live(G, r) # None
    [] plan.roles[r] = "promote" ->
         Rev(Staged(G, r)) # plan.to[r] \/ Rev(Live(G, r)) # plan.from[r]
    [] OTHER -> Rev(Live(G, r)) # plan.from[r]

StaleReason(plan, c) ==
  \/ c.moved
  \/ SharesMoved(plan)
  \/ /\ plan.mode # "clear"
     /\ \/ plan.ver # splVer
        \/ ClosureMoved(plan, c.g)
        \/ \E r \in DOMAIN plan.roles : SectionMoved(plan, c.g, r) \/ ~ChainHolds(plan, r)
        \/ c.cat # plan.cat

EndHolding(p) == splLock' = None /\ SplGoto(p, None)

\* A plan that moved is rejected; the plan it was reviewed as is approved.
PlanDecide(p) ==
  /\ SplAt(p, "approve", "decide")
  /\ LET k == splPc[p].plan
         plan == splPlan[k]
     IN CASE plan.status # "pending" -> EndHolding(p) /\ UNCHANGED splPlan
          [] plan.status = "pending" /\ StaleReason(plan, splPc[p]) ->
               /\ splPlan' = [splPlan EXCEPT ![k].status = "rejected", ![k].why = "stale"]
               /\ EndHolding(p)
          [] OTHER ->
               /\ splPlan' = [splPlan EXCEPT ![k].status = "approved"]
               /\ splPc' = [splPc EXCEPT ![p] =
                              [op |-> "approve", at |-> "apply", plan |-> k, i |-> 1, g |-> splPc[p].g]]
               /\ UNCHANGED splLock
  /\ UNCHANGED <<splDoc, splRevs, splShare, splSnap, splCat, splVer, splOps>>

\* The operator rejects a pending plan.
RejectPlan(k) ==
  /\ splPlan[k].status = "pending"
  /\ Spend(1)
  /\ splPlan' = [splPlan EXCEPT ![k].status = "rejected"]
  /\ UNCHANGED <<splDoc, splRevs, splShare, splSnap, splCat, splVer, splLock, splPc>>

(***************************************************************************)
(* apply_revision: the plugin claims the one-shot grant, compares the      *)
(* revisions core names with its own and promotes.  The answer may be lost *)
(***************************************************************************)
Promotes(r, from, to) ==
  /\ Rev(Live(splDoc, r)) = from
  /\ to # 0 => Rev(Staged(splDoc, r)) = to
Promoted(r, to) ==
  [splDoc EXCEPT ![r] = [live |-> IF to = 0 THEN None ELSE @.staged, staged |-> None]]

ApplyAnswers == {"ok", "error", "lost"}
CallApplyRevision(r, from, to, answer) ==
  splDoc' = IF answer # "error" /\ Promotes(r, from, to) THEN Promoted(r, to) ELSE splDoc
ApplySucceeds(r, from, to, answer) == answer = "ok" /\ Promotes(r, from, to)

Records2(q) == {q[i] : i \in DOMAIN q}

\* What a failed apply does to the snapshots of everything that reads the record.
FailedSnapshots(sn, closure) == MarkSubscriptionSnapshotsStale(sn, closure)

AppliedSnapshots(sn, r, last, closure) == DropSnapshots(sn, IF last THEN {r} \cup closure ELSE {r})

\* One record of an approved plan.
PlanApplyRecord(p, answer) ==
  /\ SplAt(p, "approve", "apply")
  /\ splPc[p].i <= Len(PlanOf(p).order)
  /\ LET c == splPc[p]
         plan == PlanOf(p)
         r == plan.order[c.i]
         closure == readers(c.g, Records2(plan.order))
         last == c.i = Len(plan.order)
         ok == ApplySucceeds(r, plan.from[r], plan.to[r], answer)
         written == {r} \cup (IF last THEN closure \ Records2(plan.order) ELSE {})
     IN /\ CallApplyRevision(r, plan.from[r], plan.to[r], answer)
        /\ splSnap' = IF ok THEN AppliedSnapshots(splSnap, r, last, closure)
                            ELSE FailedSnapshots(splSnap, closure)
        /\ splShare' = IF ok THEN WriteChanges(splShare, plan.changes, written) ELSE splShare
        /\ IF ok
           THEN SplGoto(p, [c EXCEPT !.i = @ + 1]) /\ UNCHANGED <<splLock, splPlan>>
           ELSE /\ splLock' = None
                /\ splPlan' = [splPlan EXCEPT ![c.plan].why = r]
                /\ SplGoto(p, [op |-> "refresh", at |-> "refresh", rec |-> r])
  /\ answer # "ok" => splOps < MaxSplOps
  /\ splOps' = IF answer # "ok" THEN splOps + 1 ELSE splOps
  /\ UNCHANGED <<splRevs, splCat, splVer>>

\* The last record applied, or a plan that applies none: its shares are written.
PlanApplied(p) ==
  /\ SplAt(p, "approve", "apply")
  /\ splPc[p].i > Len(PlanOf(p).order)
  /\ LET k == splPc[p].plan
         plan == splPlan[k]
     IN /\ splShare' = IF plan.order = <<>> THEN WriteChanges(splShare, plan.changes, DOMAIN plan.roles)
                                            ELSE splShare
        /\ splPlan' = [splPlan EXCEPT ![k].status = "applied", ![k].why = None]
  /\ EndHolding(p)
  /\ UNCHANGED <<splDoc, splRevs, splSnap, splCat, splVer, splOps>>

\* After a failed apply the record is read again, with the lock released.
RefreshAfterFailure(p) ==
  /\ SplAt(p, "refresh", "refresh")
  /\ LET r == splPc[p].rec IN
     splSnap' = IF Live(splDoc, r) # None THEN [splSnap EXCEPT ![r] = SplSnapshot(r)] ELSE splSnap
  /\ SplGoto(p, None)
  /\ UNCHANGED <<splDoc, splRevs, splShare, splCat, splVer, splPlan, splLock, splOps>>

(***************************************************************************)
(* Publishing without a plan                                               *)
(***************************************************************************)
StagedMigrated(G, r) == IsSrc(Live(G, r), "legacy") /\ IsSrc(Staged(G, r), "fleet")

PublishRefusal(spec, G, sections) ==
  LET all == subStorePlanSharesOf(Previewed(sections)) IN
  \/ spec.mode = "promote" /\ StagedMigrated(G, spec.prim) /\ all # {}
  \/ /\ spec.mode = "promote"
     /\ \E s \in all : /\ IdentOf(s) = None
                       /\ ~FleetBound(G, splShare[s].rec)
                       /\ FleetBoundStaged(G, splShare[s].rec)
  \/ subStorePlanRequired(all)

PublishSpec(mode, r) == [mode |-> mode, prim |-> r, recs |-> {r}, changes |-> <<>>]

PublishLocks(p, mode, r) ==
  /\ splPc[p] = None
  /\ LockFree
  /\ Spend(1)
  /\ LET spec == PublishSpec(mode, r) IN
     /\ ~ProposeRefusal(spec, splDoc)
     /\ ~PublishRefusal(spec, splDoc, PlanSections(spec, splDoc))
  /\ splLock' = p
  /\ SplGoto(p, [op |-> "publish", at |-> "apply", rec |-> r, from |-> Rev(Live(splDoc, r)),
              to |-> IF mode = "promote" THEN Rev(Staged(splDoc, r)) ELSE 0,
              closure |-> readers(splDoc, {r}), own |-> LiveShares(r)])
  /\ UNCHANGED <<splDoc, splRevs, splShare, splSnap, splCat, splVer, splPlan>>

PublishApplies(p, answer) ==
  /\ SplAt(p, "publish", "apply")
  /\ LET c == splPc[p]
         ok == ApplySucceeds(c.rec, c.from, c.to, answer)
         gone == IF c.to = 0 THEN [s \in c.own |-> "archive"] ELSE <<>>
     IN /\ CallApplyRevision(c.rec, c.from, c.to, answer)
        /\ splSnap' = IF ok THEN DropSnapshots(splSnap, c.closure) ELSE FailedSnapshots(splSnap, c.closure)
        /\ splShare' = IF ok THEN WriteChanges(splShare, gone, {c.rec}) ELSE splShare
        /\ splLock' = None
        /\ SplGoto(p, IF ok THEN None ELSE [op |-> "refresh", at |-> "refresh", rec |-> c.rec])
  /\ answer # "ok" => splOps < MaxSplOps
  /\ splOps' = IF answer # "ok" THEN splOps + 1 ELSE splOps
  /\ UNCHANGED <<splRevs, splCat, splVer, splPlan>>

(***************************************************************************)
(* Specification                                                           *)
(***************************************************************************)
SplInit ==
  /\ \E src \in SplFirst :
       splDoc = [r \in Records |->
                   [live |-> IF r = "b" THEN [n |-> 1, src |-> src] ELSE [n |-> 2, src |-> "gathers"],
                    staged |-> None]]
  /\ splRevs = 2
  /\ splShare = [s \in SplShares |-> None]
  /\ splSnap = [r \in Records |-> None]
  /\ splCat = 0
  /\ splVer = 0
  /\ splPlan = <<>>
  /\ splLock = None
  /\ splPc = [p \in SplProcs |-> None]
  /\ splOps = 0

ShareRequests ==
  \E s \in SplShares :
    \/ \E r \in Records, i \in Maybe(SplIdents), flag \in BOOLEAN : ShareCreate(s, r, i, flag)
    \/ ShareSetEnabled(s)
    \/ ShareRotate(s)
    \/ ShareArchive(s)
    \/ ShareRestore(s)
    \/ SharePurge(s)
    \/ ShareDelete(s)

PlanRequests ==
  \E p \in SplProcs :
    \/ \E spec \in PlanSpecs : ProposeReads(p, spec)
    \/ ProposeSubmits(p)
    \/ \E k \in DOMAIN splPlan : SplApproveReads(p, k)
    \/ ApproveGivesUp(p)
    \/ ApproveLocks(p)
    \/ PlanDecide(p)
    \/ \E answer \in ApplyAnswers : PlanApplyRecord(p, answer)
    \/ PlanApplied(p)
    \/ RefreshAfterFailure(p)
    \/ \E mode \in {"promote", "delete"}, r \in Records : PublishLocks(p, mode, r)
    \/ \E answer \in ApplyAnswers : PublishApplies(p, answer)

SplNext ==
  \/ ShareRequests
  \/ PlanRequests
  \/ \E r \in Records : StageRevision(r) \/ SnapshotTaken(r)
  \/ \E k \in DOMAIN splPlan : RejectPlan(k)
  \/ CatalogueMoves
  \/ PluginUpdated

SplSpec == SplInit /\ [][SplNext]_splVars

(***************************************************************************)
(* Properties                                                              *)
(***************************************************************************)
ShareRow == [rec : Records, ident : Maybe(SplIdents), arch : BOOLEAN, on : BOOLEAN, tok : 0..1, fleet : BOOLEAN]

\* The types of the plugin's documents, the shares, the snapshots and the
\* plans of subStorePlan and model.SubscriptionShare.
SplTypeOK ==
  /\ \A r \in Records : splDoc[r].live \in Maybe(Doc(r)) /\ splDoc[r].staged \in Maybe(Doc(r))
  /\ splShare \in [SplShares -> Maybe(ShareRow)]
  /\ \A r \in Records : splSnap[r] # None => splSnap[r].stale \in BOOLEAN
  /\ \A k \in DOMAIN splPlan : splPlan[k].status \in {"pending", "approved", "rejected", "applied"}
  /\ splLock \in Maybe(SplProcs)

\* While an approved plan is being applied, the live shares of every record
\* it has not reached yet are the ones it was reviewed with.
AppliesWhatWasReviewed ==
  \A p \in SplProcs :
    SplAt(p, "approve", "apply") =>
      LET plan == PlanOf(p)
          done == {plan.order[j] : j \in 1..(splPc[p].i - 1)}
          left == IF splPc[p].i > Len(plan.order) /\ plan.order # <<>> THEN {} ELSE DOMAIN plan.maps \ done
      IN /\ splLock = p
         /\ \A r \in left : [s \in LiveShares(r) |-> IdentOf(s)] = plan.maps[r]

\* Between applies, a stored snapshot that is not marked stale holds the
\* live revisions of its record and of what the record gathers.
FreshIsLive ==
  splLock = None =>
    \A r \in Records :
      splSnap[r] # None /\ (splSnap[r] # None => ~splSnap[r].stale) => splSnap[r].of = ContentOf(r)

\* The records whose shares a record reaches.
Reaches(r) == {r} \cup (IF r = "b" /\ Gathers(Live(splDoc, "c")) THEN {"c"} ELSE {})

\* A live document moves only under a plan that was approved, or by a
\* publish while no live share that can reach it names an identity; and a
\* publish never makes a record fleet-bound under a share with no identity.
MovesAreReviewed ==
  [][\A r \in Records :
       splDoc[r].live # splDoc'[r].live =>
         LET p == splLock
             seen == UNION {LiveShares(q) : q \in Reaches(r)}
         IN /\ p # None
            /\ \/ SplAt(p, "approve", "apply") /\ PlanOf(p).status = "approved"
               \/ /\ SplAt(p, "publish", "apply")
                  /\ \A s \in seen :
                       /\ IdentOf(s) = None
                       /\ ~FleetBound(splDoc, splShare[s].rec) => ~FleetBound(splDoc', splShare[s].rec)]_splVars

\* A share that serves an identity never starts serving another in one step.
NoIdentitySwap ==
  [][\A s \in SplShares :
       /\ splShare[s] # None
       /\ splShare'[s] # None
       => IF splShare[s].ident # None /\ splShare'[s].ident # None
          THEN splShare[s].ident = splShare'[s].ident ELSE TRUE]_splVars

\* A plan marked applied has promoted every record it names, members first,
\* and its share changes are on the rows that are still there.
AppliedIsWhole ==
  [][\A k \in DOMAIN splPlan :
       splPlan[k].status # "applied" /\ splPlan'[k].status = "applied" =>
         LET plan == splPlan[k] IN
         /\ \A r \in Records2(plan.order) : Rev(splDoc'[r].live) = plan.to[r]
         /\ \A s \in DOMAIN plan.changes :
              splShare'[s] # None =>
                IF plan.changes[s] = "archive" THEN splShare'[s].arch ELSE splShare'[s].ident = plan.changes[s]]_splVars

\* subStorePlanApprove and subStorePlansPublish: what is applied is what was
\* reviewed, whatever moves between the proposal, the decision and the apply.
PlansSound == SplTypeOK /\ AppliesWhatWasReviewed /\ FreshIsLive
=============================================================================
