------------------------------ MODULE ProxyCore ------------------------------
(***************************************************************************)
(* The managed proxy configuration of one node: inbounds, users, the       *)
(* node's profile, the rendered config, the plan an operator approves, the *)
(* script that installs it on the node, the result, the drift flag and the *)
(* share links.  A config is its content, so equal digests are equal       *)
(* values.  Handlers that read the profile row and write it back whole are *)
(* two steps, since the store locks single reads and writes only.          *)
(***************************************************************************)
EXTENDS Naturals, Sequences, FiniteSets, Common

CONSTANTS PxcInbounds,   \* inbound ids
          PxcUsers,      \* proxy user ids, each its own VLESS uuid
          PxcPorts,      \* ports an inbound may listen on
          PxcManaged,    \* users with a VPN identity migrated from them
          PxcManagers,   \* service managers a node may have: "systemd", "none"
          MaxPxcOps,     \* bound on operator edits
          MaxPxcPlans,   \* bound on plans
          MaxPxcKills    \* bound on killed scripts

VARIABLES pxcIn,      \* inbound rows
          pxcUser,    \* proxy user rows
          pxcId,      \* VPN identity of a managed user: the lines it is bound to
          pxcProf,    \* the node's profile row
          pxcAp,      \* approvals in the order they were planned
          pxcCall,    \* requests between their read and their write
          pxcNode,    \* the node: manager, target file, what runs, backup
          pxcJob,     \* the script running on the node
          pxcDrift,   \* the drift flag of the node, None when not evaluated
          pxcOps, pxcKills

pxcVars == <<pxcIn, pxcUser, pxcId, pxcProf, pxcAp, pxcCall, pxcNode, pxcJob, pxcDrift, pxcOps, pxcKills>>
PxcRows == <<pxcIn, pxcUser, pxcId>>
PxcNodeVars == <<pxcNode, pxcJob, pxcKills>>

PxcKinds == {"profile", "usage", "result", "approve"}
PxcStatus == {"active", "over_quota"}
ChangedError == "profile changed since last apply"

-----------------------------------------------------------------------------
(* Rendering *)

\* A user row the renderer may put in a config.
skipProxyUserReason(u) == IF ~u.on THEN "disabled" ELSE IF u.status = "active" THEN None ELSE u.status
userAppliesToInbound(u, i) == u.ins = {} \/ i \in u.ins

\* The lines of this node that the server manages: the inbounds its profile lists.
ManagedLines(prof) == IF prof = None THEN {} ELSE prof.ins

\* The stored rows an identity stands in for: those whose identity has an enabled binding on a managed line.
replacedProxyUser(prof) == {u \in PxcManaged : pxcId[u] # None /\ (pxcId[u] # None => pxcId[u].lines \cap ManagedLines(prof) # {})}

\* The rows a config is rendered from: stored users not replaced, and one row for each managed line an identity is
\* bound to.  The policy of an identity decides for the stored row it was migrated from as well.
proxyUsersForManagedRender(prof) ==
  {[id |-> <<u, None>>, uuid |-> u, ins |-> pxcUser[u].ins, on |-> pxcUser[u].on,
    status |-> IF pxcId[u] # None THEN pxcId[u].status ELSE pxcUser[u].status]
     : u \in {v \in PxcUsers : pxcUser[v] # None} \ replacedProxyUser(prof)}
  \cup
  UNION {{[id |-> <<u, l>>, uuid |-> u, ins |-> {l}, on |-> TRUE, status |-> pxcId[u].status]
     : l \in pxcId[u].lines \cap ManagedLines(prof)} : u \in {v \in PxcManaged : pxcId[v] # None}}

eligibleVLESSUsers(rows, i) == {r \in rows : userAppliesToInbound(r, i) /\ skipProxyUserReason(r) = None}

\* Two rows of one inbound may not share a uuid.
DistinctUuids(rows) == \A r, q \in rows : r.uuid = q.uuid => r = q

\* A listed inbound is missing or disabled, two listen on one port, or one has nobody to serve.
selectedInbounds(ins) == \A i \in ins : pxcIn[i] # None /\ (pxcIn[i] # None => pxcIn[i].on)
PortsDistinct(ins) == \A i, j \in ins : pxcIn[i].port = pxcIn[j].port => i = j
Renderable(ins, rows) ==
  /\ selectedInbounds(ins)
  /\ PortsDistinct(ins)
  /\ \A i \in ins : LET e == eligibleVLESSUsers(rows, i) IN e # {} /\ DistinctUuids(e)

RenderConfig(ins, rows) ==
  {[in |-> i, port |-> pxcIn[i].port, sid |-> pxcIn[i].sid, who |-> {r.uuid : r \in eligibleVLESSUsers(rows, i)}] : i \in ins}

\* The config the server renders now, None when it cannot.
renderFor(prof) ==
  IF prof = None THEN None
  ELSE LET rows == proxyUsersForManagedRender(prof)
       IN IF Renderable(prof.ins, rows) THEN RenderConfig(prof.ins, rows) ELSE None
renderProxyCoreArtifactForUsers == renderFor(pxcProf)

\* What a link says of an inbound.
vlessRealityEndpointFor(i) == [in |-> i, port |-> pxcIn[i].port, sid |-> pxcIn[i].sid]

\* The links handed out for a user: the inbounds of an applied profile whose last apply left no error.
VLESSRealityEndpoints(u) ==
  IF pxcUser[u] = None \/ pxcProf = None THEN {}
  ELSE IF skipProxyUserReason(pxcUser[u]) # None \/ pxcProf.applied = None \/ pxcProf.err # None THEN {}
  ELSE {vlessRealityEndpointFor(i) : i \in {k \in pxcProf.ins : pxcIn[k] # None /\ userAppliesToInbound(pxcUser[u], k)}}

\* An export is the links of every stored user.
vpnCoreExportNodes == [u \in PxcUsers |-> VLESSRealityEndpoints(u)]

-----------------------------------------------------------------------------
(* State *)

NoPxcCalls == [k \in PxcKinds |-> None]

PxcInit ==
  /\ pxcIn = [i \in PxcInbounds |-> None]
  /\ pxcUser = [u \in PxcUsers |-> None]
  /\ pxcId = [u \in PxcUsers |-> None]
  /\ pxcProf = None /\ pxcAp = <<>> /\ pxcCall = NoPxcCalls
  /\ \E m \in PxcManagers : pxcNode = [mgr |-> m, live |-> None, run |-> None, bak |-> None]
  /\ pxcJob = None /\ pxcDrift = None /\ pxcOps = 0 /\ pxcKills = 0

PxcEdit == pxcOps < MaxPxcOps /\ pxcOps' = pxcOps + 1
PxcRest == UNCHANGED <<pxcAp, pxcCall, pxcDrift>> /\ UNCHANGED PxcNodeVars

-----------------------------------------------------------------------------
(* Rows an operator edits *)

\* A new inbound is enabled whatever the request says and gets a short id; an edit that names no short id gets a
\* fresh one as well, while the keypair of an existing row stays (left out: it never changes).
normalizeProxyInbound(i, port, on, sid) ==
  [port |-> port, on |-> on \/ pxcIn[i] = None, sid |-> IF sid # None THEN sid ELSE pxcOps + 1]

handleProxyInbounds ==
  \E i \in PxcInbounds, port \in PxcPorts, on \in BOOLEAN :
    \E sid \in {None} \cup (IF pxcIn[i] = None THEN {} ELSE {pxcIn[i].sid}) :
      /\ PxcEdit
      /\ pxcIn' = [pxcIn EXCEPT ![i] = normalizeProxyInbound(i, port, on, sid)]
      /\ UNCHANGED <<pxcUser, pxcId, pxcProf>> /\ PxcRest

\* Refused while the profile lists it, unless forced.
handleDeleteProxyInbound ==
  \E i \in PxcInbounds, force \in BOOLEAN :
    /\ PxcEdit
    /\ pxcIn[i] # None
    /\ force \/ i \notin ManagedLines(pxcProf)
    /\ pxcIn' = [pxcIn EXCEPT ![i] = None]
    /\ UNCHANGED <<pxcUser, pxcId, pxcProf>> /\ PxcRest

\* The inbound ids a row may name are those that exist.
KnownInbounds == {i \in PxcInbounds : pxcIn[i] # None}

normalizeProxyUser(u, on, ins, status) == [on |-> on \/ pxcUser[u] = None, ins |-> ins, status |-> status]

handleProxyUsers ==
  \E u \in PxcUsers, on \in BOOLEAN, ins \in SUBSET KnownInbounds :
    /\ PxcEdit
    /\ pxcUser' = [pxcUser EXCEPT ![u] =
         normalizeProxyUser(u, on, ins, IF pxcUser[u] = None THEN "active" ELSE pxcUser[u].status)]
    /\ UNCHANGED <<pxcIn, pxcId, pxcProf>> /\ PxcRest

handleDeleteProxyUser ==
  \E u \in PxcUsers :
    /\ PxcEdit
    /\ pxcUser[u] # None
    /\ pxcUser' = [pxcUser EXCEPT ![u] = None]
    /\ UNCHANGED <<pxcIn, pxcId, pxcProf>> /\ PxcRest

\* The identity migrated from a user is bound to lines; quota and expiry are judged on it from then on.
vpnUserBinds ==
  \E u \in PxcManaged, ls \in SUBSET KnownInbounds :
    /\ PxcEdit
    /\ pxcUser[u] # None
    /\ pxcId' = [pxcId EXCEPT ![u] = [lines |-> ls, status |-> IF pxcId[u] = None THEN pxcUser[u].status ELSE pxcId[u].status]]
    /\ UNCHANGED <<pxcIn, pxcUser, pxcProf>> /\ PxcRest

\* Usage passes the quota.
UsagePassesQuota ==
  \E u \in PxcUsers :
    /\ PxcEdit
    /\ pxcUser[u] # None /\ (pxcUser[u] # None => pxcUser[u].status = "active")
    /\ pxcUser' = [pxcUser EXCEPT ![u].status = "over_quota"]
    /\ pxcId' = IF pxcId[u] = None THEN pxcId ELSE [pxcId EXCEPT ![u].status = "over_quota"]
    /\ UNCHANGED <<pxcIn, pxcProf>> /\ PxcRest

-----------------------------------------------------------------------------
(* The profile row: three handlers read it and write it back whole *)

PxcTakes(kind, c) == pxcCall[kind] = None /\ pxcCall' = [pxcCall EXCEPT ![kind] = c]
PxcEnds(kind) == pxcCall' = [pxcCall EXCEPT ![kind] = None]

\* handleProxyProfiles reads the row it edits.
ProfileReads ==
  /\ PxcEdit
  /\ PxcTakes("profile", [row |-> pxcProf])
  /\ UNCHANGED <<pxcProf, pxcAp, pxcDrift>> /\ UNCHANGED PxcRows /\ UNCHANGED PxcNodeVars

\* The row an edit stores: intent from the request, the applied digest from the row that was read.
normalizeProxyNodeProfile(old, ins) ==
  IF old = None THEN [ins |-> ins, applied |-> None, err |-> None]
  ELSE [ins |-> ins, applied |-> old.applied, err |-> IF old.ins # ins THEN ChangedError ELSE old.err]

\* It may name only inbounds that exist and are enabled.
handleProxyProfiles ==
  /\ pxcCall["profile"] # None
  /\ \/ \E ins \in SUBSET {i \in KnownInbounds : pxcIn[i].on} :
          /\ ins # {}
          /\ pxcProf' = normalizeProxyNodeProfile(pxcCall["profile"].row, ins)
     \/ UNCHANGED pxcProf
  /\ PxcEnds("profile")
  /\ UNCHANGED <<pxcAp, pxcDrift, pxcOps>> /\ UNCHANGED PxcRows /\ UNCHANGED PxcNodeVars

handleDeleteProxyProfile ==
  /\ PxcEdit
  /\ pxcProf # None
  /\ pxcProf' = None
  /\ UNCHANGED PxcRows /\ PxcRest

\* A usage report reads the row, and writes it back with the collector's health.
UsageReads ==
  /\ PxcEdit
  /\ pxcProf # None
  /\ PxcTakes("usage", [row |-> pxcProf])
  /\ UNCHANGED <<pxcProf, pxcAp, pxcDrift>> /\ UNCHANGED PxcRows /\ UNCHANGED PxcNodeVars
applyProxyUsageCollectorHealth ==
  /\ pxcCall["usage"] # None
  /\ pxcProf' = pxcCall["usage"].row
  /\ PxcEnds("usage")
  /\ UNCHANGED <<pxcAp, pxcDrift, pxcOps>> /\ UNCHANGED PxcRows /\ UNCHANGED PxcNodeVars

-----------------------------------------------------------------------------
(* Plan and approval *)

handleProxyNodePlan ==
  /\ Len(pxcAp) < MaxPxcPlans
  /\ LET c == renderProxyCoreArtifactForUsers
     IN /\ c # None
        /\ pxcAp' = Append(pxcAp, [cfg |-> c, st |-> "pending", task |-> None, script |-> None, kept |-> TRUE])
  /\ UNCHANGED <<pxcProf, pxcCall, pxcDrift, pxcOps>> /\ UNCHANGED PxcRows /\ UNCHANGED PxcNodeVars

\* Mutant: the render is not compared with the plan.
renderedAnyhow(a) == renderProxyCoreArtifactForUsers # None

\* The plan still is what the server renders.
currentProxyCoreArtifactForApproval(a) == renderProxyCoreArtifactForUsers = pxcAp[a].cfg

\* The approval is read and its plan compared with a fresh render.
ApproveReads ==
  \E a \in DOMAIN pxcAp :
    /\ pxcAp[a].st = "pending"
    /\ renderProxyCoreArtifactForUsers = pxcAp[a].cfg
    /\ PxcTakes("approve", [ap |-> a])
    /\ UNCHANGED <<pxcProf, pxcAp, pxcDrift, pxcOps>> /\ UNCHANGED PxcRows /\ UNCHANGED PxcNodeVars

\* The script is rendered again and compared again; then the approval is stored and its task queued.
proxyCoreApplyScriptFor ==
  /\ pxcCall["approve"] # None
  /\ LET a == pxcCall["approve"].ap
     IN IF currentProxyCoreArtifactForApproval(a)
        THEN pxcAp' = [pxcAp EXCEPT ![a].st = "approved", ![a].task = "queued", ![a].script = renderProxyCoreArtifactForUsers]
        ELSE UNCHANGED pxcAp
  /\ PxcEnds("approve")
  /\ UNCHANGED <<pxcProf, pxcDrift, pxcOps>> /\ UNCHANGED PxcRows /\ UNCHANGED PxcNodeVars

-----------------------------------------------------------------------------
(* The script on the node *)

PxcSrv == UNCHANGED <<pxcIn, pxcUser, pxcId, pxcProf, pxcCall, pxcDrift, pxcOps>>

\* The node takes its task; the runtime prelude may find no core binary and stop.
proxyCoreEnsureRuntime ==
  \E a \in DOMAIN pxcAp, found \in BOOLEAN :
    /\ pxcJob = None
    /\ pxcAp[a].task = "queued"
    /\ IF found
       THEN /\ pxcJob' = [ap |-> a, pc |-> "check", restore |-> "none", old |-> pxcNode.live]
            /\ pxcAp' = [pxcAp EXCEPT ![a].task = "running"]
       ELSE pxcAp' = [pxcAp EXCEPT ![a].task = "failed"] /\ UNCHANGED pxcJob
    /\ UNCHANGED <<pxcNode, pxcKills>> /\ PxcSrv

\* The job ends; what it leaves is compared with what it found when it failed.
PxcJobEnds(n, res) ==
  /\ pxcNode' = n /\ pxcJob' = None
  /\ pxcAp' = [pxcAp EXCEPT ![pxcJob.ap].task = res,
                            ![pxcJob.ap].kept = res = "ok" \/ n.live = pxcJob.old]

\* The target after the error trap: the backup, nothing, or untouched.
restore_target(restore) ==
  CASE restore = "backup" -> IF pxcNode.bak # None THEN pxcNode.bak ELSE pxcNode.live
    [] restore = "remove" -> None
    [] OTHER -> pxcNode.live

\* The error trap: restore the target, drop the backup, restart the service if there is a manager.
ErrTrap ==
  LET live == restore_target(pxcJob.restore)
  IN PxcJobEnds([pxcNode EXCEPT !.live = live, !.bak = None,
                                !.run = IF pxcNode.mgr = "none" THEN pxcNode.run ELSE live], "failed")

\* The candidate is written and checked by the core.
ScriptChecks ==
  /\ pxcJob # None /\ (pxcJob # None => pxcJob.pc = "check")
  /\ \/ pxcJob' = [pxcJob EXCEPT !.pc = "backup"] /\ UNCHANGED <<pxcAp, pxcNode>>
     \/ ErrTrap
  /\ UNCHANGED pxcKills /\ PxcSrv

\* The target is copied aside when there is one.
ScriptBacksUp ==
  /\ pxcJob # None /\ (pxcJob # None => pxcJob.pc = "backup")
  /\ pxcNode' = IF pxcNode.live = None THEN pxcNode ELSE [pxcNode EXCEPT !.bak = pxcNode.live]
  /\ pxcJob' = [pxcJob EXCEPT !.pc = "move", !.restore = IF pxcNode.live = None THEN "remove" ELSE "backup"]
  /\ UNCHANGED <<pxcAp, pxcKills>> /\ PxcSrv

ScriptMoves ==
  /\ pxcJob # None /\ (pxcJob # None => pxcJob.pc = "move")
  /\ pxcNode' = [pxcNode EXCEPT !.live = pxcAp[pxcJob.ap].script]
  /\ pxcJob' = [pxcJob EXCEPT !.pc = "reload"]
  /\ UNCHANGED <<pxcAp, pxcKills>> /\ PxcSrv

\* Reload, else restart; a node with no service manager leaves by exit, which runs no error trap.
ScriptReloads ==
  /\ pxcJob # None /\ (pxcJob # None => pxcJob.pc = "reload")
  /\ IF pxcNode.mgr = "none" THEN PxcJobEnds(pxcNode, "failed")
     ELSE \/ PxcJobEnds([pxcNode EXCEPT !.run = pxcNode.live, !.bak = None], "ok")
          \/ ErrTrap
  /\ UNCHANGED pxcKills /\ PxcSrv

\* The agent kills the script at its time limit, or the node reboots under it; no trap runs, and a reboot starts
\* the service from the target.
ScriptKilled ==
  /\ pxcKills < MaxPxcKills /\ pxcKills' = pxcKills + 1
  /\ pxcJob # None
  /\ \E reboot \in BOOLEAN :
       pxcNode' = IF reboot /\ pxcNode.mgr # "none" THEN [pxcNode EXCEPT !.run = pxcNode.live] ELSE pxcNode
  /\ pxcAp' = [pxcAp EXCEPT ![pxcJob.ap].task = "killed"]
  /\ pxcJob' = None
  /\ PxcSrv

-----------------------------------------------------------------------------
(* The result, and drift *)

\* The drift of a profile with an applied digest: stale when the render fails or differs.
computeProxyDrift(prof) == IF prof = None THEN None ELSE IF prof.applied = None THEN None
                           ELSE IF renderFor(prof) = prof.applied THEN "fresh" ELSE "stale"

\* handleProxyCoreTaskResult reads the profile; without one it is an error and nothing is recorded.
ResultReads ==
  \E a \in DOMAIN pxcAp :
    /\ pxcAp[a].st = "approved" /\ pxcAp[a].task \in {"ok", "failed", "killed"}
    /\ pxcProf # None
    /\ PxcTakes("result", [ap |-> a, row |-> pxcProf])
    /\ UNCHANGED <<pxcProf, pxcAp, pxcDrift, pxcOps>> /\ UNCHANGED PxcRows /\ UNCHANGED PxcNodeVars

\* The profile row a result stores.
AppliedRow(row, ap) == IF ap.task = "ok" THEN [row EXCEPT !.applied = ap.cfg, !.err = None] ELSE [row EXCEPT !.err = "apply failed"]

handleProxyCoreTaskResult ==
  /\ pxcCall["result"] # None
  /\ LET a == pxcCall["result"].ap
     IN /\ pxcProf' = AppliedRow(pxcCall["result"].row, pxcAp[a])
        /\ pxcAp' = [pxcAp EXCEPT ![a].st = IF pxcAp[a].task = "ok" THEN "applied" ELSE "rejected"]
        /\ pxcDrift' = IF pxcAp[a].task = "ok" THEN computeProxyDrift(pxcProf') ELSE pxcDrift
  /\ PxcEnds("result")
  /\ UNCHANGED pxcOps /\ UNCHANGED PxcRows /\ UNCHANGED PxcNodeVars

\* The periodic sweep sets the flag from the rows as they are.
evaluateProxyConfigDrift ==
  /\ pxcDrift' = computeProxyDrift(pxcProf)
  /\ pxcDrift' # pxcDrift
  /\ UNCHANGED <<pxcProf, pxcAp, pxcCall, pxcOps>> /\ UNCHANGED PxcRows /\ UNCHANGED PxcNodeVars

-----------------------------------------------------------------------------
PxcNext ==
  \/ handleProxyInbounds \/ handleDeleteProxyInbound \/ handleProxyUsers \/ handleDeleteProxyUser
  \/ vpnUserBinds \/ UsagePassesQuota
  \/ ProfileReads \/ handleProxyProfiles \/ handleDeleteProxyProfile \/ UsageReads \/ applyProxyUsageCollectorHealth
  \/ handleProxyNodePlan \/ ApproveReads \/ proxyCoreApplyScriptFor
  \/ proxyCoreEnsureRuntime \/ ScriptChecks \/ ScriptBacksUp \/ ScriptMoves \/ ScriptReloads \/ ScriptKilled
  \/ ResultReads \/ handleProxyCoreTaskResult \/ evaluateProxyConfigDrift

PxcConfigs == {pxcAp[a].cfg : a \in DOMAIN pxcAp}

PxcTypeOK ==
  /\ \A i \in PxcInbounds : pxcIn[i] # None => pxcIn[i].port \in PxcPorts /\ pxcIn[i].on \in BOOLEAN /\ pxcIn[i].sid \in 1..MaxPxcOps
  /\ \A u \in PxcUsers : pxcUser[u] # None => pxcUser[u].ins \subseteq PxcInbounds /\ pxcUser[u].status \in PxcStatus
  /\ \A u \in PxcUsers : pxcId[u] # None => u \in PxcManaged /\ pxcId[u].lines \subseteq PxcInbounds
  /\ pxcProf # None => pxcProf.ins \subseteq PxcInbounds /\ pxcProf.applied \in PxcConfigs \cup {None}
  /\ pxcNode.live \in PxcConfigs \cup {None} /\ pxcNode.run \in PxcConfigs \cup {None}
  /\ pxcDrift \in {None, "fresh", "stale"}

\* What the node is made to run is what the operator was shown: the script of an approval carries the config of its
\* plan, whatever rows changed between the plan, the check and the queueing.
ShownIsRun == \A a \in DOMAIN pxcAp : pxcAp[a].script # None => pxcAp[a].script = pxcAp[a].cfg

\* The digest in the profile is one that a script confirmed.
AppliedWasRun == pxcProf # None => pxcProf.applied \in {None} \cup {pxcAp[a].cfg : a \in {b \in DOMAIN pxcAp : pxcAp[b].task = "ok"}}

\* A script that fails by itself on a node with a service manager leaves the config file as it found it, even
\* after an earlier script was killed half-way.
FailureRestores == \A a \in DOMAIN pxcAp : pxcAp[a].task = "failed" /\ pxcNode.mgr # "none" => pxcAp[a].kept

\* A migrated identity is never rendered twice on an inbound, so its two rows cannot make the config unrenderable.
RenderedOnce == \A i \in PxcInbounds : DistinctUuids(eligibleVLESSUsers(proxyUsersForManagedRender(pxcProf), i))

\* While the profile's config is the one rendered now and no script is under way, each link handed out for a user
\* who has no identity names an inbound of that config that serves the user.
LinksServed ==
  (IF pxcProf = None THEN FALSE ELSE pxcProf.applied # None /\ pxcProf.applied = renderProxyCoreArtifactForUsers) =>
    \A u \in PxcUsers \ PxcManaged : \A e \in vpnCoreExportNodes[u] :
      \E c \in pxcProf.applied : c.in = e.in /\ c.port = e.port /\ c.sid = e.sid /\ u \in c.who

\* The configuration path is sound: the node runs what was reviewed, the server records only what the node
\* confirmed, failures restore, and renders and links agree.
ProxySound == PxcTypeOK /\ ShownIsRun /\ AppliedWasRun /\ FailureRestores /\ RenderedOnce /\ LinksServed
=============================================================================
