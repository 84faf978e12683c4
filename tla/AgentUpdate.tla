----------------------------- MODULE AgentUpdate -----------------------------
(***************************************************************************)
(* Agent updates of one node (server/server_agent_update.go, the mirror    *)
(* registry of server/server_agent_mirrors.go, the release store of        *)
(* server/server_agent_artifacts.go and the prefetch plan of               *)
(* server/server_agent_prefetch.go).  A policy is planned into an approval *)
(* whose action is its payload; approving it queues the install task; the  *)
(* result and the version the node reports race to decide it.  Handlers    *)
(* read the store, work, and write it in separate critical sections.       *)
(***************************************************************************)
EXTENDS Common, Naturals, FiniteSets, TLC

CONSTANTS
    UpdApprovals,   \* approval ids
    UpdCalls,       \* requests in flight together
    UpdVersions,    \* versions, ordered naturals; the node starts at the least
    MaxUpdWrites    \* bound: operator requests that change policy, mirrors or artifacts

Least == CHOOSE v \in UpdVersions : \A w \in UpdVersions : v <= w

VARIABLES
    updPolicy,    \* State.AgentUpdatePolicies[node], or None
    updNode,      \* node.AgentVersion as last reported, node.Online
    updSources,   \* revision of the mirror registry and of the stored releases a payload lists
    updAppr,      \* State.Approvals of the plugin
    updTask,      \* the install task of each approval: None or its status
    updCall,      \* handlers in flight
    updHost,      \* external: version the node runs; results its agent still has to post
    updWrites,    \* bound counter
    updRan        \* external: approvals whose task a node was handed

updVars == <<updPolicy, updNode, updSources, updAppr, updTask, updCall, updHost, updWrites, updRan>>

Awaiting == "awaiting"       \* agentUpdateAwaitingConfirmationReason
UpdDone(c) == updCall' = [updCall EXCEPT ![c] = None]
UpdGoto(c, rec) == updCall' = [updCall EXCEPT ![c] = rec]
UpdIdle(c) == updCall[c] = None
UpdAt(c, step) == updCall[c] # None /\ updCall[c].step = step
UpdWrite == updWrites < MaxUpdWrites /\ updWrites' = updWrites + 1

(* ---- what the handlers compute ------------------------------------------ *)

(* agentUpdatePayloadForPolicy with the source list of agentUpdateSourcesFor *)
Payload(p) == [current |-> updNode.version, target |-> p.target, sources |-> updSources]

hasActiveTask(a) == updTask[a] \in {"queued", "leased"}

(* agentUpdateApprovalCanAutoReject *)
CanAutoReject(a, row) == row.status = "pending" \/ (row.status = "approved" /\ ~hasActiveTask(a))

\* Mutant: an approval with any task counts as dispatched, a queued one too.
agentUpdateTaskDispatchedWhenQueued(a) == updTask[a] # None

(* agentUpdateTaskDispatched: leased now, or it left the queue *)
agentUpdateTaskDispatched(a) == updTask[a] \in {"leased", "finished", "failed"}

(* agentUpdateConfirmedByReport *)
ConfirmedBy(a, row, version) ==
    /\ row.status = "approved" /\ row.payload.target = version
    /\ row.reason = Awaiting \/ (agentUpdateTaskDispatched(a) /\ row.payload.current # row.payload.target)

(* agentUpdateApprovalLocalStaleness; a plan that ran does not depend on the sources any more *)
LocallyStale(a, row) ==
    LET ran == row.status = "approved" /\ agentUpdateTaskDispatched(a) IN
    IF updPolicy = None THEN TRUE
    ELSE ~updPolicy.enabled \/ updPolicy.target # row.payload.target \/ (~ran /\ row.payload.sources # updSources)

Stored == {a \in UpdApprovals : updAppr[a] # None}
Rejected(row) == [row EXCEPT !.status = "rejected", !.reason = "stale"]

(* ---- the policy ----------------------------------------------------------- *)

(* handleAgentUpdatePolicies and the delete handler: a changed binding retires the open plans. *)
handleAgentUpdatePolicies(c, p) ==
    /\ UpdIdle(c) /\ UpdWrite
    /\ LET keep == IF updPolicy = None THEN [applied |-> None, error |-> FALSE]
                   ELSE [applied |-> updPolicy.applied, error |-> updPolicy.error]
           changed == p = None \/ updPolicy = None \/ updPolicy.enabled # p.enabled \/ updPolicy.target # p.target
       IN /\ updPolicy' = IF p = None THEN None ELSE [enabled |-> p.enabled, target |-> p.target,
                                                      applied |-> keep.applied, error |-> keep.error]
          /\ IF changed THEN UpdGoto(c, [step |-> "list", keep |-> None, after |-> "return"]) ELSE UNCHANGED updCall
    /\ UNCHANGED <<updNode, updSources, updAppr, updTask, updHost, updRan>>

(* rejectSupersededAgentUpdateApprovals, first half: the rows to reject, as they are now. *)
ListSuperseded(c) ==
    LET k == updCall[c]
        rows == {<<a, Rejected(updAppr[a])>> : a \in {x \in Stored : CanAutoReject(x, updAppr[x]) /\ updAppr[x].payload # k.keep}}
    IN /\ UpdAt(c, "list")
       /\ UpdGoto(c, [k EXCEPT !.step = "supersede"] @@ [rows |-> rows])
       /\ UNCHANGED <<updPolicy, updNode, updSources, updAppr, updTask, updHost, updWrites, updRan>>

(* Second half: UpsertApproval of each row. *)
RejectSuperseded(c) ==
    /\ UpdAt(c, "supersede")
    /\ LET k == updCall[c] IN
       IF k.rows # {}
       THEN \E r \in k.rows : /\ updAppr' = [updAppr EXCEPT ![r[1]] = r[2]]
                              /\ UpdGoto(c, [k EXCEPT !.rows = @ \ {r}])
       ELSE UNCHANGED updAppr /\ IF k.after = "return" THEN UpdDone(c) ELSE UpdGoto(c, [k EXCEPT !.step = k.after])
    /\ UNCHANGED <<updPolicy, updNode, updSources, updTask, updHost, updWrites, updRan>>

(* ---- planning ------------------------------------------------------------- *)

(* createAgentUpdateApproval reads node and policy; the release lookup takes its time after that.     *)
(* Without force a downgrade is refused and a node at the target is only marked satisfied.            *)
createAgentUpdateApproval(c, force) ==
    /\ UpdIdle(c) /\ updPolicy # None /\ Stored # UpdApprovals
    /\ updPolicy.enabled
    /\ LET pay == Payload(updPolicy)
           rest == [step |-> "list", policy |-> updPolicy, payload |-> pay]
       IN IF ~force /\ pay.target = pay.current
          THEN UpdGoto(c, rest @@ [keep |-> None, after |-> "satisfied"])
          ELSE (force \/ pay.target > pay.current) /\ UpdGoto(c, rest @@ [keep |-> pay, after |-> "submit"])
    /\ UNCHANGED <<updPolicy, updNode, updSources, updAppr, updTask, updHost, updWrites, updRan>>

(* markAgentUpdatePolicySatisfied writes the policy it was given. *)
markAgentUpdatePolicySatisfied(c) ==
    /\ UpdAt(c, "satisfied")
    /\ updPolicy' = [updCall[c].policy EXCEPT !.error = FALSE, !.applied = updCall[c].payload.target]
    /\ UpdDone(c)
    /\ UNCHANGED <<updNode, updSources, updAppr, updTask, updHost, updWrites, updRan>>

(* openAgentUpdateApproval: an open plan with the same action is handed back. *)
Open(pay) == {a \in Stored : updAppr[a].status \in {"pending", "approved"} /\ updAppr[a].payload = pay}

Submit(c) ==
    /\ UpdAt(c, "submit")
    /\ LET k == updCall[c] IN
       IF Open(k.payload) # {} \/ Stored = UpdApprovals
       THEN UpdDone(c) /\ UNCHANGED updAppr
       ELSE \E a \in UpdApprovals \ Stored :
                /\ updAppr' = [updAppr EXCEPT ![a] = [payload |-> k.payload, status |-> "pending", reason |-> "",
                                                      at |-> Cardinality(Stored)]]
                /\ UpdGoto(c, [step |-> "planned", policy |-> [k.policy EXCEPT !.error = FALSE]])
    /\ UNCHANGED <<updPolicy, updNode, updSources, updTask, updHost, updWrites, updRan>>

(* The policy read at the start is written back with LastPlannedVersion. *)
StorePlanned(c) ==
    /\ UpdAt(c, "planned") /\ updPolicy' = updCall[c].policy /\ UpdDone(c)
    /\ UNCHANGED <<updNode, updSources, updAppr, updTask, updHost, updWrites, updRan>>

(* agentMirrorsApprove, storing and deleting releases: what a payload lists changes. *)
ChangeSources ==
    /\ UpdWrite /\ updSources' = updSources + 1
    /\ UNCHANGED <<updPolicy, updNode, updAppr, updTask, updCall, updHost, updRan>>

(* ---- deciding ------------------------------------------------------------- *)

handleApproveUpdate(c, a, decision) ==
    /\ UpdIdle(c) /\ a \in Stored /\ updAppr[a].status = "pending"
    /\ UpdGoto(c, [step |-> decision, id |-> a, row |-> updAppr[a]])
    /\ UNCHANGED <<updPolicy, updNode, updSources, updAppr, updTask, updHost, updWrites, updRan>>

(* requireCurrentAgentUpdateApproval: the payload planned now is the one approved. *)
CurrentUpdate(row) == updPolicy # None /\ (updPolicy # None => updPolicy.enabled /\ Payload(updPolicy) = row.payload)

(* approveApprovalCore: a stale plan is rejected in place, else the row read is written and the task queued. *)
ApproveUpdate(c) ==
    LET k == updCall[c]
        now == updAppr[k.id]
    IN /\ UpdAt(c, "approve") \/ UpdAt(c, "approve_only")
       /\ IF CurrentUpdate(k.row)
          THEN /\ updAppr' = [updAppr EXCEPT ![k.id] = [k.row EXCEPT !.status = "approved"]]
               /\ IF k.step = "approve" THEN UpdGoto(c, [step |-> "queue", id |-> k.id]) ELSE UpdDone(c)
          ELSE /\ updAppr' = IF CanAutoReject(k.id, now) THEN [updAppr EXCEPT ![k.id] = Rejected(now)] ELSE updAppr
               /\ UpdDone(c)
       /\ UNCHANGED <<updPolicy, updNode, updSources, updTask, updHost, updWrites, updRan>>

QueueInstall(c) ==
    /\ UpdAt(c, "queue") /\ updTask' = [updTask EXCEPT ![updCall[c].id] = "queued"] /\ UpdDone(c)
    /\ UNCHANGED <<updPolicy, updNode, updSources, updAppr, updHost, updWrites, updRan>>

RejectUpdate(c) ==
    /\ UpdAt(c, "reject") /\ updAppr' = [updAppr EXCEPT ![updCall[c].id] = [updCall[c].row EXCEPT !.status = "rejected"]]
    /\ UpdDone(c)
    /\ UNCHANGED <<updPolicy, updNode, updSources, updTask, updHost, updWrites, updRan>>

(* handleDismissApproval: only without an active task, and stale or rejected as stale. *)
handleDismissUpdate(a) ==
    /\ a \in Stored /\ updAppr[a].status # "dismissed" /\ ~hasActiveTask(a)
    /\ updAppr[a].reason = "stale" \/ LocallyStale(a, updAppr[a])
    /\ updAppr[a].status \in {"pending", "approved", "rejected"} /\ UpdWrite
    /\ updAppr' = [updAppr EXCEPT ![a].status = "dismissed", ![a].reason = "stale"]
    /\ UNCHANGED <<updPolicy, updNode, updSources, updTask, updCall, updHost, updRan>>

(* rejectLocallyStaleAgentUpdateApprovals, run when approvals are listed: confirm first, else retire. *)
ListApprovals(c, a) ==
    /\ UpdIdle(c) /\ a \in Stored /\ CanAutoReject(a, updAppr[a])
    /\ IF ConfirmedBy(a, updAppr[a], updNode.version) THEN UpdGoto(c, [step |-> "confirm", id |-> a])
       ELSE LocallyStale(a, updAppr[a]) /\ UpdGoto(c, [step |-> "retire", id |-> a])
    /\ UNCHANGED <<updPolicy, updNode, updSources, updAppr, updTask, updHost, updWrites, updRan>>

(* rejectAgentUpdateApprovalWithReason: MutateApproval looks at the row again. *)
RetireUpdate(c) ==
    LET a == updCall[c].id IN
    /\ UpdAt(c, "retire")
    /\ updAppr' = IF CanAutoReject(a, updAppr[a]) THEN [updAppr EXCEPT ![a] = Rejected(@)] ELSE updAppr
    /\ UpdDone(c)
    /\ UNCHANGED <<updPolicy, updNode, updSources, updTask, updHost, updWrites, updRan>>

(* ---- the node ------------------------------------------------------------- *)

LeaseInstall(a) ==
    /\ updTask[a] = "queued" /\ updNode.online /\ updTask' = [updTask EXCEPT ![a] = "leased"]
    /\ updRan' = updRan \cup {a}
    /\ UNCHANGED <<updPolicy, updNode, updSources, updAppr, updCall, updHost, updWrites>>

(* The script ran: the host runs the target, or not; the agent keeps the result to post. *)
RunInstall(a, ok) ==
    /\ updTask[a] = "leased" /\ a \notin {r.id : r \in updHost.results}
    /\ updHost' = [version |-> IF ok THEN updAppr[a].payload.target ELSE updHost.version,
                   results |-> updHost.results \cup {[id |-> a, ok |-> ok]}]
    /\ UNCHANGED <<updPolicy, updNode, updSources, updAppr, updTask, updCall, updWrites, updRan>>

(* Another version at the node: the guard put the previous binary back, or someone upgraded by hand. *)
VersionChanges(v) ==
    /\ UpdWrite /\ updHost.version # v /\ updHost' = [updHost EXCEPT !.version = v]
    /\ UNCHANGED <<updPolicy, updNode, updSources, updAppr, updTask, updCall, updRan>>

(* The restart cuts the post of the result short; the queue gives the task up in the end. *)
LoseResult(r) ==
    /\ r \in updHost.results /\ updHost' = [updHost EXCEPT !.results = @ \ {r}]
    /\ updTask' = [updTask EXCEPT ![r.id] = IF @ = "leased" THEN "failed" ELSE @]
    /\ UNCHANGED <<updPolicy, updNode, updSources, updAppr, updCall, updWrites, updRan>>

(* handleAgentTaskResult stores the result and reads the approval. *)
PostUpdateResult(c, r) ==
    /\ UpdIdle(c) /\ r \in updHost.results /\ updTask[r.id] = "leased"
    /\ updTask' = [updTask EXCEPT ![r.id] = IF r.ok THEN "finished" ELSE "failed"]
    /\ updHost' = [updHost EXCEPT !.results = @ \ {r}]
    /\ UpdGoto(c, [step |-> "result", id |-> r.id, ok |-> r.ok])
    /\ UNCHANGED <<updPolicy, updNode, updSources, updAppr, updWrites, updRan>>

(* handleAgentUpdateTaskResult: MutateApproval leaves an applied row alone. *)
MarkResult(c) ==
    LET k == updCall[c] IN
    /\ UpdAt(c, "result")
    /\ IF updAppr[k.id].status = "applied"
       THEN UNCHANGED updAppr /\ UpdDone(c)
       ELSE /\ updAppr' = [updAppr EXCEPT ![k.id].status = IF k.ok THEN "approved" ELSE "pending",
                                          ![k.id].reason = IF k.ok THEN Awaiting ELSE "failed"]
            /\ UpdGoto(c, [step |-> "error", id |-> k.id, ok |-> k.ok])
    /\ UNCHANGED <<updPolicy, updNode, updSources, updTask, updHost, updWrites, updRan>>

(* writeAgentUpdateResult: LastError, unless the report confirmed this approval meanwhile. *)
writeAgentUpdateResult(c) ==
    LET k == updCall[c]
        confirmed == updPolicy # None /\ k.ok /\ updPolicy.applied = updAppr[k.id].payload.target
    IN /\ UpdAt(c, "error")
       /\ updPolicy' = IF updPolicy = None THEN [enabled |-> FALSE, target |-> Least, applied |-> None, error |-> TRUE]
                       ELSE IF confirmed THEN updPolicy ELSE [updPolicy EXCEPT !.error = TRUE]
       /\ UpdDone(c)
       /\ UNCHANGED <<updNode, updSources, updAppr, updTask, updHost, updWrites, updRan>>

(* hello or metrics: the version is stored; reconcileAgentUpdateHeartbeat lists the approved plans. *)
ReportVersion(c) ==
    /\ UpdIdle(c)
    /\ updNode' = [version |-> updHost.version, online |-> TRUE]
    /\ LET seen == {a \in Stored : ConfirmedBy(a, updAppr[a], updHost.version)}
       IN IF seen = {} THEN UNCHANGED updCall /\ updNode' # updNode
          ELSE \E a \in seen : UpdGoto(c, [step |-> "confirm", id |-> a])
    /\ UNCHANGED <<updPolicy, updSources, updAppr, updTask, updHost, updWrites, updRan>>

(* confirmAgentUpdateApproval: only the first transition out of "approved" wins. *)
confirmAgentUpdateApproval(c) ==
    LET a == updCall[c].id IN
    /\ UpdAt(c, "confirm")
    /\ IF updAppr[a].status = "approved"
       THEN /\ updAppr' = [updAppr EXCEPT ![a].status = "applied", ![a].reason = "confirmed"]
            /\ UpdGoto(c, [step |-> "applied", id |-> a])
       ELSE UNCHANGED updAppr /\ UpdDone(c)
    /\ UNCHANGED <<updPolicy, updNode, updSources, updTask, updHost, updWrites, updRan>>

RecordApplied(c) ==
    LET t == updAppr[updCall[c].id].payload.target IN
    /\ UpdAt(c, "applied")
    /\ updPolicy' = IF updPolicy = None THEN [enabled |-> FALSE, target |-> Least, applied |-> t, error |-> FALSE]
                    ELSE [updPolicy EXCEPT !.applied = t, !.error = FALSE]
    /\ UpdDone(c)
    /\ UNCHANGED <<updNode, updSources, updAppr, updTask, updHost, updWrites, updRan>>

UpdOffline ==
    /\ UpdWrite /\ updNode.online /\ updNode' = [updNode EXCEPT !.online = FALSE]
    /\ UNCHANGED <<updPolicy, updSources, updAppr, updTask, updCall, updHost, updRan>>

UpdInit ==
    /\ updPolicy = None /\ updNode = [version |-> Least, online |-> TRUE] /\ updSources = 0
    /\ updAppr = [a \in UpdApprovals |-> None] /\ updTask = [a \in UpdApprovals |-> None]
    /\ updCall = [c \in UpdCalls |-> None] /\ updHost = [version |-> Least, results |-> {}]
    /\ updWrites = 0 /\ updRan = {}

UpdHandle(c) == \/ ListSuperseded(c) \/ RejectSuperseded(c) \/ markAgentUpdatePolicySatisfied(c) \/ Submit(c)
                \/ StorePlanned(c) \/ ApproveUpdate(c) \/ QueueInstall(c) \/ RejectUpdate(c) \/ RetireUpdate(c) \/ MarkResult(c)
                \/ writeAgentUpdateResult(c) \/ confirmAgentUpdateApproval(c) \/ RecordApplied(c)

UpdNext ==
    \/ \E c \in UpdCalls :
           \/ \E p \in {None} \cup [enabled : BOOLEAN, target : UpdVersions] : handleAgentUpdatePolicies(c, p)
           \/ \E force \in BOOLEAN : createAgentUpdateApproval(c, force)
           \/ \E a \in UpdApprovals, d \in {"approve", "approve_only", "reject"} : handleApproveUpdate(c, a, d)
           \/ \E r \in updHost.results : PostUpdateResult(c, r)
           \/ \E a \in UpdApprovals : ListApprovals(c, a)
           \/ ReportVersion(c) \/ UpdHandle(c)
    \/ ChangeSources \/ UpdOffline
    \/ \E v \in UpdVersions : VersionChanges(v)
    \/ \E r \in updHost.results : LoseResult(r)
    \/ \E a \in UpdApprovals : handleDismissUpdate(a) \/ LeaseInstall(a)
                               \/ \E ok \in BOOLEAN : RunInstall(a, ok)

(* ---- properties ------------------------------------------------------------ *)

UpdTypeOK ==
    /\ updPolicy # None => updPolicy.target \in UpdVersions /\ updPolicy.applied \in UpdVersions \cup {None}
    /\ updNode.version \in UpdVersions /\ updHost.version \in UpdVersions
    /\ \A a \in Stored : updAppr[a].status \in {"pending", "approved", "applied", "rejected", "dismissed"}
    /\ \A a \in UpdApprovals : updTask[a] \in {None, "queued", "leased", "finished", "failed"}

(* "Applied" asserts that something this approval authorised ran: the node was handed its task         *)
(* (agentUpdateConfirmedByReport), not merely seen at the target version for another reason.           *)
AppliedWasHanded == \A a \in Stored : updAppr[a].status = "applied" => a \in updRan

(* A task result cannot un-apply what the node has proven, and listing the approvals does not retire   *)
(* one that a heartbeat is marking applied: the steps of handleAgentUpdateTaskResult, of the listing    *)
(* and of the heartbeat leave an applied approval applied, however they interleave.                     *)
ProvenStaysApplied ==
    [][\A a \in Stored, c \in UpdCalls :
          (/\ updAppr[a].status = "applied" /\ updCall'[c] # updCall[c]
           /\ UpdAt(c, "result") \/ UpdAt(c, "retire") \/ UpdAt(c, "confirm"))
              => updAppr'[a].status = "applied"]_updVars

(* What the node has proven stays: no step takes an approval out of "applied".                         *)
\* TLC refutes it (README.md, section 6).
AppliedStays == [][\A a \in Stored : updAppr[a].status = "applied" => updAppr'[a].status = "applied"]_updVars

(* An update is decided, or waits for the result of a forced reinstall, or its node runs another version  *)
(* (reconcileAgentUpdateHeartbeat).                                                                       *)
UpdateSettled(a) ==
    \/ updAppr[a] = None
    \/ updAppr[a].status # "approved"
    \/ updAppr[a].payload.current = updAppr[a].payload.target
    \/ updHost.version # updAppr[a].payload.target

(* An update approval is well formed and applied only after its task was handed out (handleAgentHello).         *)
UpdatesSound == UpdTypeOK /\ AppliedWasHanded

=============================================================================
