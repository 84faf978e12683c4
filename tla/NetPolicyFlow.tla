---------------------------- MODULE NetPolicyFlow ----------------------------
(***************************************************************************)
(* Network policies of one node, from intent to host: an operator writes   *)
(* a policy, or group policies cover the node; a plan becomes an approval; *)
(* approving it re-checks the plan and queues a task; the task's result    *)
(* marks approval and policy (server/server_netpolicy.go,                  *)
(* server/server_group_policy.go, server/server_approval_policy.go, the    *)
(* approval handlers of server/server.go), and every approved approval is  *)
(* explained to the operator (server/server_approval_waiting.go).  The     *)
(* handlers read and write the store in separate critical sections.  A     *)
(* plan is its hash; it depends on the intent and on the fleet.            *)
(***************************************************************************)
EXTENDS Common, Naturals, FiniteSets

CONSTANTS
    Intents,       \* rule sets an operator can write
    PolApprovals,  \* approval ids
    PolCalls,      \* requests that can be in flight together
    MaxFleet,      \* bound: changes of the fleet a plan depends on
    MaxWrites,     \* bound: operator requests that change intent or settings
    AutoRules,     \* approvalAutoRules: subset of {"queue", "hold"}; a rule matches every plan
    DailyCap       \* approvalAutoRule.DailyCap; 0: no cap

ASSUME NetPolicyFlowAssumption ==
    /\ MaxFleet \in Nat /\ MaxWrites \in Nat /\ DailyCap \in Nat
    /\ AutoRules \subseteq {"queue", "hold"}

Operator == "operator"
Rule == "policy"          \* approvalPolicyActorPrefix + rule name
Settled == {"finished", "failed", "cancelled"}

VARIABLES
    polPolicy,    \* State.NetPolicies[node], or None
    polGroup,     \* the effective group policy of the node, or None
    fleet,        \* version of the nodes and groups a plan resolves
    polApproval,  \* State.Approvals
    polTask,      \* State.PolTasks: sequence number -> task
    polNode,      \* node.Disabled, node.Online, LastSeen, and whether the node exists
    polCap,       \* NodeCapability record and CapabilityPolicy of "nftpolicy"
    polCall,      \* handlers in flight: what they read
    polWrites,    \* bound counter
    nodeRan       \* external: the approvals whose plan the node ran with success

polVars == <<polPolicy, polGroup, fleet, polApproval, polTask, polNode, polCap, polCall, polWrites, nodeRan>>

TaskSlots == PolApprovals \X PolCalls   \* one task per approve call at most

(* ---- what the handlers compute ------------------------------------------ *)

PolPlan(intent) == <<intent, fleet>>

resolveNodeCapability ==
    /\ polCap.record # "excluded"
    /\ polCap.enforced => (polCap.record = "enrolled" \/ polPolicy # None)

(* requireCurrentNetPolicyApproval *)
PolCurrent(a) ==
    /\ polPolicy # None
    /\ IF polPolicy.derived THEN polGroup # None /\ a.plan = PolPlan(polGroup)
                            ELSE a.plan = polPolicy.sha

nodeStatusFor ==
    IF polNode.disabled THEN "disabled"
    ELSE IF ~polNode.reported THEN "never_reported"
    ELSE IF ~polNode.online THEN "offline" ELSE "online"

PolTasks(a) == {t \in TaskSlots : t[1] = a /\ polTask[t] # None}
(* approvalWaitContext.newestTask: CreatedAt decides *)
newestTask(a) == CHOOSE t \in PolTasks(a) : \A u \in PolTasks(a) : polTask[u].at <= polTask[t].at
supersededBy(a) == {b \in PolApprovals : /\ polApproval[b] # None /\ polApproval[b].at > polApproval[a].at
                                         /\ polApproval[b].status \in {"pending", "approved", "applied"}}

approvalWait(a) ==
    LET has == PolTasks(a) # {}
        status == IF has THEN polTask[newestTask(a)].status ELSE "none"
    IN CASE status \in {"failed", "cancelled"} -> "task_failed"
         [] status = "leased" -> "task_running"
         [] status = "finished" -> "task_finished"
         [] supersededBy(a) # {} -> "plan_superseded"
         [] ~polNode.exists -> "node_unknown"
         [] nodeStatusFor = "disabled" -> "node_disabled"
         [] nodeStatusFor = "never_reported" -> "node_never_reported"
         [] nodeStatusFor = "offline" -> "node_offline"
         [] ~resolveNodeCapability -> "capability_excluded"
         [] ~has -> "not_queued"
         [] OTHER -> "task_queued"

Blocked(a) == approvalWait(a) \notin {"task_running", "task_queued"}

Clock == Cardinality({a \in PolApprovals : polApproval[a] # None})

(* ---- writes ------------------------------------------------------------- *)

UpsertApproval(a, row) == polApproval' = [polApproval EXCEPT ![a] = row]
Return(c) == polCall' = [polCall EXCEPT ![c] = None]
Continue(c, rec) == polCall' = [polCall EXCEPT ![c] = rec]
Free(c) == polCall[c] = None
PolAt(c, step) == polCall[c] # None /\ polCall[c].step = step
(* bound: a plan is made only while an approval id is free for it *)
RoomToPlan == Cardinality({a \in PolApprovals : polApproval[a] = None})
              > Cardinality({c \in PolCalls : PolAt(c, "plan") \/ PolAt(c, "submit")})
Write == polWrites < MaxWrites /\ polWrites' = polWrites + 1

(* ---- intent ------------------------------------------------------------- *)

(* handleNetPolicy: the same intent keeps its plan and its error. *)
Edited(old, i) ==
    IF old # None /\ old.intent = i THEN [old EXCEPT !.derived = FALSE]
    ELSE [intent |-> i, derived |-> FALSE, sha |-> None,
          error |-> IF old = None THEN "" ELSE "changed", applied |-> None]

handleNetPolicy(c, i) ==
    /\ Free(c) /\ Write /\ polNode.exists
    /\ Continue(c, [step |-> "edit", policy |-> Edited(polPolicy, i)])
    /\ UNCHANGED <<polPolicy, polGroup, fleet, polApproval, polTask, polNode, polCap, nodeRan>>

UpsertNetPolicy(c) ==
    /\ PolAt(c, "edit") /\ polPolicy' = polCall[c].policy /\ Return(c)
    /\ UNCHANGED <<polGroup, fleet, polApproval, polTask, polNode, polCap, polWrites, nodeRan>>

handleDeleteNetPolicy ==
    /\ Write /\ polPolicy # None /\ polPolicy' = None
    /\ UNCHANGED <<polGroup, fleet, polApproval, polTask, polNode, polCap, polCall, nodeRan>>

(* upsertGroupPolicy, handleDeleteGroupPolicy and membership: what covers the node. *)
upsertGroupPolicy(i) ==
    /\ Write /\ polGroup' = i /\ polGroup' # polGroup
    /\ UNCHANGED <<polPolicy, fleet, polApproval, polTask, polNode, polCap, polCall, nodeRan>>

(* ---- planning ----------------------------------------------------------- *)

(* handleNetPolicyPlan reads the stored policy and stamps the plan's hash on it. *)
handleNetPolicyPlan(c) ==
    /\ Free(c) /\ RoomToPlan /\ polPolicy # None
    /\ Continue(c, [step |-> "plan", policy |-> [polPolicy EXCEPT !.sha = PolPlan(polPolicy.intent), !.error = ""]])
    /\ UNCHANGED <<polPolicy, polGroup, fleet, polApproval, polTask, polNode, polCap, polWrites, nodeRan>>

(* handleGroupPolicyPlan skips a node whose policy was written by hand. *)
handleGroupPolicyPlan(c) ==
    /\ Free(c) /\ RoomToPlan /\ polGroup # None /\ polNode.exists
    /\ polPolicy # None => polPolicy.derived
    /\ Continue(c, [step |-> "plan", policy |-> [intent |-> polGroup, derived |-> TRUE, sha |-> PolPlan(polGroup),
                                                 error |-> "", applied |-> None]])
    /\ UNCHANGED <<polPolicy, polGroup, fleet, polApproval, polTask, polNode, polCap, polWrites, nodeRan>>

StorePlan(c) ==
    /\ PolAt(c, "plan")
    /\ polPolicy' = polCall[c].policy
    /\ Continue(c, [step |-> "submit", plan |-> polCall[c].policy.sha])
    /\ UNCHANGED <<polGroup, fleet, polApproval, polTask, polNode, polCap, polWrites, nodeRan>>

countPolicyApprovalsToday == Cardinality({a \in PolApprovals : polApproval[a] # None /\ polApproval[a].by = Rule})

(* approvalPolicyMu: one automatic decision at a time. *)
RuleBusy == \E c \in PolCalls : polCall[c] # None /\ polCall[c].step \in {"approve", "queue"} /\ polCall[c].by = Rule

submitApproval(c) ==
    \E a \in PolApprovals :
        LET row == [plan |-> polCall[c].plan, status |-> "pending", by |-> None, at |-> Clock]
            auto == AutoRules # {} /\ (DailyCap = 0 \/ countPolicyApprovalsToday < DailyCap)
        IN /\ PolAt(c, "submit") /\ polApproval[a] = None /\ ~(auto /\ RuleBusy)
           /\ UpsertApproval(a, row)
           /\ IF auto THEN \E q \in AutoRules : Continue(c, [step |-> "approve", id |-> a, row |-> row, by |-> Rule, queue |-> q = "queue"])
              ELSE Return(c)
           /\ UNCHANGED <<polPolicy, polGroup, fleet, polTask, polNode, polCap, polWrites, nodeRan>>

(* ---- deciding ----------------------------------------------------------- *)

handleApprove(c, a, queue) ==
    /\ Free(c) /\ polApproval[a] # None /\ polApproval[a].status = "pending"
    /\ Continue(c, [step |-> "approve", id |-> a, row |-> polApproval[a], by |-> Operator, queue |-> queue])
    /\ UNCHANGED <<polPolicy, polGroup, fleet, polApproval, polTask, polNode, polCap, polWrites, nodeRan>>

(* approveApprovalCore up to UpsertApproval: the checks read the store, the row written is the one read. *)
approveApprovalCore(c) ==
    LET k == polCall[c] IN
    /\ PolAt(c, "approve")
    /\ IF resolveNodeCapability /\ PolCurrent(k.row)
       THEN /\ UpsertApproval(k.id, [k.row EXCEPT !.status = "approved", !.by = k.by])
            /\ IF k.queue THEN Continue(c, [k EXCEPT !.step = "queue"]) ELSE Return(c)
       ELSE Return(c) /\ UNCHANGED polApproval
    /\ UNCHANGED <<polPolicy, polGroup, fleet, polTask, polNode, polCap, polWrites, nodeRan>>

(* queueTask checks the capability again; a refusal leaves the approval approved. *)
queueTaskFor(c) ==
    LET k == polCall[c] IN
    /\ PolAt(c, "queue")
    /\ polTask' = IF resolveNodeCapability /\ polTask[<<k.id, c>>] = None
                  THEN [polTask EXCEPT ![<<k.id, c>>] = [status |-> "queued", plan |-> k.row.plan,
                                                         at |-> Cardinality({t \in TaskSlots : polTask[t] # None})]]
                  ELSE polTask
    /\ Return(c)
    /\ UNCHANGED <<polPolicy, polGroup, fleet, polApproval, polNode, polCap, polWrites, nodeRan>>

handleRejectApproval(c, a) ==
    /\ Free(c) /\ polApproval[a] # None /\ polApproval[a].status = "pending"
    /\ Continue(c, [step |-> "reject", id |-> a, row |-> [polApproval[a] EXCEPT !.status = "rejected"]])
    /\ UNCHANGED <<polPolicy, polGroup, fleet, polApproval, polTask, polNode, polCap, polWrites, nodeRan>>

rejectApprovalWithReason(c) ==
    /\ PolAt(c, "reject") /\ UpsertApproval(polCall[c].id, polCall[c].row) /\ Return(c)
    /\ UNCHANGED <<polPolicy, polGroup, fleet, polTask, polNode, polCap, polWrites, nodeRan>>

(* ---- the task on the node ----------------------------------------------- *)

(* Delivery (TaskQueue): a queued task of an enabled node is leased when the node polls. *)
PolLeaseTask(t) ==
    /\ polTask[t] # None /\ polTask[t].status = "queued"
    /\ polNode.exists /\ ~polNode.disabled /\ polNode.online
    /\ polTask' = [polTask EXCEPT ![t].status = "leased"]
    /\ UNCHANGED <<polPolicy, polGroup, fleet, polApproval, polNode, polCap, polCall, polWrites, nodeRan>>

\* Mutant: every result is stored as a success.
AddAnyTaskResult(c, t, ok) ==
    /\ Free(c) /\ polTask[t] # None /\ polTask[t].status = "leased" /\ polNode.online /\ ~polNode.disabled
    /\ polTask' = [polTask EXCEPT ![t].status = IF ok THEN "finished" ELSE "failed"]
    /\ nodeRan' = nodeRan \cup (IF ok THEN {t} ELSE {})
    /\ Continue(c, [step |-> "result", id |-> t[1], ok |-> TRUE])
    /\ UNCHANGED <<polPolicy, polGroup, fleet, polApproval, polNode, polCap, polWrites>>

(* handleAgentTaskResult: the result is stored; the approval is handled after it. *)
PolAddTaskResult(c, t, ok) ==
    /\ Free(c) /\ polTask[t] # None /\ polTask[t].status = "leased" /\ polNode.online /\ ~polNode.disabled
    /\ polTask' = [polTask EXCEPT ![t].status = IF ok THEN "finished" ELSE "failed"]
    /\ nodeRan' = nodeRan \cup (IF ok THEN {t} ELSE {})
    /\ Continue(c, [step |-> "result", id |-> t[1], ok |-> ok])
    /\ UNCHANGED <<polPolicy, polGroup, fleet, polApproval, polNode, polCap, polWrites>>

(* The retry limits and the stall timer of the queue, and an operator's cancel. *)
EndTask(t) ==
    /\ polTask[t] # None /\ polTask[t].status \in {"queued", "leased"}
    /\ \E s \in {"failed", "cancelled"} : polTask' = [polTask EXCEPT ![t].status = s]
    /\ Write
    /\ UNCHANGED <<polPolicy, polGroup, fleet, polApproval, polNode, polCap, polCall, nodeRan>>

(* handleApprovalTaskResult reads approval and policy, then writes both, one after the other. *)
handleApprovalTaskResult(c) ==
    LET k == polCall[c]
        p == polPolicy
        row == polApproval[k.id]
        stale == row.plan # p.sha
        rejected == [row EXCEPT !.status = "rejected"]
    IN /\ PolAt(c, "result")
       /\ IF row = None \/ p = None THEN Return(c)
          ELSE IF ~stale /\ k.ok
          THEN Continue(c, [step |-> "first", row |-> [row EXCEPT !.status = "applied"], id |-> k.id,
                            policy |-> [p EXCEPT !.applied = row.plan, !.error = ""]])
          ELSE Continue(c, [step |-> "second", row |-> rejected, id |-> k.id,
                            policy |-> [p EXCEPT !.error = IF stale THEN "stale" ELSE "failed"]])
       /\ UNCHANGED <<polPolicy, polGroup, fleet, polApproval, polTask, polNode, polCap, polWrites, nodeRan>>

(* Success: the approval, then the policy. *)
MarkApplied(c) ==
    LET k == polCall[c] IN
    /\ PolAt(c, "first") /\ UpsertApproval(k.id, k.row)
    /\ Continue(c, [step |-> "edit", policy |-> k.policy])
    /\ UNCHANGED <<polPolicy, polGroup, fleet, polTask, polNode, polCap, polWrites, nodeRan>>

(* Failure: the policy, then the approval. *)
MarkFailed(c) ==
    LET k == polCall[c] IN
    /\ PolAt(c, "second") /\ polPolicy' = k.policy
    /\ Continue(c, [step |-> "reject", id |-> k.id, row |-> k.row])
    /\ UNCHANGED <<polGroup, fleet, polApproval, polTask, polNode, polCap, polWrites, nodeRan>>

(* ---- the node and the settings ------------------------------------------ *)

ChangeFleet ==
    /\ fleet < MaxFleet /\ fleet' = fleet + 1
    /\ UNCHANGED <<polPolicy, polGroup, polApproval, polTask, polNode, polCap, polCall, polWrites, nodeRan>>

Report ==
    /\ polNode.exists /\ ~polNode.disabled /\ ~polNode.online
    /\ polNode' = [polNode EXCEPT !.online = TRUE, !.reported = TRUE]
    /\ UNCHANGED <<polPolicy, polGroup, fleet, polApproval, polTask, polCap, polCall, polWrites, nodeRan>>

MarkStaleNodesOffline ==
    /\ Write /\ polNode.online /\ polNode' = [polNode EXCEPT !.online = FALSE]
    /\ UNCHANGED <<polPolicy, polGroup, fleet, polApproval, polTask, polCap, polCall, nodeRan>>

SetNodeDisabled ==
    /\ Write /\ polNode.exists /\ polNode' = [polNode EXCEPT !.disabled = ~@]
    /\ UNCHANGED <<polPolicy, polGroup, fleet, polApproval, polTask, polCap, polCall, nodeRan>>

(* buildNodeCascadeLocked: policy, approvals and tasks of the node go with it. *)
PolDeleteNode ==
    /\ Write /\ polNode.exists
    /\ polNode' = [polNode EXCEPT !.exists = FALSE, !.online = FALSE]
    /\ polPolicy' = None /\ polGroup' = None
    /\ polApproval' = [a \in PolApprovals |-> None] /\ polTask' = [t \in TaskSlots |-> None]
    /\ UNCHANGED <<fleet, polCap, polCall, nodeRan>>

handleNodeCapabilities ==
    /\ Write /\ polNode.exists
    /\ \E r \in {"none", "enrolled", "excluded"}, e \in BOOLEAN :
           polCap' = [record |-> r, enforced |-> e] /\ polCap' # polCap
    /\ UNCHANGED <<polPolicy, polGroup, fleet, polApproval, polTask, polNode, polCall, nodeRan>>

(* A restart drops the handlers in flight, wherever they are. *)
PolRestart ==
    /\ Write /\ polCall' = [c \in PolCalls |-> None] /\ polCall' # polCall
    /\ UNCHANGED <<polPolicy, polGroup, fleet, polApproval, polTask, polNode, polCap, nodeRan>>

PolInit ==
    /\ polPolicy = None /\ polGroup = None /\ fleet = 0
    /\ polApproval = [a \in PolApprovals |-> None] /\ polTask = [t \in TaskSlots |-> None]
    /\ polNode = [exists |-> TRUE, disabled |-> FALSE, online |-> FALSE, reported |-> FALSE]
    /\ polCap = [record |-> "none", enforced |-> FALSE]
    /\ polCall = [c \in PolCalls |-> None] /\ polWrites = 0 /\ nodeRan = {}

Handle(c) == \/ UpsertNetPolicy(c) \/ StorePlan(c) \/ submitApproval(c) \/ approveApprovalCore(c) \/ queueTaskFor(c)
             \/ rejectApprovalWithReason(c) \/ handleApprovalTaskResult(c) \/ MarkApplied(c) \/ MarkFailed(c)

PolNext ==
    \/ \E c \in PolCalls :
         \/ \E i \in Intents : handleNetPolicy(c, i)
         \/ handleNetPolicyPlan(c) \/ handleGroupPolicyPlan(c)
         \/ \E a \in PolApprovals : (\E q \in BOOLEAN : handleApprove(c, a, q)) \/ handleRejectApproval(c, a)
         \/ \E t \in TaskSlots, ok \in BOOLEAN : PolAddTaskResult(c, t, ok)
         \/ Handle(c)
    \/ handleDeleteNetPolicy \/ \E i \in Intents \cup {None} : upsertGroupPolicy(i)
    \/ \E t \in TaskSlots : PolLeaseTask(t) \/ EndTask(t)
    \/ ChangeFleet \/ Report \/ MarkStaleNodesOffline \/ SetNodeDisabled \/ PolDeleteNode
    \/ handleNodeCapabilities \/ PolRestart

PolSpec == PolInit /\ [][PolNext]_polVars

(* ---- properties --------------------------------------------------------- *)

Policies == [intent : Intents, derived : BOOLEAN, sha : Maybe(Intents \X (0..MaxFleet)),
             error : {"", "changed", "stale", "failed"}, applied : Maybe(Intents \X (0..MaxFleet))]

(* Types of the stored rows. *)
PolTypeOK ==
    /\ polPolicy \in Maybe(Policies) /\ polGroup \in Maybe(Intents)
    /\ \A a \in PolApprovals : polApproval[a] # None =>
         polApproval[a].status \in {"pending", "approved", "applied", "rejected"} /\ polApproval[a].by \in {None, Operator, Rule}
    /\ \A t \in TaskSlots : polTask[t] # None => polTask[t].status \in {"queued", "leased"} \cup Settled

(* Applied is never claimed for a change the node did not make: an approval marked applied, and a    *)
(* plan recorded as the policy's last applied one, was run with success by the node, whatever order   *)
(* approvals, re-plans, rejections, results and restarts came in (handleApprovalTaskResult).          *)
AppliedRan ==
    /\ \A a \in PolApprovals : polApproval[a] # None /\ polApproval[a].status = "applied" => \E t \in nodeRan : t[1] = a
    /\ polPolicy # None /\ polPolicy.applied # None /\ polNode.exists =>
         \E t \in nodeRan : polTask[t] # None /\ polTask[t].plan = polPolicy.applied

(* The operator is shown the approved change as queued or running (approvalWait). *)
ShownWaiting(a) == IF polApproval[a] = None THEN FALSE ELSE polApproval[a].status = "approved" /\ ~Blocked(a)

(* The rows of the policy flow stay well formed and claim only what the node ran (handleApprovalTaskResult).   *)
PolicyFlowSound == PolTypeOK /\ AppliedRan

==============================================================================
