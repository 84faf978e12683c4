---------------------------- MODULE LineChain ----------------------------
(***************************************************************************)
(* Line chaining: a sing-box line of one node forwards to a managed line   *)
(* of another.  A change is compiled from a snapshot, planned with an      *)
(* approval, approved together with its task, leased once to the source    *)
(* node, and committed by the task's result (store/line_chain.go,          *)
(* server/server_linechain.go, the lease path of store.go).  Digests are   *)
(* the values they are digests of.                                         *)
(***************************************************************************)
EXTENDS Common, Naturals, FiniteSets

CONSTANTS
    Lines,            \* line uuids
    NodeOf,           \* line -> the node it runs on
    ChainApprovals,   \* approval ids, each planned at most once
    MaxEdits,         \* bound: line -> edits of its managed definition
    HandEdits,        \* bound: edits made on a host behind the server's back
    AppendFails       \* whether an audit append may fail after its commit

ASSUME LineChainAssumption ==
    /\ IsFiniteSet(Lines) /\ MaxEdits \in [Lines -> Nat] /\ HandEdits \in Nat /\ AppendFails \in BOOLEAN
    /\ ChainApprovals # {}

Unlisted == "unlisted"    \* a line no inventory lists
NoDef == [target |-> None, gen |-> 0, frag |-> None, art |-> None, status |-> "none", drift |-> "", by |-> None]

Fragment == Maybe(Lines \X Nat)
Artifacts == [prev : Fragment, frag : Fragment, expected : Maybe(Lines), desired : Maybe(Lines)]

\* LineChainDefinition and LineChainAttempt
Definition == [target : Maybe(Lines), gen : Nat, frag : Fragment, art : Maybe(Artifacts),
               status : {"none", "applied_unobserved", "converged", "drifted"},
               drift : {"", "source_missing", "target_missing", "inputs_changed",
                        "observed_mismatch", "remove_artifacts_present"},
               by : Maybe(ChainApprovals)]
Attempt == [op : {"set", "remove"}, source : Lines, target : Maybe(Lines),
            baseGen : Nat, baseArt : Maybe(Artifacts), frag : Fragment, art : Artifacts, rev : Nat,
            status : {"compiled", "planned", "applying", "failed"}, issued : BOOLEAN]

ApprovalStatus == {"pending", "approved", "applied", "rejected"}
ChainTaskStatus == {"queued", "leased", "cancelled", "finished"}
JobStatus == {"held", "ok", "failed", "done"}

\* Nothing is none of the things it stands in for.
ASSUME NoneAssumption ==
    None \notin Lines \cup (Lines \X Nat) \cup Attempt \cup ApprovalStatus \cup ChainTaskStatus \cup JobStatus

VARIABLES
    chainNodes,   \* State.Nodes: the nodes the server knows
    seen,         \* singboxInv: line -> Unlisted, or the downstream the node last reported (memory)
    managed,      \* line -> version of its managed definition and credential, or None
    chainDef,     \* State.LineChainDefinitions
    attempt,      \* State.LineChainAttempts: approval -> attempt or None
    chainApproval,\* State.Approvals: approval -> status or None
    chainTask,    \* State.Tasks: approval -> status of its task or None
    graphRev,     \* State.LineChainGraphRevision
    unlogged,     \* State.LineChainAuditEvidence not yet in the audit log
    draft,        \* handlers that compiled a plan and have not stored it
    checked,      \* handlers that validated an approval and have not stored it
    host,         \* external: line -> the downstream its sing-box really has
    job,          \* external: the agent's journal of an approval's lease
    handEdited    \* history: lines edited on the host by hand

chainVars == <<chainNodes, seen, managed, chainDef, attempt, chainApproval, chainTask, graphRev,
               unlogged, draft, checked, host, job, handEdited>>

Graph == INSTANCE LineGraph WITH downstream <- [l \in Lines |-> chainDef[l].target],
                                 generation <- [l \in Lines |-> chainDef[l].gen]

(* ---- the graph ---------------------------------------------------------- *)

\* Mutant: changes being applied are left out of the cycle check.
EdgesOfDefinitions(defs, atts) ==
    {<<l, defs[l].target>> : l \in {x \in Lines : defs[x].target # None}}

Edges(defs, atts) ==
    {<<l, defs[l].target>> : l \in {x \in Lines : defs[x].target # None}}
    \cup {<<atts[a].source, atts[a].target>> :
            a \in {x \in ChainApprovals : atts[x] # None /\ atts[x].status = "applying" /\ atts[x].target # None}}

lineChainGraphHasCycle(defs, atts) == Graph!Loops(Edges(defs, atts))

WouldCreateLineChainCycle(s, t) == Graph!Loops(Edges(chainDef, attempt) \cup {<<s, t>>})

(* ---- compiling a change ------------------------------------------------- *)

Listed(l) == NodeOf[l] \in chainNodes /\ seen[l] # Unlisted

(* The reported downstream may lag behind the committed one, never differ from it. *)
ObservedAgrees(s) == seen[s] \in {None, chainDef[s].target}

Artifact(prev, frag, expected, desired) ==
    [prev |-> prev, frag |-> frag, expected |-> expected, desired |-> desired]

Compiled(op, s, t, frag) ==
    [op |-> op, source |-> s, target |-> t, baseGen |-> chainDef[s].gen, baseArt |-> chainDef[s].art,
     frag |-> frag, art |-> Artifact(chainDef[s].frag, frag, chainDef[s].target, t),
     rev |-> graphRev, status |-> "compiled", issued |-> FALSE]

compileLineChainSnapshot(s, t) ==
    IF /\ s # t /\ Listed(s) /\ Listed(t) /\ NodeOf[s] # NodeOf[t] /\ managed[t] # None
       /\ ~WouldCreateLineChainCycle(s, t)
       /\ ObservedAgrees(s)
    THEN Compiled("set", s, t, <<t, managed[t]>>) ELSE None

compileLineChainRemoveSnapshot(s) ==
    IF chainDef[s].target # None /\ Listed(s) /\ ObservedAgrees(s)
    THEN Compiled("remove", s, None, None) ELSE None

Recompiled(op, s, t) == IF op = "remove" THEN compileLineChainRemoveSnapshot(s) ELSE compileLineChainSnapshot(s, t)

(* A plan still compiles to the artifact that was reviewed. *)
SameArtifact(c, p) == c # None /\ c.art = p.art

(* ---- committing --------------------------------------------------------- *)

(* Evidence is stored with the transition, then appended to the audit log. *)
Evidence(new) == unlogged' \in IF AppendFails THEN {unlogged, unlogged \cup new} ELSE {unlogged}

Staled(a) == [attempt EXCEPT ![a].status = "failed"]

(* rejectLineChainApprovalLocked: approval, attempt and task change together. *)
rejectLineChainApprovalLocked(a) ==
    /\ chainApproval' = [chainApproval EXCEPT ![a] = "rejected"]
    /\ attempt' = Staled(a)
    /\ chainTask' = [chainTask EXCEPT ![a] = IF @ = None THEN None ELSE "cancelled"]
    /\ Evidence({<<"failed", a>>})

Rejectable(a) == chainApproval[a] = "pending" /\ attempt[a] # None /\ attempt[a].status = "planned"

BaseMoved(p) == chainDef[p.source].gen # p.baseGen \/ chainDef[p.source].art # p.baseArt

(* ---- actions ------------------------------------------------------------ *)

ChainInit ==
    /\ chainNodes = {NodeOf[l] : l \in Lines}
    /\ seen = [l \in Lines |-> Unlisted]
    /\ managed = [l \in Lines |-> 0]
    /\ chainDef = [l \in Lines |-> NoDef]
    /\ attempt = [a \in ChainApprovals |-> None] /\ draft = [a \in ChainApprovals |-> None]
    /\ chainApproval = [a \in ChainApprovals |-> None] /\ chainTask = [a \in ChainApprovals |-> None]
    /\ job = [a \in ChainApprovals |-> None]
    /\ graphRev = 0 /\ unlogged = {} /\ checked = {} /\ handEdited = {}
    /\ host = [l \in Lines |-> None]

(* A plan request compiles the change from a snapshot of the state. *)
compileLineChain(a, s, t) ==
    /\ chainApproval[a] = None /\ draft[a] = None /\ job[a] = None
    /\ LET c == IF t = None THEN compileLineChainRemoveSnapshot(s) ELSE compileLineChainSnapshot(s, t)
       IN c # None /\ draft' = [draft EXCEPT ![a] = c]
    /\ UNCHANGED <<chainNodes, seen, managed, chainDef, attempt, chainApproval, chainTask, graphRev,
                   unlogged, checked, host, job, handEdited>>

(* and stores it if nothing moved since; a second plan of the same change   *)
(* answers with the first, any other plan of the source is refused.         *)
planLineChainLocked(a) ==
    LET c == draft[a]
        rivals == {x \in ChainApprovals : attempt[x] # None /\ attempt[x].source = c.source}
    IN /\ c # None
       /\ draft' = [draft EXCEPT ![a] = None]
       /\ IF \/ c.rev # graphRev \/ BaseMoved(c)
             \/ \E x \in rivals : attempt[x].status # "failed"
          THEN UNCHANGED <<attempt, chainApproval, unlogged>>
          ELSE /\ attempt' = [x \in ChainApprovals |->
                                IF x = a THEN [c EXCEPT !.status = "planned"]
                                ELSE IF x \in rivals THEN None ELSE attempt[x]]
               /\ chainApproval' = [chainApproval EXCEPT ![a] = "pending"]
               /\ Evidence({<<"plan", a>>})
       /\ UNCHANGED <<chainNodes, seen, managed, chainDef, chainTask, graphRev, checked, host, job, handEdited>>

(* Approving first recompiles the plan: a change rejects it as stale. *)
validateLineChainApprovalForQueue(a) ==
    /\ chainApproval[a] = "pending" /\ a \notin checked
    /\ IF SameArtifact(Recompiled(attempt[a].op, attempt[a].source, attempt[a].target), attempt[a])
       THEN checked' = checked \cup {a} /\ UNCHANGED <<attempt, chainApproval, chainTask, unlogged>>
       ELSE UNCHANGED checked /\ Rejectable(a) /\ rejectLineChainApprovalLocked(a)
    /\ UNCHANGED <<chainNodes, seen, managed, chainDef, graphRev, draft, host, job, handEdited>>

(* then queues the task with the approval, in one write of the state file. *)
ApproveLineChain(a) ==
    LET applying == [attempt EXCEPT ![a].status = "applying"]
    IN /\ a \in checked /\ checked' = checked \ {a}
       /\ IF ~Rejectable(a)
          THEN UNCHANGED <<attempt, chainApproval, chainTask, graphRev, unlogged>>
          ELSE IF attempt[a].rev # graphRev \/ BaseMoved(attempt[a]) \/ lineChainGraphHasCycle(chainDef, applying)
          THEN rejectLineChainApprovalLocked(a) /\ UNCHANGED graphRev
          ELSE /\ attempt' = applying
               /\ graphRev' = graphRev + 1
               /\ chainApproval' = [chainApproval EXCEPT ![a] = "approved"]
               /\ chainTask' = [chainTask EXCEPT ![a] = "queued"]
               /\ Evidence({<<"approve", a>>})
       /\ UNCHANGED <<chainNodes, seen, managed, chainDef, draft, host, job, handEdited>>

RejectLineChainApproval(a) ==
    /\ Rejectable(a) /\ rejectLineChainApprovalLocked(a)
    /\ UNCHANGED <<chainNodes, seen, managed, chainDef, graphRev, draft, checked, host, job, handEdited>>

(* The last look before the script leaves the server: same base, no loop,   *)
(* and the plan still compiles to the reviewed artifact.                    *)
validateLineChainFirstLease(a) ==
    /\ ~BaseMoved(attempt[a]) /\ ~lineChainGraphHasCycle(chainDef, attempt)
    /\ SameArtifact(Recompiled(attempt[a].op, attempt[a].source, attempt[a].target), attempt[a])

(* The durable tasks a node may be given. *)
Gated(a, n) ==
    /\ attempt[a] # None /\ attempt[a].status = "applying"
    /\ NodeOf[attempt[a].source] = n /\ chainApproval[a] = "approved"

(* The events still missing from the audit log after a repair. *)
repairLineChainAuditEvidence == {}

(* An agent polls.  A lease it already has is delivered again; otherwise    *)
(* its queued task is leased or, when stale, cancelled.  Missing audit      *)
(* events are appended on the way out.                                      *)
leaseTaskDeliveries(n) ==
    LET mine == {a \in ChainApprovals : Gated(a, n)}
        held == {a \in mine : chainTask[a] = "leased"}
        fresh == IF held = {} THEN {a \in mine : chainTask[a] = "queued"} ELSE {}
        stale == {a \in fresh : ~validateLineChainFirstLease(a)}
        leased == fresh \ stale
    IN /\ n \in chainNodes
       /\ chainTask' = [a \in ChainApprovals |-> IF a \in stale THEN "cancelled"
                                                 ELSE IF a \in leased THEN "leased" ELSE chainTask[a]]
       /\ chainApproval' = [a \in ChainApprovals |-> IF a \in stale THEN "rejected" ELSE chainApproval[a]]
       /\ attempt' = [a \in ChainApprovals |-> IF a \in stale THEN [attempt[a] EXCEPT !.status = "failed"]
                                               ELSE IF a \in leased THEN [attempt[a] EXCEPT !.issued = TRUE]
                                               ELSE attempt[a]]
       /\ graphRev' = graphRev + Cardinality(stale)
       /\ job' = [a \in ChainApprovals |-> IF a \in held \cup leased /\ job[a] = None THEN "held" ELSE job[a]]
       /\ unlogged' = repairLineChainAuditEvidence
       /\ UNCHANGED <<chainNodes, seen, managed, chainDef, draft, checked, host, handEdited>>

(* External: the script applies only over the downstream it expects. *)
RunScript(a) ==
    /\ job[a] = "held"
    /\ LET s == attempt[a].source
       IN \/ /\ host[s] = attempt[a].art.expected
             /\ host' = [host EXCEPT ![s] = attempt[a].art.desired]
             /\ job' = [job EXCEPT ![a] = "ok"]
          \/ job' = [job EXCEPT ![a] = "failed"] /\ UNCHANGED host
    /\ UNCHANGED <<chainNodes, seen, managed, chainDef, attempt, chainApproval, chainTask, graphRev,
                   unlogged, draft, checked, handEdited>>

(* The status a successful result commits with, against the inputs of now. *)
classifyLineChainTerminalCompiledSnapshot(p) ==
    CASE ~Listed(p.source) -> <<"drifted", "source_missing">>
      [] Listed(p.source) /\ p.op = "remove" ->
            IF BaseMoved(p) THEN <<"drifted", "inputs_changed">> ELSE <<"applied_unobserved", "">>
      [] Listed(p.source) /\ p.op = "set" ->
            IF ~Listed(p.target) THEN <<"drifted", "target_missing">>
            ELSE IF SameArtifact(compileLineChainSnapshot(p.source, p.target), p)
                 THEN <<"applied_unobserved", "">> ELSE <<"drifted", "inputs_changed">>

\* Mutant: the generation is not advanced.
CommittedAtBase(p, status, a) ==
    [target |-> p.target, gen |-> p.baseGen, frag |-> p.frag, art |-> p.art,
     status |-> status[1], drift |-> status[2], by |-> a]

Committed(p, status, a) ==
    [target |-> p.target, gen |-> p.baseGen + 1, frag |-> p.frag, art |-> p.art,
     status |-> status[1], drift |-> status[2], by |-> a]

(* A result commits definition, attempt, approval, task and receipt in one  *)
(* write; a repeat of a committed result is only acknowledged.              *)
completeLineChainTaskResultLocked(a) ==
    LET p == attempt[a]
        status == classifyLineChainTerminalCompiledSnapshot(p)
    IN /\ p # None /\ job[a] \in {"ok", "failed"}
       /\ chainTask[a] = "leased" /\ chainApproval[a] = "approved" /\ p.status = "applying" /\ p.issued
       /\ IF job[a] = "ok"
          THEN /\ chainDef' = [chainDef EXCEPT ![p.source] = Committed(p, status, a)]
               /\ attempt' = [attempt EXCEPT ![a] = None]
               /\ chainApproval' = [chainApproval EXCEPT ![a] = "applied"]
          ELSE attempt' = Staled(a) /\ UNCHANGED <<chainDef, chainApproval>>
       /\ chainTask' = [chainTask EXCEPT ![a] = "finished"]
       /\ graphRev' = graphRev + 1
       /\ Evidence({<<"terminal", a>>})
       /\ UNCHANGED <<chainNodes, seen, managed, draft, checked, host, job, handEdited>>

(* The agent hears the acknowledgement, or has to report again: the replay  *)
(* finds the receipt and repairs the terminal audit event.                  *)
ConfirmTaskResultReplay(a) ==
    /\ job[a] \in {"ok", "failed"} /\ chainTask[a] = "finished"
    /\ job' = [job EXCEPT ![a] = "done"]
    /\ unlogged' = unlogged \ {<<"terminal", a>>}
    /\ UNCHANGED <<chainNodes, seen, managed, chainDef, attempt, chainApproval, chainTask, graphRev,
                   draft, checked, host, handEdited>>

stickyLineChainDriftCode(code) == code \in {"inputs_changed", "target_missing", "source_missing"}

Reconciled(d, down) ==
    IF d.by = None \/ (d.status = "drifted" /\ stickyLineChainDriftCode(d.drift)) THEN d
    ELSE IF down = d.target THEN [d EXCEPT !.status = "converged", !.drift = ""]
    ELSE [d EXCEPT !.status = "drifted",
                   !.drift = IF d.target = None THEN "remove_artifacts_present" ELSE "observed_mismatch"]

(* A node reports its lines; definitions of its lines are compared with it. *)
reconcileLineChainsForNodeUnlocked(n, listed) ==
    /\ n \in chainNodes
    /\ LET mine == {l \in Lines : NodeOf[l] = n}
           report == [l \in mine |-> IF listed THEN host[l] ELSE Unlisted]
       IN /\ seen' = [l \in Lines |-> IF l \in mine THEN report[l] ELSE seen[l]]
          /\ chainDef' = [l \in Lines |-> IF l \notin mine THEN chainDef[l]
                            ELSE Reconciled(chainDef[l], IF listed THEN report[l] ELSE None)]
    /\ UNCHANGED <<chainNodes, managed, attempt, chainApproval, chainTask, graphRev, unlogged,
                   draft, checked, host, job, handEdited>>

(* Deleting a node: refused while one of its lines has a leased change.     *)
(* Attempts not leased yet are released, definitions of its lines go, and   *)
(* definitions that point at it are marked.                                 *)
buildNodeCascadeLocked(n) ==
    LET touching == {a \in ChainApprovals : /\ attempt[a] # None
                        /\ \/ NodeOf[attempt[a].source] = n
                           \/ attempt[a].target # None /\ NodeOf[attempt[a].target] = n}
        leased == {a \in touching : attempt[a].issued /\ attempt[a].status # "failed"}
        released == touching \ leased
        mine == {l \in Lines : NodeOf[l] = n}
        pointing == {l \in Lines \ mine : /\ chainDef[l].target \in mine
                                          /\ ~(chainDef[l].status = "drifted" /\ chainDef[l].drift = "target_missing")}
    IN /\ n \in chainNodes
       /\ \A a \in leased : NodeOf[attempt[a].source] # n
       /\ chainNodes' = chainNodes \ {n}
       /\ attempt' = [a \in ChainApprovals |-> IF a \in released THEN None ELSE attempt[a]]
       /\ chainApproval' = [a \in ChainApprovals |-> IF a \in released THEN "rejected" ELSE chainApproval[a]]
       /\ chainTask' = [a \in ChainApprovals |-> IF a \in released /\ chainTask[a] # None THEN "cancelled" ELSE chainTask[a]]
       /\ chainDef' = [l \in Lines |-> IF l \in mine THEN NoDef
                         ELSE IF l \in pointing THEN [chainDef[l] EXCEPT !.status = "drifted", !.drift = "target_missing"]
                         ELSE chainDef[l]]
       /\ managed' = [l \in Lines |-> IF l \in mine THEN None ELSE managed[l]]
       /\ graphRev' = IF touching # {} \/ pointing # {} \/ \E l \in mine : chainDef[l] # NoDef
                      THEN graphRev + 1 ELSE graphRev
       /\ seen' = [l \in Lines |-> IF l \in mine THEN Unlisted ELSE seen[l]]
       /\ UNCHANGED <<unlogged, draft, checked, host, job, handEdited>>

(* External: an operator edits a managed line, which changes its digest. *)
EditManagedLine(l) ==
    /\ managed[l] # None /\ managed[l] < MaxEdits[l]
    /\ managed' = [managed EXCEPT ![l] = @ + 1]
    /\ UNCHANGED <<chainNodes, seen, chainDef, attempt, chainApproval, chainTask, graphRev, unlogged,
                   draft, checked, host, job, handEdited>>

(* External: someone edits the configuration on the host itself. *)
EditHost(l, down) ==
    /\ Cardinality(handEdited \cup {l}) <= HandEdits /\ host[l] # down /\ down # l
    /\ host' = [host EXCEPT ![l] = down] /\ handEdited' = handEdited \cup {l}
    /\ UNCHANGED <<chainNodes, seen, managed, chainDef, attempt, chainApproval, chainTask, graphRev,
                   unlogged, draft, checked, job>>

(* A restart forgets inventories and every request in progress. *)
ChainRestart ==
    /\ seen' = [l \in Lines |-> Unlisted]
    /\ draft' = [a \in ChainApprovals |-> None] /\ checked' = {}
    /\ UNCHANGED <<chainNodes, managed, chainDef, attempt, chainApproval, chainTask, graphRev,
                   unlogged, host, job, handEdited>>

ChainNext ==
    \/ \E a \in ChainApprovals, s \in Lines, t \in Maybe(Lines) : compileLineChain(a, s, t)
    \/ \E a \in ChainApprovals :
        \/ planLineChainLocked(a) \/ validateLineChainApprovalForQueue(a) \/ ApproveLineChain(a)
        \/ RejectLineChainApproval(a) \/ RunScript(a)
        \/ completeLineChainTaskResultLocked(a) \/ ConfirmTaskResultReplay(a)
    \/ \E n \in {NodeOf[l] : l \in Lines} :
        \/ leaseTaskDeliveries(n) \/ buildNodeCascadeLocked(n)
        \/ \E listed \in BOOLEAN : reconcileLineChainsForNodeUnlocked(n, listed)
    \/ \E l \in Lines : EditManagedLine(l) \/ \E d \in Maybe(Lines) : EditHost(l, d)
    \/ ChainRestart

ChainSpec == ChainInit /\ [][ChainNext]_chainVars

(* ---- properties --------------------------------------------------------- *)

(* Every field holds what its Go type and its writers allow; an attempt     *)
(* names a source, a target only when it sets one, and one of its statuses. *)
ChainTypeOK ==
    /\ chainNodes \subseteq {NodeOf[l] : l \in Lines}
    /\ seen \in [Lines -> Lines \cup {None, Unlisted}] /\ host \in [Lines -> Maybe(Lines)]
    /\ managed \in [Lines -> Maybe(Nat)] /\ graphRev \in Nat
    /\ chainDef \in [Lines -> Definition]
    /\ \A l \in Lines : /\ (chainDef[l].status = "drifted") = (chainDef[l].drift # "")
                        /\ (chainDef[l].frag # None) = (chainDef[l].target # None)
    /\ attempt \in [ChainApprovals -> Maybe(Attempt)] /\ draft \in [ChainApprovals -> Maybe(Attempt)]
    /\ \A a \in ChainApprovals :
        attempt[a] # None => /\ attempt[a].status # "compiled"
                             /\ (attempt[a].op = "remove") = (attempt[a].target = None)
    /\ chainApproval \in [ChainApprovals -> Maybe(ApprovalStatus)]
    /\ chainTask \in [ChainApprovals -> Maybe(ChainTaskStatus)]
    /\ job \in [ChainApprovals -> Maybe(JobStatus)]
    /\ checked \subseteq ChainApprovals /\ handEdited \subseteq Lines

(* An attempt, its approval and its task, three records of the state file,  *)
(* always tell the same story: planned and pending without a task, applying *)
(* and approved with a live task, no live task without an applying attempt, *)
(* applied only with a definition's worth of work finished, and one open    *)
(* attempt per source line.  Leases, results, rejections, stale checks and  *)
(* node deletions each rewrite the three.                                   *)
BooksAgree ==
    /\ \A a \in ChainApprovals :
        LET open == attempt[a] # None /\ attempt[a].status # "failed"
        IN /\ (chainApproval[a] = "pending") = (open /\ attempt[a].status = "planned")
           /\ (chainTask[a] \in {"queued", "leased"}) = (open /\ attempt[a].status = "applying")
           /\ open /\ attempt[a].status = "applying" =>
                chainApproval[a] = "approved" /\ attempt[a].issued = (chainTask[a] = "leased")
           /\ chainApproval[a] = "applied" => chainTask[a] = "finished" /\ attempt[a] = None
           /\ open => \A b \in ChainApprovals \ {a} :
                attempt[b] = None \/ attempt[b].status = "failed" \/ attempt[b].source # attempt[a].source

(* The lines really running on the hosts never forward in a circle, unless  *)
(* someone edited a host by hand: whatever the order of plans, approvals,   *)
(* deletions, runs and late results, a host has the committed downstream of *)
(* its line or that of the one change leased to it, and those two kinds of  *)
(* edge together have no loop (the cycle check counts applying attempts).   *)
HostsNeverLoop ==
    handEdited = {} =>
        /\ ~Graph!Loops({<<l, host[l]>> : l \in {x \in Lines : host[x] # None /\ NodeOf[x] \in chainNodes}})
        /\ \A l \in Lines : NodeOf[l] \in chainNodes =>
            \/ host[l] = chainDef[l].target
            \/ \E a \in ChainApprovals : /\ attempt[a] # None /\ attempt[a].status = "applying"
                                         /\ attempt[a].issued /\ attempt[a].source = l /\ attempt[a].target = host[l]

(* A definition found stale when its result was committed, or whose target  *)
(* node is gone, stays marked until a newer change of its line is committed *)
(* or the line's own node is deleted: no inventory can talk it back to      *)
(* converged.                                                               *)
DriftSticks ==
    [][\A l \in Lines :
        chainDef[l].drift \in {"inputs_changed", "target_missing", "source_missing"} =>
            \/ chainDef'[l].gen # chainDef[l].gen
            \/ chainDef'[l].drift \in {"inputs_changed", "target_missing", "source_missing"}]_chainVars

(* The protocol implements the line graph: definitions change one line and  *)
(* one generation at a time, and the committed graph never has a loop.      *)
ImplementsLineGraph == Graph!GraphSpec

(* The three records of a change agree and the hosts never forward in a     *)
(* circle (store/line_chain.go).                                            *)
ChainSound == ChainTypeOK /\ BooksAgree /\ HostsNeverLoop

=============================================================================
