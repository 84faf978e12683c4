---- MODULE MCFleet ----
(* The components that act on the nodes of the fleet. *)
EXTENDS AgentInstall, AgentUpdate, AgentArtifacts, SSHGuard, FleetGroups, Machines, PluginPool, PluginRuntime, TLC

VARIABLE focus   \* the component this behaviour exercises; the others rest in their initial state

MCPlatformOf == [d \in {"d1", "d2"} |-> "p"]
MCUpdPlans == <<"d2", "d1">>

MCReqs == {[fw |-> TRUE, seq |-> 1, rotate |-> FALSE], [fw |-> TRUE, seq |-> 2, rotate |-> TRUE]}

MCGroupReq == {[parent |-> None, members |-> {"n1"}, leader |-> "n1"], [parent |-> "g1", members |-> {}, leader |-> None]}
MCPolReq == {[nodes |-> {"n1"}, exclude |-> {}, groups |-> {}, remoteNodes |-> {}, remoteGroups |-> {"g1"}, version |-> 0], [nodes |-> {}, exclude |-> {"n1"}, groups |-> {"g1"}, remoteNodes |-> {"n1"}, remoteGroups |-> {}, version |-> 0]}
MCParents == {[g \in {"g1", "g2"} |-> IF g = "g1" THEN "g2" ELSE None], [g \in {"g1"} |-> "g2"]}
MCSee == {{"n1"}}

MCMonths == <<0, 3, 5, 8>>
MCTerms == {[next |-> 3, cycle |-> None, auto |-> FALSE, enabled |-> None, offsets |-> None], [next |-> 2, cycle |-> [unit |-> "months", n |-> 1], auto |-> TRUE, enabled |-> TRUE, offsets |-> {1}], [next |-> 0, cycle |-> [unit |-> "days", n |-> 1], auto |-> TRUE, enabled |-> None, offsets |-> {0, 1}]}

vars == <<focus, instVars, updVars, artVars, sshVars, grpVars, macVars, poolVars, runVars>>

Init ==
  /\ focus \in {"AgentInstall", "AgentUpdate", "AgentArtifacts", "SSHGuard", "FleetGroups", "Machines", "PluginPool", "PluginRuntime"}
  /\ InstInit /\ (focus = "AgentInstall" \/ (honest = {} /\ chunkOn))
  /\ UpdInit
  /\ ArtInit
  /\ SshInit
  /\ GrpInit
  /\ MacInit
  /\ PoolInit
  /\ RunInit

Next ==
  /\ UNCHANGED focus
  /\ \/ focus = "AgentInstall" /\ InstNext /\ UNCHANGED <<updVars, artVars, sshVars, grpVars, macVars, poolVars, runVars>>
     \/ focus = "AgentUpdate" /\ UpdNext /\ UNCHANGED <<instVars, artVars, sshVars, grpVars, macVars, poolVars, runVars>>
     \/ focus = "AgentArtifacts" /\ ArtNext /\ UNCHANGED <<instVars, updVars, sshVars, grpVars, macVars, poolVars, runVars>>
     \/ focus = "SSHGuard" /\ SshNext /\ UNCHANGED <<instVars, updVars, artVars, grpVars, macVars, poolVars, runVars>>
     \/ focus = "FleetGroups" /\ GrpNext /\ UNCHANGED <<instVars, updVars, artVars, sshVars, macVars, poolVars, runVars>>
     \/ focus = "Machines" /\ MacNext /\ UNCHANGED <<instVars, updVars, artVars, sshVars, grpVars, poolVars, runVars>>
     \/ focus = "PluginPool" /\ PoolNext /\ UNCHANGED <<instVars, updVars, artVars, sshVars, grpVars, macVars, runVars>>
     \/ focus = "PluginRuntime" /\ RunNext /\ UNCHANGED <<instVars, updVars, artVars, sshVars, grpVars, macVars, poolVars>>

Spec == Init /\ [][Next]_vars

(* Only the pinned bytes are installed, a source is blamed only for bytes it served, and the time charged
   stays in the budget, wherever an attempt is cut short (agentUpdateApplyScript). *)
InstallHolds == focus = "AgentInstall" => InstallSound

(* An update approval is applied only after its task was handed out, and stays applied whatever a result, a
   listing or a heartbeat finds in between (handleAgentUpdateTaskResult). *)
UpdatesHold == [](focus = "AgentUpdate" => UpdatesSound) /\ ProvenStaysApplied

(* A download is the pinned bytes or refused for a reason and gives its place back; no plan or registry is
   used after it moved on (handleAgentArtifactDownload, ApplyAgentMirrorPlan). *)
ArtifactsHold == [](focus = "AgentArtifacts" => ArtifactsSound) /\ PlansStand

(* A gate can be opened or is coming down, and an arm shown as permanent has no revert pending (armScript,
   handleSSHGuardConfirm). *)
SSHGuardHolds == focus = "SSHGuard" => SSHGuardSound

(* Deleting nodes and editing groups and policies side by side leaves rows that name what exists, and a tree
   (DeleteNode, UpsertGroup). *)
GroupsHold == focus = "FleetGroups" => GroupsSound

(* A reminder run leaves nothing to send today, repeats nothing and rolls dates past today
   (runMachineReminders). *)
MachinesHold == focus = "Machines" => MachinesSound

(* A leased worker has one holder, the counters are the books, and a drained pool holds nothing
   (system_pool.go). *)
PoolHolds == focus = "PluginPool" => PoolSound

(* One generation serves or is about to be retired, and a stopped plugin has none (runtime manager). *)
RuntimeHolds == focus = "PluginRuntime" => RuntimeSound
====
