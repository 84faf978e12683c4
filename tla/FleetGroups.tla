---------------------------- MODULE FleetGroups ----------------------------
(***************************************************************************)
(* Nodes, groups of nodes and the outbound policies that name both: the    *)
(* handlers of server_groups.go and server_group_policy.go, enrolment and  *)
(* deletion of a node, and the store writes under them.  A handler reads a *)
(* snapshot, validates it and writes whole rows back, each in its own      *)
(* critical section of the store, so the requests interleave between the   *)
(* sections.  Of a group the model keeps parent, members and leader (not   *)
(* name, slug, colour or selector); of a policy its targets, exclusions,   *)
(* remotes and version.  An operator confined to some nodes reads the      *)
(* others filtered out.                                                    *)
(***************************************************************************)
EXTENDS Common, Naturals, FiniteSets

CONSTANTS
    GrpNodes, GrpIds, GrpPolicies,
    GrpCalls,           \* requests in progress at a time
    Readable,           \* the node sets an operator may be confined to
    MaxNest,            \* groupMaxNestDepth
    MaxGrpOps,          \* bound: requests in all
    MaxVersion          \* bound: versions of a policy

VARIABLES
    gNodes,             \* Nodes
    gRow,               \* Groups: [parent, members, leader]
    gPol,               \* GroupPolicies: [nodes, exclude, groups, remoteNodes, remoteGroups, version]
    gOther,             \* the groups a check definition, a security group or a guard binding names
    gCall,              \* per request: what it has read and has still to write
    gOps,               \* requests so far
    gRaced              \* [nodes: deleted under an open request that names them,
                        \*  tree: whether groups changed under, or half way through, a request]

grpVars == <<gNodes, gRow, gPol, gOther, gCall, gOps, gRaced>>

GroupRows == [parent : Maybe(GrpIds), members : SUBSET GrpNodes, leader : Maybe(GrpNodes)]
PolicyRows == [nodes : SUBSET GrpNodes, exclude : SUBSET GrpNodes, groups : SUBSET GrpIds,
               remoteNodes : SUBSET GrpNodes, remoteGroups : SUBSET GrpIds, version : 0..MaxVersion]

EmptyGroup == [parent |-> None, members |-> {}, leader |-> None]

GroupsIn(rows) == {g \in GrpIds : rows[g] # None}
OpenCalls == {c \in GrpCalls : gCall[c] # None}

-----------------------------------------------------------------------------
(* ---- the parent walk -------------------------------------------------------- *)

\* Mutant: the walk stops at the depth limit instead of refusing.
groupCycleOK_shallow(rows, g) ==
    LET up[d \in 0..MaxNest] ==
            IF d = 0 THEN g
            ELSE IF up[d-1] = None THEN None
            ELSE IF rows[up[d-1]] = None THEN None ELSE rows[up[d-1]].parent
    IN \A d \in 0..MaxNest : up[d] = None \/ (up[d] # None => rows[up[d]] # None)

(* groupCycleOK: the parents above g end at a root, all exist, and are no more than MaxNest. *)
groupCycleOK(rows, g) ==
    LET up[d \in 0..(MaxNest + 1)] ==
            IF d = 0 THEN g
            ELSE IF up[d-1] = None THEN None
            ELSE IF rows[up[d-1]] = None THEN up[d-1] ELSE rows[up[d-1]].parent
    IN \E d \in 1..(MaxNest + 1) :
           up[d] = None /\ \A e \in 0..(d-1) : up[e] # None /\ (up[e] # None => rows[up[e]] # None)

-----------------------------------------------------------------------------
(* ---- what a deletion strips -------------------------------------------------- *)

(* The cascade removes the node from a group's members and leader. *)
StripGroup(row, n) == [row EXCEPT !.members = @ \ {n}, !.leader = IF @ = n THEN None ELSE @]

(* It removes rules whose remote is the node and the node from a policy's targets, one version each; exclusions stay. *)
StripPolicy(pol, n) ==
    LET rules == IF n \in pol.remoteNodes THEN [pol EXCEPT !.remoteNodes = @ \ {n}, !.version = @ + 1] ELSE pol
    IN IF n \in rules.nodes THEN [rules EXCEPT !.nodes = @ \ {n}, !.version = @ + 1] ELSE rules

RowNames(row, n) == n \in row.members \/ row.leader = n
PolicyNames(pol, n) == n \in pol.nodes \cup pol.remoteNodes
PolicyNamesGroup(pol, g) == g \in pol.groups \cup pol.remoteGroups

(* Whether a request in progress has read, or was asked to write, the node. *)
CallNames(call, n) ==
    \/ n \in call.nodes
    \/ \E g \in DOMAIN call.rows : call.rows[g] # None /\ (call.rows[g] # None => RowNames(call.rows[g], n))
    \/ call.pol # None /\ (call.pol # None => PolicyNames(call.pol, n))

NoCall == [op |-> "none", nodes |-> {}, rows |-> <<>>, pol |-> None, id |-> None, expected |-> 0]

(* A request begins: it counts against the bound and takes a slot. *)
Begin(c, call) ==
    /\ gCall[c] = None /\ gOps < MaxGrpOps
    /\ gOps' = gOps + 1
    /\ gCall' = [gCall EXCEPT ![c] = call]

EndCall(c) == gCall' = [gCall EXCEPT ![c] = None]

(* The tree is written while another request is open. *)
TreeWritten(c) == gRaced' = [gRaced EXCEPT !.tree = @ \/ OpenCalls \ {c} # {}]

-----------------------------------------------------------------------------
(* ---- nodes ------------------------------------------------------------------- *)

(* handleEnrollNode: the groups named must exist; the node is written, then added to each group in turn. *)
handleEnrollNode(c, n, groups) ==
    /\ n \notin gNodes /\ groups \subseteq GroupsIn(gRow)
    /\ Begin(c, [NoCall EXCEPT !.op = "enroll", !.nodes = {n}, !.id = groups])
    /\ gNodes' = gNodes \cup {n}
    /\ gRaced' = [gRaced EXCEPT !.nodes = @ \ {n}]
    /\ UNCHANGED <<gRow, gPol, gOther>>

(* For each group it reads the row; a group gone, or one the node is in, is passed over. *)
EnrollReads(c) ==
    /\ gCall[c] # None /\ gCall[c].op = "enroll" /\ gCall[c].rows = <<>>
    /\ \/ /\ gCall[c].id = {}
          /\ EndCall(c)
       \/ \E g \in gCall[c].id :
            LET n == CHOOSE m \in gCall[c].nodes : TRUE
                rest == [gCall[c] EXCEPT !.id = @ \ {g}] IN
            gCall' = [gCall EXCEPT ![c] =
                IF gRow[g] = None THEN rest
                ELSE IF n \in gRow[g].members THEN rest
                ELSE [rest EXCEPT !.rows = [h \in {g} |-> [gRow[g] EXCEPT !.members = @ \cup {n}]]]]
    /\ UNCHANGED <<gNodes, gRow, gPol, gOther, gOps, gRaced>>

EnrollWrites(c) ==
    /\ gCall[c] # None /\ gCall[c].op = "enroll" /\ gCall[c].rows # <<>>
    /\ gRow' = [g \in GrpIds |-> IF g \in DOMAIN gCall[c].rows THEN gCall[c].rows[g] ELSE gRow[g]]
    /\ gCall' = [gCall EXCEPT ![c].rows = <<>>]
    /\ TreeWritten(c)
    /\ UNCHANGED <<gNodes, gPol, gOther, gOps>>

(* handleDeleteNode: Store.DeleteNode strips every row in one critical section. *)
handleDeleteNode(n) ==
    /\ n \in gNodes /\ gOps < MaxGrpOps
    /\ \A p \in GrpPolicies : gPol[p] # None => gPol[p].version + 2 <= MaxVersion
    /\ gOps' = gOps + 1
    /\ gNodes' = gNodes \ {n}
    /\ gRow' = [g \in GrpIds |-> IF gRow[g] = None THEN None ELSE StripGroup(gRow[g], n)]
    /\ gPol' = [p \in GrpPolicies |-> IF gPol[p] = None THEN None ELSE StripPolicy(gPol[p], n)]
    /\ gRaced' = [gRaced EXCEPT !.nodes = @ \cup (IF \E c \in OpenCalls : CallNames(gCall[c], n) THEN {n} ELSE {})]
    /\ UNCHANGED <<gOther, gCall>>

-----------------------------------------------------------------------------
(* ---- groups ------------------------------------------------------------------ *)

FreshGroup(g) ==
    /\ gRow[g] = None /\ g \notin gOther
    /\ \A h \in GroupsIn(gRow) : gRow[h].parent # g
    /\ \A p \in GrpPolicies : gPol[p] # None => ~PolicyNamesGroup(gPol[p], g)
    /\ \A c \in OpenCalls :
         /\ g \notin DOMAIN gCall[c].rows
         /\ \A h \in DOMAIN gCall[c].rows : gCall[c].rows[h].parent # g
         /\ gCall[c].op = "enroll" => g \notin gCall[c].id
         /\ gCall[c].pol # None => ~PolicyNamesGroup(gCall[c].pol, g)

(* unreadableNodeIDs: the stored members a confined operator was never shown. *)
MembersKept(prior, see) == prior.members \ see

(* upsertGroup: validates against one snapshot.  With a parent the row the walk sees also stands in for the  *)
(* prior row from there on, so the members and leader to carry over are read from it. *)
upsertGroup(c, g, req, see) ==
    LET creating == gRow[g] = None
        walked == IF req.parent = None THEN gRow ELSE [gRow EXCEPT ![g] = [EmptyGroup EXCEPT !.parent = req.parent]]
        prior == walked[g]
        members == (req.members \cup (IF creating THEN {} ELSE MembersKept(prior, see))) \cap gNodes
        leader == IF ~creating /\ req.leader = None
                  THEN IF prior.leader # None /\ prior.leader \notin see THEN prior.leader ELSE None
                  ELSE req.leader
    IN /\ creating => FreshGroup(g)
       /\ req.members \subseteq see /\ (req.leader # None => req.leader \in see)
       /\ req.parent # None => req.parent # g /\ groupCycleOK(walked, g)
       /\ leader # None => leader \in members
       /\ Begin(c, [NoCall EXCEPT !.op = "upsert",
                       !.nodes = IF creating THEN {} ELSE (gRow[g].members \ see) \cap gNodes,
                       !.rows = [h \in {g} |-> [parent |-> req.parent, members |-> members, leader |-> leader]]])
       /\ UNCHANGED <<gNodes, gRow, gPol, gOther, gRaced>>

(* handleGroupMembers reads the group, ... *)
handleGroupMembers(c, g, add, remove) ==
    /\ gRow[g] # None
    /\ Begin(c, [NoCall EXCEPT !.op = "members", !.nodes = add, !.id = remove, !.rows = [h \in {g} |-> gRow[g]]])
    /\ UNCHANGED <<gNodes, gRow, gPol, gOther, gRaced>>

(* ... then the nodes, drops a leader that is no longer a member ... *)
MembersChosen(c) ==
    /\ gCall[c] # None /\ gCall[c].op = "members"
    /\ gCall' = [gCall EXCEPT ![c].op = "upsert", ![c].nodes = {}, ![c].id = None,
         ![c].rows = [g \in DOMAIN @ |->
             LET kept == ((@[g].members \cup gCall[c].nodes) \ gCall[c].id) \cap gNodes
             IN [@[g] EXCEPT !.members = kept, !.leader = IF @ \in kept THEN @ ELSE None]]]
    /\ UNCHANGED <<gNodes, gRow, gPol, gOther, gOps, gRaced>>

(* ... and, as upsertGroup does, writes the row whatever the store holds by then. *)
UpsertGroup(c) ==
    /\ gCall[c] # None /\ gCall[c].op = "upsert"
    /\ gRow' = [g \in GrpIds |-> IF g \in DOMAIN gCall[c].rows THEN gCall[c].rows[g] ELSE gRow[g]]
    /\ EndCall(c)
    /\ TreeWritten(c)
    /\ UNCHANGED <<gNodes, gPol, gOther, gOps>>

(* handleReorderGroups: every new parent is checked against the snapshot with all of them in place. *)
handleReorderGroups(c, parents) ==
    LET next == [g \in GrpIds |-> IF g \in DOMAIN parents THEN [gRow[g] EXCEPT !.parent = parents[g]] ELSE gRow[g]]
    IN /\ DOMAIN parents \subseteq GroupsIn(gRow)
       /\ \A g \in DOMAIN parents : parents[g] # g /\ groupCycleOK(next, g)
       /\ Begin(c, [NoCall EXCEPT !.op = "reorder", !.rows = [g \in DOMAIN parents |-> next[g]]])
       /\ UNCHANGED <<gNodes, gRow, gPol, gOther, gRaced>>

(* The rows go one at a time; a save that fails leaves its row in memory and ends the request. *)
ReorderWrites(c, g, saved) ==
    /\ gCall[c] # None /\ gCall[c].op = "reorder" /\ g \in DOMAIN gCall[c].rows
    /\ LET left == DOMAIN gCall[c].rows \ {g} IN
       /\ gRow' = [gRow EXCEPT ![g] = gCall[c].rows[g]]
       /\ gCall' = [gCall EXCEPT ![c] = IF saved /\ left # {} THEN [@ EXCEPT !.rows = [h \in left |-> @[h]]] ELSE None]
       /\ gRaced' = [gRaced EXCEPT !.tree = @ \/ OpenCalls \ {c} # {} \/ (~saved /\ left # {})]
    /\ UNCHANGED <<gNodes, gPol, gOther, gOps>>

(* handleGroupSeed makes a group without parent or members for a role or a tag. *)
handleGroupSeed(g) ==
    /\ FreshGroup(g) /\ gOps < MaxGrpOps
    /\ gOps' = gOps + 1
    /\ gRow' = [gRow EXCEPT ![g] = EmptyGroup]
    /\ UNCHANGED <<gNodes, gPol, gOther, gCall, gRaced>>

(* groupInUse: a child, a policy, a check definition, a security group or a guard binding names the group. *)
groupInUse(g) ==
    \/ g \in gOther
    \/ \E h \in GroupsIn(gRow) : gRow[h].parent = g
    \/ \E p \in GrpPolicies : gPol[p] # None /\ (gPol[p] # None => PolicyNamesGroup(gPol[p], g))

(* handleDeleteGroup: refused while in use, in one critical section of the store. *)
handleDeleteGroup(g) ==
    /\ gRow[g] # None /\ ~groupInUse(g) /\ gOps < MaxGrpOps
    /\ gOps' = gOps + 1
    /\ gRow' = [gRow EXCEPT ![g] = None]
    /\ gRaced' = [gRaced EXCEPT !.tree = @ \/ OpenCalls # {}]
    /\ UNCHANGED <<gNodes, gPol, gOther, gCall>>

(* A check definition, security group or guard binding comes to name a group, or stops naming it. *)
NamedElsewhere(g) ==
    /\ gOps < MaxGrpOps /\ gOps' = gOps + 1
    /\ \/ gRow[g] # None /\ g \notin gOther /\ gOther' = gOther \cup {g}
       \/ g \in gOther /\ gOther' = gOther \ {g}
    /\ UNCHANGED <<gNodes, gRow, gPol, gCall, gRaced>>

-----------------------------------------------------------------------------
(* ---- outbound policies ---------------------------------------------------------- *)

(* normalizePolicyScope and validateGroupRule: a target there must be, not excluded; targets, groups and new *)
(* exclusions must exist.  A rule's remote node need not. *)
PolicyValid(prior, req) ==
    /\ req.nodes \cup req.groups # {} /\ req.nodes \cap req.exclude = {}
    /\ req.exclude # {} => req.groups # {}
    /\ req.nodes \subseteq gNodes
    /\ req.exclude \subseteq gNodes \cup (IF prior = None THEN {} ELSE prior.exclude)
    /\ req.groups \cup req.remoteGroups \subseteq GroupsIn(gRow)

(* saveGroupPolicy: a new policy, or a change to one that exists; the version read, when sent, is expected. *)
saveGroupPolicy(c, p, req, checked) ==
    /\ PolicyValid(gPol[p], req)
    /\ gPol[p] = None => ~checked /\ \A d \in OpenCalls : gCall[d].op = "policy" => gCall[d].id # p
    /\ Begin(c, [NoCall EXCEPT !.op = "policy", !.id = p, !.pol = req,
                    !.expected = IF checked THEN gPol[p].version ELSE 0])
    /\ gRaced' = [gRaced EXCEPT !.nodes = @ \cup (req.remoteNodes \ gNodes)]
    /\ UNCHANGED <<gNodes, gRow, gPol, gOther>>

(* SaveGroupPolicy: a version expected must still be the stored one. *)
SaveGroupPolicy(c) ==
    /\ gCall[c] # None /\ gCall[c].op = "policy"
    /\ LET p == gCall[c].id
           version == IF gPol[p] = None THEN 0 ELSE gPol[p].version IN
       /\ version < MaxVersion
       /\ gPol' = IF gCall[c].expected > 0 /\ version # gCall[c].expected THEN gPol
                  ELSE [gPol EXCEPT ![p] = [gCall[c].pol EXCEPT !.version = version + 1]]
    /\ EndCall(c)
    /\ UNCHANGED <<gNodes, gRow, gOther, gOps, gRaced>>

handleDeleteGroupPolicy(p) ==
    /\ gPol[p] # None /\ gOps < MaxGrpOps
    /\ gOps' = gOps + 1
    /\ gPol' = [gPol EXCEPT ![p] = None]
    /\ UNCHANGED <<gNodes, gRow, gOther, gCall, gRaced>>

-----------------------------------------------------------------------------
CONSTANTS GroupRequests, PolicyRequests, ParentRequests  \* what operators ask for

GrpInit ==
    /\ gNodes = GrpNodes
    /\ gRow = [g \in GrpIds |-> None] /\ gPol = [p \in GrpPolicies |-> None] /\ gOther = {}
    /\ gCall = [c \in GrpCalls |-> None] /\ gOps = 0
    /\ gRaced = [nodes |-> {}, tree |-> FALSE]

GrpNext ==
    \/ \E c \in GrpCalls :
         \/ \E n \in GrpNodes, groups \in SUBSET GrpIds : handleEnrollNode(c, n, groups)
         \/ EnrollReads(c) \/ EnrollWrites(c)
         \/ \E g \in GrpIds, req \in GroupRequests, see \in Readable : upsertGroup(c, g, req, see)
         \/ \E g \in GrpIds, add, remove \in {s \in SUBSET GrpNodes : Cardinality(s) <= 1} : handleGroupMembers(c, g, add, remove)
         \/ MembersChosen(c) \/ UpsertGroup(c)
         \/ \E parents \in ParentRequests : handleReorderGroups(c, parents)
         \/ \E g \in GrpIds, saved \in BOOLEAN : ReorderWrites(c, g, saved)
         \/ \E p \in GrpPolicies, req \in PolicyRequests, checked \in BOOLEAN : saveGroupPolicy(c, p, req, checked)
         \/ SaveGroupPolicy(c)
    \/ \E n \in GrpNodes : handleDeleteNode(n)
    \/ \E g \in GrpIds : handleGroupSeed(g) \/ handleDeleteGroup(g) \/ NamedElsewhere(g)
    \/ \E p \in GrpPolicies : handleDeleteGroupPolicy(p)

GrpSpec == GrpInit /\ [][GrpNext]_grpVars

-----------------------------------------------------------------------------
(* The rows and the requests in progress are well formed. *)
GrpTypeOK ==
    /\ gNodes \subseteq GrpNodes /\ gOther \subseteq GrpIds /\ gOps \in 0..MaxGrpOps
    /\ \A g \in GrpIds : gRow[g] \in Maybe(GroupRows)
    /\ \A p \in GrpPolicies : gPol[p] \in Maybe(PolicyRows)
    /\ \A c \in OpenCalls : gCall[c].op \in {"enroll", "upsert", "members", "reorder", "policy"}
    /\ gRaced \in [nodes : SUBSET GrpNodes, tree : BOOLEAN]

(* Every group's leader is one of its members, and what a deletion leaves behind is only what a request open *)
(* at the time wrote back: a stored group or policy names an absent node only if some request had read the   *)
(* node before it was deleted, or the operator named it as a remote without it existing. *)
RowsNameNodes ==
    /\ \A g \in GroupsIn(gRow) : gRow[g].leader # None => gRow[g].leader \in gRow[g].members
    /\ \A n \in (GrpNodes \ gNodes) \ gRaced.nodes :
         /\ \A g \in GroupsIn(gRow) : ~RowNames(gRow[g], n)
         /\ \A p \in GrpPolicies : gPol[p] # None => ~PolicyNames(gPol[p], n)

(* Requests that do not overlap keep the tree of groups: every parent exists, no group is its own ancestor, *)
(* and every group a policy names exists. *)
TreeStands ==
    (~gRaced.tree /\ OpenCalls = {}) =>
        /\ \A g \in GroupsIn(gRow) : gRow[g].parent # None => gRow[gRow[g].parent] # None
        /\ \A S \in SUBSET GroupsIn(gRow) : S # {} => \E g \in S : gRow[g].parent \notin S
        /\ \A p \in GrpPolicies : gPol[p] # None =>
             \A g \in gPol[p].groups \cup gPol[p].remoteGroups : gRow[g] # None

(* An operator confined to some nodes leaves the members they may not see as they were: what upsertGroup is  *)
(* about to write still has them. *)
\* TLC refutes it (README.md, section 6).
HiddenMembersStay ==
    \A c \in OpenCalls : gCall[c].op = "upsert" =>
        \A g \in DOMAIN gCall[c].rows : gCall[c].nodes \subseteq gCall[c].rows[g].members

(* No chain of parents is longer than groupMaxNestDepth, requests overlapping or not. *)
\* TLC refutes it (README.md, section 6).
NestingBounded ==
    (~gRaced.tree /\ OpenCalls = {}) => \A g \in GroupsIn(gRow) : groupCycleOK(gRow, g)

(* Deleting nodes and editing groups and policies side by side leaves rows that name what exists (DeleteNode,  *)
(* UpsertGroup, DeleteGroup, UpsertGroupPolicy).                                                              *)
GroupsSound == GrpTypeOK /\ RowsNameNodes /\ TreeStands

=============================================================================
