------------------------------ MODULE LineUsers ------------------------------
(***************************************************************************)
(* VPN identities on adopted lines: the identity rows with their           *)
(* credential and bindings, the add/update/remove plans an operator        *)
(* approves, the sb calls a node runs for them, the results, probes that   *)
(* refresh the inventory, the cutover that rotates exposed credentials,    *)
(* and the delete that is refused while a credential would be left behind. *)
(* A credential is a number; 0 is the line owner's.  Handlers that read an *)
(* identity and store it back whole are two steps.                         *)
(***************************************************************************)
EXTENDS Naturals, Sequences, FiniteSets, Common

CONSTANTS LuUsers,      \* identity ids, never used twice
          LuLines,      \* adopted lines
          LuMigrated,   \* identities migrated with the owner's credential
          LuByName,     \* nodes' sb script can remove an entry by name alone
          MaxLuOps, MaxLuPlans, MaxLuCreds

VARIABLES luUser,    \* identity rows
          luGone,    \* identities that were deleted
          luAp,      \* line-user approvals with their task, in filing order
          luBox,     \* entries on the node's lines: <<name, credential>>
          luInv,     \* the inventory the last probe published for a line
          luLines,   \* lines that resolve in the read model
          luProbe,   \* the node's pending probe task
          luDirect,  \* the direct user task: an add or a removal by credential
          luCall,    \* requests between their read and their write
          luShown,   \* the cutover digest an operator was shown
          luFresh, luOps

luVars == <<luUser, luGone, luAp, luBox, luInv, luLines, luProbe, luDirect, luCall, luShown, luFresh, luOps>>

LuOps == {"add", "update", "remove"}
Owner == "owner"
OwnerCred == 0
NameOnly == MaxLuCreds + 1
QueuedProbe == [ran |-> FALSE, ok |-> FALSE, inv |-> [l \in LuLines |-> None]]
\* The name sb files an identity under; it is unique to the identity on each line.
EntryOf(u, l) == u
NoLuCalls == [k \in {"edit", "delete", "result"} |-> None]
LuLive(a) == luAp[a].task \in {"queued", "leased"}

LuInit ==
  /\ luUser = [u \in LuUsers |-> None] /\ luGone = {}
  /\ luAp = <<>>
  /\ luBox = [l \in LuLines |-> {<<Owner, OwnerCred>>}]
  /\ luInv = [l \in LuLines |-> None]
  /\ luLines = LuLines /\ luProbe = None /\ luDirect = None
  /\ luCall = NoLuCalls /\ luShown = None /\ luFresh = 0 /\ luOps = 0

LuEdit == luOps < MaxLuOps /\ luOps' = luOps + 1
LuRows == <<luUser, luGone>>
LuNode == <<luBox, luDirect>>
LuView == <<luInv, luLines, luProbe>>

-----------------------------------------------------------------------------
(* What the server knows *)

vpnUserHasEnabledBinding(u, l) ==
  luUser[u] # None /\ (luUser[u] # None => (luUser[u].b[l] # None /\ (luUser[u].b[l] # None => luUser[u].b[l].en)))

\* The last applied plan of a pair, by the time it was recorded.
lineUserLastApplied(u, l) ==
  LET done == {a \in DOMAIN luAp : luAp[a].st = "applied" /\ luAp[a].u = u /\ luAp[a].l = l}
  IN IF done = {} THEN None ELSE luAp[CHOOSE a \in done : \A b \in done : luAp[b].at <= luAp[a].at].op
PutOnLine(u, l) == lineUserLastApplied(u, l) \in {"add", "update"}

\* A removal would take an entry that is not the user's: another identity on the line holds the credential, or the
\* line's first entry does and it is not the one Lattice added.
lineUserRemovalRefusal(u, l, cred) ==
  \/ \E o \in LuUsers \ {u} :
       /\ luUser[o] # None
       /\ vpnUserHasEnabledBinding(o, l) \/ PutOnLine(o, l)
       /\ luUser[o] # None => luUser[o].cred = cred
  \/ /\ luInv[l] # None
     /\ luInv[l] # None => luInv[l].share = cred /\ (~PutOnLine(u, l) \/ luInv[l].n > 1)

\* A removal of the pair that can still act.
openLineUserRemove(u, l) ==
  \E a \in DOMAIN luAp : luAp[a].op = "remove" /\ luAp[a].u = u /\ luAp[a].l = l
    /\ (luAp[a].st = "pending" \/ (luAp[a].st = "approved" /\ LuLive(a)))

\* The plan still fits the identity and the line.  grant is the check before the node is touched; the result path
\* leaves it out.
validateDeletedUserLineRemove(a, grant) ==
  luAp[a].op = "remove" /\ luAp[a].l \in luLines /\ (grant => LuByName /\ luAp[a].cred = None)
validateLineUserApproval(a, grant) ==
  LET p == luAp[a] IN
  IF luUser[p.u] = None THEN validateDeletedUserLineRemove(a, grant)
  ELSE /\ grant /\ p.op # "remove" => luUser[p.u].on
       /\ p.l \in luLines
       /\ p.op = "add" => ~vpnUserHasEnabledBinding(p.u, p.l)
       /\ p.op = "update" => vpnUserHasEnabledBinding(p.u, p.l)
       /\ luUser[p.u].cred = p.cred
       /\ grant /\ p.op = "remove" => ~lineUserRemovalRefusal(p.u, p.l, p.cred)

-----------------------------------------------------------------------------
(* Identity rows *)

vpnUserCreateBy ==
  \E u \in LuUsers :
    /\ LuEdit
    /\ luUser[u] = None /\ u \notin luGone
    /\ u \notin LuMigrated => luFresh < MaxLuCreds
    /\ luFresh' = IF u \in LuMigrated THEN luFresh ELSE luFresh + 1
    /\ luUser' = [luUser EXCEPT ![u] = [on |-> TRUE, cred |-> IF u \in LuMigrated THEN OwnerCred ELSE luFresh + 1,
                                        b |-> [l \in LuLines |-> None]]]
    /\ UNCHANGED <<luGone, luAp, luCall, luShown>> /\ UNCHANGED LuNode /\ UNCHANGED LuView

LuTakes(k, c) == luCall[k] = None /\ luCall' = [luCall EXCEPT ![k] = c]
LuEnds(k) == luCall' = [luCall EXCEPT ![k] = None]

\* An edit reads the row it will store back.
EditReads ==
  \E u \in LuUsers :
    /\ LuEdit
    /\ luUser[u] # None
    /\ LuTakes("edit", [u |-> u, row |-> luUser[u]])
    /\ UNCHANGED <<luAp, luShown, luFresh>> /\ UNCHANGED LuRows /\ UNCHANGED LuNode /\ UNCHANGED LuView

vpnUserRotateCredential(row) == [row EXCEPT !.cred = luFresh + 1]
putVpnUser(u, row) == luUser' = [luUser EXCEPT ![u] = row]

\* The edit stores its row: disabled or enabled, bound or unbound on record only, or with a fresh credential.
EditWrites ==
  /\ luCall["edit"] # None
  /\ LET u == luCall["edit"].u row == luCall["edit"].row IN
     \/ /\ putVpnUser(u, [row EXCEPT !.on = ~row.on])
        /\ UNCHANGED luFresh
     \/ \E l \in luLines :
          /\ row.b[l] = None \/ (row.b[l] # None => ~row.b[l].en)
          /\ putVpnUser(u, [row EXCEPT !.b[l] = [en |-> TRUE, app |-> IF row.b[l] = None THEN None ELSE row.b[l].app]])
          /\ UNCHANGED luFresh
     \/ \E l \in LuLines :
          /\ row.b[l] # None
          /\ putVpnUser(u, [row EXCEPT !.b[l] = None])
          /\ UNCHANGED luFresh
     \/ /\ luFresh < MaxLuCreds
        /\ luFresh' = luFresh + 1
        /\ putVpnUser(u, vpnUserRotateCredential(row))
  /\ LuEnds("edit")
  /\ UNCHANGED <<luGone, luAp, luShown, luOps>> /\ UNCHANGED LuNode /\ UNCHANGED LuView

\* Mutant: an applied update is not taken for a line that still holds the user.
refusesAddsOnly(u) ==
  \/ \E a \in DOMAIN luAp : luAp[a].u = u /\ luAp[a].st = "approved" /\ LuLive(a)
  \/ \E l \in luLines : lineUserLastApplied(u, l) = "add"

\* The delete is refused while a task of the user is queued or leased, or an applied plan left it on a line that resolves.
vpnUserDeleteRefusal(u) ==
  \/ \E a \in DOMAIN luAp : luAp[a].u = u /\ luAp[a].st = "approved" /\ LuLive(a)
  \/ \E l \in luLines : PutOnLine(u, l)

\* Plans of the user whose effect is on record, or still to be recorded, when the delete checks.
LuRecorded(u) == {a \in DOMAIN luAp : luAp[a].u = u /\ (luAp[a].st = "applied" \/ luAp[a].task = "leased")}

DeleteChecks ==
  \E u \in LuUsers :
    /\ LuEdit
    /\ luUser[u] # None
    /\ ~vpnUserDeleteRefusal(u)
    /\ LuTakes("delete", [u |-> u, settled |-> LuRecorded(u), lines |-> luLines])
    /\ UNCHANGED <<luAp, luShown, luFresh>> /\ UNCHANGED LuRows /\ UNCHANGED LuNode /\ UNCHANGED LuView
DeleteWrites ==
  /\ luCall["delete"] # None
  /\ LET u == luCall["delete"].u IN luUser' = [luUser EXCEPT ![u] = None] /\ luGone' = luGone \cup {u}
  /\ LuEnds("delete")
  /\ UNCHANGED <<luAp, luShown, luFresh, luOps>> /\ UNCHANGED LuNode /\ UNCHANGED LuView

-----------------------------------------------------------------------------
(* Plans and approvals *)

LuPlan(op, u, l, cred, batch) ==
  [op |-> op, u |-> u, l |-> l, cred |-> cred, batch |-> batch, st |-> "pending", task |-> None, pay |-> None,
   sent |-> FALSE, ran |-> None, at |-> 0, told |-> FALSE, took |-> FALSE, seen |-> FALSE]

\* Why a plan is refused when it is made.
PlanFits(op, u, l) ==
  /\ l \in luLines
  /\ op # "remove" => luUser[u].on
  /\ op = "add" => ~vpnUserHasEnabledBinding(u, l)
  /\ op = "update" => vpnUserHasEnabledBinding(u, l)
  /\ op = "remove" => /\ vpnUserHasEnabledBinding(u, l) \/ PutOnLine(u, l)
                      /\ ~lineUserRemovalRefusal(u, l, luUser[u].cred)
                      /\ ~openLineUserRemove(u, l)

vpnUserLinePlanInBatch ==
  \E u \in LuUsers, l \in LuLines, op \in LuOps :
    /\ Len(luAp) < MaxLuPlans
    /\ luUser[u] # None /\ (luUser[u] # None => PlanFits(op, u, l))
    /\ luAp' = Append(luAp, LuPlan(op, u, l, luUser[u].cred, FALSE))
    /\ UNCHANGED <<luCall, luShown, luFresh, luOps>> /\ UNCHANGED LuRows /\ UNCHANGED LuNode /\ UNCHANGED LuView

\* A deleted identity's entry can be removed by its name alone.
deletedUserLineRemovePlan ==
  \E u \in luGone, l \in luLines :
    /\ Len(luAp) < MaxLuPlans
    /\ luUser[u] = None /\ LuByName
    /\ PutOnLine(u, l) /\ ~openLineUserRemove(u, l)
    /\ luAp' = Append(luAp, LuPlan("remove", u, l, None, FALSE))
    /\ UNCHANGED <<luCall, luShown, luFresh, luOps>> /\ UNCHANGED LuRows /\ UNCHANGED LuNode /\ UNCHANGED LuView

ApproveLineUser ==
  \E a \in DOMAIN luAp :
    /\ luAp[a].st = "pending"
    /\ validateLineUserApproval(a, TRUE)
    /\ luAp' = [luAp EXCEPT ![a].st = "approved", ![a].task = "queued"]
    /\ UNCHANGED <<luCall, luShown, luFresh, luOps>> /\ UNCHANGED LuRows /\ UNCHANGED LuNode /\ UNCHANGED LuView

RejectLineUser ==
  \E a \in DOMAIN luAp :
    /\ LuEdit
    /\ luAp[a].st = "pending"
    /\ luAp' = [luAp EXCEPT ![a].st = "rejected"]
    /\ UNCHANGED <<luCall, luShown, luFresh>> /\ UNCHANGED LuRows /\ UNCHANGED LuNode /\ UNCHANGED LuView

\* The operator cancels a queued or leased task; the approval stays approved and nothing will record it.
CancelLineUserTask ==
  \E a \in DOMAIN luAp :
    /\ LuEdit
    /\ LuLive(a) /\ luAp[a].ran = None
    /\ luAp' = [luAp EXCEPT ![a].task = "cancelled"]
    /\ UNCHANGED <<luCall, luShown, luFresh>> /\ UNCHANGED LuRows /\ UNCHANGED LuNode /\ UNCHANGED LuView

-----------------------------------------------------------------------------
(* The node *)

\* What the probe would report of a line: the number of entries and the credential of the first one.
FirstEntry(l) == IF luBox[l] = {} THEN None
                 ELSE IF \E e \in luBox[l] : e[1] = Owner THEN (CHOOSE e \in luBox[l] : e[1] = Owner)[2]
                 ELSE (CHOOSE e \in luBox[l] : TRUE)[2]
InventoryOf(l) == [n |-> Cardinality(luBox[l]), share |-> FirstEntry(l)]

\* The script is rendered when the node leases the task: with the credential, by name, or as one that fails.
lineUserApplyScript ==
  \E a \in DOMAIN luAp :
    /\ luAp[a].task = "queued"
    /\ luAp' = [luAp EXCEPT ![a].task = "leased",
         ![a].pay = IF ~validateLineUserApproval(a, TRUE) THEN None ELSE IF luAp[a].cred = None THEN NameOnly ELSE luAp[a].cred,
         ![a].sent = luAp[a].sent \/ validateLineUserApproval(a, TRUE),
         ![a].seen = luInv[luAp[a].l] = InventoryOf(luAp[a].l)]
    /\ UNCHANGED <<luCall, luShown, luFresh, luOps>> /\ UNCHANGED LuRows /\ UNCHANGED LuNode /\ UNCHANGED LuView

\* sb matches by name or by credential: add replaces every match with its own entry, del removes every match.
Matches(l, name, pay) == {e \in luBox[l] : e[1] = name \/ (pay # NameOnly /\ e[2] = pay)}
sbUser(op, l, name, pay) ==
  IF op = "remove" THEN luBox[l] \ Matches(l, name, pay) ELSE (luBox[l] \ Matches(l, name, pay)) \cup {<<name, pay>>}

\* The agent runs one task at a time and posts its result before the next.
NodeFree == luCall["result"] = None /\ \A a \in DOMAIN luAp : luAp[a].task = "leased" => luAp[a].ran = None

\* The leased script runs, even when its task was cancelled after the lease; or it fails without effect.
adoptedLineUserScript ==
  \E a \in DOMAIN luAp :
    /\ luAp[a].task \in {"leased", "cancelled"} /\ luAp[a].sent /\ luAp[a].ran = None
    /\ NodeFree
    /\ LET p == luAp[a] name == EntryOf(p.u, p.l) IN
       \/ /\ p.pay # None
          /\ luBox' = [luBox EXCEPT ![p.l] = sbUser(p.op, p.l, name, p.pay)]
          /\ luAp' = [luAp EXCEPT ![a].ran = [ok |-> TRUE, before |-> Cardinality(luBox[p.l]), after |-> Cardinality(luBox'[p.l])],
                                  ![a].took = \E e \in Matches(p.l, name, p.pay) : e[1] # name]
       \/ /\ luAp' = [luAp EXCEPT ![a].ran = [ok |-> FALSE, before |-> 0, after |-> 0]]
          /\ UNCHANGED luBox
    /\ UNCHANGED <<luCall, luShown, luFresh, luOps, luDirect>> /\ UNCHANGED LuRows /\ UNCHANGED LuView

\* A script rendered to fail reports its failure.
RefusedScript ==
  \E a \in DOMAIN luAp :
    /\ luAp[a].task = "leased" /\ luAp[a].pay = None /\ luAp[a].ran = None
    /\ luAp' = [luAp EXCEPT ![a].ran = [ok |-> FALSE, before |-> 0, after |-> 0]]
    /\ UNCHANGED <<luCall, luShown, luFresh, luOps>> /\ UNCHANGED LuRows /\ UNCHANGED LuNode /\ UNCHANGED LuView

-----------------------------------------------------------------------------
(* Results *)

\* The binding an applied plan leaves.
reconcileLineUserBinding(row, p) ==
  IF p.op = "remove" THEN [row EXCEPT !.b[p.l] = None] ELSE [row EXCEPT !.b[p.l] = [en |-> TRUE, app |-> p.cred]]

\* The counts show that the script matched more than one entry.
lineUserOvermatch(p) == LET m == p.ran.before - p.ran.after + (IF p.op = "remove" THEN 0 ELSE 1) IN m > 1

\* A failed task returns the approval to pending; a success is validated against the identity as it is now.
LineUserResultReads ==
  \E a \in DOMAIN luAp :
    /\ luAp[a].task = "leased" /\ luAp[a].ran # None
    /\ IF ~luAp[a].ran.ok
       THEN /\ luAp' = [luAp EXCEPT ![a].st = "pending", ![a].task = None, ![a].ran = None, ![a].pay = None]
            /\ UNCHANGED <<luCall, luProbe>>
       ELSE IF ~validateLineUserApproval(a, FALSE)
       THEN /\ luAp' = [luAp EXCEPT ![a].st = "rejected", ![a].task = "done"]
            /\ luProbe' = IF luProbe = None THEN QueuedProbe ELSE luProbe
            /\ UNCHANGED luCall
       ELSE /\ LuTakes("result", [a |-> a, row |-> luUser[luAp[a].u]])
            /\ luAp' = [luAp EXCEPT ![a].task = "done"]
            /\ UNCHANGED luProbe
    /\ UNCHANGED <<luShown, luFresh, luOps, luInv, luLines>> /\ UNCHANGED LuRows /\ UNCHANGED LuNode

\* The binding is stored with the row that was read, then the approval is applied and a probe queued.
handleLineUserTaskResult ==
  /\ luCall["result"] # None
  /\ LET a == luCall["result"].a p == luAp[a] row == luCall["result"].row IN
     /\ IF row = None THEN UNCHANGED luUser
        ELSE luUser' = [luUser EXCEPT ![p.u] = IF reconcileLineUserBinding(row, p) = row THEN luUser[p.u] ELSE reconcileLineUserBinding(row, p)]
     /\ luAp' = [luAp EXCEPT ![a].st = "applied", ![a].told = lineUserOvermatch(p),
                             ![a].at = Cardinality({b \in DOMAIN luAp : luAp[b].st = "applied"}) + 1]
  /\ luProbe' = IF luProbe = None THEN QueuedProbe ELSE luProbe
  /\ LuEnds("result")
  /\ UNCHANGED <<luGone, luShown, luFresh, luOps, luInv, luLines>> /\ UNCHANGED LuNode

-----------------------------------------------------------------------------
(* Probes, direct user changes, discovery *)

\* One probe at a time: refused while the pending one is queued or leased.
handleSingBoxManageProbe ==
  /\ LuEdit /\ luProbe = None /\ luProbe' = QueuedProbe
  /\ UNCHANGED <<luAp, luCall, luShown, luFresh, luInv, luLines>> /\ UNCHANGED LuRows /\ UNCHANGED LuNode

\* The probe's answer is what the lines held when it ran; a failed probe publishes an inventory without lines.
ProbeRuns ==
  /\ luProbe = QueuedProbe
  /\ \/ luProbe' = [ran |-> TRUE, ok |-> TRUE, inv |-> [l \in LuLines |-> InventoryOf(l)]]
     \/ luProbe' = [ran |-> TRUE, ok |-> FALSE, inv |-> [l \in LuLines |-> None]]
  /\ UNCHANGED <<luAp, luCall, luShown, luFresh, luOps, luInv, luLines>> /\ UNCHANGED LuRows /\ UNCHANGED LuNode
handleSingBoxProbeTaskResult ==
  /\ luProbe \notin {None, QueuedProbe}
  /\ luInv' = luProbe.inv
  /\ luLines' = IF luProbe.ok THEN LuLines ELSE {}
  /\ luProbe' = None
  /\ UNCHANGED <<luAp, luCall, luShown, luFresh, luOps>> /\ UNCHANGED LuRows /\ UNCHANGED LuNode

updateVpnUserLineBindings(u, l, bind) ==
  luUser' = [luUser EXCEPT ![u].b[l] =
    IF bind THEN [en |-> TRUE, app |-> IF luUser[u].b[l] = None THEN None ELSE luUser[u].b[l].app] ELSE None]

\* The direct call queues its sb commands and changes the bindings at once, before the task ran.  One call is modelled.
handleSingBoxManageUsers ==
  \E u \in LuUsers, l \in luLines, bind \in BOOLEAN :
    /\ LuEdit
    /\ luDirect = None /\ luUser[u] # None
    /\ luInv[l] # None
    /\ luUser[u] # None => (bind => luUser[u].on)
    /\ luDirect' = [u |-> u, l |-> l, op |-> IF bind THEN "add" ELSE "remove", pay |-> luUser[u].cred, ran |-> FALSE]
    /\ updateVpnUserLineBindings(u, l, bind)
    /\ UNCHANGED <<luGone, luAp, luCall, luShown, luFresh, luBox>> /\ UNCHANGED LuView
DirectRuns ==
  /\ luDirect # None /\ (luDirect # None => ~luDirect.ran)
  /\ luDirect' = [luDirect EXCEPT !.ran = TRUE]
  /\ \/ luBox' = [luBox EXCEPT ![luDirect.l] = sbUser(luDirect.op, luDirect.l, EntryOf(luDirect.u, luDirect.l), luDirect.pay)]
     \/ UNCHANGED luBox
  /\ UNCHANGED <<luAp, luCall, luShown, luFresh, luOps>> /\ UNCHANGED LuRows /\ UNCHANGED LuView

-----------------------------------------------------------------------------
(* Cutover *)

\* Credentials that an inventory share link exposes, with the bound lines a plan can be filed for.
Exposed == {u \in LuUsers : luUser[u] # None /\ (luUser[u] # None =>
             \E l \in luLines : luInv[l] # None /\ (luInv[l] # None => luInv[l].share = luUser[u].cred))}
Plannable(u) == {l \in luLines : luUser[u].on /\ vpnUserHasEnabledBinding(u, l)}
vpnCutoverPlan == {<<u, Plannable(u)>> : u \in Exposed}

\* The operator looks at the plan.
handleVpnCutover ==
  /\ LuEdit
  /\ luShown' = vpnCutoverPlan
  /\ UNCHANGED <<luAp, luCall, luFresh>> /\ UNCHANGED LuRows /\ UNCHANGED LuNode /\ UNCHANGED LuView

cutoverDigestMatches == luShown = vpnCutoverPlan

\* Each exposed credential with a plannable line is rotated, and an update filed for each such line.
runVpnCutoverRotate ==
  \E u \in Exposed :
    /\ cutoverDigestMatches
    /\ Exposed = {u} /\ Plannable(u) # {}
    /\ luFresh < MaxLuCreds /\ luFresh' = luFresh + 1
    /\ Len(luAp) + Cardinality(Plannable(u)) <= MaxLuPlans
    /\ luUser' = [luUser EXCEPT ![u] = vpnUserRotateCredential(luUser[u])]
    /\ LET ls == Plannable(u)
           order == CHOOSE f \in [1..Cardinality(ls) -> ls] : \A i, j \in DOMAIN f : f[i] = f[j] => i = j
       IN luAp' = luAp \o [i \in DOMAIN order |-> LuPlan("update", u, order[i], luFresh + 1, TRUE)]
    /\ UNCHANGED <<luGone, luCall, luShown, luOps>> /\ UNCHANGED LuNode /\ UNCHANGED LuView

-----------------------------------------------------------------------------
LuNext ==
  \/ vpnUserCreateBy \/ EditReads \/ EditWrites \/ DeleteChecks \/ DeleteWrites
  \/ vpnUserLinePlanInBatch \/ deletedUserLineRemovePlan \/ ApproveLineUser \/ RejectLineUser \/ CancelLineUserTask
  \/ lineUserApplyScript \/ adoptedLineUserScript \/ RefusedScript \/ LineUserResultReads \/ handleLineUserTaskResult
  \/ handleSingBoxManageProbe \/ ProbeRuns \/ handleSingBoxProbeTaskResult \/ handleSingBoxManageUsers \/ DirectRuns
  \/ handleVpnCutover \/ runVpnCutoverRotate

LuCreds == 0..MaxLuCreds
LuTypeOK ==
  /\ \A u \in LuUsers : luUser[u] # None => luUser[u].cred \in LuCreds /\ luUser[u].on \in BOOLEAN
       /\ \A l \in LuLines : luUser[u].b[l] # None => luUser[u].b[l].app \in LuCreds \cup {None}
  /\ \A a \in DOMAIN luAp : luAp[a].st \in {"pending", "approved", "applied", "rejected"} /\ luAp[a].op \in LuOps
       /\ luAp[a].task \in {None, "queued", "leased", "cancelled", "done"}
  /\ \A l \in LuLines : \A e \in luBox[l] : e[2] \in LuCreds
  /\ luLines \subseteq LuLines /\ luGone \subseteq LuUsers

\* A removal whose script was rendered while the inventory was the line as it stands never takes the owner's entry
\* along, unless the line changed before it ran: the refusal sees every case the probe can show.
OwnerKept == \A a \in DOMAIN luAp : luAp[a].op = "remove" /\ luAp[a].ran # None /\ luAp[a].took => ~luAp[a].seen

\* A delete leaves an entry of the identity only where a plan was sent whose effect nothing recorded or would record when
\* the delete checked (leased since, cancelled after its lease, or refused as stale), the line did not resolve then, or a
\* direct change put it there.
DeleteLeavesOnlyUnsettled ==
  [][\A u \in luGone' \ luGone, l \in LuLines :
       (\E e \in luBox[l] : e[1] = EntryOf(u, l))
         => \/ l \notin luCall["delete"].lines
            \/ \E a \in DOMAIN luAp : luAp[a].u = u /\ luAp[a].l = l /\ luAp[a].sent /\ a \notin luCall["delete"].settled
            \/ luDirect # None /\ (luDirect # None => luDirect.u = u /\ luDirect.l = l)]_luVars

\* The rows stay well formed and a removal spares the entry of the line's owner (lineusers.go).
LineUsersSound == LuTypeOK /\ OwnerKept
=============================================================================
