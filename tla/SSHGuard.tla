------------------------------ MODULE SSHGuard ------------------------------
(***************************************************************************)
(* SSH Guard on one node: the arm and confirm approvals the server keeps   *)
(* (server_sshguard*.go), and the scripts sshguard/apply.go writes for     *)
(* them, run step by step on the node: snapshot, revert script, revert     *)
(* timer, sshd drop-in, knockd, gate; a failed or stopped arm reverts from *)
(* its EXIT trap, a killed one when the timer fires; a confirm retires the *)
(* previous sequence, stops the timer and makes the gate survive a boot.   *)
(* An approval is its place in the list (CreatedAt order); ports, settings *)
(* and texts are left out.  The agent runs one task at a time.             *)
(***************************************************************************)
EXTENDS Common, Naturals, Sequences, FiniteSets, SequencesExt

CONSTANTS
    Requests,       \* plan requests: [fw, seq, rotate], seq None without knocking
    MaxArms, MaxConfirms,   \* bounds: approvals filed
    MaxKills, MaxReboots,   \* bounds: scripts killed without their trap, reboots
    WindowCovers    \* the confirm window is longer than the script may run (900 s against 600 s by default)

VARIABLES
    ap,         \* approvals: [kind, plan, status, mark], mark "timer" or "superseded"
    task,       \* per approval, its task: none, queued, running, ok, fallback (ok, the timer armed after all), failed, gone, done
    drop,       \* the drop-in sshd runs: 0 or the arm that wrote it
    conf, kd,   \* knockd.conf (None or [seq, prev]) and whether knockd runs
    nft,        \* knock.nft: 0 or the arm that wrote it
    table,      \* the loaded table: None or [arm, boot], boot when the unit loaded it
    unit,       \* the boot unit is enabled
    timer,      \* the revert timer: 0 or the arm that armed it
    sshAdmitted,   \* the gate has let in a new connection, the previous sequence's not counted
    bak, rev,   \* the snapshot [drop, conf] and what revert.sh undoes [fw, knock]
    script,     \* the running task: None or [ap, pc, key]
    fired,      \* the revert the timer started: None or its step
    kills, reboots

sshNodeVars == <<drop, conf, kd, nft, table, unit, timer, sshAdmitted, bak, rev>>
srvVars == <<ap, task>>
sshVars == <<srvVars, sshNodeVars, script, fired, kills, reboots>>

Ids == 1..Len(ap)
Arms == {i \in Ids : ap[i].kind = "arm"}
Confirms == {i \in Ids : ap[i].kind = "confirm"}
Newest(S) == CHOOSE i \in S : \A j \in S : j <= i
Superseded(i) == ap[i].status = "dismissed" /\ ap[i].mark = "superseded"
Applied(i) == ap[i].status = "applied"
ConfirmsAfter(a) == {c \in Confirms : c > a}

-----------------------------------------------------------------------------
(* ---- what the server reads out of the approvals ---------------------------- *)

SshReached == {a \in Arms : Applied(a) \/ Superseded(a)}

(* The confirms filed for one arm: after it and before the next arm that reached the node. *)
ConfirmsFor(a) == {c \in ConfirmsAfter(a) : \A b \in SshReached : b > a => c < b}

Dispatched(a) == Applied(a) \/ \E c \in ConfirmsFor(a) : Applied(c) \/ Superseded(c)

(* The newest arm that carried a firewall and reached the node governs the knock. *)
KnockArms == {a \in SshReached : ap[a].plan.fw /\ Dispatched(a)}
KnockState ==
    LET open == {a \in Arms : ap[a].status \in {"pending", "approved"}} IN
    CASE KnockArms # {} -> LET a == Newest(KnockArms) IN
            [knowledge |-> IF ap[a].plan.seq = None THEN "no_knock" ELSE IF Applied(a) THEN "installed" ELSE "installed_superseded",
             seq |-> ap[a].plan.seq]
      [] KnockArms = {} /\ open # {} -> LET a == Newest(open) IN
            [knowledge |-> IF ap[a].plan.seq = None THEN "no_knock" ELSE "planned", seq |-> ap[a].plan.seq]
      [] OTHER -> [knowledge |-> "unknown", seq |-> None]

(* Whether the window is over (reverted, or in force by the last report) is left out: the clock decides it. *)
AppliedStage(a) ==
    LET cs == ConfirmsAfter(a)
        c == Newest(cs)
        waiting == IF cs = {} \/ ap[c].status \notin {"pending", "approved"} THEN "awaiting_confirm"
                   ELSE IF ap[c].status = "pending" THEN "confirm_pending" ELSE "confirm_approved"
    IN IF ap[a].plan.durable /\ ap[a].mark # "timer" THEN "hardened"
       ELSE IF cs # {} /\ (Applied(c) \/ Superseded(c)) THEN "confirmed" ELSE waiting

(* Where the node sits in the arm and confirm sequence, from its newest arm. *)
StageOf(a) ==
    CASE ap[a].status = "pending" -> "arm_pending"
      [] ap[a].status = "approved" -> "arm_approved"
      [] ap[a].status = "applied" -> AppliedStage(a)
      [] OTHER -> LET cs == ConfirmsAfter(a) IN
            IF Superseded(a) /\ cs # {} /\ (Applied(Newest(cs)) \/ Superseded(Newest(cs))) THEN "confirmed" ELSE "arm_failed"

Stage == IF Arms = {} THEN "idle" ELSE StageOf(Newest(Arms))

-----------------------------------------------------------------------------
(* ---- the operator ---------------------------------------------------------- *)

File(a) == /\ ap' = Append(ap, a) /\ task' = Append(task, "none")
           /\ UNCHANGED <<sshNodeVars, script, fired, kills, reboots>>

(* A rotation keeps the installed sequence; a sequence is never rotated to itself. *)
Rotation(req) == IF req.rotate THEN KnockState.seq ELSE None

Rotates(req) == req.rotate => /\ KnockState.knowledge \in {"installed", "installed_superseded"}
                              /\ req.seq # None /\ KnockState.seq # req.seq

(* A plan is durable when it installs no firewall and the last report showed a key. *)
handleSSHGuardPlan(req, key) ==
    /\ Cardinality(Arms) < MaxArms
    /\ Rotates(req) /\ (key => ~req.fw)
    /\ File([kind |-> "arm", status |-> "pending", mark |-> "",
             plan |-> [fw |-> req.fw, seq |-> req.seq, prev |-> Rotation(req), durable |-> ~req.fw /\ key]])

handleSSHGuardConfirm ==
    /\ Stage # "hardened" /\ Cardinality(Confirms) < MaxConfirms
    /\ File([kind |-> "confirm", status |-> "pending", mark |-> "", plan |-> None])

Decide(i, s) ==
    /\ ap[i].status = "pending"
    /\ ap' = [ap EXCEPT ![i].status = s]
    /\ task' = IF s = "approved" THEN [task EXCEPT ![i] = "queued"] ELSE task
    /\ UNCHANGED <<sshNodeVars, script, fired, kills, reboots>>

(* A task cancelled before the node took it; its approval can then be dismissed as superseded. *)
SshCancelTask(i) ==
    /\ task[i] = "queued" /\ task' = [task EXCEPT ![i] = "gone"]
    /\ UNCHANGED <<ap, sshNodeVars, script, fired, kills, reboots>>

Dismiss(i) ==
    /\ ap[i].status = "approved" /\ task[i] = "gone"
    /\ ap' = [ap EXCEPT ![i].status = "dismissed", ![i].mark = "superseded"]
    /\ UNCHANGED <<task, sshNodeVars, script, fired, kills, reboots>>

-----------------------------------------------------------------------------
(* ---- the node's scripts ------------------------------------------------------ *)

Plan == ap[script.ap].plan
(* A revert the timer started takes a second: it is over before a script's next line. *)
SshAt(pc) == fired = None /\ script # None /\ (script # None => script.pc = pc)
Goto(pc) == script' = [script EXCEPT !.pc = pc]
End(result) == script' = None /\ task' = [task EXCEPT ![script.ap] = result]
Others == UNCHANGED <<ap, fired, kills, reboots>>

(* The agent takes a task; key says whether the host has an authorized key, which only a durable plan asks. *)
LeaseTask(i, key) ==
    /\ script = None /\ fired = None /\ task[i] = "queued"
    /\ key => ap[i].kind = "arm" /\ (ap[i].kind = "arm" => ap[i].plan.durable)
    /\ script' = [ap |-> i, pc |-> IF ap[i].kind = "arm" THEN "snapshot" ELSE "confirm", key |-> key]
    /\ task' = [task EXCEPT ![i] = "running"]
    /\ UNCHANGED sshNodeVars /\ Others

(* A tool is missing before anything was touched. *)
Preflight == SshAt("snapshot") /\ End("failed") /\ UNCHANGED sshNodeVars /\ Others

(* The snapshot, the script that restores it (knockd and firewall only when this plan touches them), *)
(* and an earlier arm's timer stopped.                                                              *)
Snapshot ==
    /\ SshAt("snapshot") /\ Goto("timer")
    /\ bak' = [drop |-> drop, conf |-> IF Plan.seq # None THEN conf ELSE bak.conf]
    /\ rev' = [fw |-> Plan.fw, knock |-> Plan.seq # None]
    /\ timer' = 0
    /\ UNCHANGED <<drop, conf, kd, nft, table, unit, sshAdmitted, task>> /\ Others

Durable == Plan.durable /\ script.key

(* The timer is armed unless the plan is durable and the host shows a key; if it does not arm, nothing changes. *)
ArmTimer ==
    /\ SshAt("timer")
    /\ \/ Durable /\ timer' = timer /\ Goto("dropin") /\ task' = task
       \/ ~Durable /\ timer' = script.ap /\ Goto("dropin") /\ task' = task
       \/ ~Durable /\ timer' = timer /\ End("failed")
    /\ UNCHANGED <<drop, conf, kd, nft, table, unit, sshAdmitted, bak, rev>> /\ Others

(* From here a failure runs the revert from the EXIT trap. *)
Trap == Goto("undo1") /\ task' = task

(* sshd rejects the drop-in, or it does not take effect, after it is on disk. *)
WriteDropIn(ok) ==
    /\ SshAt("dropin") /\ drop' = script.ap
    /\ IF ok THEN Goto(IF Plan.seq # None THEN "knockd" ELSE "gate") /\ task' = task ELSE Trap
    /\ UNCHANGED <<conf, kd, nft, table, unit, timer, sshAdmitted, bak, rev>> /\ Others

(* knockd is installed, given this plan's sequences and restarted, before the gate. *)
StartKnockd(ok) ==
    /\ SshAt("knockd") /\ conf' = [seq |-> Plan.seq, prev |-> Plan.prev]
    /\ kd' = ok
    /\ IF ok THEN Goto("gate") /\ task' = task ELSE Trap
    /\ UNCHANGED <<drop, nft, table, unit, timer, sshAdmitted, bak, rev>> /\ Others

(* The gate: written, validated and loaded; loading replaces the table and its counters. *)
LoadGate(ok) ==
    /\ SshAt("gate") /\ Plan.fw
    /\ nft' = script.ap
    /\ IF ok THEN table' = [arm |-> script.ap, boot |-> FALSE] /\ sshAdmitted' = FALSE /\ Goto("exit") /\ task' = task
             ELSE UNCHANGED <<table, sshAdmitted>> /\ Trap
    /\ UNCHANGED <<drop, conf, kd, unit, timer, bak, rev>> /\ Others

(* The success marker is set; a durable plan that armed the timer after all says so in its output. *)
ArmSucceeds ==
    /\ SshAt("exit") \/ (SshAt("gate") /\ (script # None => ~Plan.fw))
    /\ End(IF Plan.durable /\ ~script.key THEN "fallback" ELSE "ok")
    /\ UNCHANGED sshNodeVars /\ Others

(* A signal the shell can trap. *)
Signalled ==
    /\ script # None /\ (script # None => script.pc \in {"dropin", "knockd", "gate", "exit"})
    /\ Trap /\ UNCHANGED sshNodeVars /\ Others

-----------------------------------------------------------------------------
(* ---- the revert: from the trap, or from the timer ----------------------------- *)

RestoreDropIn == drop' = bak.drop /\ UNCHANGED <<conf, kd, table, unit, sshAdmitted>>

\* Mutant: knockd is restored before the table is deleted.
DeleteTableLate == UNCHANGED <<drop, conf, kd, table, unit, sshAdmitted>>

DeleteTable ==
    /\ table' = IF rev.fw THEN None ELSE table
    /\ sshAdmitted' = IF rev.fw THEN FALSE ELSE sshAdmitted
    /\ UNCHANGED <<drop, conf, kd, unit>>

(* The old knockd.conf and a restart, or no conf, knockd stopped and disabled. *)
RestoreKnockd ==
    /\ conf' = IF rev.knock THEN bak.conf ELSE conf
    /\ kd' = IF rev.knock THEN bak.conf # None ELSE kd
    /\ UNCHANGED <<drop, table, unit, sshAdmitted>>

DisableUnit == unit' = (unit /\ ~rev.fw) /\ UNCHANGED <<drop, conf, kd, table, sshAdmitted>>

RevertStep(n) == CASE n = 1 -> RestoreDropIn [] n = 2 -> DeleteTable [] n = 3 -> RestoreKnockd [] n = 4 -> DisableUnit

TrapPc == <<"undo1", "undo2", "undo3", "undo4">>

TrapReverts(n) ==
    /\ SshAt(TrapPc[n]) /\ RevertStep(n)
    /\ IF n = 4 THEN End("failed") ELSE Goto(TrapPc[n + 1]) /\ task' = task
    /\ UNCHANGED <<nft, timer, bak, rev>> /\ Others

(* The window is over: systemd runs the revert script. *)
TimerFires ==
    /\ timer # 0 /\ fired = None
    /\ WindowCovers => script = None \/ (script # None => script.ap # timer)
    /\ timer' = 0 /\ fired' = 1
    /\ UNCHANGED <<srvVars, drop, conf, kd, nft, table, unit, sshAdmitted, bak, rev, script, kills, reboots>>

FiredReverts ==
    /\ fired # None /\ (fired # None => RevertStep(fired))
    /\ fired' = IF fired = 4 THEN None ELSE fired + 1
    /\ UNCHANGED <<srvVars, nft, timer, bak, rev, script, kills, reboots>>

-----------------------------------------------------------------------------
(* ---- confirm, evidence, kills and reboots ------------------------------------- *)

(* A new connection comes in through the gate, opened by the current sequence or from a management source. *)
SshAdmit ==
    /\ table # None /\ ~sshAdmitted
    /\ table # None => (ap[table.arm].plan.seq # None => kd)
    /\ sshAdmitted' = TRUE
    /\ UNCHANGED <<srvVars, drop, conf, kd, nft, table, unit, timer, bak, rev, script, fired, kills, reboots>>

(* Refused without a pending revert, or while the gate has admitted nothing. *)
ConfirmRefused ==
    /\ SshAt("confirm") /\ (timer = 0 \/ (table # None /\ ~sshAdmitted))
    /\ End("failed") /\ UNCHANGED sshNodeVars /\ Others

(* The previous sequence is retired before the timer is stopped; if knockd does not come back the timer stays. *)
RetirePrevious(ok) ==
    /\ SshAt("confirm") /\ timer # 0 /\ (table = None \/ sshAdmitted)
    /\ LET rotating == conf # None /\ (conf # None => conf.prev # None) IN
       /\ conf' = IF rotating THEN [conf EXCEPT !.prev = None] ELSE conf
       /\ kd' = IF rotating THEN ok ELSE kd
       /\ ~ok => rotating
    /\ IF ok THEN Goto("cancel") /\ task' = task ELSE End("failed")
    /\ UNCHANGED <<drop, nft, table, unit, timer, sshAdmitted, bak, rev>> /\ Others

CancelTimer ==
    /\ SshAt("cancel") /\ timer' = 0 /\ Goto("persist")
    /\ UNCHANGED <<drop, conf, kd, nft, table, unit, sshAdmitted, bak, rev, task>> /\ Others

(* The gate survives a boot from now on, if there is a ruleset on disk. *)
Persist ==
    /\ SshAt("persist") /\ unit' = (unit \/ nft # 0) /\ End("ok")
    /\ UNCHANGED <<drop, conf, kd, nft, table, timer, sshAdmitted, bak, rev>> /\ Others

(* The script dies without its trap; the agent answers for it (delivering a lost task again is TaskQueue's). *)
Kill ==
    /\ script # None /\ kills < MaxKills /\ kills' = kills + 1
    /\ End("failed")
    /\ UNCHANGED <<ap, sshNodeVars, fired, reboots>>

(* The timer does not survive a boot; the table only through its unit, knockd through its conf. *)
Reboot ==
    /\ reboots < MaxReboots /\ reboots' = reboots + 1
    /\ IF script = None THEN UNCHANGED <<script, task>> ELSE End("failed")
    /\ timer' = 0 /\ fired' = None /\ sshAdmitted' = FALSE
    /\ table' = IF unit THEN [arm |-> nft, boot |-> TRUE] ELSE None
    /\ kd' = (conf # None)
    /\ UNCHANGED <<ap, drop, conf, nft, unit, bak, rev, kills>>

-----------------------------------------------------------------------------
(* ---- results -------------------------------------------------------- *)

handleSSHGuardTaskResult(i) ==
    /\ task[i] \in {"ok", "fallback", "failed"}
    /\ ap' = [ap EXCEPT ![i].status = IF task[i] = "failed" THEN "rejected" ELSE "applied",
                        ![i].mark = IF task[i] = "fallback" THEN "timer" ELSE ""]
    /\ task' = [task EXCEPT ![i] = "done"]
    /\ UNCHANGED <<sshNodeVars, script, fired, kills, reboots>>

-----------------------------------------------------------------------------
SshInit ==
    /\ ap = <<>> /\ task = <<>>
    /\ drop = 0 /\ conf = None /\ kd = FALSE /\ nft = 0 /\ table = None /\ unit = FALSE /\ timer = 0 /\ sshAdmitted = FALSE
    /\ bak = [drop |-> 0, conf |-> None] /\ rev = [fw |-> FALSE, knock |-> FALSE]
    /\ script = None /\ fired = None /\ kills = 0 /\ reboots = 0

ArmStep ==
    \/ Preflight \/ Snapshot \/ ArmTimer \/ ArmSucceeds \/ Signalled
    \/ \E ok \in BOOLEAN : WriteDropIn(ok) \/ StartKnockd(ok) \/ LoadGate(ok)
    \/ \E n \in 1..4 : TrapReverts(n)

ConfirmStep == ConfirmRefused \/ (\E ok \in BOOLEAN : RetirePrevious(ok)) \/ CancelTimer \/ Persist

SshNext ==
    \/ \E req \in Requests, key \in BOOLEAN : handleSSHGuardPlan(req, key)
    \/ handleSSHGuardConfirm
    \/ \E i \in Ids : Decide(i, "approved") \/ Decide(i, "rejected") \/ SshCancelTask(i) \/ Dismiss(i) \/ handleSSHGuardTaskResult(i)
    \/ \E i \in Ids, key \in BOOLEAN : LeaseTask(i, key)
    \/ ArmStep \/ ConfirmStep \/ TimerFires \/ FiredReverts
    \/ SshAdmit \/ Kill \/ Reboot

-----------------------------------------------------------------------------
(* ---- properties ------------------------------------------------------------------- *)

(* Every variable holds a value of its kind; a timer, a drop-in and a ruleset name an arm (apply.go). *)
SshTypeOK ==
    /\ Len(task) = Len(ap)
    /\ {drop, nft, timer, bak.drop} \subseteq Arms \cup {0}
    /\ table # None => table.arm \in Arms
    /\ Stage \in {"idle", "arm_pending", "arm_approved", "arm_failed", "awaiting_confirm", "confirm_pending",
                  "confirm_approved", "confirmed", "hardened"}

(* A gate a script put up either can be opened, knockd running with a sequence, or is about to be  *)
(* taken down: its revert runs or has its timer.  So through failed arms, traps, timers, reboots   *)
(* and re-arms (armScript puts knockd up before the gate, the revert takes the gate down before knockd,*)
(* a confirm retires the previous sequence before it cancels the timer).                           *)
GateOpenable ==
    table # None /\ (table # None => ~table.boot /\ ap[table.arm].plan.seq # None)
        => \/ kd /\ conf # None
           \/ rev.fw /\ (timer # 0 \/ fired # None \/ (script # None /\ (script # None => script.pc \in {"undo1", "undo2"})))

(* The control plane calls an arm permanent and refuses its confirm only when the node has *)
(* no revert pending for it: a durable arm that fell back to the timer says so             *)
(* (sshGuardArmFellBackToTimer, handleSSHGuardConfirm).                                    *)
HardenedIsPermanent == Stage = "hardened" => timer # Newest(Arms)

(* A confirm reports success only on a node where the arm landed (confirmScript refuses a node that is not armed). *)
\* TLC refutes it (README.md, section 6).
ConfirmMeansLanded == \A c \in Confirms : task[c] = "ok" => drop # 0

(* The revert of arm a ran: its drop-in is off the node, or another task of the node took over. *)
TakenBack(a) == timer # a /\ (drop # a \/ \E i \in Ids : i # a /\ task[i] \notin {"none", "queued", "gone"})

(* A gate can be opened or is coming down, and an arm shown as permanent has no revert pending.               *)
SSHGuardSound == SshTypeOK /\ GateOpenable /\ HardenedIsPermanent

=============================================================================
