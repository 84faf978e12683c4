------------------------------ MODULE DnsPublish ------------------------------
(***************************************************************************)
(* Names the server publishes for a node: a DDNS profile run by the sweep, *)
(* by an address change and by the operator under the profile's run lock;  *)
(* a self-hosted DNS deployment with its hostname, plan, approval, apply   *)
(* script and certificate checks; and a geo routing that embeds the node's *)
(* address.  Addresses are numbers; records live at the provider.          *)
(***************************************************************************)
EXTENDS Naturals, FiniteSets, Common

CONSTANTS DnsNames,     \* names records are published under
          DnsHost,      \* the name a deployment may publish
          DnsTargets,   \* CNAME targets
          DnsPorts,     \* recorded TCP listeners of an external engine
          DnsEdits,     \* which profile fields an edit may change
          DnsParts,     \* which of ddns, deploy and geo the operators use
          DnsOverlap,   \* a profile save may overlap the recording of a run
          MaxDnsIps, MaxDnsOps, MaxDnsFaults

VARIABLES dnsIp,      \* the node's public address
          dnsProf,    \* the DDNS profile
          dnsRec,     \* records at the provider
          dnsHand,    \* names changed by hand since a run wrote them
          dnsRun,     \* the run that holds the profile's lock, with the copy it read
          dnsWait,    \* addresses of triggered runs waiting for the lock
          dnsCall,    \* a profile save between its checks and its write
          dnsDep,     \* the DNS deployment
          dnsPub,     \* hostname publishes in flight
          dnsMeas,    \* a certificate measurement between its read and its link
          dnsMon,     \* authored TLS checks: port of each
          dnsAp,      \* the self-DNS approval and its task
          dnsNode,    \* Corefile, running config, firewall, script, watchdog
          dnsGuard,   \* NetGuard manages the node; it admits the listeners
          dnsGeo,     \* the geo routing
          dnsOps, dnsFaults

dnsVars == <<dnsIp, dnsProf, dnsRec, dnsHand, dnsRun, dnsWait, dnsCall, dnsDep, dnsPub, dnsMeas, dnsMon, dnsAp,
             dnsNode, dnsGuard, dnsGeo, dnsOps, dnsFaults>>
profVars == <<dnsProf, dnsRun, dnsWait, dnsCall>>
depVars == <<dnsDep, dnsPub, dnsMeas, dnsMon, dnsAp, dnsNode, dnsGuard>>
recVars == <<dnsRec, dnsHand>>

NoRec == [t |-> "none", ip |-> 0, to |-> "none"]
A(v) == [t |-> "A", ip |-> v, to |-> "none"]
C(g) == [t |-> "C", ip |-> 0, to |-> g]
NoIp == 0

DnsInit ==
  /\ dnsIp = 1 /\ dnsProf = None /\ dnsRec = [n \in DnsNames |-> NoRec] /\ dnsHand = {}
  /\ dnsRun = None /\ dnsWait = {} /\ dnsCall = None
  /\ dnsDep = None /\ dnsPub = {} /\ dnsMeas = None /\ dnsMon = {} /\ dnsAp = None
  /\ dnsNode = [file |-> 0, run |-> 0, fw |-> 0, pc |-> "idle", plan |-> None, dog |-> FALSE, bak |-> 0, fwbak |-> 0, fired |-> FALSE, torn |-> FALSE]
  /\ dnsGuard = [own |-> FALSE, open |-> FALSE] /\ dnsGeo = None
  /\ dnsOps = 0 /\ dnsFaults = 0

DnsOp == dnsOps < MaxDnsOps /\ dnsOps' = dnsOps + 1
DnsFault == dnsFaults < MaxDnsFaults /\ dnsFaults' = dnsFaults + 1

-----------------------------------------------------------------------------
(* DDNS profiles *)

\* A CNAME name may not be the deployment's hostname, nor the target of its own name.
ddnsCNAMEConflicts(p) == p.cname /\ dnsDep # None /\ (dnsDep # None => ~dnsDep.ext /\ dnsDep.host = p.dom)
ValidateRecordSettings(p) == p.cname => p.target # p.dom

\* A save keeps the runner's status of the record type it stays with.
handleDDNS ==
  \E c \in BOOLEAN, n \in DnsNames, g \in DnsTargets :
    LET old == dnsProf
        row == [cname |-> c, dom |-> n, target |-> IF c THEN g ELSE "none",
                last |-> IF old = None \/ c THEN NoIp ELSE old.last,
                lastT |-> IF old = None \/ ~c THEN "none" ELSE old.lastT,
                err |-> IF old = None THEN FALSE ELSE old.err,
                due |-> IF old = None THEN TRUE ELSE old.due,
                at |-> IF old = None THEN "none" ELSE old.at] IN
    /\ DnsOp /\ "ddns" \in DnsParts
    /\ dnsCall = None
    /\ old # None => /\ n # old.dom => "domain" \in DnsEdits
                     /\ c # old.cname => "kind" \in DnsEdits
    /\ ~ddnsCNAMEConflicts(row) /\ ValidateRecordSettings(row)
    /\ dnsCall' = [row |-> row, new |-> old = None]
    /\ UNCHANGED <<dnsProf, dnsRun, dnsWait, dnsIp, dnsGeo, dnsFaults>> /\ UNCHANGED recVars /\ UNCHANGED depVars
UpsertDDNSProfile ==
  /\ dnsCall # None
  /\ dnsProf' = dnsCall.row
  /\ dnsCall' = None
  /\ UNCHANGED <<dnsRun, dnsWait, dnsIp, dnsGeo, dnsOps, dnsFaults>> /\ UNCHANGED recVars /\ UNCHANGED depVars
handleDeleteDDNS ==
  /\ DnsOp
  /\ dnsProf # None /\ dnsProf' = None
  /\ UNCHANGED <<dnsRun, dnsWait, dnsCall, dnsIp, dnsGeo, dnsFaults>> /\ UNCHANGED recVars /\ UNCHANGED depVars

\* The interval since the last attempt has passed.
ddnsDue ==
  /\ dnsProf # None /\ (dnsProf # None => ~dnsProf.due)
  /\ dnsProf' = [dnsProf EXCEPT !.due = TRUE]
  /\ UNCHANGED <<dnsRun, dnsWait, dnsCall, dnsIp, dnsGeo, dnsOps, dnsFaults>> /\ UNCHANGED recVars /\ UNCHANGED depVars

\* The sweep runs an address profile that published another address or failed, and a CNAME that is out of place.
SweepWanted(p) ==
  IF p.cname THEN p.err \/ p.lastT # p.target \/ dnsRec[p.dom] # C(p.target)
  ELSE p.last # dnsIp \/ p.err

\* The lock is free and the sweep's turn comes: it reads the profile again, and runs it or leaves it.
sweepDDNSProfile ==
  /\ dnsRun = None
  /\ dnsProf # None /\ (dnsProf # None => dnsProf.due)
  /\ IF SweepWanted(dnsProf)
     THEN dnsRun' = [p |-> dnsProf, v |-> IF dnsProf.cname THEN NoIp ELSE dnsIp, out |-> "none"] /\ UNCHANGED dnsProf
     ELSE /\ dnsProf.cname
          /\ dnsProf' = [dnsProf EXCEPT !.due = FALSE] /\ UNCHANGED dnsRun
  /\ UNCHANGED <<dnsWait, dnsCall, dnsIp, dnsGeo, dnsOps, dnsFaults>> /\ UNCHANGED recVars /\ UNCHANGED depVars

\* A triggered run takes the lock and reads the profile again.
TriggeredRun ==
  \E v \in dnsWait :
    /\ dnsRun = None
    /\ dnsWait' = dnsWait \ {v}
    /\ dnsRun' = IF dnsProf # None /\ (dnsProf # None => ~dnsProf.cname) THEN [p |-> dnsProf, v |-> v, out |-> "none"] ELSE None
    /\ UNCHANGED <<dnsProf, dnsCall, dnsIp, dnsGeo, dnsOps, dnsFaults>> /\ UNCHANGED recVars /\ UNCHANGED depVars

handleRunDDNS ==
  /\ DnsOp
  /\ dnsRun = None /\ dnsProf # None
  /\ dnsRun' = [p |-> dnsProf, v |-> IF dnsProf.cname THEN NoIp ELSE dnsIp, out |-> "none"]
  /\ UNCHANGED <<dnsProf, dnsWait, dnsCall, dnsIp, dnsGeo, dnsFaults>> /\ UNCHANGED recVars /\ UNCHANGED depVars

\* What the provider holds after a record is set, unless another type is in the way.
DnsBlocked(n, r) == dnsRec[n].t \notin {"none", r.t}
SetRecord(n, r) == dnsRec' = [dnsRec EXCEPT ![n] = r] /\ dnsHand' = dnsHand \ {n}

\* The provider answers, refuses, or fails: then the record may have been written all the same.
Apply ==
  /\ dnsRun # None /\ (dnsRun # None => dnsRun.out = "none")
  /\ LET n == dnsRun.p.dom r == IF dnsRun.p.cname THEN C(dnsRun.p.target) ELSE A(dnsRun.v) IN
     \/ /\ ~DnsBlocked(n, r) /\ SetRecord(n, r)
        /\ dnsRun' = [dnsRun EXCEPT !.out = "ok"] /\ UNCHANGED dnsFaults
     \/ /\ DnsBlocked(n, r)
        /\ dnsRun' = [dnsRun EXCEPT !.out = "failed"] /\ UNCHANGED recVars /\ UNCHANGED dnsFaults
     \/ /\ DnsFault /\ ~DnsBlocked(n, r)
        /\ SetRecord(n, r) \/ UNCHANGED recVars
        /\ dnsRun' = [dnsRun EXCEPT !.out = "failed"]
  /\ UNCHANGED <<dnsProf, dnsWait, dnsCall, dnsIp, dnsGeo, dnsOps>> /\ UNCHANGED depVars

\* The outcome goes onto the profile as it is stored now: status only, and nothing if it is gone or of the other type.
recordedDDNSRun(p, run) ==
  IF p = None THEN p
  ELSE IF p.cname # run.p.cname THEN p
  ELSE IF run.out = "failed" THEN [p EXCEPT !.err = TRUE, !.due = FALSE]
  ELSE IF p.cname THEN [p EXCEPT !.err = FALSE, !.due = FALSE, !.lastT = run.p.target, !.at = run.p.dom]
  ELSE [p EXCEPT !.err = FALSE, !.due = FALSE, !.last = run.v, !.at = run.p.dom]
RecordDDNSRun ==
  /\ dnsRun # None /\ (dnsRun # None => dnsRun.out # "none")
  /\ DnsOverlap \/ dnsCall = None
  /\ dnsProf' = recordedDDNSRun(dnsProf, dnsRun)
  /\ dnsRun' = None
  /\ UNCHANGED <<dnsWait, dnsCall, dnsIp, dnsGeo, dnsOps, dnsFaults>> /\ UNCHANGED recVars /\ UNCHANGED depVars

\* Somebody changes a record by hand.
HandEdit ==
  \E n \in DnsNames, r \in {NoRec} \cup {C(g) : g \in DnsTargets} :
    /\ DnsFault
    /\ dnsRec[n] # r
    /\ dnsRec' = [dnsRec EXCEPT ![n] = r] /\ dnsHand' = dnsHand \cup {n}
    /\ UNCHANGED <<dnsIp, dnsGeo, dnsOps>> /\ UNCHANGED profVars /\ UNCHANGED depVars

-----------------------------------------------------------------------------
(* The node's address changes *)

\* Publishes a deployment would make: it has a hostname, is enabled and is not an external engine.
Publishing(d) == d # None /\ (d # None => d.host # "none" /\ ~d.dis /\ ~d.ext)

maybeTriggerDDNS ==
  /\ dnsIp < MaxDnsIps
  /\ dnsIp' = dnsIp + 1
  /\ dnsWait' = IF dnsProf # None /\ (dnsProf # None => ~dnsProf.cname) THEN dnsWait \cup {dnsIp + 1} ELSE dnsWait
  /\ dnsPub' = IF Publishing(dnsDep) THEN dnsPub \cup {[host |-> dnsDep.host, v |-> dnsIp + 1, out |-> "none"]} ELSE dnsPub
  /\ dnsGeo' = IF dnsGeo = None THEN None ELSE [dnsGeo EXCEPT !.changed = TRUE]
  /\ UNCHANGED <<dnsProf, dnsRun, dnsCall, dnsDep, dnsMeas, dnsMon, dnsAp, dnsNode, dnsGuard, dnsOps, dnsFaults>>
  /\ UNCHANGED recVars

-----------------------------------------------------------------------------
(* DNS deployments *)

cnameProfilePublishing(n) == dnsProf # None /\ (dnsProf # None => dnsProf.cname /\ dnsProf.dom = n)

\* An engine of our own keeps its status over an edit; an external one is only observed.
normalizeDNSDeployment(old, host, dis) ==
  [ext |-> FALSE, host |-> host, dis |-> dis, cfg |-> IF old = None THEN 1 ELSE old.cfg + 1,
   st |-> IF dis THEN "disabled" ELSE IF old = None \/ (old # None /\ (old # None => old.st \in {"disabled", "observed"})) THEN "pending" ELSE old.st,
   last |-> IF old = None THEN NoIp ELSE old.last, perr |-> IF old = None THEN FALSE ELSE old.perr,
   certs |-> IF old = None THEN {} ELSE old.certs, ver |-> IF old = None THEN 1 ELSE old.ver + 1]
normalizeExternalDNSDeployment(old) ==
  [ext |-> TRUE, host |-> DnsHost, dis |-> FALSE, cfg |-> IF old = None THEN 1 ELSE old.cfg + 1, st |-> "observed", last |-> NoIp,
   perr |-> FALSE, certs |-> IF old = None THEN {} ELSE old.certs, ver |-> IF old = None THEN 1 ELSE old.ver + 1]

handleDNSDeployments ==
  /\ DnsOp /\ "deploy" \in DnsParts
  /\ \/ \E h \in {"none", DnsHost}, dis \in BOOLEAN :
          /\ h # "none" => ~cnameProfilePublishing(h)
          /\ dnsDep' = normalizeDNSDeployment(dnsDep, h, dis)
     \/ dnsDep' = normalizeExternalDNSDeployment(dnsDep)
  /\ UNCHANGED <<dnsPub, dnsMeas, dnsMon, dnsAp, dnsNode, dnsGuard, dnsIp, dnsGeo, dnsFaults>> /\ UNCHANGED profVars /\ UNCHANGED recVars
handleDeleteDNSDeployment ==
  /\ DnsOp
  /\ dnsDep # None /\ dnsDep' = None
  /\ UNCHANGED <<dnsPub, dnsMeas, dnsMon, dnsAp, dnsNode, dnsGuard, dnsIp, dnsGeo, dnsFaults>> /\ UNCHANGED profVars /\ UNCHANGED recVars

handleDNSPublish ==
  /\ DnsOp
  /\ Publishing(dnsDep)
  /\ dnsPub' = dnsPub \cup {[host |-> dnsDep.host, v |-> dnsIp, out |-> "none"]}
  /\ UNCHANGED <<dnsDep, dnsMeas, dnsMon, dnsAp, dnsNode, dnsGuard, dnsIp, dnsGeo, dnsFaults>> /\ UNCHANGED profVars /\ UNCHANGED recVars

\* No lock orders two publishes of one deployment.
publishDNSDeploymentWithAudit ==
  \E j \in dnsPub :
    /\ j.out = "none"
    /\ \/ /\ ~DnsBlocked(j.host, A(j.v)) /\ SetRecord(j.host, A(j.v))
          /\ dnsPub' = (dnsPub \ {j}) \cup {[j EXCEPT !.out = "ok"]} /\ UNCHANGED dnsFaults
       \/ /\ DnsBlocked(j.host, A(j.v)) /\ UNCHANGED recVars
          /\ dnsPub' = (dnsPub \ {j}) \cup {[j EXCEPT !.out = "failed"]} /\ UNCHANGED dnsFaults
    /\ UNCHANGED <<dnsDep, dnsMeas, dnsMon, dnsAp, dnsNode, dnsGuard, dnsIp, dnsGeo, dnsOps>> /\ UNCHANGED profVars
RecordDNSPublish ==
  \E j \in dnsPub :
    /\ j.out # "none"
    /\ dnsPub' = dnsPub \ {j}
    /\ dnsDep' = IF ~(dnsDep # None /\ (dnsDep # None => dnsDep.host = j.host /\ ~dnsDep.ext)) THEN dnsDep
                 ELSE IF j.out = "failed" THEN [dnsDep EXCEPT !.perr = TRUE, !.ver = @ + 1]
                 ELSE [dnsDep EXCEPT !.perr = FALSE, !.last = j.v, !.ver = @ + 1]
    /\ UNCHANGED <<dnsMeas, dnsMon, dnsAp, dnsNode, dnsGuard, dnsIp, dnsGeo, dnsOps, dnsFaults>> /\ UNCHANGED profVars /\ UNCHANGED recVars

-----------------------------------------------------------------------------
(* Certificate checks of an external engine *)

DnsMeasures(d) == d # None /\ (d # None => d.ext)

\* The deployment is read; the checks are listed under the monitor lock later.
handleDNSMeasureCert ==
  \E ports \in (SUBSET DnsPorts) \ {{}} :
    /\ DnsOp
    /\ dnsMeas = None /\ DnsMeasures(dnsDep)
    /\ dnsMeas' = [ports |-> ports, ver |-> dnsDep.ver]
    /\ UNCHANGED <<dnsDep, dnsPub, dnsMon, dnsAp, dnsNode, dnsGuard, dnsIp, dnsGeo, dnsFaults>> /\ UNCHANGED profVars /\ UNCHANGED recVars

authoredTLSCheckOn(port) == {m \in dnsMon : m.port = port}

\* One write creates the missing checks and links all of them, if the deployment is as it was read.
LinkDNSCertMonitors ==
  /\ dnsMeas # None
  /\ LET create == {p \in dnsMeas.ports : authoredTLSCheckOn(p) = {}}
         fresh == {[id |-> Cardinality(dnsMon) + 1, port |-> p] : p \in create}
         ok == DnsMeasures(dnsDep) /\ (dnsDep # None => dnsDep.ver = dnsMeas.ver) IN
     IF ok THEN /\ dnsMon' = dnsMon \cup fresh
                /\ dnsDep' = [dnsDep EXCEPT !.ver = @ + 1,
                     !.certs = {m \in @ : m \in dnsMon} \cup fresh \cup UNION {authoredTLSCheckOn(p) : p \in dnsMeas.ports}]
     ELSE UNCHANGED <<dnsMon, dnsDep>>
  /\ dnsMeas' = None
  /\ UNCHANGED <<dnsPub, dnsAp, dnsNode, dnsGuard, dnsIp, dnsGeo, dnsOps, dnsFaults>> /\ UNCHANGED profVars /\ UNCHANGED recVars

-----------------------------------------------------------------------------
(* Self-hosted DNS on the node *)

\* The plan carries a ruleset unless NetGuard owns the firewall; then it must admit the listeners.
handleDNSPlan ==
  /\ DnsOp
  /\ dnsDep # None /\ (dnsDep # None => ~dnsDep.ext)
  /\ dnsAp # None => dnsAp.st \in {"applied", "rejected"}
  /\ dnsGuard.own /\ ~dnsDep.dis => dnsGuard.open
  /\ dnsAp' = [cfg |-> dnsDep.cfg, dis |-> dnsDep.dis, fw |-> ~dnsGuard.own, st |-> "pending"]
  /\ UNCHANGED <<dnsDep, dnsPub, dnsMeas, dnsMon, dnsNode, dnsGuard, dnsIp, dnsGeo, dnsFaults>> /\ UNCHANGED profVars /\ UNCHANGED recVars

GuardChanges ==
  \E g \in [own : BOOLEAN, open : BOOLEAN] :
    /\ DnsOp /\ "deploy" \in DnsParts
    /\ g # dnsGuard /\ dnsGuard' = g
    /\ UNCHANGED <<dnsDep, dnsPub, dnsMeas, dnsMon, dnsAp, dnsNode, dnsIp, dnsGeo, dnsFaults>> /\ UNCHANGED profVars /\ UNCHANGED recVars

\* The firewall's owner is the one the plan was made for, and admits the listeners when it is NetGuard.
requireSelfDNSFirewallOwner(a) == a.fw = ~dnsGuard.own /\ (dnsGuard.own /\ ~a.dis => dnsGuard.open)

ApproveSelfDNS ==
  /\ dnsAp # None /\ (dnsAp # None => dnsAp.st = "pending")
  /\ requireSelfDNSFirewallOwner(dnsAp)
  /\ dnsDep # None
  /\ dnsAp' = [dnsAp EXCEPT !.st = "approved"]
  /\ dnsDep' = [dnsDep EXCEPT !.st = "applying", !.ver = @ + 1]
  /\ UNCHANGED <<dnsPub, dnsMeas, dnsMon, dnsNode, dnsGuard, dnsIp, dnsGeo, dnsOps, dnsFaults>> /\ UNCHANGED profVars /\ UNCHANGED recVars

DnsScript == UNCHANGED <<dnsDep, dnsPub, dnsMeas, dnsMon, dnsGuard, dnsIp, dnsGeo, dnsOps>> /\ UNCHANGED profVars /\ UNCHANGED recVars

\* Mutant: the rollback does not restart the service.
rollsBackFiles(n) == [n EXCEPT !.file = n.bak, !.fw = n.fwbak]

\* The files and the firewall of before, and the service restarted on them.
rollback(n) == [n EXCEPT !.file = n.bak, !.fw = n.fwbak, !.run = n.bak]

\* The Corefile and zones are put in place of the saved ones.
ScriptWrites ==
  /\ dnsAp # None /\ (dnsAp # None => dnsAp.st = "approved")
  /\ dnsNode.pc = "idle" /\ ~dnsNode.dog /\ dnsNode.plan = None
  /\ dnsNode' = [dnsNode EXCEPT !.pc = "written", !.bak = dnsNode.file, !.fwbak = dnsNode.fw, !.file = dnsAp.cfg, !.plan = dnsAp, !.fired = FALSE]
  /\ UNCHANGED <<dnsAp, dnsFaults>> /\ DnsScript
\* The watchdog starts, then the ruleset of a plan that carries one is loaded.
start_watchdog ==
  /\ dnsNode.pc = "written"
  /\ dnsNode' = [dnsNode EXCEPT !.pc = "armed", !.dog = TRUE, !.fw = dnsNode.plan.cfg]
  /\ UNCHANGED <<dnsAp, dnsFaults>> /\ DnsScript
\* The service is restarted on the files in place.
ScriptRestarts ==
  /\ dnsNode.pc = "armed"
  /\ dnsNode' = [dnsNode EXCEPT !.pc = "restarted", !.run = dnsNode.file]
  /\ UNCHANGED <<dnsAp, dnsFaults>> /\ DnsScript
\* The service is active and the watchdog did not come first: the apply stands.
assert_watchdog_clean ==
  /\ dnsNode.pc = "restarted" /\ ~dnsNode.fired
  /\ dnsNode' = [dnsNode EXCEPT !.pc = "idle", !.dog = FALSE, !.plan = [@ EXCEPT !.st = "ok"]]
  /\ UNCHANGED <<dnsAp, dnsFaults>> /\ DnsScript
\* A command fails, or the watchdog fired: the trap rolls back and stops the watchdog.
ScriptFails ==
  /\ dnsNode.pc \in {"written", "armed", "restarted"}
  /\ IF dnsNode.fired THEN UNCHANGED dnsFaults ELSE DnsFault
  /\ dnsNode' = [(IF dnsNode.fired THEN dnsNode ELSE rollback(dnsNode)) EXCEPT !.pc = "idle", !.dog = FALSE, !.plan = [@ EXCEPT !.st = "failed"]]
  /\ UNCHANGED dnsAp /\ DnsScript
\* The script is killed; the watchdog, if it runs, is not.
ScriptKilledDns ==
  /\ dnsNode.pc \in {"written", "armed", "restarted"}
  /\ DnsFault
  /\ dnsNode' = [dnsNode EXCEPT !.pc = "idle", !.plan = [@ EXCEPT !.st = "failed"], !.torn = @ \/ dnsNode.pc = "written"]
  /\ UNCHANGED dnsAp /\ DnsScript
WatchdogFires ==
  /\ dnsNode.dog /\ ~dnsNode.fired
  /\ dnsNode' = [rollback(dnsNode) EXCEPT !.dog = FALSE, !.fired = dnsNode.pc # "idle"]
  /\ UNCHANGED <<dnsAp, dnsFaults>> /\ DnsScript

handleSelfDNSTaskResult ==
  /\ dnsNode.plan # None /\ dnsNode.pc = "idle"
  /\ LET ok == dnsNode.plan.st = "ok" IN
     /\ dnsAp' = [dnsAp EXCEPT !.st = IF ok THEN "applied" ELSE "rejected"]
     /\ dnsDep' = IF dnsDep = None THEN None ELSE [dnsDep EXCEPT !.st = IF ok THEN "running" ELSE "failed", !.ver = @ + 1]
  /\ dnsNode' = [dnsNode EXCEPT !.plan = None]
  /\ UNCHANGED <<dnsPub, dnsMeas, dnsMon, dnsGuard, dnsIp, dnsGeo, dnsOps, dnsFaults>> /\ UNCHANGED profVars /\ UNCHANGED recVars

-----------------------------------------------------------------------------
(* Geo routing *)

\* A save re-renders from the nodes as they are; the plan shows the addresses it embeds.
handleGeoRoutings ==
  /\ DnsOp /\ "geo" \in DnsParts
  /\ dnsGeo' = [changed |-> FALSE, ip |-> dnsIp]
  /\ UNCHANGED <<dnsIp, dnsFaults>> /\ UNCHANGED profVars /\ UNCHANGED recVars /\ UNCHANGED depVars
handleDeleteGeoRouting ==
  /\ DnsOp
  /\ dnsGeo # None /\ dnsGeo' = None
  /\ UNCHANGED <<dnsIp, dnsFaults>> /\ UNCHANGED profVars /\ UNCHANGED recVars /\ UNCHANGED depVars

-----------------------------------------------------------------------------
DnsRuns == Apply \/ RecordDDNSRun \/ TriggeredRun \/ sweepDDNSProfile
DnsNext ==
  \/ handleDDNS \/ UpsertDDNSProfile \/ handleDeleteDDNS \/ ddnsDue \/ handleRunDDNS \/ DnsRuns \/ HandEdit
  \/ maybeTriggerDDNS
  \/ handleDNSDeployments \/ handleDeleteDNSDeployment \/ handleDNSPublish \/ publishDNSDeploymentWithAudit \/ RecordDNSPublish
  \/ handleDNSMeasureCert \/ LinkDNSCertMonitors
  \/ handleDNSPlan \/ GuardChanges \/ ApproveSelfDNS \/ ScriptWrites \/ start_watchdog \/ ScriptRestarts \/ assert_watchdog_clean \/ ScriptFails
  \/ ScriptKilledDns \/ WatchdogFires \/ handleSelfDNSTaskResult
  \/ handleGeoRoutings \/ handleDeleteGeoRouting

DnsTypeOK ==
  /\ dnsIp \in 1..MaxDnsIps /\ dnsHand \subseteq DnsNames /\ dnsWait \subseteq 1..MaxDnsIps
  /\ dnsProf # None => dnsProf.last \in 0..MaxDnsIps /\ dnsProf.dom \in DnsNames
  /\ dnsDep # None => dnsDep.st \in {"pending", "disabled", "observed", "applying", "running", "failed"}
  /\ dnsNode.pc \in {"idle", "written", "armed", "restarted"}

\* The address a profile shows as published is the one its name holds, once no run is under way, unless the last run failed,
\* somebody changed the record by hand, or the deployment publishes the same name.
ShownIsInDns ==
  dnsProf # None /\ dnsRun = None =>
    (dnsProf # None => (~dnsProf.cname /\ ~dnsProf.err /\ dnsProf.last # NoIp /\ dnsProf.at # DnsHost
                          /\ dnsProf.at \notin dnsHand => dnsRec[dnsProf.at] = A(dnsProf.last)))

\* A run never changes what an operator saved, and never brings a deleted profile back.
RunKeepsEdits ==
  [][RecordDDNSRun => /\ (dnsProf = None) <=> (dnsProf' = None)
                      /\ dnsProf # None => dnsProf'.dom = dnsProf.dom /\ dnsProf'.target = dnsProf.target /\ dnsProf'.cname = dnsProf.cname]_dnsVars

\* Measuring a certificate twice, or racing an edit, never leaves two checks on one endpoint.
OneCheckPerEndpoint == \A m, k \in dnsMon : m.port = k.port => m = k

\* Between applies the running resolver and the firewall come from the same plan, whatever failed, was killed or rolled back,
\* unless a script was killed before its watchdog started.
PortsMatchResolver == dnsNode.pc = "idle" /\ ~dnsNode.dog /\ ~dnsNode.torn => dnsNode.run = dnsNode.fw

\* A geo routing whose rendering embeds an older address says so.
GeoFlagged == dnsGeo # None => (dnsGeo # None => (dnsGeo.ip # dnsIp => dnsGeo.changed))

\* What the pages show of a name, a resolver, a certificate check and a geo routing is what was published, run or measured.
DnsSound == DnsTypeOK /\ ShownIsInDns /\ OneCheckPerEndpoint /\ PortsMatchResolver /\ GeoFlagged

\* The profile's name holds what the profile asks for, or something else blocks it: a record of the other type, or one
\* changed by hand.
NameHolds ==
  IF dnsProf = None THEN TRUE
  ELSE IF dnsProf.cname THEN dnsRec[dnsProf.dom].t = "A" \/ dnsRec[dnsProf.dom] = C(dnsProf.target)
  ELSE dnsProf.dom \in dnsHand \/ dnsRec[dnsProf.dom].t = "C" \/ dnsRec[dnsProf.dom] = A(dnsIp)
=============================================================================
