---- MODULE MCNetwork ----
(* The components that change the network of the nodes. *)
EXTENDS NetPolicyFlow, LineChain, ProxyCore, LineUsers, UsageMeter, DnsPublish, TerminalBroker, TLC

VARIABLE focus   \* the component this behaviour exercises; the others rest in their initial state

ChainNodeOf == [l \in {"l1", "l2"} |-> IF l = "l1" THEN "n1" ELSE "n2"]
ChainEdits == [l \in {"l1", "l2"} |-> IF l = "l1" THEN 0 ELSE 1]

MCUseEdges == {}
MCUseWho == [l \in UseLines |-> UseUsers]
MCUseNone == [l \in UseLines |-> None]
MCUseSub == [l \in UseLines |-> {}]
MCUseExp == [u \in UseUsers |-> None]

TerminalsInPlay == {{"s1", "s2", "b1", "d1"}, {"s1", "b1", "b2", "d1"}, {"s1", "b1", "d1", "d2"}}

vars == <<focus, polVars, chainVars, pxcVars, luVars, useVars, dnsVars, terminalVars>>

Init ==
  /\ focus \in {"NetPolicyFlow", "LineChain", "ProxyCore", "LineUsers", "UsageMeter", "DnsPublish", "TerminalBroker"}
  /\ PolInit
  /\ ChainInit
  /\ PxcInit /\ (focus = "ProxyCore" \/ (pxcNode.mgr = "none"))
  /\ LuInit
  /\ UseInit
  /\ DnsInit
  /\ IF focus = "TerminalBroker" THEN TerminalInit ELSE TerminalInitWith({})

Next ==
  /\ UNCHANGED focus
  /\ \/ focus = "NetPolicyFlow" /\ PolNext /\ UNCHANGED <<chainVars, pxcVars, luVars, useVars, dnsVars, terminalVars>>
     \/ focus = "LineChain" /\ ChainNext /\ UNCHANGED <<polVars, pxcVars, luVars, useVars, dnsVars, terminalVars>>
     \/ focus = "ProxyCore" /\ PxcNext /\ UNCHANGED <<polVars, chainVars, luVars, useVars, dnsVars, terminalVars>>
     \/ focus = "LineUsers" /\ LuNext /\ UNCHANGED <<polVars, chainVars, pxcVars, useVars, dnsVars, terminalVars>>
     \/ focus = "UsageMeter" /\ UseNext /\ UNCHANGED <<polVars, chainVars, pxcVars, luVars, dnsVars, terminalVars>>
     \/ focus = "DnsPublish" /\ DnsNext /\ UNCHANGED <<polVars, chainVars, pxcVars, luVars, useVars, terminalVars>>
     \/ focus = "TerminalBroker" /\ TerminalNext /\ UNCHANGED <<polVars, chainVars, pxcVars, luVars, useVars, dnsVars>>

Spec == Init /\ [][Next]_vars

(* Applied is never claimed for a policy the node did not run (handleApprovalTaskResult). *)
PolicyFlowHolds == focus = "NetPolicyFlow" => PolicyFlowSound

(* The three records of a change agree, the hosts never forward in a circle, and drift that a newer change
   must settle sticks until one does (store/line_chain.go). *)
ChainHolds == [](focus = "LineChain" => ChainSound) /\ DriftSticks

(* The node runs what was reviewed, the server records only what the node confirmed, failures restore, and
   renders and links agree (server_proxy.go). *)
ProxyHolds == focus = "ProxyCore" => ProxySound

(* Removals spare the owner's entry and deletes leave no entry that is on record (lineusers.go). *)
LineUsersHold == [](focus = "LineUsers" => LineUsersSound) /\ DeleteLeavesOnlyUnsettled

(* Every byte of a line is counted once, held bytes are charged in the end, and totals and pages follow the
   rows (usageIngest). *)
UsageHolds == focus = "UsageMeter" => UsageSound

(* What is shown of names, resolvers, checks and geo routings is what was published, run or measured, and
   recording a run loses no edit made meanwhile (runDDNS, recordedDDNSRun). *)
DnsHolds == [](focus = "DnsPublish" => DnsSound) /\ RunKeepsEdits

(* Sessions are bounded, an agent connection has one browser, an ended session stays ended and a viewed one
   is kept (server_terminal.go). *)
TerminalsHold == [](focus = "TerminalBroker" => TerminalSound) /\ ClosedIsFinal /\ ViewedIsKept
====
