------------------------------- MODULE MCLive -------------------------------
(***************************************************************************)
(* What has to happen in the end: the obligations of eleven components,    *)
(* one of them followed per behaviour.  debt names it and does not change; *)
(* its component moves, and the others rest in their initial state, so the *)
(* fairness assumed is that of the component that owes.                    *)
(***************************************************************************)
EXTENDS TaskQueue, LineChain, TerminalBroker, NetPolicyFlow, AgentInstall, AgentUpdate, Incidents,
        PluginPool, PluginRuntime, SSHGuard, DnsPublish, TLC

VARIABLE debt   \* the obligation this behaviour is about

ChainNodeOf == [l \in {"l1", "l2"} |-> IF l = "l1" THEN "n1" ELSE "n2"]
ChainEdits == [l \in {"l1", "l2"} |-> 0]
TerminalsInPlay == {{"s1", "b1", "d1"}}
GuardRequests == {[fw |-> TRUE, seq |-> 1, rotate |-> FALSE], [fw |-> FALSE, seq |-> None, rotate |-> FALSE]}

ChainRecords == {"plan", "approve", "failed", "terminal"}   \* the records a chain change leaves in the audit log

QueueDebts == {<<"target", t>> : t \in Tasks}
ChainDebts == {<<"change">>} \cup {<<"logged", k>> : k \in ChainRecords}
TerminalDebts == {<<"dial">>, <<"detached">>, <<"life">>, <<"node">>}
PolDebts == {<<"shown waiting">>}
InstDebts == {<<"agent">>}
UpdDebts == {<<"update">>}
IncDebts == {<<"recovery">>}
PoolDebts == {<<"waiter">>, <<"cleanup">>}
RunDebts == {<<"stop", g>> : g \in Gens}
SshDebts == {<<"revert", a>> : a \in 1..(MaxArms + MaxConfirms)}
DnsDebts == {<<"name">>}

liveVars == <<debt, vars, chainVars, terminalVars, polVars, instVars, updVars, incVars, poolVars, runVars, sshVars, dnsVars>>

LiveInit ==
  /\ debt \in UNION {QueueDebts, ChainDebts, TerminalDebts, PolDebts, InstDebts, UpdDebts, IncDebts, PoolDebts,
                     RunDebts, SshDebts, DnsDebts}
  /\ Init /\ ChainInit /\ PolInit /\ UpdInit /\ IncInit /\ PoolInit /\ RunInit /\ SshInit /\ DnsInit
  /\ IF debt \in TerminalDebts THEN TerminalInit ELSE TerminalInitWith({})
  /\ InstInit /\ (debt \in InstDebts \/ (honest = {} /\ chunkOn))

LiveNext ==
  /\ UNCHANGED debt
  /\ \/ debt \in QueueDebts /\ Next
        /\ UNCHANGED <<chainVars, terminalVars, polVars, instVars, updVars, incVars, poolVars, runVars, sshVars, dnsVars>>
     \/ debt \in ChainDebts /\ ChainNext
        /\ UNCHANGED <<vars, terminalVars, polVars, instVars, updVars, incVars, poolVars, runVars, sshVars, dnsVars>>
     \/ debt \in TerminalDebts /\ TerminalNext
        /\ UNCHANGED <<vars, chainVars, polVars, instVars, updVars, incVars, poolVars, runVars, sshVars, dnsVars>>
     \/ debt \in PolDebts /\ PolNext
        /\ UNCHANGED <<vars, chainVars, terminalVars, instVars, updVars, incVars, poolVars, runVars, sshVars, dnsVars>>
     \/ debt \in InstDebts /\ InstNext
        /\ UNCHANGED <<vars, chainVars, terminalVars, polVars, updVars, incVars, poolVars, runVars, sshVars, dnsVars>>
     \/ debt \in UpdDebts /\ UpdNext
        /\ UNCHANGED <<vars, chainVars, terminalVars, polVars, instVars, incVars, poolVars, runVars, sshVars, dnsVars>>
     \/ debt \in IncDebts /\ IncNext
        /\ UNCHANGED <<vars, chainVars, terminalVars, polVars, instVars, updVars, poolVars, runVars, sshVars, dnsVars>>
     \/ debt \in PoolDebts /\ PoolNext
        /\ UNCHANGED <<vars, chainVars, terminalVars, polVars, instVars, updVars, incVars, runVars, sshVars, dnsVars>>
     \/ debt \in RunDebts /\ RunNext
        /\ UNCHANGED <<vars, chainVars, terminalVars, polVars, instVars, updVars, incVars, poolVars, sshVars, dnsVars>>
     \/ debt \in SshDebts /\ SshNext
        /\ UNCHANGED <<vars, chainVars, terminalVars, polVars, instVars, updVars, incVars, poolVars, runVars, dnsVars>>
     \/ debt \in DnsDebts /\ DnsNext
        /\ UNCHANGED <<vars, chainVars, terminalVars, polVars, instVars, updVars, incVars, poolVars, runVars, sshVars>>

-----------------------------------------------------------------------------
(* Fairness, a line per goroutine or outside party.  Handlers that started  *)
(* run to their end, tickers tick, live agents poll, run what they leased   *)
(* and post what they kept; nobody has to call, to answer or to fail.       *)

\* Agents keep polling and leases age.
QueueFair ==
  /\ \A n \in Nodes : WF_vars(debt \in QueueDebts /\ Poll(n))
  /\ WF_vars(debt \in QueueDebts /\ \E l \in Leases : Expire(l))

\* The agents of both lines poll, run their script, and their result is taken and confirmed.
ChainFair ==
  /\ \A l \in Lines : WF_chainVars(debt \in ChainDebts /\ leaseTaskDeliveries(NodeOf[l]))
  /\ \A a \in ChainApprovals : /\ WF_chainVars(debt \in ChainDebts /\ RunScript(a))
                               /\ WF_chainVars(debt \in ChainDebts /\ completeLineChainTaskResultLocked(a))
                               /\ WF_chainVars(debt \in ChainDebts /\ ConfirmTaskResultReplay(a))

\* The reaper ticks, clocks run out, the copy loops and handlers of started connections go on.
TerminalFair ==
  /\ WF_terminalVars(debt \in TerminalDebts /\ reap)
  /\ \A s \in Terminals, k \in Limits : WF_terminalVars(debt \in TerminalDebts /\ RunsOut(s, k))
  /\ \A b \in Browsers : WF_terminalVars(debt \in TerminalDebts /\ BrowserStep(b))
  /\ \A d \in Dials : WF_terminalVars(debt \in TerminalDebts /\ DialStep(d))
  /\ \A n \in TerminalNodes : WF_terminalVars(debt \in TerminalDebts /\ (closeForNode(n) \/ closeListed(n)))

\* A started handler runs to its end and the agent reports.
PolFair ==
  /\ \A c \in PolCalls : WF_polVars(debt \in PolDebts /\ Handle(c))
  /\ WF_polVars(debt \in PolDebts /\ Report)

\* The script goes on, systemd restarts the service, a healthy agent says hello, the guard's timer fires.
InstFair ==
  /\ WF_instVars(debt \in InstDebts /\ FirstPass) /\ WF_instVars(debt \in InstDebts /\ StartSecondPass)
  /\ WF_instVars(debt \in InstDebts /\ SecondPass) /\ WF_instVars(debt \in InstDebts /\ InstGiveUp)
  /\ WF_instVars(debt \in InstDebts /\ Verify) /\ WF_instVars(debt \in InstDebts /\ Install)
  /\ WF_instVars(debt \in InstDebts /\ \E armed \in BOOLEAN : agentUpdateGuardStep(armed))
  /\ WF_instVars(debt \in InstDebts /\ RestartService) /\ WF_instVars(debt \in InstDebts /\ Hello)
  /\ WF_instVars(debt \in InstDebts /\ GuardFires)

\* Handlers return; the agent leases, runs, posts and reports as long as it lives.
UpdFair ==
  /\ \A c \in UpdCalls : WF_updVars(debt \in UpdDebts /\ UpdHandle(c))
  /\ WF_updVars(debt \in UpdDebts /\ \E c \in UpdCalls : ReportVersion(c))
  /\ WF_updVars(debt \in UpdDebts /\ \E c \in UpdCalls, r \in updHost.results : PostUpdateResult(c, r))
  /\ \A a \in UpdApprovals : /\ WF_updVars(debt \in UpdDebts /\ LeaseInstall(a))
                             /\ WF_updVars(debt \in UpdDebts /\ \E ok \in BOOLEAN : RunInstall(a, ok))

\* The incident sweep runs and time passes.
IncFair ==
  /\ WF_incVars(debt \in IncDebts /\ openIncident) /\ WF_incVars(debt \in IncDebts /\ resolveIncident)
  /\ WF_incVars(debt \in IncDebts /\ evaluateIncidents) /\ WF_incVars(debt \in IncDebts /\ IncTick)

\* Callers, the supervisor and the cleanup go on; a worker that is killed is reaped.
PoolFair ==
  /\ \A c \in Callers : WF_poolVars(debt \in PoolDebts /\ CallerStep(c))
  /\ \A w \in Workers : WF_poolVars(debt \in PoolDebts /\ (JoinTransport(w, "clean") \/ JoinTransport(w, "error")))
  /\ WF_poolVars(debt \in PoolDebts /\ SupStep) /\ WF_poolVars(debt \in PoolDebts /\ CleanupStep)

\* Starts, stops and invocations go on, a generation told to end ends.
RunFair ==
  /\ \A g \in Gens : /\ WF_runVars(debt \in RunDebts /\ StartStep(g)) /\ WF_runVars(debt \in RunDebts /\ StopStep(g))
                     /\ WF_runVars(debt \in RunDebts /\ GenerationEnds(g, FALSE))
  /\ \A i \in Invokers : WF_runVars(debt \in RunDebts /\ InvokeEnds(i))

\* The scripts on the node go on, and the revert timer fires.
SshFair ==
  /\ WF_sshVars(debt \in SshDebts /\ ArmStep) /\ WF_sshVars(debt \in SshDebts /\ ConfirmStep)
  /\ WF_sshVars(debt \in SshDebts /\ TimerFires) /\ WF_sshVars(debt \in SshDebts /\ FiredReverts)

\* A run goes on and the sweep finds its profile due.
DnsFair ==
  /\ WF_dnsVars(debt \in DnsDebts /\ Apply) /\ WF_dnsVars(debt \in DnsDebts /\ RecordDDNSRun)
  /\ WF_dnsVars(debt \in DnsDebts /\ UpsertDDNSProfile) /\ WF_dnsVars(debt \in DnsDebts /\ ddnsDue)

\* Steps another actor can disable again and again: the agent's poll and post while the operator enables and disables the
\* node, the outbox while the incident changes, and the runs that wait for the profile's lock.
Persistent(i) ==
  \/ /\ debt \in PolDebts /\ UNCHANGED <<incVars, dnsVars>>
     /\ \E t \in TaskSlots : \/ i = 1 /\ PolLeaseTask(t)
                             \/ i = 2 /\ \E c \in PolCalls, ok \in BOOLEAN : PolAddTaskResult(c, t, ok)
  \/ /\ debt \in IncDebts /\ UNCHANGED <<polVars, dnsVars>>
     /\ i = 1 /\ \E r \in Rules : DrainOutbox(r)
  \/ /\ debt \in DnsDebts /\ UNCHANGED <<polVars, incVars>>
     /\ \/ i = 1 /\ TriggeredRun
        \/ i = 2 /\ sweepDDNSProfile

LiveSpec ==
  /\ LiveInit /\ [][LiveNext]_liveVars
  /\ QueueFair /\ ChainFair /\ TerminalFair /\ PolFair /\ InstFair /\ UpdFair /\ IncFair /\ PoolFair /\ RunFair /\ SshFair
  /\ DnsFair
  /\ \A i \in 1..2 : SF_<<polVars, incVars, dnsVars>>(Persistent(i))

-----------------------------------------------------------------------------
(* The obligations: for every debt <<what is owed, what pays it>>.          *)

Account ==
  \* a target is answered for, given up or withdrawn, also when no run ever reports back and an older task is in its way
  CASE debt \in QueueDebts -> <<Owes(debt[2], "n1"), ~Owes(debt[2], "n1")>>
  \* an approved chain change does not stay applying: it is leased or found stale, and its result is taken
    [] debt = <<"change">> -> LET open == chainTask["a1"] \in {"queued", "leased"} IN <<open, ~open>>
  \* evidence committed with a change reaches the audit log although its append failed, as long as an agent polls
    [] debt \in ChainDebts \ {<<"change">>} ->
         <<<<debt[2], "a1">> \in unlogged, <<debt[2], "a1">> \notin unlogged \/ chainNodes = {}>>
  \* a dial-in ends spliced or closed: neither side of the rendezvous waits for ever
    [] debt = <<"dial">> -> <<dial["d1"].st # "new", dial["d1"].st \in {"bridged", "closed"}>>
  \* "past it the session is reaped": a detached terminal is rejoined or ends
    [] debt = <<"detached">> -> LET away == terminalActiveStatus(term["s1"].st) /\ term["s1"].detached IN <<away, ~away>>
  \* "an absolute cap from OpenedAt regardless of activity": an over-age terminal ends, with its audit record
    [] debt = <<"life">> -> <<terminalActiveStatus(term["s1"].st) /\ "life" \in term["s1"].aged, "s1" \in audited>>
  \* the terminals of a deleted node end, those created while it was being deleted included
    [] debt = <<"node">> -> <<"n1" \notin termNodes, ActiveOn(term, "n1") = {}>>
  \* what an operator is told to wait for (approvalWait) ends or is shown as blocked, unless the node was disabled
    [] debt = <<"shown waiting">> -> <<ShownWaiting("a1"), ~ShownWaiting("a1") \/ polNode.disabled>>
  \* a node whose new agent wrote the health marker and never says hello gets its previous agent back
    [] debt = <<"agent">> -> <<IF works = None THEN FALSE ELSE works.marker, agent.hello>>
  \* an update whose task the node took is decided, unless the node came back with another version or it was forced
    [] debt = <<"update">> -> <<updTask["a1"] = "leased", UpdateSettled("a1")>>
  \* a rule that heard of an incident hears of its recovery, a damped one too, unless it reopens or its node goes
    [] debt = <<"recovery">> ->
         <<RecoveryOwed("r1", "i1"), told["r1"]["i1"] # "down" \/ "i1" \in ActiveIds \/ watch = "gone" \/ "r1" \in quiet>>
  \* a caller that queues for a worker is answered, though its context never ends and every worker may fail to start
    [] debt = <<"waiter">> -> LET waits == pc["c1"] = "waiting" IN <<waits, ~waits>>
  \* a generation that is stopped finishes its cleanup
    [] debt = <<"cleanup">> -> <<stopper = "marked", cleanup \in {"done", "failed"}>>
  \* every Stop and the RunClose finish, whatever starts, stops and invocations were running
    [] debt \in RunDebts -> <<fut[debt[2]] # None, StopFinished(debt[2])>>
  \* an arm with a pending revert comes off the node, unless a confirm keeps it or a newer arm takes over
    [] debt \in SshDebts -> <<timer = debt[2], TakenBack(debt[2])>>
  \* a profile's name comes to hold what the profile asks for, whatever runs failed or were overtaken
    [] debt = <<"name">> -> <<~NameHolds, NameHolds>>

(* Whatever is owed is paid in the end: no waiter, session, change, alert or revert is forgotten, whatever crashes,    *)
(* failures, cancellations and overtaking calls the components admit.                                                  *)
EveryDebtIsPaid == Account[1] ~> Account[2]
=============================================================================
