---------------------------- MODULE TerminalBroker ----------------------------
(* Web terminals: the broker's table of sessions (terminalBroker), the hub     *)
(* that splices a waiting browser with the agent that dials in (terminalHub),  *)
(* the reaper, and the deletion of a node, which closes its sessions.          *)
(*                                                                             *)
(* Time is abstract: a session's "aged" holds the limits that have run out     *)
(* since the moment they are measured from.  Every broker call starts with     *)
(* pruneLocked.  Requests that are refused for want of a scope or ownership    *)
(* change nothing here, and the bytes of inputs and events are left out.       *)
EXTENDS Common, Naturals, FiniteSets

CONSTANTS Terminals,          \* the ids a session may get, each used once
          TerminalNodes, Browsers, Dials,
          InPlay,            \* sets of ids: a behaviour uses one of them, the other ids are used up
          MaxActivePerNode,  \* terminalMaxActiveSessionsPerNode
          MaxSessions        \* terminalMaxSessions

VARIABLES term,      \* terminalBroker.sessions
          reaped,    \* terminalBroker.reaped
          termNodes, \* the nodes in the store
          opening,   \* nodes for which a create request has passed store.Node
          deleting,  \* the sessions closeForNode has still to close ({None}: not listed yet)
          bridge,    \* terminalHub.pending: the browser waiting for a session
          gone,      \* browsers whose pendingBridge.done is closed
          browser, dial,        \* the attach and dial-in handlers
          audited, overlapped   \* history

brokerVars == <<term, reaped>>
hubVars == <<bridge, gone, browser, dial>>
nodeVars == <<termNodes, opening, deleting>>
terminalHistory == <<audited, overlapped>>
terminalVars == <<brokerVars, hubVars, nodeVars, terminalHistory>>

Limits == {"pending", "idle", "detach", "life", "closed"}
NoSession == [st |-> "none", node |-> None, bridged |-> FALSE, detached |-> FALSE, aged |-> {}, rank |-> 0]
RemovedSession == [NoSession EXCEPT !.st = "removed"]

terminalClosedStatus(st) == st \in {"closed", "failed"}
terminalActiveStatus(st) == st \in {"pending", "open"}
Present(t) == {s \in Terminals : t[s].st \notin {"none", "removed"}}
ActiveOn(t, n) == {s \in Present(t) : t[s].node = n /\ terminalActiveStatus(t[s].st)}
NextRank(t) == 1 + Cardinality({t[s].rank : s \in {x \in Terminals : t[x].rank > 0}})

TerminalInitWith(play) ==
  /\ term = [s \in Terminals |-> IF s \in play THEN NoSession ELSE RemovedSession] /\ reaped = {} /\ termNodes = TerminalNodes
  /\ opening = {} /\ deleting = [n \in TerminalNodes |-> {}]
  /\ bridge = [s \in Terminals |-> None] /\ gone = {}
  /\ browser = [b \in Browsers |-> [st |-> IF b \in play THEN "new" ELSE "done", session |-> None, agent |-> None]]
  /\ dial = [d \in Dials |-> [st |-> IF d \in play THEN "new" ELSE "closed", session |-> None, to |-> None]]
  /\ audited = {} /\ overlapped = {}

TerminalInit == \E play \in InPlay : TerminalInitWith(play)

-------------------------------------------------------------------------------
(* The lifecycle pass. *)

Expired(r) ==
  \/ r.st = "pending" /\ "pending" \in r.aged
  \/ terminalActiveStatus(r.st) /\
       \/ "life" \in r.aged
       \/ ~r.bridged /\ r.detached /\ "detach" \in r.aged
       \/ ~r.bridged /\ "idle" \in r.aged

ExpiredSet(t) == {s \in Terminals : Expired(t[s])}

failTerminalSession(r, k) ==
  [r EXCEPT !.st = "failed", !.bridged = FALSE, !.detached = FALSE, !.aged = {}, !.rank = k]

Pruned(t) ==
  [s \in Terminals |->
     IF Expired(t[s]) THEN failTerminalSession(t[s], NextRank(t))
     ELSE IF terminalClosedStatus(t[s].st) /\ "closed" \in t[s].aged
          THEN RemovedSession ELSE t[s]]

(* A broker call: the pass, then the call's own change of the table. *)
pruneLocked(change(_)) ==
  /\ term' = change(Pruned(term))
  /\ reaped' = reaped \cup ExpiredSet(term)

Same(t) == t
Touch(r) == [r EXCEPT !.aged = @ \ {"idle"}]
Close(r, status, k) ==
  [r EXCEPT !.st = status, !.rank = IF @ = 0 THEN k ELSE @,
            !.aged = IF terminalClosedStatus(r.st) THEN @ ELSE {}]

Room(t) == Cardinality(Present(t)) < MaxSessions

(* dropOldestClosedLocked, until there is room for one more session. *)
DropOldest(t) ==
  IF Room(t) THEN {}
  ELSE LET closed == {s \in Present(t) : terminalClosedStatus(t[s].st)}
       IN  {s \in closed : \A o \in closed : t[s].rank <= t[o].rank}

-------------------------------------------------------------------------------
(* Operator requests. *)

(* handleTerminalSessions, POST: the node is looked up before the broker is asked. *)
OpenRequest(n) ==
  /\ n \in termNodes \ opening /\ opening' = opening \cup {n}
  /\ UNCHANGED <<brokerVars, hubVars, termNodes, deleting, terminalHistory>>

create(s, n) ==
  /\ n \in opening /\ opening' = opening \ {n} /\ term[s].st = "none"
  /\ LET t == Pruned(term)
         drop == DropOldest(t)
         room == Room(t) \/ drop # {}
         ok == Cardinality(ActiveOn(t, n)) < MaxActivePerNode /\ room
         fresh == [NoSession EXCEPT !.st = "pending", !.node = n]
     IN  \E d \in IF ok THEN drop \cup (IF drop = {} THEN {None} ELSE {}) ELSE {None} :
           pruneLocked(LAMBDA p : [x \in Terminals |->
             IF x = s /\ ok THEN fresh
             ELSE IF x = d THEN RemovedSession ELSE p[x]])
  /\ UNCHANGED <<hubVars, termNodes, deleting, terminalHistory>>

(* handleTerminalSessionPath, input, resize and close: addInput. *)
addInput(s, kind) ==
  /\ s \in Present(Pruned(term))
  /\ pruneLocked(LAMBDA p :
       IF terminalClosedStatus(p[s].st) THEN p
       ELSE [p EXCEPT ![s] = Touch(IF kind = "close" THEN Close(@, "closed", NextRank(p)) ELSE @)])
  /\ UNCHANGED <<hubVars, nodeVars, terminalHistory>>

(* handleTerminalSessionPath, attach, up to the hub: a closed session is answered with a close frame. *)
attach(b, s) ==
  /\ browser[b].st = "new" /\ s \in Present(Pruned(term))
  /\ pruneLocked(Same)
  /\ browser' = [browser EXCEPT ![b] =
       [@ EXCEPT !.st = IF terminalClosedStatus(term'[s].st) THEN "done" ELSE "attaching", !.session = s]]
  /\ UNCHANGED <<bridge, gone, dial, nodeVars, terminalHistory>>

-------------------------------------------------------------------------------
(* terminalHub. *)

Waiter(s) == bridge[s]

(* attachBrowser registers the browser; a browser already waiting is superseded. *)
attachBrowser(b) ==
  /\ browser[b].st = "attaching"
  /\ LET s == browser[b].session
     IN  /\ bridge' = [bridge EXCEPT ![s] = b]
         /\ gone' = gone \cup ({Waiter(s)} \ {None})
  /\ browser' = [browser EXCEPT ![b].st = "waiting"]
  /\ UNCHANGED <<dial, brokerVars, nodeVars, terminalHistory>>

\* Mutant: a browser that leaves does not close done.
GiveUpSilently(b) ==
  /\ browser[b].st = "waiting"
  /\ LET s == browser[b].session
     IN  bridge' = [bridge EXCEPT ![s] = IF @ = b THEN None ELSE @]
  /\ browser' = [browser EXCEPT ![b].st = "done"]
  /\ UNCHANGED <<gone, dial, brokerVars, nodeVars, terminalHistory>>

(* The browser leaves the select without an agent (superseded or timed out):   *)
(* the deferred function forgets the waiter and closes done.                   *)
GiveUp(b) ==
  /\ browser[b].st = "waiting"
  /\ LET s == browser[b].session
     IN  bridge' = [bridge EXCEPT ![s] = IF @ = b THEN None ELSE @]
  /\ gone' = gone \cup {b}
  /\ browser' = [browser EXCEPT ![b].st = "done"]
  /\ UNCHANGED <<dial, brokerVars, nodeVars, terminalHistory>>

(* bridgeAgent takes the waiter out of the table. *)
TakeWaiter(d) ==
  /\ dial[d].st = "seeking" /\ Waiter(dial[d].session) # None
  /\ dial' = [dial EXCEPT ![d].st = "offering", ![d].to = Waiter(dial[d].session)]
  /\ bridge' = [bridge EXCEPT ![dial[d].session] = None]
  /\ UNCHANGED <<gone, browser, brokerVars, nodeVars, terminalHistory>>

(* bridgeAgent found no browser within its window. *)
DeliverTimeout(d) ==
  /\ dial[d].st = "seeking" /\ Waiter(dial[d].session) = None
  /\ dial' = [dial EXCEPT ![d].st = "closed"]
  /\ UNCHANGED <<bridge, gone, browser, brokerVars, nodeVars, terminalHistory>>

\* Mutant: agentCh is buffered, so the hand-over succeeds with nobody there.
handOffBuffered(d) ==
  /\ dial[d].st = "offering"
  /\ dial' = [dial EXCEPT ![d].st = "bridged"]
  /\ browser' = [browser EXCEPT ![dial[d].to].st = IF @ = "waiting" THEN "joined" ELSE @, ![dial[d].to].agent = d]
  /\ UNCHANGED <<bridge, gone, brokerVars, nodeVars, terminalHistory>>

(* The rendezvous on agentCh: both sides are in their select. *)
handOff(d) ==
  /\ dial[d].st = "offering" /\ browser[dial[d].to].st = "waiting"
  /\ dial' = [dial EXCEPT ![d].st = "bridged"]
  /\ browser' = [browser EXCEPT ![dial[d].to].st = "joined", ![dial[d].to].agent = d]
  /\ UNCHANGED <<bridge, gone, brokerVars, nodeVars, terminalHistory>>

(* The agent's select takes done: it closes its own connection. *)
OfferRefused(d) ==
  /\ dial[d].st = "offering" /\ dial[d].to \in gone
  /\ dial' = [dial EXCEPT ![d].st = "closed"]
  /\ UNCHANGED <<bridge, gone, browser, brokerVars, nodeVars, terminalHistory>>

Spliced(s) == {b \in Browsers : browser[b].st = "bridged" /\ browser[b].session = s}

(* onBridge: clearDetached, which does not prune. *)
clearDetached(b) ==
  LET s == browser[b].session
  IN  /\ browser[b].st = "joined"
      /\ browser' = [browser EXCEPT ![b].st = "bridged"]
      /\ term' = IF s \in Present(term)
                 THEN [term EXCEPT ![s] = Touch([@ EXCEPT !.bridged = TRUE, !.detached = FALSE,
                                                          !.aged = @ \ {"detach"}])]
                 ELSE term
      /\ overlapped' = IF \E o \in Browsers : browser[o].session = s /\ browser[o].st \in {"bridged", "ended"}
                       THEN overlapped \cup {s} ELSE overlapped
      /\ UNCHANGED <<reaped, bridge, gone, dial, nodeVars, audited>>

(* terminalHub.bridge returns: one side failed, and both connections are closed. *)
PumpEnds(b) ==
  /\ browser[b].st = "bridged"
  /\ browser' = [browser EXCEPT ![b].st = "ended"]
  /\ dial' = [dial EXCEPT ![browser[b].agent].st = "closed"]
  /\ gone' = gone \cup {b}
  /\ UNCHANGED <<bridge, brokerVars, nodeVars, terminalHistory>>

(* The attach handler after attachBrowser returned TRUE; no pruning either. *)
markDetached(b) ==
  LET s == browser[b].session
  IN  /\ browser[b].st = "ended"
      /\ browser' = [browser EXCEPT ![b].st = "done"]
      /\ term' = IF s \in Present(term)
                 THEN [term EXCEPT ![s] = Touch([@ EXCEPT !.bridged = FALSE,
                         !.detached = @ \/ terminalActiveStatus(term[s].st)])]
                 ELSE term
      /\ UNCHANGED <<reaped, bridge, gone, dial, nodeVars, terminalHistory>>

-------------------------------------------------------------------------------
(* The agent. *)

(* handleAgentTerminalStream: the session is read, then marked open, then the *)
(* connection is upgraded.                                                    *)
Dial(d, s) ==
  /\ dial[d].st = "new" /\ term[s].node \in termNodes /\ s \in Present(Pruned(term))
  /\ pruneLocked(Same)
  /\ dial' = [dial EXCEPT ![d] =
       [@ EXCEPT !.st = IF terminalClosedStatus(term'[s].st) THEN "closed" ELSE "admitted", !.session = s]]
  /\ UNCHANGED <<bridge, gone, browser, nodeVars, terminalHistory>>

OpenIn(p, s) ==
  IF terminalActiveStatus(p[s].st) THEN [p EXCEPT ![s] = Touch([@ EXCEPT !.st = "open"])] ELSE p

markOpen(d) ==
  /\ dial[d].st = "admitted"
  /\ LET s == dial[d].session IN pruneLocked(LAMBDA p : OpenIn(p, s))
  /\ dial' = [dial EXCEPT ![d].st = "upgrading"]
  /\ UNCHANGED <<bridge, gone, browser, nodeVars, terminalHistory>>

markClosed(p, s, status) ==
  IF s \notin Present(p) THEN p
  ELSE [p EXCEPT ![s] = Touch([IF terminalActiveStatus(p[s].st) THEN Close(@, status, NextRank(p)) ELSE @
                               EXCEPT !.bridged = FALSE, !.detached = FALSE])]

Upgrade(d) ==
  /\ dial[d].st = "upgrading"
  /\ \/ dial' = [dial EXCEPT ![d].st = "seeking"] /\ UNCHANGED brokerVars
     \/ /\ dial' = [dial EXCEPT ![d].st = "closed"]
        /\ pruneLocked(LAMBDA p : markClosed(p, dial[d].session, "failed"))
  /\ UNCHANGED <<bridge, gone, browser, nodeVars, terminalHistory>>

(* handleAgentTerminalSessions and the inputs it polls: LastSeen only. *)
pendingForAgent(s) ==
  /\ s \in Present(Pruned(term)) /\ term[s].node \in termNodes
  /\ pruneLocked(LAMBDA p : [p EXCEPT ![s] = Touch(@)])
  /\ UNCHANGED <<hubVars, nodeVars, terminalHistory>>

(* handleAgentTerminalSessionPath, events. *)
agentUpdate(s, status) ==
  /\ s \in Present(Pruned(term)) /\ term[s].node \in termNodes
  /\ pruneLocked(LAMBDA p :
       IF status = "open" THEN [OpenIn(p, s) EXCEPT ![s] = Touch(@)]
       ELSE [p EXCEPT ![s] = Touch(Close(@, status, NextRank(p)))])
  /\ UNCHANGED <<hubVars, nodeVars, terminalHistory>>

-------------------------------------------------------------------------------
(* The reaper, the clock, and the deletion of a node. *)

reap ==
  /\ term' = Pruned(term) /\ reaped' = {}
  /\ audited' = audited \cup reaped \cup ExpiredSet(term)
  /\ <<term', audited'>> # <<term, audited>>
  /\ UNCHANGED <<hubVars, nodeVars, overlapped>>

Running(r, k) ==
  CASE k = "pending" -> r.st = "pending"
    [] k = "life"    -> r.st = "open"
    [] k = "detach"  -> terminalActiveStatus(r.st) /\ r.detached
    [] k = "idle"    -> /\ terminalActiveStatus(r.st)
                        /\ r.detached => "detach" \in r.aged
                        /\ r.st = "pending" => "pending" \in r.aged
    [] k = "closed"  -> terminalClosedStatus(r.st)

RunsOut(s, k) ==
  /\ Running(term[s], k) /\ k \notin term[s].aged
  /\ term' = [term EXCEPT ![s].aged = @ \cup {k}]
  /\ UNCHANGED <<reaped, hubVars, nodeVars, terminalHistory>>

(* handleDeleteNode: the record goes first, then closeForNode lists the active sessions. *)
DeleteNode(n) ==
  /\ n \in termNodes /\ termNodes' = termNodes \ {n}
  /\ deleting' = [deleting EXCEPT ![n] = {None}]
  /\ UNCHANGED <<brokerVars, hubVars, opening, terminalHistory>>

closeForNode(n) ==
  /\ deleting[n] = {None}
  /\ deleting' = [deleting EXCEPT ![n] = ActiveOn(term, n)]
  /\ UNCHANGED <<brokerVars, hubVars, termNodes, opening, terminalHistory>>

closeListed(n) ==
  \E s \in deleting[n] \ {None} :
    /\ deleting' = [deleting EXCEPT ![n] = @ \ {s}]
    /\ pruneLocked(LAMBDA p : markClosed(p, s, "closed"))
    /\ UNCHANGED <<hubVars, termNodes, opening, terminalHistory>>

-------------------------------------------------------------------------------
BrowserStep(b) == attachBrowser(b) \/ GiveUp(b) \/ clearDetached(b) \/ markDetached(b)
DialStep(d) == markOpen(d) \/ Upgrade(d) \/ TakeWaiter(d) \/ DeliverTimeout(d) \/ handOff(d) \/ OfferRefused(d)

TerminalNext ==
  \/ \E n \in TerminalNodes : OpenRequest(n) \/ DeleteNode(n) \/ closeForNode(n) \/ closeListed(n)
  \/ \E s \in Terminals, n \in TerminalNodes : create(s, n)
  \/ \E s \in Terminals, k \in {"data", "close"} : addInput(s, k)
  \/ \E s \in Terminals : pendingForAgent(s)
  \/ \E s \in Terminals, st \in {"open", "closed", "failed"} : agentUpdate(s, st)
  \/ \E s \in Terminals, k \in Limits : RunsOut(s, k)
  \/ \E b \in Browsers, s \in Terminals : attach(b, s)
  \/ \E b \in Browsers : BrowserStep(b) \/ PumpEnds(b)
  \/ \E d \in Dials, s \in Terminals : Dial(d, s)
  \/ \E d \in Dials : DialStep(d)
  \/ reap

TerminalSpec == TerminalInit /\ [][TerminalNext]_terminalVars

-------------------------------------------------------------------------------
(* The broker's sessions, the hub's waiters and the handlers hold what their   *)
(* Go types and writers allow.                                                 *)
TerminalTypeOK ==
  /\ term \in [Terminals -> [st : {"none", "pending", "open", "closed", "failed", "removed"},
                            node : Maybe(TerminalNodes), bridged : BOOLEAN, detached : BOOLEAN,
                            aged : SUBSET Limits, rank : 0..Cardinality(Terminals)]]
  /\ reaped \in SUBSET Terminals /\ audited \in SUBSET Terminals /\ overlapped \in SUBSET Terminals
  /\ termNodes \in SUBSET TerminalNodes /\ opening \in SUBSET TerminalNodes
  /\ deleting \in [TerminalNodes -> SUBSET Maybe(Terminals)]
  /\ bridge \in [Terminals -> Maybe(Browsers)] /\ gone \in SUBSET Browsers
  /\ browser \in [Browsers -> [st : {"new", "attaching", "waiting", "joined", "bridged", "ended", "done"},
                               session : Maybe(Terminals), agent : Maybe(Dials)]]
  /\ dial \in [Dials -> [st : {"new", "admitted", "upgrading", "seeking", "offering", "bridged", "closed"},
                         session : Maybe(Terminals), to : Maybe(Browsers)]]

(* A session that was closed or failed, by whichever of operator, agent,       *)
(* reaper or node deletion, is never active again.                             *)
ClosedIsFinal ==
  [][\A s \in Terminals : term[s].st \in {"closed", "failed", "removed"} => ~terminalActiveStatus(term'[s].st)]_terminalVars

(* No node has more active sessions than terminalMaxActiveSessionsPerNode,     *)
(* and the table never holds more than terminalMaxSessions.                    *)
SessionsBounded ==
  /\ \A n \in TerminalNodes : Cardinality({s \in Terminals : term[s].node = n /\ term[s].st \in {"pending", "open"}}) <= MaxActivePerNode
  /\ Cardinality(Present(term)) <= MaxSessions

(* The rendezvous is exact: an agent connection that was handed over belongs   *)
(* to one browser, of its session, that still holds it ("an agent that arrives *)
(* after the browser has given up cannot leave a connection buffered").        *)
HandedOverOnce ==
  \A d \in Dials : dial[d].st = "bridged" =>
    \E b \in Browsers :
      /\ browser[b].st \in {"joined", "bridged"} /\ browser[b].session = dial[d].session
      /\ {x \in Browsers : browser[x].agent = d} = {b}

(* "A bridged session is exempt from the idle/detach reaper": a session with a *)
(* live splice is failed for age only, while no splice forms before the        *)
(* handler of an earlier one has returned.                                     *)
ViewedIsKept ==
  [][\A s \in ExpiredSet(term) \ overlapped :
       term'[s].st = "failed" /\ "life" \notin term[s].aged => Spliced(s) = {}]_terminalVars

(* The broker bounds its sessions and hands every agent connection to one      *)
(* browser (server_terminal.go).                                               *)
TerminalSound == TerminalTypeOK /\ SessionsBounded /\ HandedOverOnce

=============================================================================
