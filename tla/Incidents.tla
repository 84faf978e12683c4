----------------------------- MODULE Incidents -----------------------------
(***************************************************************************)
(* The incident evaluator (server/incidents.go, server/server_incidents.go,*)
(* store/incidents.go) for one subject: emitters open and resolve its      *)
(* incident, the sweep sends what the records owe, operators acknowledge,  *)
(* snooze and declare maintenance, and each rule's outbox delivers in      *)
(* order, holding messages through quiet hours and withdrawing an open     *)
(* that no longer needs to be heard (server/notify_outbox.go).  Times are  *)
(* ages in half hours that saturate, so every wait can pass.               *)
(***************************************************************************)
EXTENDS Common, Naturals, Sequences, FiniteSets

CONSTANTS
    IncIds,         \* ids of incident records
    Rules,          \* enabled notify rules, one channel each
    QuietRules,     \* those with quiet hours
    FlapWindow,     \* incidentFlapWindow
    FlapsToDamp,    \* incidentFlapsToDamp
    DampEvery,      \* incidentDampEvery
    SweepCrashes,   \* whether the server may crash inside a sweep
    EscalateAfter,  \* the rules' escalation delay
    MaxQueue        \* bound: messages waiting per rule

ASSUME IncAssumption == QuietRules \subseteq Rules /\ FlapWindow < DampEvery /\ FlapsToDamp >= 1

VARIABLES
    watch,          \* the subject: "on", "off" (unassigned, paused, alerts off) or "gone" (node deleted)
    bad,            \* the emitter's condition
    inc,            \* the incident records
    window,         \* a maintenance window covers the node
    quiet,          \* rules in quiet hours
    queue,          \* per rule, messages planned and not delivered
    reach,          \* per rule and incident, what the latest open message did: none, pending, sent, withdrawn
    told,           \* per rule and incident, the last message delivered: none, down, up
    last            \* per rule, the last message delivered

incVars == <<watch, bad, inc, window, quiet, queue, reach, told, last>>

Cap(n, max) == IF n < max THEN n ELSE max
Exists(i) == inc[i] # None
Active(x) == x.state \in {"open", "acked"}
ActiveIds == {i \in IncIds : Exists(i) /\ (Exists(i) => Active(inc[i]))}

(* LatestIncident: the record opened last. *)
LatestId == {i \in IncIds : Exists(i) /\ (Exists(i) => \A j \in IncIds : Exists(j) => inc[i].seq >= inc[j].seq)}
NextSeq == Cardinality({i \in IncIds : Exists(i)})

(* rulesThatMissedOpen: quiet hours withdrew the latest open through the rule. *)
rulesThatMissedOpen(i) == {r \in Rules : reach[r][i] = "withdrawn"}

ClearOwedOpen(x) == [x EXCEPT !.owedOpen = FALSE, !.owedRules = {}, !.ackCancelled = FALSE]

(* resolveOwed: a recovery is owed only if the open went out; the rules it never reached are kept for it. *)
resolveOwed(x) ==
    [ClearOwedOpen(x) EXCEPT !.owedRec = x.notified = "open", !.owedRules = IF x.notified = "open" THEN x.owedRules ELSE {}]

Resolved(x) == resolveOwed([x EXCEPT !.state = "resolved", !.resolvedAge = 0])

(* ---- emitters ------------------------------------------------------------- *)

\* Mutant: a reopening whose open is still on the phone owes nothing to anyone.
ReopenedForgets(x, i) == [ClearOwedOpen(x) EXCEPT !.owedRec = FALSE]
(* The phone still says down: only the rules that never heard it are owed the open. *)
ReopenedTold(x, i) ==
    [ClearOwedOpen(x) EXCEPT !.owedRec = FALSE, !.owedRules = x.owedRules \cup rulesThatMissedOpen(i)]

Reopened(x, i) ==
    LET y == [x EXCEPT !.state = "open", !.openAge = 0, !.flaps = Cap(@ + 1, FlapsToDamp),
                       !.flapping = @ \/ x.flaps + 1 >= FlapsToDamp]
    IN IF x.notified = "open" THEN ReopenedTold(y, i) ELSE [ClearOwedOpen(y) EXCEPT !.owedOpen = TRUE, !.owedRec = FALSE]

FreshIncident == [state |-> "open", seq |-> NextSeq, flaps |-> 0, flapping |-> FALSE, notified |-> "none", notifiedAge |-> None,
          openAge |-> 0, openToldAge |-> None, resolvedAge |-> 0, owedOpen |-> TRUE, owedRec |-> FALSE, owedRules |-> {},
          ackCancelled |-> FALSE, snooze |-> None, escalated |-> {}]

openIncident ==
    /\ watch = "on" /\ bad /\ ActiveIds = {}
    /\ LET near == {i \in LatestId : inc[i].resolvedAge <= FlapWindow} IN
       IF near # {} THEN \E i \in near : inc' = [inc EXCEPT ![i] = Reopened(@, i)]
       ELSE \E i \in IncIds : /\ ~Exists(i) /\ \A r \in Rules : reach[r][i] = "none"
                              /\ inc' = [inc EXCEPT ![i] = FreshIncident]
    /\ UNCHANGED <<watch, bad, window, quiet, queue, reach, told, last>>

resolveIncident ==
    /\ ~bad /\ \E i \in ActiveIds : inc' = [inc EXCEPT ![i] = Resolved(@)]
    /\ UNCHANGED <<watch, bad, window, quiet, queue, reach, told, last>>

(* ---- operators ------------------------------------------------------------- *)

handleIncidentAck(i) ==
    /\ i \in ActiveIds /\ inc[i].state = "open"
    /\ inc' = [inc EXCEPT ![i].state = "acked", ![i].ackCancelled = inc[i].owedOpen, ![i].owedOpen = FALSE]
    /\ UNCHANGED <<watch, bad, window, quiet, queue, reach, told, last>>

Unacked(x, i) ==
    LET owed == x.owedOpen \/ x.ackCancelled \/ x.notified # "open"
    IN [x EXCEPT !.state = "open", !.owedOpen = owed, !.ackCancelled = FALSE,
                 !.owedRules = IF owed THEN {} ELSE @ \cup rulesThatMissedOpen(i)]

handleIncidentUnack(i) ==
    /\ i \in ActiveIds /\ inc[i].state = "acked" /\ inc' = [inc EXCEPT ![i] = Unacked(@, i)]
    /\ UNCHANGED <<watch, bad, window, quiet, queue, reach, told, last>>

handleIncidentSnooze(i, n) ==
    /\ i \in ActiveIds
    /\ inc' = [inc EXCEPT ![i] =
                 IF n > 0 THEN [@ EXCEPT !.snooze = n]
                 ELSE [@ EXCEPT !.snooze = None,
                                !.owedRules = IF inc[i].snooze # None /\ ~inc[i].owedOpen THEN @ \cup rulesThatMissedOpen(i) ELSE @]]
    /\ inc' # inc
    /\ UNCHANGED <<watch, bad, window, quiet, queue, reach, told, last>>

(* upsertMaintenanceWindow, handleDeleteMaintenanceWindow, and the window's own start and end *)
upsertMaintenanceWindow ==
    /\ window' = ~window /\ UNCHANGED <<watch, bad, inc, quiet, queue, reach, told, last>>

(* ---- the sweep -------------------------------------------------------------- *)

incidentFlapDamped(x) == x.flapping /\ x.notifiedAge # None /\ (x.notifiedAge # None => x.notifiedAge < DampEvery)
Snoozed(x) == x.snooze # None /\ (x.snooze # None => x.snooze > 0)
incidentOpenHold(x) == window \/ Snoozed(x) \/ incidentFlapDamped(x)

(* monitorIncidentClosing: what is no longer watched is closed without a result. *)
Closed(x) == IF watch = "off" /\ Active(x) THEN Resolved(x) ELSE x

(* A snooze that ran out owes a reminder, kept aside while acknowledged. *)
SnoozeEnded(x) ==
    IF x.snooze = 0 THEN [x EXCEPT !.snooze = None, !.owedOpen = @ \/ x.state = "open", !.ackCancelled = @ \/ x.state = "acked"]
    ELSE x

(* x after closing and snooze, and whether its open, the open to the rules owed, and its recovery go out. *)
Settle(x) == SnoozeEnded(Closed(x))
CancelOpen(x) ==
    IF x.owedOpen /\ x.state # "open" THEN [x EXCEPT !.owedOpen = FALSE, !.ackCancelled = @ \/ x.state = "acked"] ELSE x
SendsOpen(x) == x.owedOpen /\ x.state = "open" /\ ~incidentOpenHold(x)
SendsRuleOpens(x) == x.owedRules # {} /\ ~x.owedOpen /\ x.state = "open" /\ ~incidentOpenHold(x)
SendsRecovery(x) == x.owedRec /\ ~incidentFlapDamped(x)

SentOpen(x) ==
    [x EXCEPT !.owedOpen = FALSE, !.owedRules = {}, !.notified = "open", !.notifiedAge = 0, !.openToldAge = 0]
Calmed(x) ==
    IF x.flapping /\ ~Active(x) /\ ~x.owedRec /\ x.resolvedAge >= DampEvery THEN [x EXCEPT !.flapping = FALSE] ELSE x

Swept(x0) ==
    LET x == CancelOpen(Settle(x0)) IN
    Calmed(IF SendsOpen(x) THEN SentOpen(x)
           ELSE IF SendsRuleOpens(x) THEN [x EXCEPT !.owedRules = {}, !.notifiedAge = 0]
           ELSE IF SendsRecovery(x) THEN [x EXCEPT !.owedRec = FALSE, !.owedRules = {}, !.notified = "resolved", !.notifiedAge = 0]
           ELSE x)

(* escalateIncidents: once per rule, an open incident nobody acknowledged. *)
StartAge(x) == IF x.openToldAge = None THEN x.openAge ELSE Cap(x.openAge, x.openToldAge)
Escalates(x) ==
    IF x.state = "open" /\ x.notified = "open" /\ ~x.flapping /\ ~incidentOpenHold(x) /\ StartAge(x) >= EscalateAfter
    THEN Rules \ x.escalated ELSE {}

(* sendRecoveries: every rule but those the open never reached. *)
RecoveryTo(x, i) == IF SendsRecovery(x) THEN Rules \ (x.owedRules \cup {r \in Rules : reach[r][i] = "withdrawn"}) ELSE {}

(* What one sweep sends through rule r: opens, opens owed to r alone, recoveries, reminders. *)
Messages(r) ==
    LET step(i) == CancelOpen(Settle(inc[i]))
        present == {i \in IncIds : Exists(i)}
        opens == {i \in present : SendsOpen(step(i)) \/ (SendsRuleOpens(step(i)) /\ r \in step(i).owedRules)}
        ups == {i \in present : r \in RecoveryTo(step(i), i)}
        again == {i \in present : r \in Escalates(Swept(inc[i]))}
        row(S, k) == IF S = {} THEN <<>> ELSE <<[kind |-> k, ids |-> S, held |-> r \in quiet]>>
    IN row(opens, "down") \o row(ups, "up") \o row(again, "down")

Planned(r) == UNION {m.ids : m \in {Messages(r)[k] : k \in {k \in DOMAIN Messages(r) : Messages(r)[k].kind = "down"}}}

PlanMessages ==
    /\ \A r \in Rules : Len(queue[r] \o Messages(r)) <= MaxQueue
    /\ queue' = [r \in Rules |-> queue[r] \o Messages(r)]
    /\ reach' = [r \in Rules |-> [i \in IncIds |-> IF i \in Planned(r) THEN "pending" ELSE reach[r][i]]]

(* evaluateIncidents under incidentMu: messages first, then the records. *)
evaluateIncidents ==
    /\ watch # "gone" /\ PlanMessages
    /\ inc' = [i \in IncIds |-> IF Exists(i) THEN LET x == Swept(inc[i]) IN [x EXCEPT !.escalated = @ \cup Escalates(x)] ELSE None]
    /\ UNCHANGED <<watch, bad, window, quiet, told, last>>

(* A crash after the messages were planned and before the records were written. *)
CrashInSweep ==
    /\ SweepCrashes /\ watch # "gone" /\ PlanMessages /\ queue' # queue
    /\ UNCHANGED <<watch, bad, inc, window, quiet, told, last>>

(* The node was deleted: the sweep deletes its records. *)
DeleteIncidents ==
    /\ watch = "gone" /\ inc' = [i \in IncIds |-> None] /\ inc' # inc
    /\ UNCHANGED <<watch, bad, window, quiet, queue, reach, told, last>>

(* PruneIncidents, after the retention; the outbox has evicted the rows of so old an incident too. *)
PruneIncidents(i) ==
    /\ Exists(i) /\ (Exists(i) => ~Active(inc[i]) /\ ~inc[i].flapping /\ ~inc[i].owedRec /\ inc[i].resolvedAge = DampEvery)
    /\ \A r \in Rules : queue[r] = <<>>
    /\ inc' = [j \in IncIds |-> IF j = i THEN None
                                ELSE IF Exists(j) THEN [inc[j] EXCEPT !.seq = IF @ > inc[i].seq THEN @ - 1 ELSE @] ELSE None]
    /\ reach' = [r \in Rules |-> [reach[r] EXCEPT ![i] = "none"]]
    /\ told' = [r \in Rules |-> [told[r] EXCEPT ![i] = "none"]]
    /\ UNCHANGED <<watch, bad, window, quiet, queue, last>>

(* ---- the outbox ---------------------------------------------------------------- *)

(* heldIncidentWithdrawal: an open none of whose incidents still needs hearing; a recovery whose opens were withdrawn. *)
heldIncidentWithdrawal(r, m) ==
    m.held /\ IF m.kind = "down"
              THEN \A i \in m.ids : ~Exists(i) \/ (Exists(i) => inc[i].state # "open" \/ Snoozed(inc[i]))
              ELSE \A i \in m.ids : reach[r][i] = "withdrawn"

DrainOutbox(r) ==
    LET m == Head(queue[r])
        away == heldIncidentWithdrawal(r, m)
        later == {i \in m.ids : \E k \in 2..Len(queue[r]) : queue[r][k].kind = "down" /\ i \in queue[r][k].ids}
    IN /\ queue[r] # <<>> /\ r \notin quiet
       /\ queue' = [queue EXCEPT ![r] = Tail(@)]
       /\ reach' = IF m.kind = "up" THEN reach
                   ELSE [reach EXCEPT ![r] = [i \in IncIds |-> IF i \in m.ids \ later
                                                               THEN (IF away THEN "withdrawn" ELSE "sent") ELSE @[i]]]
       /\ told' = IF away THEN told ELSE [told EXCEPT ![r] = [i \in IncIds |-> IF i \in m.ids THEN m.kind ELSE @[i]]]
       /\ last' = IF away THEN last ELSE [last EXCEPT ![r] = m.kind]
       /\ UNCHANGED <<watch, bad, inc, window, quiet>>

QuietHours(r) ==
    /\ quiet' = IF r \in quiet THEN quiet \ {r} ELSE quiet \cup {r}
    /\ UNCHANGED <<watch, bad, inc, window, queue, reach, told, last>>

(* ---- the world ------------------------------------------------------------------ *)

Older(x) ==
    [x EXCEPT !.notifiedAge = IF @ = None THEN None ELSE Cap(@ + 1, DampEvery),
              !.openAge = Cap(@ + 1, EscalateAfter), !.openToldAge = IF @ = None THEN None ELSE Cap(@ + 1, EscalateAfter),
              !.resolvedAge = IF Active(x) THEN 0 ELSE Cap(@ + 1, DampEvery),
              !.snooze = IF @ = None THEN None ELSE IF @ = 0 THEN 0 ELSE @ - 1]

(* Half an hour passes; the sweep runs every 20 s, so it has settled the records before. *)
IncTick ==
    /\ \A i \in IncIds : Exists(i) => Swept(inc[i]) = inc[i]
    /\ inc' = [i \in IncIds |-> IF Exists(i) THEN Older(inc[i]) ELSE None] /\ inc' # inc
    /\ UNCHANGED <<watch, bad, window, quiet, queue, reach, told, last>>

Condition == bad' = ~bad /\ UNCHANGED <<watch, inc, window, quiet, queue, reach, told, last>>

Watch(w) == watch # "gone" /\ watch # w /\ watch' = w /\ UNCHANGED <<bad, inc, window, quiet, queue, reach, told, last>>

IncInit ==
    /\ watch = "on" /\ bad = FALSE /\ inc = [i \in IncIds |-> None] /\ window = FALSE /\ quiet = {}
    /\ queue = [r \in Rules |-> <<>>] /\ reach = [r \in Rules |-> [i \in IncIds |-> "none"]]
    /\ told = [r \in Rules |-> [i \in IncIds |-> "none"]] /\ last = [r \in Rules |-> "none"]

IncNext ==
    \/ openIncident \/ resolveIncident \/ evaluateIncidents \/ CrashInSweep \/ DeleteIncidents
    \/ upsertMaintenanceWindow \/ IncTick \/ Condition \/ \E w \in {"on", "off", "gone"} : Watch(w)
    \/ \E i \in IncIds : \/ handleIncidentAck(i) \/ handleIncidentUnack(i) \/ PruneIncidents(i)
                         \/ \E n \in 0..1 : handleIncidentSnooze(i, n)
    \/ \E r \in Rules : DrainOutbox(r) \/ (r \in QuietRules /\ QuietHours(r))

(* ---- properties -------------------------------------------------------------------- *)

IncTypeOK ==
    /\ watch \in {"on", "off", "gone"} /\ quiet \subseteq QuietRules
    /\ Cardinality(ActiveIds) <= 1
    /\ \A i \in IncIds : Exists(i) => /\ inc[i].flaps \in 0..FlapsToDamp /\ inc[i].owedRules \subseteq Rules
                                      /\ inc[i].owedOpen => ~inc[i].owedRec
    /\ \A r \in Rules : Len(queue[r]) <= MaxQueue

(* No alert is lost: while an incident is open, unacknowledged and unsnoozed, every rule has heard its open, is   *)
(* about to (a message on its way, to be decided when it falls due), or is owed it by the record; whatever quiet  *)
(* hours withdrew, and however acknowledgement, undo, snooze, flapping and crashes of the sweep interleave        *)
(* (rulesThatMissedOpen, withdrawHeldIncidentMessage).                                                            *)
NoAlertLost ==
    \A i \in ActiveIds : inc[i].state = "open" /\ inc[i].snooze = None =>
        \A r \in Rules : inc[i].owedOpen \/ r \in inc[i].owedRules \/ reach[r][i] \in {"pending", "sent"}

(* Once the sweep and the outbox have nothing left to send, the phone says the current state: "at most one        *)
(* message an hour, which always tells the current state" (server/incidents.go).                                  *)
\* TLC refutes it (README.md, section 6).
ToldIsCurrent ==
    \A i \in ActiveIds : watch = "on" /\ inc[i].state = "open" /\ ~inc[i].owedOpen /\ inc[i].owedRules = {} /\ inc[i].notified = "open" =>
        \A r \in Rules : queue[r] = <<>> /\ reach[r][i] = "sent" => last[r] = "down"

(* The rule was told of an incident whose recovery its record still owes. *)
RecoveryOwed(r, i) == told[r][i] = "down" /\ Exists(i) /\ (Exists(i) => inc[i].owedRec)

(* The incident records stay well formed and owe every rule what it has not heard (incidents.go).              *)
IncidentsSound == IncTypeOK /\ NoAlertLost

=============================================================================
