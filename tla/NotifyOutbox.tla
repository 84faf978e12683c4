---------------------------- MODULE NotifyOutbox ----------------------------
(***************************************************************************)
(* The notification outbox: internal/server/notify_outbox.go,              *)
(* notify_channel_fallback.go and the delivery rows of                     *)
(* internal/store/notify_outbox.go.                                        *)
(*                                                                         *)
(* An event is planned into one delivery row per channel and the rows are  *)
(* committed to the bolt sidecar before the caller returns.  A drainer     *)
(* starts an attempt for every due row; attempts run concurrently, each    *)
(* sends once and then records the outcome, announces a change of the      *)
(* channel's health, hands a critical message to the channel's fallback,   *)
(* plans the rule's fallback and settles the inbound webhook's record, in  *)
(* that order and each in a step of its own.  A restart reconciles what    *)
(* the previous process left planned.                                      *)
(*                                                                         *)
(* Memory changes only after the sidecar's commit succeeds, so memory and  *)
(* disk agree and `rows', `health' and `hook' survive a restart.  A        *)
(* refused commit changes nothing.  One rule routes every event that is    *)
(* not a broadcast.  Rows are numbered in creation order, which is the     *)
(* order UnsettledNotifyDeliveries returns them in; eviction, which never  *)
(* takes an unsettled row, is left out (the bounds are 1000 rows, with a   *)
(* floor of 50 per source).                                                *)
(***************************************************************************)
EXTENDS Integers, Sequences, FiniteSets, FiniteSetsExt, SequencesExt

CONSTANTS
    Channels,        \* notification channels
    Events,          \* the events that are raised, each at most once
    Webhook,         \* events an inbound webhook fired
    Broadcast,       \* events sent to every enabled channel, by no rule (plugins)
    Critical,        \* notifyCriticalEventTypes: a channel's fallback carries them
    Urgent,          \* severity critical: quiet hours never hold them
    Opens,           \* messages that open an incident
    OpenOf,          \* [recovery events -> Opens]: the open a recovery answers
    RuleChannels,    \* the rule's channels
    RuleFallback,    \* the rule's fallback channel, or None
    ChannelFallback, \* [Channels -> Channels \cup {None}]: critical fallbacks
    QuietHours,      \* whether the rule has quiet hours
    None,
    Retries,         \* len(notifyRetryDelays)
    MaxConcurrent,   \* notifyMaxConcurrentSends
    FailingAfter,    \* notifyChannelFailingAfter
    LongTimes,       \* the long waits an attempt may find elapsed: "window", "hour"
    Answers,         \* what a channel may answer: "ok", "transient", "permanent"
    MaxRows, MaxCrashes, MaxFaults, MaxEdits, MaxTests, \* bounds of the model
    MaxDisturbances  \* restarts and refused writes together

ASSUME ConstantsAssumption ==
    /\ Webhook \subseteq Events /\ Broadcast \subseteq Events
    /\ Critical \subseteq Events /\ Urgent \subseteq Events
    /\ Opens \subseteq Events
    /\ DOMAIN OpenOf \subseteq Events \ Opens /\ \A e \in DOMAIN OpenOf : OpenOf[e] \in Opens
    /\ RuleChannels \subseteq Channels /\ RuleFallback \in Channels \cup {None}
    /\ ChannelFallback \in [Channels -> Channels \cup {None}]
    /\ \A c \in Channels : ChannelFallback[c] # c
    /\ None \notin Channels /\ QuietHours \in BOOLEAN
    /\ Retries \in Nat /\ MaxConcurrent \in Nat \ {0} /\ FailingAfter \in Nat \ {0}
    /\ LongTimes \subseteq {"window", "hour"}
    /\ Answers \subseteq {"ok", "transient", "permanent"}
    /\ {MaxRows, MaxCrashes, MaxFaults, MaxEdits, MaxTests, MaxDisturbances} \subseteq Nat

VARIABLES
    rows,     \* the delivery rows, in creation order
    health,   \* NotifyChannelHealth of each channel
    hook,     \* the inbound webhook's record of each event
    chan,     \* each channel: "on", "off" or "gone"
    over,     \* opens whose incident is resolved, acknowledged or snoozed
    raised,   \* events planned so far
    pass,     \* rows the drainer read as due and has not started yet
    job,      \* the attempt running for each row (inflight), or Idle
    loose,    \* [event, to] plans being sent without the outbox
    sends,    \* how often each row was handed to its channel (history)
    notices,  \* the last announcement about each channel (history)
    crashes, faults, edits, tests

stored == <<rows, health, hook>>
process == <<pass, job, loose>>
budget == <<crashes, faults, edits, tests>>
vars == <<rows, health, hook, chan, over, raised, pass, job, loose, sends, notices,
          crashes, faults, edits, tests>>

ChannelFailing == "notify.channel_failing"
ChannelOK == "notify.channel_ok"

Ids == 1..MaxRows
Stages == {"begin", "record", "notice", "handoff", "fallback", "hook"}

Row == [event : Events \cup {ChannelFailing, ChannelOK}, channel : Channels,
        role : {"primary", "fallback", "handoff"}, ruled : BOOLEAN, held : BOOLEAN,
        outcome : {"planned", "sent", "failed", "suppressed"},
        attempts : Nat, due : BOOLEAN]

Idle == [todo |-> <<>>, answer |-> "ok", outcome |-> "planned", notice |-> "none"]

NoHook == [outcome |-> "none", delivered |-> 0]

Settled(row) == row.outcome # "planned"
Inflight(d) == job[d].todo # <<>>
Doing(d, stage) == Inflight(d) /\ Head(job[d].todo) = stage
Present == 1..Len(rows)
Of(e) == {d \in Present : rows[d].event = e}

(***************************************************************************)
(* One type invariant: the rows, the running attempts and the history      *)
(* counters keep their shapes.                                             *)
(***************************************************************************)
TypeOK ==
    /\ rows \in Seq(Row) /\ Len(rows) <= MaxRows
    /\ health \in [Channels -> [fails : Nat, announced : BOOLEAN]]
    /\ hook \in [Events -> [outcome : {"none", "no_route", "accepted", "failed", "partial"},
                            delivered : Nat]]
    /\ chan \in [Channels -> {"on", "off", "gone"}]
    /\ over \subseteq Opens /\ raised \subseteq Events
    /\ pass \subseteq Present
    /\ job \in [Ids -> [todo : Seq(Stages), answer : {"ok", "transient", "permanent"},
                        outcome : {"planned", "sent", "failed"},
                        notice : {"none", "failing", "ok"}]]
    /\ \A d \in Ids : Inflight(d) => d \in Present
    /\ loose \subseteq [event : Events \cup {ChannelFailing, ChannelOK}, to : SUBSET Channels]
    /\ sends \in [Ids -> Nat]
    /\ notices \in [Channels -> {"none", "failing", "ok"}]
    /\ crashes \in 0..MaxCrashes /\ faults \in 0..MaxFaults
    /\ edits \in 0..MaxEdits /\ tests \in 0..MaxTests

Init ==
    /\ rows = <<>>
    /\ health = [c \in Channels |-> [fails |-> 0, announced |-> FALSE]]
    /\ hook = [e \in Events |-> NoHook]
    /\ chan = [c \in Channels |-> "on"]
    /\ over = {} /\ raised = {} /\ pass = {} /\ loose = {}
    /\ job = [d \in Ids |-> Idle]
    /\ sends = [d \in Ids |-> 0]
    /\ notices = [c \in Channels |-> "none"]
    /\ crashes = 0 /\ faults = 0 /\ edits = 0 /\ tests = 0

-----------------------------------------------------------------------------
(* Committing to the sidecar: every write is accepted or refused as a whole. *)

Disturbable == crashes + faults < MaxDisturbances

Writes == {"ok"} \cup (IF faults < MaxFaults /\ Disturbable THEN {"refused"} ELSE {})

Counted(oc) == faults' = IF oc = "refused" THEN faults + 1 ELSE faults

Commit(oc, value, old) == IF oc = "ok" THEN value ELSE old

NewRow(e, c, role, ruled, held) ==
    [event |-> e, channel |-> c, role |-> role, ruled |-> ruled, held |-> held,
     outcome |-> "planned", attempts |-> 0, due |-> ~held]

(* Rows in the order of their channels: one plan's rows have one creation time. *)
RowsFor(e, to, ruled, held) ==
    LET order == SetToSeq(to)
    IN  [i \in 1..Len(order) |-> NewRow(e, order[i], "primary", ruled, held)]

-----------------------------------------------------------------------------
(* Planning an event and committing the plan.                              *)

Enabled == {c \in Channels : chan[c] = "on"}

(* planNotifyTargets: a broadcast goes to every enabled channel, another event to *)
(* the rule's enabled channels.                                                   *)
planNotifyTargets(e) == IF e \in Broadcast THEN Enabled ELSE Enabled \cap RuleChannels

(* DeleteNotifyChannel clears the fallbacks that name the channel it deletes. *)
RuleFallbackNow ==
    IF RuleFallback # None /\ chan[RuleFallback] # "gone" THEN RuleFallback ELSE None

MayHold(e) == QuietHours /\ e \notin Broadcast \cup Urgent

(* commitNotifyPlan, with fireNotifyWebhook's record written before it.     *)
Enqueue(e, held, oc) ==
    LET to == planNotifyTargets(e)
    IN  /\ e \notin raised
        /\ e \in DOMAIN OpenOf => OpenOf[e] \in raised \cap over
        /\ held => MayHold(e)
        /\ Len(rows) + Cardinality(to) <= MaxRows
        /\ raised' = raised \cup {e}
        /\ hook' = IF e \in Webhook
                   THEN [hook EXCEPT ![e].outcome = IF to = {} THEN "no_route" ELSE "accepted"]
                   ELSE hook
        /\ \/ /\ to = {} /\ oc = "ok"
              /\ UNCHANGED <<rows, loose, faults>>
           \/ /\ to # {}
              /\ rows' = Commit(oc, rows \o RowsFor(e, to, e \notin Broadcast, held), rows)
              /\ loose' = Commit(oc, loose, loose \cup {[event |-> e, to |-> to]})
              /\ Counted(oc)
        /\ UNCHANGED <<health, chan, over, pass, job, sends, notices, crashes, edits, tests>>

(* settleNotifyWebhookCounts *)
HookOutcome(delivered, failed) ==
    [outcome |-> IF delivered = 0 /\ failed > 0 THEN "failed"
                 ELSE IF failed > 0 THEN "partial" ELSE "accepted",
     delivered |-> delivered]

(* sendUnrecorded: one try per channel; `got' are the channels that took the message. *)
SendUnrecorded(p, got) ==
    /\ p \in loose /\ got \subseteq p.to
    /\ got = p.to \/ Answers # {"ok"}
    /\ loose' = loose \ {p}
    /\ hook' = IF p.event \in Webhook
               THEN [hook EXCEPT ![p.event] =
                        HookOutcome(Cardinality(got), Cardinality(p.to \ got))]
               ELSE hook
    /\ UNCHANGED <<rows, health, chan, over, raised, pass, job, sends, notices, budget>>

-----------------------------------------------------------------------------
(* The drainer.                                                            *)

(* Mutant: held rows leave in any order. *)
HeldTurnIgnored(d) == TRUE

(* heldTurn: of the rows quiet hours held for one rule and channel, only the first *)
(* unsettled one is considered.                                                    *)
HeldTurn(d) ==
    rows[d].held => \A o \in 1..(d - 1) :
        (rows[o].held /\ rows[o].channel = rows[d].channel) => Settled(rows[o])

(* drainNotifyOutbox reads the unsettled rows once and then walks what it read. *)
ReadDue(d) == ~Settled(rows[d]) /\ rows[d].due /\ HeldTurn(d)

Drain ==
    /\ pass = {}
    /\ \E d \in Present : ReadDue(d)
    /\ pass' = {d \in Present : ReadDue(d)}
    /\ UNCHANGED <<stored, chan, over, raised, job, loose, sends, notices, budget>>

(* The walk skips a row whose attempt is in flight by now, and starts another even *)
(* if its attempt ended after the rows were read.                                  *)
StartAttempt ==
    /\ pass # {}
    /\ LET d == Min(pass)
       IN  /\ pass' = pass \ {d}
           /\ job' = IF Inflight(d) THEN job ELSE [job EXCEPT ![d].todo = <<"begin">>]
    /\ UNCHANGED <<stored, chan, over, raised, loose, sends, notices, budget>>

(* The clock reaches a row's NextAttemptAt: a retry delay or the quiet hours end. *)
FallDue(d) ==
    /\ d \in Present /\ ~Settled(rows[d]) /\ ~rows[d].due
    /\ rows' = [rows EXCEPT ![d].due = TRUE]
    /\ UNCHANGED <<health, hook, chan, over, raised, process, sends, notices, budget>>

-----------------------------------------------------------------------------
(* One attempt.  Its remaining steps are job[d].todo; each is atomic (they  *)
(* hold healthMu, incidentMu or the store's lock).                          *)

heldIncidentMessage(row) ==
    row.held /\ row.attempts = 0 /\ row.event \in Opens \cup DOMAIN OpenOf

(* heldIncidentWithdrawal: an open is withdrawn when its incident no longer needs *)
(* it, a recovery when the latest open it answers on this channel was withdrawn.  *)
heldIncidentWithdrawal(d) ==
    LET row == rows[d]
        opens == {o \in Present : /\ row.event \in DOMAIN OpenOf
                                  /\ rows[o].event = OpenOf[row.event]
                                  /\ rows[o].channel = row.channel
                                  /\ rows[o].ruled = row.ruled}
    IN  /\ heldIncidentMessage(row)
        /\ \/ row.event \in over
           \/ opens # {} /\ rows[Max(opens)].outcome = "suppressed"

Running == {d \in Ids : Inflight(d) /\ ~Doing(d, "begin")}

Finish(d) == job' = [job EXCEPT ![d] = Idle]

(* Mutant: the attempt does not look at the row again. *)
StillOwedUnchecked(row) == TRUE

(* A row that has settled since the drainer read it is left alone. *)
StillOwed(row) == ~Settled(row)

(* The steps that follow an attempt of row, without those that return at once for *)
(* a row like it: what they test first never changes.                             *)
HandOffApplies(row) == row.role = "primary" /\ row.event \in Critical
FallbackApplies(row) == row.role = "primary" /\ row.ruled /\ RuleFallback # None
HookApplies(row) == row.event \in Webhook

Then(applies, stage) == IF applies THEN <<stage>> ELSE <<>>

(* afterNotifySettled *)
AfterSettled(row) == Then(FallbackApplies(row), "fallback") \o Then(HookApplies(row), "hook")

(* attemptNotifyDelivery where it does not send: a row settled since the drainer   *)
(* read it, a held incident message withdrawn, a channel deleted or disabled.      *)
(* The row waits for the semaphore first.                                          *)
SettleWithoutSending(d, oc) ==
    /\ Doing(d, "begin") /\ Cardinality(Running) < MaxConcurrent
    /\ LET row == rows[d]
           status == chan[row.channel]
       IN  \/ /\ ~StillOwed(row) /\ oc = "ok"
              /\ Finish(d) /\ UNCHANGED <<rows, faults>>
           \/ /\ StillOwed(row) /\ heldIncidentWithdrawal(d)
              /\ rows' = Commit(oc, [rows EXCEPT ![d].outcome = "suppressed", ![d].due = FALSE], rows)
              /\ Finish(d) /\ Counted(oc)
           \/ /\ StillOwed(row) /\ ~heldIncidentWithdrawal(d) /\ status # "on"
              /\ rows' = Commit(oc, [rows EXCEPT ![d].outcome = "failed", ![d].due = FALSE], rows)
              /\ Counted(oc)
              /\ LET todo == Then(status = "off" /\ HandOffApplies(row), "handoff") \o AfterSettled(row)
                 IN  job' = [job EXCEPT ![d] = IF todo = <<>> THEN Idle
                                ELSE [Idle EXCEPT !.outcome = "failed", !.todo = todo]]
    /\ UNCHANGED <<health, hook, chan, over, raised, pass, loose, sends, notices,
                   crashes, edits, tests>>

(* attemptNotifyDelivery where it sends (notifySend): the channel takes the        *)
(* message, or fails in a way a retry may or may not help.                         *)
Send(d, answer) ==
    /\ Doing(d, "begin") /\ Cardinality(Running) < MaxConcurrent
    /\ StillOwed(rows[d]) /\ ~heldIncidentWithdrawal(d) /\ chan[rows[d].channel] = "on"
    /\ job' = [job EXCEPT ![d].todo = <<"record">>, ![d].answer = answer]
    /\ sends' = [sends EXCEPT ![d] = @ + 1]
    /\ UNCHANGED <<stored, chan, over, raised, pass, loose, notices, budget>>

(* What one more attempt with this answer makes of a row. *)
AfterAttempt(row, answer) ==
    [row EXCEPT !.attempts = @ + 1, !.due = FALSE,
                !.outcome = IF answer = "ok" THEN "sent"
                            ELSE IF answer = "transient" /\ row.attempts + 1 <= Retries
                                 THEN "planned" ELSE "failed"]

(* nextNotifyHealth: only an attempt that ends a delivery as failed is counted. *)
nextNotifyHealth(h, ok, counted) ==
    IF ok THEN [h EXCEPT !.fails = 0]
    ELSE IF counted THEN [h EXCEPT !.fails = @ + 1] ELSE h

notifyChannelFailing(h, passed) ==
    h.fails >= FailingAfter \/ (h.fails > 0 /\ "window" \in passed)

(* Mutant: every counted failure is announced. *)
AnnounceAlways(prev, h, passed) ==
    IF h.fails = 0 THEN (IF prev.announced THEN "ok" ELSE "none")
    ELSE IF notifyChannelFailing(h, passed) THEN "failing" ELSE "none"

(* notifyHealthTransition: the announcement the new health calls for. *)
notifyHealthTransition(prev, h, passed) ==
    IF h.fails = 0 THEN (IF prev.announced THEN "ok" ELSE "none")
    ELSE IF notifyChannelFailing(h, passed) /\ (~h.announced \/ "hour" \in passed)
         THEN "failing" ELSE "none"

Announcing(h, notice) ==
    [h EXCEPT !.announced = IF notice = "failing" THEN TRUE
                            ELSE IF notice = "ok" THEN FALSE ELSE @]

Noted(c, notice) == IF notice = "none" THEN notices ELSE [notices EXCEPT ![c] = notice]

(* attemptNotifyDelivery after the send, under healthMu.  What follows it goes by *)
(* the row as computed here, whether or not the write was accepted.               *)
RecordAttempt(d, passed, oc) ==
    /\ Doing(d, "record")
    /\ LET c == rows[d].channel
           answer == job[d].answer
           row == AfterAttempt(rows[d], answer)
           h == nextNotifyHealth(health[c], answer = "ok", row.outcome = "failed")
           notice == notifyHealthTransition(health[c], h, passed)
           todo == Then(notice # "none", "notice")
                   \o Then(answer # "ok" /\ HandOffApplies(row), "handoff")
                   \o (IF Settled(row) THEN AfterSettled(row) ELSE <<>>)
       IN  /\ rows' = Commit(oc, [rows EXCEPT ![d] = row], rows)
           /\ health' = Commit(oc, [health EXCEPT ![c] = Announcing(h, notice)], health)
           /\ notices' = Noted(c, notice)
           /\ job' = [job EXCEPT ![d] = IF todo = <<>> THEN Idle
                        ELSE [todo |-> todo, answer |-> "ok", outcome |-> row.outcome,
                              notice |-> notice]]
    /\ Counted(oc)
    /\ UNCHANGED <<hook, chan, over, raised, pass, loose, sends, crashes, edits, tests>>

StepDone(d) == job' = [job EXCEPT ![d] = IF Len(@.todo) = 1 THEN Idle
                                         ELSE [@ EXCEPT !.todo = Tail(@)]]

(* announceNotifyChannelFailing and announceNotifyChannelOK: an event of their own, *)
(* sent to every other enabled channel (to every enabled one for a recovery).       *)
AnnounceTargets(c, notice) == IF notice = "failing" THEN Enabled \ {c} ELSE Enabled

Announce(d, oc) ==
    LET notice == job[d].notice
        e == IF notice = "failing" THEN ChannelFailing ELSE ChannelOK
        to == AnnounceTargets(rows[d].channel, notice)
    IN  /\ Doing(d, "notice")
        /\ Len(rows) + Cardinality(to) <= MaxRows
        /\ to = {} => oc = "ok"
        /\ rows' = Commit(oc, rows \o RowsFor(e, to, FALSE, FALSE), rows)
        /\ loose' = Commit(oc, loose, loose \cup {[event |-> e, to |-> to]})
        /\ StepDone(d) /\ Counted(oc)
        /\ UNCHANGED <<health, hook, chan, over, raised, pass, sends, notices,
                       crashes, edits, tests>>

(* Mutant: the fallback channel is planned whether or not the event has it. *)
HandsOffAnyway(row) ==
    LET next == ChannelFallback[row.channel]
    IN  HandOffApplies(row) /\ next # None /\ chan[next] = "on"

(* planNotifyChannelFallback: a critical primary that failed an attempt is handed *)
(* on, unless the fallback channel already has the event.                         *)
HandsOff(row) ==
    LET next == ChannelFallback[row.channel]
    IN  /\ HandOffApplies(row)
        /\ next # None /\ chan[next] = "on"
        /\ \A o \in Of(row.event) : rows[o].channel # next

HandOff(d, oc) ==
    LET row == rows[d]
    IN  /\ Doing(d, "handoff")
        /\ \/ /\ HandsOff(row) /\ Len(rows) < MaxRows
              /\ rows' = Commit(oc, Append(rows, NewRow(row.event, ChannelFallback[row.channel],
                                                        "handoff", row.ruled, FALSE)), rows)
              /\ Counted(oc)
           \/ ~HandsOff(row) /\ oc = "ok" /\ UNCHANGED <<rows, faults>>
        /\ StepDone(d)
        /\ UNCHANGED <<health, hook, chan, over, raised, pass, loose, sends, notices,
                       crashes, edits, tests>>

(* planNotifyFallback: every primary of the rule's message has settled and none was *)
(* sent, no rule fallback is planned, and the fallback channel has not got the      *)
(* event another way.                                                               *)
NeedsFallback(d) ==
    LET row == rows[d]
        siblings == {o \in Of(row.event) : rows[o].ruled}
    IN  /\ job[d].outcome = "failed" /\ FallbackApplies(row)
        /\ RuleFallbackNow # None
        /\ \A o \in siblings : rows[o].role # "fallback"
        /\ \A o \in siblings : rows[o].role = "primary" =>
              Settled(rows[o]) /\ rows[o].outcome # "sent"
        /\ \A o \in Of(row.event) : rows[o].channel # RuleFallback

PlanFallback(d, oc) ==
    LET row == rows[d]
    IN  /\ Doing(d, "fallback")
        /\ \/ /\ NeedsFallback(d) /\ Len(rows) < MaxRows
              /\ rows' = Commit(oc, Append(rows, NewRow(row.event, RuleFallback, "fallback",
                                                        TRUE, FALSE)), rows)
              /\ Counted(oc)
           \/ ~NeedsFallback(d) /\ oc = "ok" /\ UNCHANGED <<rows, faults>>
        /\ StepDone(d)
        /\ UNCHANGED <<health, hook, chan, over, raised, pass, loose, sends, notices,
                       crashes, edits, tests>>

(* settleNotifyWebhookRecord: the record settles with the event's last delivery. *)
HookAfter(table, e) ==
    LET outcomes == {d \in 1..Len(table) : table[d].event = e}
        with(o) == Cardinality({d \in outcomes : table[d].outcome = o})
    IN  IF with("planned") > 0 THEN hook[e] ELSE HookOutcome(with("sent"), with("failed"))

SettleHook(d) ==
    /\ Doing(d, "hook")
    /\ hook' = [hook EXCEPT ![rows[d].event] = HookAfter(rows, rows[d].event)]
    /\ StepDone(d)
    /\ UNCHANGED <<rows, health, chan, over, raised, pass, loose, sends, notices, budget>>

-----------------------------------------------------------------------------
(* A restart: what was in memory is gone, then reconcileNotifyOutbox runs before *)
(* the first send.  `late' are the rows past the redrive horizon.                *)

StillHeld(row) == row.held /\ ~row.due /\ row.attempts = 0

Reconciled(late) ==
    [d \in Present |-> IF Settled(rows[d]) \/ d \notin late THEN rows[d]
                       ELSE [rows[d] EXCEPT !.outcome = "failed", !.due = FALSE]]

Restart(late, oc) ==
    LET table == Commit(oc, Reconciled(late), rows)
        closed == {rows[d].event : d \in late}
    IN  /\ crashes < MaxCrashes /\ Disturbable
        /\ late \subseteq {d \in Present : ~Settled(rows[d]) /\ ~StillHeld(rows[d])}
        /\ rows' = table
        /\ hook' = [e \in Events |-> IF e \in Webhook \cap closed THEN HookAfter(table, e) ELSE hook[e]]
        /\ pass' = {} /\ loose' = {} /\ job' = [d \in Ids |-> Idle]
        /\ crashes' = crashes + 1 /\ Counted(oc)
        /\ UNCHANGED <<health, chan, over, raised, sends, notices, edits, tests>>

-----------------------------------------------------------------------------
(* The operator, and the incidents.                                        *)

EditChannel(c, status) ==
    /\ edits < MaxEdits /\ chan[c] # "gone" /\ chan[c] # status
    /\ chan' = [chan EXCEPT ![c] = status]
    /\ health' = IF status = "gone"
                 THEN [health EXCEPT ![c] = [fails |-> 0, announced |-> FALSE]] ELSE health
    /\ edits' = edits + 1
    /\ UNCHANGED <<rows, hook, over, raised, process, sends, notices, crashes, faults, tests>>

(* sendNotifyChannelTest: a success clears the failing state and announces it, a *)
(* failure counts for nothing.  Its row is written settled and is left out.      *)
TestChannel(c, answer, oc) ==
    LET h == nextNotifyHealth(health[c], answer = "ok", FALSE)
        notice == IF answer = "ok" THEN notifyHealthTransition(health[c], h, {}) ELSE "none"
        to == IF notice = "ok" THEN Enabled ELSE {}
    IN  /\ tests < MaxTests /\ chan[c] # "gone" /\ answer \in Answers
        /\ Len(rows) + Cardinality(to) <= MaxRows
        /\ health' = Commit(oc, [health EXCEPT ![c] = Announcing(h, notice)], health)
        /\ rows' = rows \o RowsFor(ChannelOK, to, FALSE, FALSE)
        /\ notices' = Noted(c, notice)
        /\ tests' = tests + 1 /\ Counted(oc)
        /\ UNCHANGED <<hook, chan, over, raised, process, sends, crashes, edits>>

IncidentOver(o) ==
    /\ o \in Opens \cap raised /\ o \notin over
    /\ over' = over \cup {o}
    /\ UNCHANGED <<stored, chan, raised, process, sends, notices, budget>>

-----------------------------------------------------------------------------
Attempt(d) ==
    \/ \E oc \in Writes : SettleWithoutSending(d, oc)
    \/ \E answer \in Answers : Send(d, answer)
    \/ \E passed \in SUBSET LongTimes, oc \in Writes : RecordAttempt(d, passed, oc)
    \/ \E oc \in Writes : Announce(d, oc)
    \/ \E oc \in Writes : HandOff(d, oc)
    \/ \E oc \in Writes : PlanFallback(d, oc)
    \/ SettleHook(d)

Next ==
    \/ \E e \in Events, held \in BOOLEAN, oc \in Writes : Enqueue(e, held, oc)
    \/ \E p \in loose : \E got \in SUBSET p.to : SendUnrecorded(p, got)
    \/ Drain
    \/ StartAttempt
    \/ \E d \in Ids : FallDue(d)
    \/ \E d \in Ids : Attempt(d)
    \/ \E late \in SUBSET Present, oc \in Writes : Restart(late, oc)
    \/ \E c \in Channels, status \in {"on", "off", "gone"} : EditChannel(c, status)
    \/ \E c \in Channels, answer \in Answers, oc \in Writes : TestChannel(c, answer, oc)
    \/ \E o \in Opens : IncidentOver(o)

Spec == Init /\ [][Next]_vars

(* The drainer's loop keeps running, a started attempt keeps going (a send has a  *)
(* timeout), and time passes.                                                     *)
Fairness ==
    /\ WF_vars(Drain) /\ WF_vars(StartAttempt)
    /\ \A d \in Ids : WF_vars(FallDue(d)) /\ WF_vars(Attempt(d))

FairSpec == Spec /\ Fairness

-----------------------------------------------------------------------------
(* Properties.                                                             *)

(* A channel never holds two deliveries of one event: "a channel that already    *)
(* receives the event (as a primary or as another fallback) is not sent it a     *)
(* second time", whichever of planNotifyFallback and planNotifyChannelFallback   *)
(* of which attempts run first.                                                  *)
OneDeliveryPerChannel ==
    \A e \in Events : \A i, j \in Of(e) : i # j => rows[i].channel # rows[j].channel

(* The rule's fallback exists only when every primary of the event has settled   *)
(* and none was sent, and it stays that way: no primary is sent afterwards.      *)
FallbackIsLastResort ==
    \A f \in Present : rows[f].role = "fallback" =>
        \A p \in Of(rows[f].event) : rows[p].role = "primary" =>
            rows[p].outcome \in {"failed", "suppressed"}

(* A settled delivery is never written again: not by an attempt the drainer      *)
(* started from rows it had read before, not by a restart.                       *)
SettledIsFinal ==
    [][\A d \in Present : Settled(rows[d]) => rows'[d] = rows[d]]_vars

(* A delivery is handed to its channel once plus once per retry delay, and once  *)
(* more for every restart that found it unrecorded and every write refused,      *)
(* although the drainer walks rows it read earlier.                              *)
SendsBounded == \A d \in Present : sends[d] <= Retries + 1 + crashes + faults

(* Deliveries quiet hours held leave for a channel in the order they were        *)
(* planned: a later one is handed to the channel only after every earlier one    *)
(* has settled (drainNotifyOutbox).                                              *)
HeldInOrder ==
    [][\A d \in Present : (sends'[d] > sends[d] /\ rows[d].held) =>
          \A o \in 1..(d - 1) : (rows[o].held /\ rows[o].channel = rows[d].channel)
                                    => Settled(rows[o])]_vars

(* A held recovery is not sent on a channel whose open was withdrawn: "the phone *)
(* never heard down, so it is not told up" (heldIncidentWithdrawal).             *)
NoUpWithoutDown ==
    \A r \in Present : (rows[r].held /\ sends[r] > 0 /\ rows[r].event \in DOMAIN OpenOf) =>
        \A o \in Of(OpenOf[rows[r].event]) :
            rows[o].channel = rows[r].channel => rows[o].outcome # "suppressed"

Undisturbed == crashes = 0 /\ faults = 0

(* Nothing is left to do for any row. *)
AtRest == loose = {} /\ \A d \in Present : Settled(rows[d]) /\ ~Inflight(d)

(* When an event's deliveries are all settled and their attempts have ended, the *)
(* webhook's record reports exactly what the outbox did, retries and fallbacks   *)
(* included (settleNotifyWebhookRecord), unless a restart or a refused write got *)
(* between the two.                                                              *)
HookReportsOutbox ==
    (AtRest /\ Undisturbed) => \A e \in Webhook \cap raised : Of(e) # {} =>
        hook[e] = HookOutcome(Cardinality({d \in Of(e) : rows[d].outcome = "sent"}),
                              Cardinality({d \in Of(e) : rows[d].outcome = "failed"}))

(* The primaries of e that the rule planned all failed after being tried. *)
RuleFailed(e) ==
    LET primaries == {d \in Of(e) : rows[d].role = "primary" /\ rows[d].ruled}
    IN  primaries # {} /\ \A d \in primaries : rows[d].outcome = "failed" /\ rows[d].attempts > 0

(* "planNotifyFallback plans the rule's fallback when this settle leaves every   *)
(* primary delivery of the rule's message failed": once the attempts are over,   *)
(* the fallback channel has the event, unless a restart or a refused write got   *)
(* between the settle and the plan.                                              *)
FallbackPlanned ==
    (AtRest /\ Undisturbed /\ RuleFallbackNow # None) => \A e \in Events : RuleFailed(e) =>
        \E d \in Of(e) : rows[d].channel = RuleFallback

(* A channel's failure is announced once per run, and again only after an hour:  *)
(* a second announcement needs a recovery announced between the two              *)
(* (notifyHealthTransition).  Deleting the channel forgets its run.              *)
AnnouncedOncePerRun ==
    [][\A d \in Present : (Doing(d, "record") /\ ~Doing(d, "record")' /\ job'[d].notice = "failing"
                            /\ "hour" \notin LongTimes /\ chan[rows[d].channel] # "gone")
          => notices[rows[d].channel] # "failing"]_vars

(* The outbox plans each event once per channel, falls back only as the last     *)
(* resort, bounds its sends and reports them (settleNotifyDelivery).             *)
OutboxSound == TypeOK /\ OneDeliveryPerChannel /\ FallbackIsLastResort /\ SendsBounded /\ HookReportsOutbox

(* A failing channel is announced once and its rule falls back                   *)
(* (notifyHealthTransition, planNotifyFallback).                                 *)
HealthSound == []FallbackPlanned /\ AnnouncedOncePerRun

(* "No row stays planned": every delivery settles, through retries, refused      *)
(* writes and restarts.                                                          *)
EveryDeliverySettles ==
    \A d \in Ids : (d \in Present /\ ~Settled(rows[d])) ~> (d \in Present /\ Settled(rows[d]))

(* Quiet hours hold back in order, tell no recovery of what they withdrew, and   *)
(* lose nothing (heldIncidentWithdrawal, drainNotifyOutbox).                     *)
QuietSound == []NoUpWithoutDown /\ HeldInOrder /\ EveryDeliverySettles

-----------------------------------------------------------------------------
(* What comments in the code say and the model refutes: README.md names the      *)
(* instances that show it.                                                       *)

(* "a delivery gets one send plus one retry per entry", restarts aside.          *)
SendsAsPromised == \A d \in Present : sends[d] <= Retries + 1 + crashes

(* pluginHost.Send: "A nil return means the message is stored and owed to every  *)
(* enabled channel", so no plugin's message is on its way outside the outbox.    *)
AcceptedIsStored == \A p \in loose : p.event \notin Broadcast
=============================================================================
