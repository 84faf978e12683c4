----------------------------- MODULE Machines -----------------------------
(***************************************************************************)
(* Machine profiles and their renewal reminders (server_inventory.go): an  *)
(* operator creates, edits, renews and deletes profiles with whole-row     *)
(* writes of what they read; the scheduler, or an operator, runs the       *)
(* reminders: each profile is rolled and its reminder recorded in one      *)
(* critical section, and the run sends one message at its end.  Dates are  *)
(* day numbers; of a profile the model keeps the renewal terms, not price, *)
(* vendor or notes.                                                        *)
(***************************************************************************)
EXTENDS Common, Integers, FiniteSets, FiniteSetsExt

CONSTANTS
    MacIds, MacNodes,
    MacTerms,           \* what operators ask for: [next, cycle, auto, enabled, offsets], None for a field not sent
    MonthStart,         \* the calendar: first day of each month
    OverdueDays,        \* overdueReminderDays
    MaxRollSteps,       \* maxAutoRollSteps
    DefaultOffsets,     \* defaultReminderDays
    LastDay, MaxMacOps  \* bounds

VARIABLES
    macDay,             \* today
    macNodes,           \* nodes that exist
    macRow,             \* MachineProfiles: [node, next, cycle, auto, enabled, offsets, key]
    macEdit,            \* an operator's request: the row it will write, and whether a reminder fired since it read
    macRun,             \* a run of the reminders: [left, due]; at most one scheduler run and one by hand
    macMigrated,        \* the default-on migration has run
    macSent,            \* messages sent: the reminders <<id, date, offset>> in each
    macAgain,           \* profiles reminded twice for one date and offset
    macRaced,           \* profiles an operator wrote back a row read before a reminder
    macSwept,           \* profiles the scheduler passed today and nobody wrote since
    macOps

macVars == <<macDay, macNodes, macRow, macEdit, macRun, macMigrated, macSent, macAgain, macRaced, macSwept, macOps>>

Days == 0..LastDay
Runners == {"scheduler", "hand"}
Profiles == {i \in MacIds : macRow[i] # None}

-----------------------------------------------------------------------------
(* ---- dates ------------------------------------------------------------------ *)

MonthOf(d) == CHOOSE m \in DOMAIN MonthStart : MonthStart[m] <= d /\ (m + 1 \in DOMAIN MonthStart => d < MonthStart[m + 1])

(* advanceRenewal: days are added; months keep the day of the month, and a day the month lacks runs into the next. *)
advanceRenewal(d, cycle) ==
    IF cycle.unit = "days" THEN d + cycle.n
    ELSE LET m == MonthOf(d) + cycle.n IN
         IF m \in DOMAIN MonthStart THEN MonthStart[m] + (d - MonthStart[MonthOf(d)]) ELSE LastDay + d

(* rollAutoRenewal: an auto-roll date before today advances until it is not; None when there is nothing to roll. *)
rollAutoRenewal(row, today) ==
    IF ~row.auto \/ row.next = None THEN None
    ELSE IF row.next >= today THEN None
    ELSE LET at[k \in 0..MaxRollSteps] == IF k = 0 THEN row.next ELSE advanceRenewal(at[k-1], row.cycle)
             enough == {k \in 0..MaxRollSteps : at[k] >= today}
         IN IF enough = {} THEN None ELSE at[Min(enough)]

(* reminderOffsetCanFire: the cursor is for another date, or above the offset. *)
reminderOffsetCanFire(key, date, offset) == IF key = None THEN TRUE ELSE key[1] # date \/ offset < key[2]

\* Mutant: a cursor is compared without its date.
nextReminderFire_anydate(row, today) ==
    IF ~row.enabled \/ row.next = None THEN None
    ELSE LET days == row.next - today
             open == {o \in row.offsets : days <= o /\ (row.key = None \/ (row.key # None => o < row.key[2]))} IN
         IF days >= 0 THEN IF open = {} THEN None ELSE Min(open)
         ELSE IF row.auto \/ days < -OverdueDays THEN None
         ELSE IF reminderOffsetCanFire(row.key, row.next, days) THEN days ELSE None

(* nextReminderFire: the smallest offset reached and not fired; past the date, one a day for OverdueDays. *)
nextReminderFire(row, today) ==
    IF ~row.enabled \/ row.next = None THEN None
    ELSE LET days == row.next - today
             open == {o \in row.offsets : days <= o /\ reminderOffsetCanFire(row.key, row.next, o)} IN
         IF days >= 0 THEN IF open = {} THEN None ELSE Min(open)
         ELSE IF row.auto \/ days < -OverdueDays THEN None
         ELSE IF reminderOffsetCanFire(row.key, row.next, days) THEN days ELSE None

(* effectiveRenewal and nextReminderOffset: what the expiring list shows of a profile. *)
effectiveRenewal(row, today) == IF rollAutoRenewal(row, today) # None THEN rollAutoRenewal(row, today) ELSE row.next

nextReminderOffset(row, today) ==
    IF ~row.enabled \/ row.next = None THEN None
    ELSE LET shown == IF effectiveRenewal(row, today) = row.next THEN row
                      ELSE [row EXCEPT !.next = effectiveRenewal(row, today), !.key = None]
             fires == {t \in today..(shown.next + OverdueDays) : nextReminderFire(shown, t) # None}
         IN IF fires = {} THEN None ELSE nextReminderFire(shown, Min(fires))

-----------------------------------------------------------------------------
(* ---- operators ----------------------------------------------------------------- *)

(* validateMachineProfile *)
validateMachineProfile(row) ==
    /\ row.enabled => row.next # None
    /\ row.auto => row.cycle # None

(* machineProfileFromRequest, create: reminders are on when there is a date, with the default offsets. *)
Created(n, t) ==
    [node |-> n, next |-> t.next, cycle |-> t.cycle, auto |-> t.auto,
     enabled |-> IF t.enabled = None THEN t.next # None ELSE t.enabled,
     offsets |-> IF t.offsets # None THEN t.offsets
                 ELSE IF (t.enabled = None /\ t.next # None) \/ t.enabled = TRUE THEN DefaultOffsets ELSE {},
     key |-> None]

(* machineProfileFromRequest, update: only the fields sent change; the cursor stays. *)
Updated(row, t) ==
    [row EXCEPT !.next = t.next, !.cycle = t.cycle, !.auto = t.auto,
                !.enabled = IF t.enabled = None THEN @ ELSE t.enabled,
                !.offsets = IF t.offsets = None THEN @ ELSE t.offsets]

MayAsk == macEdit = None /\ macOps < MaxMacOps /\ macOps' = macOps + 1

(* handleMachines, POST: the node must exist and have no profile. *)
handleMachines(i, n, t) ==
    /\ MayAsk /\ macRow[i] = None /\ n \in macNodes
    /\ ~\E j \in Profiles : macRow[j].node = n
    /\ validateMachineProfile(Created(n, t))
    /\ macEdit' = [id |-> i, row |-> Created(n, t), raced |-> FALSE]
    /\ UNCHANGED <<macDay, macNodes, macRow, macRun, macMigrated, macSent, macAgain, macRaced, macSwept>>

(* handleMachineUpdate reads the row and replaces the fields sent. *)
handleMachineUpdate(i, t) ==
    /\ MayAsk /\ macRow[i] # None
    /\ validateMachineProfile(Updated(macRow[i], t))
    /\ macEdit' = [id |-> i, row |-> Updated(macRow[i], t), raced |-> FALSE]
    /\ UNCHANGED <<macDay, macNodes, macRow, macRun, macMigrated, macSent, macAgain, macRaced, macSwept>>

(* handleMachineRenew: to a date given, or one cycle on when it rolls by itself; the cursor is cleared. *)
handleMachineRenew(i, date) ==
    /\ MayAsk /\ macRow[i] # None
    /\ date = None => macRow[i].auto /\ macRow[i].next # None
    /\ LET next == IF date = None THEN advanceRenewal(macRow[i].next, macRow[i].cycle) ELSE date IN
       macEdit' = [id |-> i, row |-> [macRow[i] EXCEPT !.next = next, !.key = None], raced |-> FALSE]
    /\ UNCHANGED <<macDay, macNodes, macRow, macRun, macMigrated, macSent, macAgain, macRaced, macSwept>>

(* UpsertMachineProfile writes the row as it was read.  Moving the date, or clearing the cursor, begins its reminders anew. *)
UpsertMachineProfile ==
    /\ macEdit # None
    /\ LET i == macEdit.id
           anew == macRow[i] = None \/ macEdit.row.key = None \/ (macRow[i] # None => macEdit.row.next # macRow[i].next) IN
       /\ macRow' = [macRow EXCEPT ![i] = macEdit.row]
       /\ macSent' = IF anew THEN {s \in macSent : s[1] # i} ELSE macSent
       /\ macRaced' = IF macEdit.raced THEN macRaced \cup {i} ELSE macRaced
       /\ macSwept' = macSwept \ {i}
    /\ macEdit' = None
    /\ UNCHANGED <<macDay, macNodes, macRun, macMigrated, macAgain, macOps>>

handleDeleteMachine(i) ==
    /\ MayAsk /\ macRow[i] # None
    /\ macRow' = [macRow EXCEPT ![i] = None]
    /\ macSwept' = macSwept \ {i}
    /\ UNCHANGED <<macDay, macNodes, macEdit, macRun, macMigrated, macSent, macAgain, macRaced>>

(* Deleting a node deletes its profiles. *)
DeleteNodeProfiles(n) ==
    /\ n \in macNodes /\ macOps < MaxMacOps /\ macOps' = macOps + 1
    /\ macNodes' = macNodes \ {n}
    /\ macRow' = [i \in MacIds |-> IF macRow[i] = None THEN None ELSE IF macRow[i].node = n THEN None ELSE macRow[i]]
    /\ macSwept' = {i \in macSwept : macRow'[i] # None}
    /\ UNCHANGED <<macDay, macEdit, macRun, macMigrated, macSent, macAgain, macRaced>>

(* applyReminderDefaults at a start: once per store, profiles with a date are reminded. *)
applyReminderDefaults ==
    /\ ~macMigrated
    /\ macMigrated' = TRUE
    /\ macRow' = [i \in MacIds |->
         IF macRow[i] = None THEN None
         ELSE IF macRow[i].next = None THEN macRow[i]
         ELSE [macRow[i] EXCEPT !.enabled = TRUE, !.offsets = IF @ = {} THEN DefaultOffsets ELSE @]]
    /\ macSwept' = {}
    /\ UNCHANGED <<macDay, macNodes, macEdit, macRun, macSent, macAgain, macRaced, macOps>>

-----------------------------------------------------------------------------
(* ---- a run of the reminders ------------------------------------------------------ *)

(* evaluateReminders over every profile, or handleMachineRemindersRun over one. *)
StartRun(r, ids) ==
    /\ macRun[r] = None /\ ids # {}
    /\ IF r = "scheduler" THEN ids = Profiles
       ELSE ids \subseteq Profiles /\ Cardinality(ids) = 1 /\ macOps < MaxMacOps
    /\ macOps' = IF r = "scheduler" THEN macOps ELSE macOps + 1
    /\ macRun' = [macRun EXCEPT ![r] = [left |-> ids, due |-> {}]]
    /\ UNCHANGED <<macDay, macNodes, macRow, macEdit, macMigrated, macSent, macAgain, macRaced, macSwept>>

(* UpdateMachineProfile: the stored row is rolled, its reminder taken and its cursor set, in one section. *)
EvaluateOne(r, i) ==
    /\ macRun[r] # None /\ i \in macRun[r].left
    /\ IF macRow[i] = None
       THEN /\ macRun' = [macRun EXCEPT ![r].left = @ \ {i}]
            /\ UNCHANGED <<macRow, macEdit, macSent, macAgain, macSwept>>
       ELSE LET rolled == rollAutoRenewal(macRow[i], macDay)
                row == IF rolled = None THEN macRow[i] ELSE [macRow[i] EXCEPT !.next = rolled, !.key = None]
                fire == nextReminderFire(row, macDay)
                done == IF fire = None THEN row ELSE [row EXCEPT !.key = <<row.next, fire>>]
            IN /\ macRow' = [macRow EXCEPT ![i] = done]
               /\ macRun' = [macRun EXCEPT ![r] = [left |-> @.left \ {i},
                                                   due |-> IF fire = None THEN @.due ELSE @.due \cup {<<i, done.next, fire>>}]]
               /\ macAgain' = IF fire # None /\ <<i, done.next, fire>> \in macSent THEN macAgain \cup {i} ELSE macAgain
               /\ macSent' = IF fire = None THEN macSent ELSE macSent \cup {<<i, done.next, fire>>}
               /\ macEdit' = IF done # macRow[i] /\ macEdit # None /\ (macEdit # None => macEdit.id = i)
                             THEN [macEdit EXCEPT !.raced = TRUE] ELSE macEdit
               /\ macSwept' = macSwept \cup {i}
    /\ UNCHANGED <<macDay, macNodes, macMigrated, macRaced, macOps>>

(* A write that does not commit ends the run; what was recorded before it is sent. *)
EvaluateFails(r) ==
    /\ macRun[r] # None /\ macRun[r].left # {} /\ macOps < MaxMacOps
    /\ macOps' = macOps + 1
    /\ macRun' = [macRun EXCEPT ![r] = None]
    /\ UNCHANGED <<macDay, macNodes, macRow, macEdit, macMigrated, macSent, macAgain, macRaced, macSwept>>

(* emitRenewalReminders: one message for the run. *)
EmitReminders(r) ==
    /\ macRun[r] # None /\ macRun[r].left = {}
    /\ macRun' = [macRun EXCEPT ![r] = None]
    /\ UNCHANGED <<macDay, macNodes, macRow, macEdit, macMigrated, macSent, macAgain, macRaced, macSwept, macOps>>

(* The day turns, whether or not a run came through it. *)
DayTurns ==
    /\ macDay < LastDay
    /\ macDay' = macDay + 1
    /\ macSwept' = {}
    /\ UNCHANGED <<macNodes, macRow, macEdit, macRun, macMigrated, macSent, macAgain, macRaced, macOps>>

MacInit ==
    /\ macDay = 0 /\ macNodes = MacNodes
    /\ macRow = [i \in MacIds |-> None] /\ macEdit = None
    /\ macRun = [r \in Runners |-> None]
    /\ macMigrated = FALSE
    /\ macSent = {} /\ macAgain = {} /\ macRaced = {} /\ macSwept = {} /\ macOps = 0

MacNext ==
    \/ \E i \in MacIds :
         \/ \E n \in MacNodes, t \in MacTerms : handleMachines(i, n, t)
         \/ \E t \in MacTerms : handleMachineUpdate(i, t)
         \/ \E d \in {None, macDay + 2} : handleMachineRenew(i, d)
         \/ handleDeleteMachine(i)
    \/ UpsertMachineProfile \/ applyReminderDefaults \/ DayTurns
    \/ \E n \in MacNodes : DeleteNodeProfiles(n)
    \/ \E r \in Runners :
         \/ \E ids \in SUBSET MacIds : StartRun(r, ids)
         \/ \E i \in MacIds : EvaluateOne(r, i)
         \/ EvaluateFails(r) \/ EmitReminders(r)

MacSpec == MacInit /\ [][MacNext]_macVars

-----------------------------------------------------------------------------
(* Rows, requests and runs are well formed. *)
MacTypeOK ==
    /\ macDay \in Days /\ macNodes \subseteq MacNodes /\ macOps \in 0..MaxMacOps
    /\ \A i \in Profiles :
         /\ macRow[i].node \in MacNodes /\ macRow[i].enabled \in BOOLEAN /\ macRow[i].auto \in BOOLEAN
         /\ macRow[i].key # None => macRow[i].key[1] \in Nat
    /\ \A r \in Runners : macRun[r] # None => macRun[r].left \subseteq MacIds
    /\ macAgain \subseteq MacIds /\ macRaced \subseteq MacIds /\ macSwept \subseteq MacIds

(* The expiring list shows, of a profile, the first reminder that a run on each day from today would send. *)
ShownIsNext(row, today) ==
    LET sent(t) == nextReminderFire([row EXCEPT !.next = effectiveRenewal(row, t),
                                                !.key = IF effectiveRenewal(row, t) = row.next THEN @ ELSE None], t)
        shown == nextReminderOffset(row, today) IN
    shown # None => \E t \in today..(effectiveRenewal(row, today) + OverdueDays) :
                       sent(t) = shown /\ \A u \in today..(t - 1) : sent(u) = None

(* The runs of the reminders settle a profile: passed today and not written since, it has nothing more to send *)
(* today, its date has rolled past today if it rolls by itself, it has a reminder on record for its date once  *)
(* the date is as near as its largest offset and not longer past than the overdue days, and no reminder was    *)
(* repeated, scheduler and operator running side by side, unless an operator wrote back a row read before it;  *)
(* and the expiring list announces the reminder that comes next. *)
RemindersSettle ==
    /\ macAgain \subseteq macRaced
    /\ \A i \in Profiles : ShownIsNext(macRow[i], macDay)
    /\ \A i \in macSwept : macRow[i] # None =>
         LET row == macRow[i] IN
         /\ nextReminderFire(row, macDay) = None
         /\ (row.auto /\ row.next # None) => row.next >= macDay
         /\ (row.enabled /\ (row.enabled => /\ row.next - macDay >= -OverdueDays
                                            /\ \/ \E o \in row.offsets : row.next - macDay <= o /\ row.next >= macDay
                                               \/ row.next < macDay))
            => row.key # None /\ (row.key # None => row.key[1] = row.next)

(* The profiles stay well formed and the reminder runs settle them (runMachineReminders).                      *)
MachinesSound == MacTypeOK /\ RemindersSettle

=============================================================================
