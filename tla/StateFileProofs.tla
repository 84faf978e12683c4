--------------------------- MODULE StateFileProofs ---------------------------
(***************************************************************************)
(* What the ways of writing the state file keep, whatever the state is.    *)
(***************************************************************************)
EXTENDS StateFile, TLAPS

\* Every state the store holds, would read after a restart, or could find
\* after a power loss.
AllStates == recoverable \cup {live, disk}

\* A write brings at most the state written into them.
LEMMA StagedStates ==
  ASSUME NEW s, NEW oc \in Outcomes, Staged(s, oc) \/ Save(s, oc)
  PROVE  /\ AllStates' \subseteq AllStates \cup {s}
         /\ faults' \in {faults, faults + 1}
         /\ crashes' = crashes
BY Zenon DEF Staged, Save, persistState, Admit, Outcomes, AllStates

\* The degraded flag stays a Boolean.
LEMMA DegradedType ==
  ASSUME NEW s, NEW oc \in Outcomes, Staged(s, oc) \/ Save(s, oc), degraded \in BOOLEAN
  PROVE  degraded' \in BOOLEAN
<1>1. CASE oc = "failed"
  <2>1. degraded' = degraded
    BY <1>1 DEF Staged, Save, persistState
  <2> QED
    BY <2>1
<1>2. CASE oc = "degraded"
  <2>1. degraded' = TRUE
    BY <1>2, Zenon DEF Staged, Save, persistState
  <2> QED
    BY <2>1
<1>3. CASE oc = "synced"
  <2>1. degraded' = FALSE
    BY <1>3, Zenon DEF Staged, Save, persistState
  <2> QED
    BY <2>1, Zenon
<1> QED
  BY <1>1, <1>2, <1>3 DEF Outcomes

\* After a write that reported success nothing but the state written is left.
LEMMA SyncedStates ==
  ASSUME NEW s, Staged(s, "synced") \/ Save(s, "synced")
  PROVE  AllStates' = {s}
BY Zenon DEF Staged, Save, persistState, AllStates

\* Confirming durability adds no state a restart can find.
LEMMA ConfirmStates ==
  ASSUME NEW oc, confirmDurabilityLocked(oc)
  PROVE  AllStates' \subseteq AllStates
BY DEF confirmDurabilityLocked, AllStates

\* A restart finds one of the states that were there and adds none.
LEMMA RestartStates ==
  ASSUME NEW kind, NEW oc, Restart(kind, oc)
  PROVE  /\ AllStates' \subseteq AllStates
         /\ degraded' \in BOOLEAN
         /\ faults' \in {faults, faults + 1}
         /\ crashes' = crashes + 1
BY Zenon DEF Restart, openWithCipher, AllStates

\* Unless the store is degraded, a power loss can only leave the file there is.
Settled == degraded = TRUE \/ recoverable = {disk}

\* Every write keeps it, and so does a restart.
LEMMA SettledKept ==
  ASSUME Settled,
         \/ \E s : \E oc \in Outcomes : Staged(s, oc) \/ Save(s, oc)
         \/ \E oc : confirmDurabilityLocked(oc)
         \/ \E kind, oc : Restart(kind, oc)
  PROVE  Settled'
<1>1. ASSUME NEW s, NEW oc \in Outcomes, Staged(s, oc) \/ Save(s, oc) PROVE Settled'
  BY <1>1, Zenon DEF Staged, Save, persistState, Outcomes, Settled
<1>2. ASSUME NEW oc, confirmDurabilityLocked(oc) PROVE Settled'
  BY <1>2, Zenon DEF confirmDurabilityLocked, Settled
<1>3. ASSUME NEW kind, NEW oc, Restart(kind, oc) PROVE Settled'
  BY <1>3, Zenon DEF Restart, openWithCipher, Settled
<1> QED
  BY <1>1, <1>2, <1>3

\* Once durability is confirmed a restart finds the file, and nothing older.
LEMMA ConfirmedStates ==
  ASSUME Settled, confirmDurabilityLocked("synced")
  PROVE  AllStates' = {live, disk} /\ live' = live /\ disk' = disk
BY DEF confirmDurabilityLocked, Settled, AllStates

\* A restart serves the file it finds.
LEMMA RestartReads ==
  ASSUME NEW kind, NEW oc, Restart(kind, oc)
  PROVE  live' = disk' /\ (live' = disk \/ (kind = "power" /\ AllStates' = {live'}))
BY DEF Restart, openWithCipher, AllStates
=============================================================================
