------------------------------ MODULE StateFile ------------------------------
(***************************************************************************)
(* The JSON state file of internal/store: every mutation of the store      *)
(* writes the whole state to a temporary file, syncs it, renames it over   *)
(* the old one and syncs the directory.  The rename is the commit point; a *)
(* directory sync that fails after it leaves the store "degraded": the new *)
(* state is what the process and a restart read, but a power loss may      *)
(* bring back an older one.                                                *)
(*                                                                         *)
(* Two ways of writing exist in the code.  A staged write installs the new *)
(* state in memory only if it was committed; a saved one changes memory    *)
(* first and keeps the change even when the write fails.                   *)
(***************************************************************************)
EXTENDS Integers, FiniteSets

CONSTANTS
  WriteFaults,  \* the faults a run admits: "write" (nothing committed), "dirsync"
  Crashes,      \* a subset of {"kill", "power"}
  MaxFaults,    \* bound: failing writes in a behaviour
  MaxCrashes    \* bound: process deaths in a behaviour

ASSUME StateFileAssumption ==
  /\ WriteFaults \subseteq {"write", "dirsync"}
  /\ Crashes \subseteq {"kill", "power"}
  /\ MaxFaults \in Nat /\ MaxCrashes \in Nat

VARIABLES
  live,         \* Store.state
  disk,         \* the state file as read(2) shows it
  recoverable,  \* the states a power loss may leave in the file
  degraded,     \* Store.durabilityDegraded
  faults, crashes  \* bounds

stateFile == <<live, disk, recoverable, degraded>>
bounds == <<faults, crashes>>

\* How a write ends: nothing was committed, the rename happened but the
\* directory sync failed, or everything succeeded.
Outcomes == {"failed", "degraded", "synced"}

Admit(outcome) ==
  /\ outcome # "synced" => faults < MaxFaults
  /\ outcome = "failed" => "write" \in WriteFaults
  /\ outcome = "degraded" => "dirsync" \in WriteFaults
  /\ faults' = IF outcome = "synced" THEN faults ELSE faults + 1
  /\ UNCHANGED crashes

persistState(s, outcome) ==
  /\ Admit(outcome)
  /\ disk' = IF outcome = "failed" THEN disk ELSE s
  /\ recoverable' = CASE outcome = "failed" -> recoverable
                      [] outcome = "degraded" -> recoverable \cup {s}
                      [] outcome = "synced" -> {s}
  /\ degraded' = CASE outcome = "failed" -> degraded
                   [] outcome = "degraded" -> TRUE
                   [] outcome = "synced" -> FALSE

\* committed, err := s.persistState(staged); if committed { s.state = staged }
Staged(s, outcome) ==
  /\ persistState(s, outcome)
  /\ live' = IF outcome = "failed" THEN live ELSE s

\* The state is changed in place and then written by Save.
Save(s, outcome) ==
  /\ live' = s
  /\ persistState(s, outcome)

\* Nothing to do unless degraded; then the directory is synced again, which
\* makes the file that is there now the only one a power loss can leave.
confirmDurabilityLocked(outcome) ==
  /\ outcome \in {"failed", "synced"}
  /\ outcome = "failed" =>
       degraded /\ faults < MaxFaults /\ "dirsync" \in WriteFaults
  /\ faults' = IF outcome = "failed" THEN faults + 1 ELSE faults
  /\ degraded' = (outcome = "failed")
  /\ recoverable' = IF degraded /\ outcome = "synced" THEN {disk} ELSE recoverable
  /\ UNCHANGED <<live, disk, crashes>>

\* Open reads the file and syncs its directory before it serves anything;
\* "possible" is what a power loss could leave if that sync fails.
openWithCipher(s, possible, outcome) ==
  /\ live' = s /\ disk' = s
  /\ \/ /\ outcome = "synced"
        /\ recoverable' = {s} /\ degraded' = FALSE
        /\ UNCHANGED faults
     \/ /\ outcome = "failed" /\ faults < MaxFaults /\ "dirsync" \in WriteFaults
        /\ recoverable' = possible /\ degraded' = TRUE
        /\ faults' = faults + 1

\* The process dies and is started again.  A power loss first brings back any
\* state whose rename may have reached the disk.
Restart(kind, outcome) ==
  /\ kind \in Crashes /\ crashes < MaxCrashes
  /\ crashes' = crashes + 1
  /\ \/ kind = "kill" /\ openWithCipher(disk, recoverable, outcome)
     \/ kind = "power" /\ \E s \in recoverable : openWithCipher(s, {s}, outcome)

InitStateFile(s) ==
  /\ live = s /\ disk = s /\ recoverable = {s} /\ degraded = FALSE
  /\ faults = 0 /\ crashes = 0
=============================================================================
