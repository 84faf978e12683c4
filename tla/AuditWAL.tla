------------------------------- MODULE AuditWAL -------------------------------
(***************************************************************************)
(* The hash-chained audit log of internal/audit/wal.go with its sidecar    *)
(* anchor, as the store drives it: one writer under Store.mu, a verifier   *)
(* that captures (length, anchor) under the lock and walks the prefix      *)
(* after releasing it, and the shipper that posts verified heads off-box.  *)
(*                                                                         *)
(* SHA-256 is idealised: a chain hash is the sequence of everything hashed *)
(* into it, so two hashes are equal exactly when their inputs are.         *)
(***************************************************************************)
EXTENDS Integers, Sequences, FiniteSets

CONSTANTS
  Ids, Bodies,   \* audit event ids and the rest of an event
  Faults,        \* the I/O faults the run admits, a subset of FaultKinds
  Crashes,       \* a subset of CrashKinds
  MaxRecords,    \* bound: records in the file
  MaxFaults,     \* bound: I/O faults in a behaviour
  MaxCrashes     \* bound: process deaths in a behaviour

\* "anchor": writing the anchor fails, before or after its rename
\* "short": write(2) stores only part of a record     "sync": fsync fails
\* "torn": power loss cuts an unsynced record in two
\* "truncate": someone cuts records off the end of the file while it is closed
FaultKinds == {"anchor", "short", "sync", "torn", "truncate"}

CrashKinds == {"kill", "power"}

ASSUME ConstantsAssumption ==
  /\ Faults \subseteq FaultKinds
  /\ Crashes \subseteq CrashKinds
  /\ MaxRecords \in Nat /\ MaxFaults \in Nat /\ MaxCrashes \in Nat

Event == [id : Ids, body : Bodies]
Hash == Seq(Nat \X Event)

VARIABLES
  file,      \* the WAL as read(2) shows it: a sequence of stored records
  synced,    \* how many of them are known to survive a power loss
  anchor,    \* the sidecar as read(2) shows it: {} when missing, else {a}
  anchorDurable, \* the sidecar a power loss may fall back to
  up,        \* a WAL is open
  seq, head, fingerprintByID,  \* fields of WAL
  pc, cur,   \* progress of appendLocked, and {the event it is writing}
  acked,     \* history: the head when an append last returned nil
  usedIds,   \* history: ids handed to Append, which are random and fresh
  capture,   \* AuditWALVerify between its unlock and its walk, {} or {c}
  verdict,   \* what the last completed walk said
  shipped,   \* history: heads accepted by the off-box receiver
  faults, crashes  \* history: the faults and the deaths so far, in order

disk == <<file, synced, anchor, anchorDurable>>
mem == <<up, seq, head, fingerprintByID, pc, cur>>
watch == <<capture, verdict, shipped>>
hist == <<acked, usedIds>>
vars == <<disk, mem, watch, hist, faults, crashes>>

-----------------------------------------------------------------------------
(* Records and the chain.                                                  *)

genesisHash == << >>

ChainHash(prevHash, n, ev) == Append(prevHash, <<n, ev>>)

\* How much of a line reached the file: half of the JSON, all of it without
\* the newline, or the whole line.  A record that follows an incomplete line
\* shares a line with it.
Half == 1
NoNewline == 2
Whole == 3

Entry == [seq : Nat, prevHash : Hash, hash : Hash, event : Event, part : Half..Whole]

\* The chain of Verify: numbers contiguous from 1, prev_hash the running head,
\* hash the recomputed one, every line parseable.  bufio.Scanner also yields a
\* last line that lacks its newline.
Verify(f) ==
  \A i \in 1..Len(f) :
    LET prev == IF i = 1 THEN genesisHash ELSE f[i - 1].hash IN
    /\ f[i].part = Whole \/ (f[i].part = NoNewline /\ i = Len(f))
    /\ f[i].seq = i
    /\ f[i].prevHash = prev
    /\ f[i].hash = ChainHash(prev, i, f[i].event)

\* Result of a successful Verify.
Result(f) == [count |-> Len(f), head |-> IF f = << >> THEN genesisHash ELSE f[Len(f)].hash]

DuplicateId(f) ==
  \E i, j \in 1..Len(f) : i # j /\ f[i].event.id = f[j].event.id

-----------------------------------------------------------------------------
(* The anchor.                                                             *)

Checkpoint == [count : Nat, head : Hash]
Anchor == [count : Nat, head : Hash, pending : SUBSET Checkpoint]

anchorCommitted(n, h) == [count |-> n, head |-> h, pending |-> {}]

\* Mutant: no pending checkpoint announces the record about to be written.
anchorWithoutPending(n, h, next) == [count |-> n, head |-> h, pending |-> {}]

anchorWithPending(n, h, next) == [count |-> n, head |-> h, pending |-> {next}]

CommittedAt(a, res) == a.count = res.count /\ a.head = res.head

anchorMatchesResult(a, res) == CommittedAt(a, res) \/ res \in a.pending

Fault(kind) ==
  /\ kind \in Faults
  /\ Len(faults) < MaxFaults
  /\ faults' = Append(faults, kind)

\* temp file, fsync, rename, fsync of the directory
writeAnchor(a) ==
  /\ anchor' = {a} /\ anchorDurable' = {a}
  /\ UNCHANGED faults

\* It fails before the rename, or after it while syncing the directory.
writeAnchorFails(a) ==
  /\ Fault("anchor")
  /\ anchor' \in {anchor, {a}}
  /\ UNCHANGED anchorDurable

-----------------------------------------------------------------------------
(* Opening.                                                                *)

\* ensureAnchor writes unless the anchor is committed at the verified head.
OpenReady(res) == \E a \in anchor : CommittedAt(a, res) /\ a.pending = {}

\* Mutant: the anchor is re-bootstrapped from whatever the file holds.
OpenTrustsFile == Verify(file) /\ ~DuplicateId(file)

OpenAccepts ==
  /\ Verify(file)
  /\ ~DuplicateId(file)
  /\ \A a \in anchor : anchorMatchesResult(a, Result(file))

openWAL ==
  /\ ~up
  /\ OpenAccepts
  /\ IF OpenReady(Result(file))
       THEN UNCHANGED <<anchor, anchorDurable, faults>>
       ELSE writeAnchor(anchorCommitted(Result(file).count, Result(file).head))
  /\ up' = TRUE
  /\ seq' = Result(file).count
  /\ head' = Result(file).head
  /\ fingerprintByID' = {file[i].event : i \in 1..Len(file)}
  /\ UNCHANGED <<file, synced, pc, cur, watch, hist, crashes>>

\* ensureAnchor cannot write the anchor: the open fails and may be retried.
openWALFails ==
  /\ ~up
  /\ Verify(file)
  /\ \A a \in anchor : anchorMatchesResult(a, Result(file))
  /\ ~OpenReady(Result(file))
  /\ writeAnchorFails(anchorCommitted(Result(file).count, Result(file).head))
  /\ UNCHANGED <<file, synced, mem, watch, hist, crashes>>

-----------------------------------------------------------------------------
(* Appending.  appendLocked in the steps a crash can separate.             *)

NextHash(ev) == ChainHash(head, seq + 1, ev)

appendLocked(ev) ==
  /\ Len(file) < MaxRecords
  /\ LET next == [count |-> seq + 1, head |-> NextHash(ev)]
         a == anchorWithPending(seq, head, next)
     IN \/ writeAnchor(a) /\ pc' = "write" /\ cur' = {ev}
        \/ writeAnchorFails(a) /\ UNCHANGED <<pc, cur>>
  /\ UNCHANGED <<file, synced, up, seq, head, fingerprintByID, watch, acked, crashes>>

\* AppendAudit: ids are random, so an event is never offered twice.
AppendAny(ev) ==
  /\ up /\ pc = "idle"
  /\ ev.id \notin usedIds
  /\ usedIds' = usedIds \cup {ev.id}
  /\ appendLocked(ev)

\* Mutant: ids are not looked up, so a retry appends again.
NeverKnown(ev) == {e \in fingerprintByID : FALSE}

Known(ev) == {e \in fingerprintByID : e.id = ev.id}

\* AppendAuditIdempotent: a retry offers an id again.
AppendIdempotent(ev) ==
  /\ up /\ pc = "idle"
  /\ usedIds' = usedIds \cup {ev.id}
  /\ \/ /\ Known(ev) = {}
        /\ appendLocked(ev)
     \/ /\ ev \in Known(ev)
        /\ \/ writeAnchor(anchorCommitted(seq, head)) /\ acked' = head
           \/ writeAnchorFails(anchorCommitted(seq, head)) /\ UNCHANGED acked
        /\ UNCHANGED <<file, synced, mem, watch, crashes>>

Stored(ev, part) ==
  [seq |-> seq + 1, prevHash |-> head, hash |-> NextHash(ev), event |-> ev, part |-> part]

WriteRecord ==
  /\ pc = "write"
  /\ \E ev \in cur :
       \/ file' = Append(file, Stored(ev, Whole)) /\ pc' = "sync" /\ UNCHANGED <<cur, faults>>
       \/ /\ Fault("short")
          /\ \/ file' = file
             \/ \E part \in {Half, NoNewline} : file' = Append(file, Stored(ev, part))
          /\ pc' = "idle" /\ cur' = {}
  /\ UNCHANGED <<synced, anchor, anchorDurable, up, seq, head, fingerprintByID, watch, hist, crashes>>

\* After a failed fsync the bytes stay visible and unsynced.
SyncRecord ==
  /\ pc = "sync"
  /\ \/ /\ synced' = Len(file)
        /\ seq' = seq + 1
        /\ \E ev \in cur :
             /\ head' = NextHash(ev)
             /\ fingerprintByID' = (fingerprintByID \ Known(ev)) \cup {ev}
        /\ pc' = "commit"
        /\ UNCHANGED <<cur, faults>>
     \/ /\ Fault("sync")
        /\ pc' = "idle" /\ cur' = {}
        /\ UNCHANGED <<synced, seq, head, fingerprintByID>>
  /\ UNCHANGED <<file, anchor, anchorDurable, up, watch, hist, crashes>>

CommitAnchor ==
  /\ pc = "commit"
  /\ \/ writeAnchor(anchorCommitted(seq, head)) /\ acked' = head
     \/ writeAnchorFails(anchorCommitted(seq, head)) /\ UNCHANGED acked
  /\ pc' = "idle" /\ cur' = {}
  /\ UNCHANGED <<file, synced, up, seq, head, fingerprintByID, watch, usedIds, crashes>>

-----------------------------------------------------------------------------
(* Verification of a live log, and shipping of its head.                   *)

\* AuditWALVerify under Store.mu, so never inside an append.
CapturePrefix ==
  /\ up /\ pc = "idle" /\ capture = {}
  /\ capture' = {[limit |-> Len(file), anchor |-> a] : a \in anchor}
  /\ UNCHANGED <<disk, mem, verdict, shipped, hist, faults, crashes>>

VerifyPrefixAgainstAnchor(limit, a) ==
  LET prefix == SubSeq(file, 1, limit) IN
  Verify(prefix) /\ anchorMatchesResult(a, Result(prefix))

\* Mutant: the head is posted whenever the log verifies, pending or not.
ShipAnyVerified ==
  /\ \E c \in capture :
       LET ok == VerifyPrefixAgainstAnchor(c.limit, c.anchor) IN
       /\ verdict' = IF ok THEN "ok" ELSE "broken"
       /\ \/ UNCHANGED shipped
          \/ ok /\ shipped' = shipped \cup {Result(SubSeq(file, 1, c.limit)).head}
  /\ capture' = {}
  /\ UNCHANGED <<disk, mem, hist, faults, crashes>>

\* The walk without the lock.  shipOnce posts the verified head when the anchor
\* is committed at it, and the post may fail.
WalkPrefix ==
  /\ \E c \in capture :
       LET ok == VerifyPrefixAgainstAnchor(c.limit, c.anchor) IN
       /\ verdict' = IF ok THEN "ok" ELSE "broken"
       /\ \/ UNCHANGED shipped
          \/ /\ ok
             /\ c.anchor.pending = {}
             /\ CommittedAt(c.anchor, Result(SubSeq(file, 1, c.limit)))
             /\ shipped' = shipped \cup {c.anchor.head}
  /\ capture' = {}
  /\ UNCHANGED <<disk, mem, hist, faults, crashes>>

-----------------------------------------------------------------------------
(* The process and the machine stop.                                       *)

Stop(kind) ==
  /\ up
  /\ kind \in Crashes
  /\ Len(crashes) < MaxCrashes
  /\ crashes' = Append(crashes, kind)
  /\ up' = FALSE /\ pc' = "idle" /\ cur' = {}
  /\ seq' = 0 /\ head' = genesisHash /\ fingerprintByID' = {}
  /\ capture' = {} /\ verdict' = "none"
  /\ UNCHANGED <<shipped, hist>>

\* The process dies, or Close runs; the page cache survives.
Kill ==
  /\ Stop("kill")
  /\ UNCHANGED <<disk, faults>>

\* A power loss keeps the synced records, any number of the unsynced ones after
\* them, and perhaps part of one more.
PowerLoss ==
  /\ Stop("power")
  /\ \E n \in synced..Len(file) :
       \/ file' = SubSeq(file, 1, n) /\ UNCHANGED faults
       \/ /\ Fault("torn")
          /\ n < Len(file)
          /\ \E part \in {Half, NoNewline} :
               file' = Append(SubSeq(file, 1, n), [file[n + 1] EXCEPT !.part = part])
  /\ synced' = Len(file')
  /\ anchor' \in {anchor, anchorDurable}
  /\ anchorDurable' = anchor'

\* External: someone shortens the closed file.
Truncate ==
  /\ ~up
  /\ Fault("truncate")
  /\ \E n \in 0..(Len(file) - 1) :
       file' = SubSeq(file, 1, n) /\ synced' = n
  /\ UNCHANGED <<anchor, anchorDurable, mem, watch, hist, crashes>>

-----------------------------------------------------------------------------
Init ==
  /\ file = << >> /\ synced = 0
  /\ anchor = {} /\ anchorDurable = {}
  /\ up = FALSE /\ seq = 0 /\ head = genesisHash /\ fingerprintByID = {}
  /\ pc = "idle" /\ cur = {}
  /\ acked = genesisHash /\ usedIds = {}
  /\ capture = {} /\ verdict = "none" /\ shipped = {}
  /\ faults = << >> /\ crashes = << >>

Next ==
  \/ openWAL \/ openWALFails
  \/ \E ev \in Event : AppendAny(ev) \/ AppendIdempotent(ev)
  \/ WriteRecord \/ SyncRecord \/ CommitAnchor
  \/ CapturePrefix \/ WalkPrefix
  \/ Kill \/ PowerLoss \/ Truncate

Spec == Init /\ [][Next]_vars

-----------------------------------------------------------------------------
(* Properties.                                                             *)

\* The file, the anchors and the fields of WAL keep their shapes, and no more
\* records count as synced than the file holds.
TypeOK ==
  /\ file \in Seq(Entry)
  /\ synced \in 0..Len(file)
  /\ anchor \in SUBSET Anchor /\ anchorDurable \in SUBSET Anchor
  /\ up \in BOOLEAN /\ seq \in Nat /\ head \in Hash
  /\ fingerprintByID \in SUBSET Event
  /\ pc \in {"idle", "write", "sync", "commit"}
  /\ cur \in SUBSET Event
  /\ acked \in Hash /\ usedIds \in SUBSET Ids
  /\ capture \in SUBSET [limit : Nat, anchor : Anchor]
  /\ verdict \in {"none", "ok", "broken"}
  /\ shipped \in SUBSET Hash
  /\ faults \in Seq(FaultKinds) /\ crashes \in Seq(CrashKinds)

Extends(h, g) == Len(g) <= Len(h) /\ \A i \in 1..Len(g) : h[i] = g[i]

\* Each property names the failures it tolerates; the behaviours include others.
OnlyFaults(kinds) == \A i \in 1..Len(faults) : faults[i] \in kinds

PowerLossAfterKill ==
  \E i, j \in 1..Len(crashes) : i < j /\ crashes[i] = "kill" /\ crashes[j] = "power"

\* An open log contains every append that ever returned nil, in order: no crash,
\* failed write or cut-off tail makes openWAL accept a log that lost one
\* (the promise of "without trusting a shorter WAL" on Anchor).
AckedSurvives == up => Extends(head, acked)

\* A head the off-box receiver accepted stays a prefix of every log the server
\* opens later, so the receiver never sees a server roll back whose file nobody
\* cut and whose disk keeps what a restart read.
ShippedStands ==
  up /\ OnlyFaults(FaultKinds \ {"truncate"}) /\ ~PowerLossAfterKill
    => \A h \in shipped : Extends(head, h)

\* A stopped server can open its log again: the state a crash leaves is one the
\* anchor reconciles ("so a crash can be reconciled"), also after a failed write
\* of the anchor.
Reopenable == ~up /\ OnlyFaults({"anchor"}) /\ ~PowerLossAfterKill => OpenAccepts

\* The same after any crash: "so a crash can be reconciled without trusting a
\* shorter WAL" (Anchor).
\* TLC refutes it (README.md, section 6).
ReopenableAfterAnyCrash == ~up => OpenAccepts

\* AuditWALVerify racing appends never calls a sound log broken ("cannot make a
\* sound chain look broken" on VerifyPrefixAgainstAnchor).
NoFalseAlarm == OnlyFaults({"anchor"}) => verdict # "broken"

\* AppendIdempotent, retried after a crash or a failed write of the anchor,
\* leaves one record per id, as AppendAuditIdempotent relies on
\* ("a retry after any partial failure safely repairs the gap").
OneRecordPerId == OnlyFaults({"anchor"}) => ~DuplicateId(file)

\* The records of the log: well formed, one per id through retried appends, and
\* never called broken by a check that races them (AppendIdempotent,
\* AuditWALVerify).
RecordsSound == TypeOK /\ NoFalseAlarm /\ OneRecordPerId
=============================================================================
