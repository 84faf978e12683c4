---------------------------- MODULE AuditWALProofs ----------------------------
(***************************************************************************)
(* AuditWAL for every set of events, every combination of faults and       *)
(* crashes, and files and behaviours of any length.                        *)
(***************************************************************************)
EXTENDS AuditWAL, TLAPS

-----------------------------------------------------------------------------
(* Chains.                                                                 *)

\* Every chain extends itself.
LEMMA ExtendsRefl ==
  ASSUME NEW h \in Hash
  PROVE  Extends(h, h)
BY DEF Extends

\* Every chain extends the empty one.
LEMMA ExtendsGenesis ==
  ASSUME NEW h \in Hash
  PROVE  Extends(h, genesisHash)
BY DEF Extends, genesisHash, Hash

\* A chain hash extends the hash it was computed from.
LEMMA ExtendsChainHash ==
  ASSUME NEW h \in Hash, NEW g \in Hash, NEW n \in Nat, NEW ev \in Event, Extends(h, g)
  PROVE  ChainHash(h, n, ev) \in Hash /\ Extends(ChainHash(h, n, ev), g)
<1> USE DEF ChainHash, Hash
<1>1. <<n, ev>> \in Nat \X Event
  OBVIOUS
<1>2. Append(h, <<n, ev>>) \in Seq(Nat \X Event)
  BY <1>1
<1>3. \A i \in 1..Len(h) : Append(h, <<n, ev>>)[i] = h[i]
  BY <1>1
<1>4. Len(Append(h, <<n, ev>>)) = Len(h) + 1
  BY <1>1
<1> QED
  BY <1>2, <1>3, <1>4 DEF Extends

-----------------------------------------------------------------------------
(* Types.                                                                  *)

\* What Verify reports of a file is a count and a chain hash.
LEMMA HashOfResult ==
  ASSUME NEW f \in Seq(Entry)
  PROVE  Result(f).count \in Nat /\ Result(f).head \in Hash
<1>1. f # << >> => f[Len(f)] \in Entry
  OBVIOUS
<1> QED
  BY <1>1 DEF Result, Entry, genesisHash, Hash

\* A committed anchor is an anchor.
LEMMA CommittedType ==
  ASSUME NEW n \in Nat, NEW h \in Hash
  PROVE  anchorCommitted(n, h) \in Anchor
BY DEF anchorCommitted, Anchor

\* An anchor with a pending checkpoint is an anchor.
LEMMA PendingType ==
  ASSUME NEW n \in Nat, NEW h \in Hash, NEW m \in Nat, NEW g \in Hash
  PROVE  anchorWithPending(n, h, [count |-> m, head |-> g]) \in Anchor
BY DEF anchorWithPending, Anchor, Checkpoint

\* A fault is logged under one of the known kinds.
LEMMA FaultLogged ==
  ASSUME TypeOK, NEW kind, Fault(kind)
  PROVE  faults' \in Seq(FaultKinds)
<1>1. kind \in FaultKinds
  BY ConstantsAssumption DEF Fault
<1> QED
  BY <1>1 DEF Fault, TypeOK

\* Both outcomes of writeAnchor keep the anchors well formed.
LEMMA WriteAnchorType ==
  ASSUME TypeOK, NEW a \in Anchor, writeAnchor(a) \/ writeAnchorFails(a)
  PROVE  anchor' \in SUBSET Anchor /\ anchorDurable' \in SUBSET Anchor /\ faults' \in Seq(FaultKinds)
BY FaultLogged DEF TypeOK, writeAnchor, writeAnchorFails

\* The hash of the next record is a chain hash.
LEMMA NextHashType ==
  ASSUME TypeOK, NEW ev \in Event
  PROVE  NextHash(ev) \in Hash
BY ExtendsRefl, ExtendsChainHash DEF TypeOK, NextHash

\* What WriteRecord stores is an entry, whole or not.
LEMMA StoredType ==
  ASSUME TypeOK, NEW ev \in Event, NEW part \in Half..Whole
  PROVE  Stored(ev, part) \in Entry
BY NextHashType DEF TypeOK, Stored, Entry

\* Starting an append keeps the types.
LEMMA AppendLockedType ==
  ASSUME TypeOK, NEW ev \in Event, appendLocked(ev), usedIds' \in SUBSET Ids
  PROVE  TypeOK'
<1> DEFINE a == anchorWithPending(seq, head, [count |-> seq + 1, head |-> NextHash(ev)])
<1>1. a \in Anchor
  BY NextHashType, PendingType DEF TypeOK
<1>2. writeAnchor(a) \/ writeAnchorFails(a)
  BY DEF appendLocked
<1>3. anchor' \in SUBSET Anchor /\ anchorDurable' \in SUBSET Anchor /\ faults' \in Seq(FaultKinds)
  BY <1>1, <1>2, WriteAnchorType
<1>4. pc' \in {"idle", "write", "sync", "commit"} /\ cur' \in SUBSET Event
  BY DEF appendLocked, TypeOK
<1> QED
  BY <1>3, <1>4 DEF appendLocked, TypeOK, watch

\* A new log has the types.
LEMMA InitType == Init => TypeOK
<1> SUFFICES ASSUME Init PROVE TypeOK
  OBVIOUS
<1>1. << >> \in Seq(Entry) /\ Len(<< >>) = 0
  OBVIOUS
<1>2. genesisHash \in Hash
  BY DEF genesisHash, Hash
<1>3. 0 \in 0..0
  OBVIOUS
<1>4. synced \in 0..Len(file)
  BY <1>1, <1>3 DEF Init
<1>5. faults \in Seq(FaultKinds) /\ crashes \in Seq(CrashKinds)
  BY DEF Init
<1> QED
  BY <1>1, <1>2, <1>4, <1>5, Zenon DEF Init, TypeOK

\* What a power loss leaves of the file is a sequence of entries.
LEMMA SurvivorType ==
  ASSUME TypeOK, PowerLoss
  PROVE  file' \in Seq(Entry)
<1>1. synced \in 0..Len(file) /\ Len(file) \in Nat /\ file \in Seq(Entry)
  BY DEF TypeOK
<1>2. PICK n \in synced..Len(file) :
        \/ file' = SubSeq(file, 1, n)
        \/ /\ n < Len(file)
           /\ \E part \in {Half, NoNewline} :
                file' = Append(SubSeq(file, 1, n), [file[n + 1] EXCEPT !.part = part])
  BY Zenon DEF PowerLoss
<1> DEFINE g == SubSeq(file, 1, n)
<1>3. g \in Seq(Entry)
  BY <1>1
<1>4. CASE file' = g
  BY <1>3, <1>4
<1>5. ASSUME n < Len(file), NEW part \in {Half, NoNewline},
             file' = Append(g, [file[n + 1] EXCEPT !.part = part])
      PROVE  file' \in Seq(Entry)
  <2> DEFINE e == [file[n + 1] EXCEPT !.part = part]
  <2>1. file[n + 1] \in Entry
    BY <1>1, <1>5
  <2>2. e \in Entry
    BY <2>1 DEF Entry, Half, NoNewline, Whole
  <2> HIDE DEF e, g
  <2>3. Append(g, e) \in Seq(Entry)
    BY <1>3, <2>2
  <2> QED
    BY <1>5, <2>3 DEF e
<1> QED
  BY <1>2, <1>4, <1>5

\* Every step keeps the types.
LEMMA StepType == TypeOK /\ [Next]_vars => TypeOK'
<1> SUFFICES ASSUME TypeOK, [Next]_vars PROVE TypeOK'
  OBVIOUS
<1>1. CASE openWAL
  <2> DEFINE res == Result(file)
  <2>1. res.count \in Nat /\ res.head \in Hash
    BY HashOfResult DEF TypeOK
  <2>2. anchor' \in SUBSET Anchor /\ anchorDurable' \in SUBSET Anchor /\ faults' \in Seq(FaultKinds)
    BY <1>1, <2>1, CommittedType, WriteAnchorType DEF openWAL, TypeOK
  <2>3. {file[i].event : i \in 1..Len(file)} \subseteq Event
    <3>1. \A i \in 1..Len(file) : file[i] \in Entry
      BY DEF TypeOK
    <3> QED
      BY <3>1 DEF Entry
  <2> QED
    BY <1>1, <2>1, <2>2, <2>3 DEF openWAL, TypeOK, watch, hist
<1>2. CASE openWALFails
  <2> DEFINE res == Result(file)
  <2>1. anchorCommitted(res.count, res.head) \in Anchor
    BY HashOfResult, CommittedType DEF TypeOK
  <2>2. anchor' \in SUBSET Anchor /\ anchorDurable' \in SUBSET Anchor /\ faults' \in Seq(FaultKinds)
    BY <1>2, <2>1, WriteAnchorType DEF openWALFails
  <2> QED
    BY <1>2, <2>2 DEF openWALFails, TypeOK, mem, watch, hist
<1>3. ASSUME NEW ev \in Event, AppendAny(ev)
      PROVE  TypeOK'
  BY <1>3, AppendLockedType, Zenon DEF AppendAny, Event, TypeOK
<1>4. ASSUME NEW ev \in Event, AppendIdempotent(ev)
      PROVE  TypeOK'
  <2>1. usedIds' \in SUBSET Ids
    BY <1>4 DEF AppendIdempotent, Event, TypeOK
  <2>2. CASE appendLocked(ev)
    BY <2>1, <2>2, AppendLockedType
  <2>3. CASE ~appendLocked(ev)
    <3>1. anchorCommitted(seq, head) \in Anchor
      BY CommittedType DEF TypeOK
    <3>2. writeAnchor(anchorCommitted(seq, head)) \/ writeAnchorFails(anchorCommitted(seq, head))
      BY <1>4, <2>3 DEF AppendIdempotent
    <3>3. anchor' \in SUBSET Anchor /\ anchorDurable' \in SUBSET Anchor /\ faults' \in Seq(FaultKinds)
      BY <3>1, <3>2, WriteAnchorType
    <3> QED
      BY <1>4, <2>1, <2>3, <3>3, Zenon DEF AppendIdempotent, TypeOK, mem, watch
  <2> QED
    BY <2>2, <2>3
<1>5. CASE WriteRecord
  <2>1. file' \in Seq(Entry) /\ Len(file) <= Len(file') /\ faults' \in Seq(FaultKinds)
    <3>1. PICK ev \in cur :
            \/ file' = file
            \/ \E part \in {Half, NoNewline, Whole} : file' = Append(file, Stored(ev, part))
      BY <1>5 DEF WriteRecord
    <3>2. ev \in Event
      BY DEF TypeOK
    <3>3. \A part \in {Half, NoNewline, Whole} : Stored(ev, part) \in Entry
      BY <3>2, StoredType DEF Half, NoNewline, Whole
    <3>4. \A e \in Entry : Append(file, e) \in Seq(Entry) /\ Len(file) <= Len(Append(file, e))
      BY DEF TypeOK
    <3>5. faults' \in Seq(FaultKinds)
      BY <1>5, FaultLogged DEF WriteRecord, TypeOK
    <3>6. CASE file' = file
      BY <3>5, <3>6 DEF TypeOK
    <3>7. CASE \E part \in {Half, NoNewline, Whole} : file' = Append(file, Stored(ev, part))
      BY <3>3, <3>4, <3>5, <3>7
    <3> QED
      BY <3>1, <3>6, <3>7
  <2>2. synced' \in 0..Len(file')
    BY <1>5, <2>1 DEF WriteRecord, TypeOK
  <2>3. pc' \in {"idle", "write", "sync", "commit"} /\ cur' \in SUBSET Event
    BY <1>5 DEF WriteRecord, TypeOK
  <2> QED
    BY <1>5, <2>1, <2>2, <2>3 DEF WriteRecord, TypeOK, watch, hist
<1>6. CASE SyncRecord
  <2>1. faults' \in Seq(FaultKinds) /\ synced' \in 0..Len(file') /\ seq' \in Nat
    <3>1. faults' \in Seq(FaultKinds)
      BY <1>6, FaultLogged DEF SyncRecord, TypeOK
    <3> QED
      BY <1>6, <3>1 DEF SyncRecord, TypeOK
  <2>2. head' \in Hash /\ fingerprintByID' \in SUBSET Event
    BY <1>6, NextHashType DEF SyncRecord, TypeOK
  <2>3. pc' \in {"idle", "write", "sync", "commit"} /\ cur' \in SUBSET Event
    BY <1>6 DEF SyncRecord, TypeOK
  <2> QED
    BY <1>6, <2>1, <2>2, <2>3 DEF SyncRecord, TypeOK, watch, hist
<1>7. CASE CommitAnchor
  <2>1. anchorCommitted(seq, head) \in Anchor
    BY CommittedType DEF TypeOK
  <2>2. anchor' \in SUBSET Anchor /\ anchorDurable' \in SUBSET Anchor /\ faults' \in Seq(FaultKinds)
    BY <1>7, <2>1, WriteAnchorType DEF CommitAnchor
  <2> QED
    BY <1>7, <2>2 DEF CommitAnchor, TypeOK, watch
<1>8. CASE CapturePrefix
  <2>1. Len(file) \in Nat
    BY DEF TypeOK
  <2>2. capture' \in SUBSET [limit : Nat, anchor : Anchor]
    BY <1>8, <2>1 DEF CapturePrefix, TypeOK
  <2> QED
    BY <1>8, <2>2 DEF CapturePrefix, TypeOK, disk, mem, hist
<1>9. CASE WalkPrefix
  <2>1. shipped' \in SUBSET Hash
    BY <1>9 DEF WalkPrefix, TypeOK, Anchor
  <2>2. verdict' \in {"none", "ok", "broken"} /\ capture' = {}
    BY <1>9 DEF WalkPrefix
  <2> QED
    BY <1>9, <2>1, <2>2 DEF WalkPrefix, TypeOK, disk, mem, hist
<1>10. ASSUME Stop("kill") \/ Stop("power")
       PROVE             /\ crashes' \in Seq(CrashKinds) /\ up' = FALSE /\ pc' = "idle" /\ cur' = {}
                         /\ seq' = 0 /\ head' \in Hash /\ fingerprintByID' = {}
                         /\ capture' = {} /\ verdict' = "none"
                         /\ shipped' = shipped /\ acked' = acked /\ usedIds' = usedIds
  <2>1. genesisHash \in Hash
    BY DEF genesisHash, Hash
  <2>2. crashes' = Append(crashes, "kill") \/ crashes' = Append(crashes, "power")
    BY <1>10 DEF Stop
  <2>3. crashes' \in Seq(CrashKinds)
    <3>1. "kill" \in CrashKinds /\ "power" \in CrashKinds
      BY DEF CrashKinds
    <3>2. \A k \in CrashKinds : Append(crashes, k) \in Seq(CrashKinds)
      BY DEF TypeOK
    <3> QED
      BY <2>2, <3>1, <3>2
  <2> QED
    BY <1>10, <2>1, <2>3 DEF Stop, hist
<1>11. CASE Kill
  <2>1. Stop("kill")
    BY <1>11 DEF Kill
  <2> QED
    BY <1>10, <1>11, <2>1 DEF Kill, TypeOK, disk
<1>12. CASE PowerLoss
  <2>1. file' \in Seq(Entry)
    BY <1>12, SurvivorType, Zenon DEF PowerLoss
  <2>2. synced' \in 0..Len(file')
    BY <1>12, <2>1 DEF PowerLoss
  <2>3. anchor' \in SUBSET Anchor /\ anchorDurable' \in SUBSET Anchor
    BY <1>12 DEF PowerLoss, TypeOK
  <2>4. faults' \in Seq(FaultKinds)
    BY <1>12, FaultLogged DEF PowerLoss, TypeOK
  <2>5. Stop("power")
    BY <1>12 DEF PowerLoss
  <2> QED
    BY <1>10, <2>1, <2>2, <2>3, <2>4, <2>5 DEF TypeOK
<1>13. CASE Truncate
  <2>1. PICK n \in 0..(Len(file) - 1) : file' = SubSeq(file, 1, n) /\ synced' = n
    BY <1>13 DEF Truncate
  <2>2. file' \in Seq(Entry) /\ Len(file') = n
    BY <2>1 DEF TypeOK
  <2>3. synced' \in 0..Len(file')
    BY <2>1, <2>2 DEF TypeOK
  <2> QED
    BY <1>13, <2>2, <2>3, FaultLogged, Zenon DEF Truncate, TypeOK, mem, watch, hist
<1>14. CASE UNCHANGED vars
  BY <1>14 DEF vars, disk, mem, watch, hist, TypeOK
<1> QED
  BY <1>1, <1>2, <1>3, <1>4, <1>5, <1>6, <1>7, <1>8, <1>9, <1>11, <1>12, <1>13, <1>14 DEF Next

\* The state of the log, its anchor and its watchers stays well formed.
THEOREM TypeCorrect == Spec => []TypeOK
BY InitType, StepType, PTL DEF Spec

-----------------------------------------------------------------------------
(* Acknowledged appends.  AckedSurvives is not inductive: what a reopened  *)
(* log holds is decided by the two anchors a crash may leave, so both, with*)
(* their pending checkpoints, must already cover everything acknowledged.  *)

Covers(A) ==
  \A a \in A : Extends(a.head, acked) /\ \A c \in a.pending : Extends(c.head, acked)

AckedInv ==
  /\ Covers(anchor) /\ Covers(anchorDurable)
  /\ anchor = {} \/ anchorDurable = {} => acked = genesisHash
  /\ up => Extends(head, acked)
  /\ pc # "idle" => up

\* Nothing is acknowledged at first.
LEMMA InitAcked == Init => AckedInv
BY ExtendsGenesis, InitType DEF Init, AckedInv, Covers, TypeOK

\* An anchor that covers what is acknowledged may be written, whether or not
\* the write completes.
LEMMA WriteCovering ==
  ASSUME TypeOK, AckedInv, UNCHANGED acked, NEW a \in Anchor, Covers({a}),
         writeAnchor(a) \/ writeAnchorFails(a)
  PROVE  /\ Covers(anchor)' /\ Covers(anchorDurable)'
         /\ (anchor = {} \/ anchorDurable = {} => acked = genesisHash)'
BY DEF AckedInv, Covers, writeAnchor, writeAnchorFails

\* A completed write of an anchor committed at the head acknowledges the head.
LEMMA CommitHead ==
  ASSUME TypeOK, AckedInv, up, UNCHANGED <<up, head>>, acked' = head,
         writeAnchor(anchorCommitted(seq, head))
  PROVE  /\ Covers(anchor)' /\ Covers(anchorDurable)'
         /\ (anchor = {} \/ anchorDurable = {} => acked = genesisHash)'
         /\ (up => Extends(head, acked))'
<1>1. Extends(head, head)
  BY ExtendsRefl DEF TypeOK
<1> QED
  <2>1. anchor' = {anchorCommitted(seq, head)} /\ anchorDurable' = {anchorCommitted(seq, head)}
    BY DEF writeAnchor
  <2> QED
    BY <1>1, <2>1 DEF Covers, anchorCommitted

\* An anchor committed at a head that extends the acknowledged one covers it.
LEMMA CommittedCovers ==
  ASSUME NEW n, NEW h, Extends(h, acked)
  PROVE  Covers({anchorCommitted(n, h)})
BY DEF Covers, anchorCommitted

\* Starting an append acknowledges nothing and keeps the anchors covering.
LEMMA AppendLockedAcked ==
  ASSUME TypeOK, AckedInv, up, NEW ev \in Event, appendLocked(ev)
  PROVE  AckedInv'
<1> DEFINE a == anchorWithPending(seq, head, [count |-> seq + 1, head |-> NextHash(ev)])
<1>1. a \in Anchor
  BY NextHashType, PendingType DEF TypeOK
<1>2. Extends(NextHash(ev), acked)
  BY ExtendsChainHash DEF TypeOK, NextHash, AckedInv
<1>3. Covers({a})
  BY <1>2 DEF AckedInv, Covers, anchorWithPending
<1>4. writeAnchor(a) \/ writeAnchorFails(a)
  BY DEF appendLocked
<1>5. UNCHANGED <<acked, up, head>>
  BY DEF appendLocked
<1> QED
  BY <1>1, <1>3, <1>4, <1>5, WriteCovering DEF AckedInv

\* What openWAL accepts covers everything acknowledged.
LEMMA OpenCovers ==
  ASSUME TypeOK, AckedInv, \A a \in anchor : anchorMatchesResult(a, Result(file))
  PROVE  Extends(Result(file).head, acked)
<1>1. CASE anchor = {}
  BY <1>1, HashOfResult, ExtendsGenesis DEF AckedInv, TypeOK
<1>2. CASE anchor # {}
  <2>1. PICK a \in anchor : anchorMatchesResult(a, Result(file))
    BY <1>2
  <2> QED
    BY <2>1 DEF anchorMatchesResult, CommittedAt, AckedInv, Covers
<1> QED
  BY <1>1, <1>2

\* Every step keeps the anchors and the open log covering what is acknowledged.
LEMMA StepAcked == TypeOK /\ AckedInv /\ [Next]_vars => AckedInv'
<1> SUFFICES ASSUME TypeOK, AckedInv, [Next]_vars PROVE AckedInv'
  OBVIOUS
<1> DEFINE res == Result(file)
           opened == anchorCommitted(res.count, res.head)
<1>o. opened \in Anchor
  BY HashOfResult, CommittedType, Zenon DEF TypeOK
<1>1. CASE openWAL
  <2>1. Extends(res.head, acked)
    BY <1>1, OpenCovers, Zenon DEF openWAL, OpenAccepts
  <2>2. UNCHANGED acked /\ head' = res.head /\ up'
    BY <1>1 DEF openWAL, hist
  <2>3. Covers({opened})
    BY <2>1, CommittedCovers
  <2>4. CASE writeAnchor(opened)
    BY <1>o, <2>1, <2>2, <2>3, <2>4, WriteCovering DEF AckedInv
  <2>5. CASE UNCHANGED <<anchor, anchorDurable>>
    BY <2>1, <2>2, <2>5 DEF AckedInv, Covers
  <2> QED
    BY <1>1, <2>4, <2>5, Zenon DEF openWAL
<1>2. CASE openWALFails
  <2>1. Covers({opened})
    BY <1>2, OpenCovers, CommittedCovers DEF openWALFails
  <2>2. UNCHANGED <<acked, up, head, pc>>
    BY <1>2 DEF openWALFails, hist, mem
  <2>3. writeAnchorFails(opened)
    BY <1>2 DEF openWALFails
  <2> QED
    BY <1>o, <2>1, <2>2, <2>3, WriteCovering DEF AckedInv
<1>3. ASSUME NEW ev \in Event, AppendAny(ev)
      PROVE  AckedInv'
  BY <1>3, AppendLockedAcked DEF AppendAny
<1> DEFINE committed == anchorCommitted(seq, head)
<1>c. committed \in Anchor
  BY CommittedType DEF TypeOK
<1>4. ASSUME NEW ev \in Event, AppendIdempotent(ev)
      PROVE  AckedInv'
  <2>1. CASE appendLocked(ev)
    BY <1>4, <2>1, AppendLockedAcked DEF AppendIdempotent
  <2>2. CASE ~appendLocked(ev)
    <3>1. up /\ UNCHANGED <<up, head, pc>>
      BY <1>4, <2>2, Zenon DEF AppendIdempotent, mem
    <3>2. CASE writeAnchor(committed) /\ acked' = head
      BY <3>1, <3>2, CommitHead DEF AckedInv
    <3>3. CASE writeAnchorFails(committed) /\ UNCHANGED acked
      <4>1. Covers({committed})
        BY <3>1, CommittedCovers DEF AckedInv
      <4> QED
        BY <1>c, <3>1, <3>3, <4>1, WriteCovering DEF AckedInv
    <3> QED
      BY <1>4, <2>2, <3>2, <3>3 DEF AppendIdempotent
  <2> QED
    BY <2>1, <2>2
<1>5. CASE WriteRecord
  BY <1>5 DEF WriteRecord, AckedInv, Covers, hist
<1>6. CASE SyncRecord
  <2>1. ASSUME NEW ev \in cur
        PROVE  Extends(NextHash(ev), acked)
    BY <1>6, ExtendsChainHash DEF SyncRecord, NextHash, AckedInv, TypeOK
  <2>2. (up => Extends(head, acked))'
    BY <1>6, <2>1 DEF SyncRecord, AckedInv, hist
  <2> QED
    BY <1>6, <2>2 DEF SyncRecord, AckedInv, Covers, hist
<1>7. CASE CommitAnchor
  <2>1. up /\ UNCHANGED <<up, head>> /\ pc' = "idle"
    BY <1>7 DEF CommitAnchor, AckedInv
  <2>2. CASE writeAnchor(committed) /\ acked' = head
    BY <2>1, <2>2, CommitHead DEF AckedInv
  <2>3. CASE writeAnchorFails(committed) /\ UNCHANGED acked
    <3>1. Covers({committed})
      BY <2>1, CommittedCovers DEF AckedInv
    <3> QED
      BY <1>c, <2>1, <2>3, <3>1, WriteCovering DEF AckedInv
  <2> QED
    BY <1>7, <2>2, <2>3 DEF CommitAnchor
<1>8. CASE CapturePrefix
  BY <1>8, Zenon DEF CapturePrefix, AckedInv, Covers, disk, mem, hist
<1>9. CASE WalkPrefix
  BY <1>9 DEF WalkPrefix, AckedInv, Covers, disk, mem, hist
<1>10. CASE Kill
  BY <1>10, Zenon DEF Kill, Stop, AckedInv, Covers, disk, hist
<1>11. CASE PowerLoss
  BY <1>11, Zenon DEF PowerLoss, Stop, AckedInv, Covers, hist
<1>12. CASE Truncate
  BY <1>12 DEF Truncate, AckedInv, Covers, mem, hist
<1>13. CASE UNCHANGED vars
  BY <1>13 DEF vars, disk, mem, watch, hist, AckedInv, Covers
<1> QED
  BY <1>1, <1>2, <1>3, <1>4, <1>5, <1>6, <1>7, <1>8, <1>9, <1>10, <1>11, <1>12, <1>13 DEF Next

\* Whatever fails and however often the process or the machine stops, a log that
\* openWAL accepts contains every append that returned nil.
THEOREM AckedNeverLost == Spec => []AckedSurvives
<1>1. AckedInv => AckedSurvives
  BY Zenon DEF AckedInv, AckedSurvives
<1> QED
  BY InitType, StepType, InitAcked, StepAcked, <1>1, PTL DEF Spec

-----------------------------------------------------------------------------
(* Shipped heads.  That a later log extends a shipped head is decided by   *)
(* the records a crash leaves: every record from the shipped one on was    *)
(* chained to that head, and as long as no process was killed before, the  *)
(* shipped one had reached the disk.                                       *)

NoKill == \A i \in 1..Len(crashes) : crashes[i] # "kill"
Uncut == OnlyFaults(FaultKinds \ {"truncate"})

Single(A) == \A a, b \in A : a = b

\* The anchor of a live log stands at or before its head.
Behind(a) == a.count <= seq /\ Extends(head, a.head)

\* The records after the n-th were chained to h.
ChainedAfter(n, h) == \A i \in 1..Len(file) : i > n => Extends(file[i].hash, h)

BookInv ==
  /\ Single(anchor) /\ Single(anchorDurable)
  /\ pc # "idle" => up
  /\ up => seq <= Len(file) /\ \A a \in anchor : Behind(a)
  /\ pc = "sync" => seq < Len(file)
  /\ \A c \in capture : /\ up /\ c.limit <= Len(file)
                        /\ Behind(c.anchor) /\ ChainedAfter(c.limit, c.anchor.head)
  /\ NoKill => IF up THEN seq <= synced ELSE synced = Len(file)

\* The file still holds h at its n-th record.
KeptAt(h, n) ==
  /\ n <= Len(file) /\ (NoKill => n <= synced)
  /\ n = 0 => h = genesisHash
  /\ \A i \in 1..Len(file) : i >= n => Extends(file[i].hash, h)

KeptInv ==
  Uncut /\ ~PowerLossAfterKill =>
    \A h \in shipped : /\ \E n \in 0..Len(file) : KeptAt(h, n)
                       /\ up => Extends(head, h)

\* The last index, and the one before an index.
LEMMA Indices ==
  ASSUME NEW n \in Nat, NEW i \in 1..(n + 1)
  PROVE  i - 1 \in 0..n /\ (i \in 1..n \/ i = n + 1) /\ (i <= n <=> i \in 1..n)
OBVIOUS

\* An appended element stands at the end and moves no other.
LEMMA Appended ==
  ASSUME NEW S, NEW s \in Seq(S), NEW e \in S
  PROVE  /\ Append(s, e) \in Seq(S) /\ Len(s) \in Nat /\ Len(Append(s, e)) = Len(s) + 1
         /\ Append(s, e)[Len(s) + 1] = e /\ \A i \in 1..Len(s) : Append(s, e)[i] = s[i]
OBVIOUS

\* A prefix has the elements it was cut from.
LEMMA PrefixOf ==
  ASSUME NEW S, NEW s \in Seq(S), NEW n \in 0..Len(s)
  PROVE  /\ SubSeq(s, 1, n) \in Seq(S) /\ Len(SubSeq(s, 1, n)) = n
         /\ \A i \in 1..n : SubSeq(s, 1, n)[i] = s[i]
OBVIOUS

\* What CapturePrefix captures.
LEMMA Captured ==
  ASSUME NEW n, NEW A, NEW c \in {[limit |-> n, anchor |-> a] : a \in A}
  PROVE  c.limit = n /\ c.anchor \in A
OBVIOUS

\* Every step leaves the faults as they were or adds one of the known kinds.
LEMMA FaultsGrow ==
  ASSUME TypeOK, [Next]_vars
  PROVE  faults' = faults \/ \E k \in FaultKinds : faults' = Append(faults, k)
BY ConstantsAssumption, Zenon
   DEF Next, vars, openWAL, openWALFails, AppendAny, AppendIdempotent, appendLocked, WriteRecord,
       SyncRecord, CommitAnchor, CapturePrefix, WalkPrefix, Kill, PowerLoss, Truncate,
       writeAnchor, writeAnchorFails, Fault

\* What no fault has broken by now, none had broken before.
LEMMA OnlyFaultsBefore ==
  ASSUME TypeOK, [Next]_vars, NEW K, OnlyFaults(K)'
  PROVE  OnlyFaults(K)
<1>1. CASE faults' = faults
  BY <1>1 DEF OnlyFaults
<1>2. ASSUME NEW k \in FaultKinds, faults' = Append(faults, k)
      PROVE  OnlyFaults(K)
  <2>1. faults \in Seq(FaultKinds)
    BY DEF TypeOK
  <2>2. Len(faults') = Len(faults) + 1 /\ \A i \in 1..Len(faults) : faults'[i] = faults[i]
    BY <1>2, <2>1
  <2> QED
    BY <2>1, <2>2 DEF OnlyFaults
<1> QED
  BY <1>1, <1>2, FaultsGrow

\* A fault that is logged is one of those the behaviour admits.
LEMMA FaultCounts ==
  ASSUME TypeOK, NEW K, NEW kind, Fault(kind), OnlyFaults(K)'
  PROVE  kind \in K
<1>1. faults \in Seq(FaultKinds) /\ kind \in FaultKinds
  BY ConstantsAssumption DEF TypeOK, Fault
<1>2. Len(faults') = Len(faults) + 1 /\ faults'[Len(faults) + 1] = kind
  BY <1>1 DEF Fault
<1> QED
  BY <1>1, <1>2 DEF OnlyFaults

\* After a kill, a kill has happened; it is followed by no power loss yet.
LEMMA KillLogged ==
  ASSUME TypeOK, Stop("kill")
  PROVE  ~NoKill' /\ (PowerLossAfterKill => PowerLossAfterKill')
<1>1. crashes \in Seq(CrashKinds) /\ crashes' = Append(crashes, "kill")
  BY DEF TypeOK, Stop
<1>2. /\ Len(crashes') = Len(crashes) + 1 /\ crashes'[Len(crashes) + 1] = "kill"
      /\ \A i \in 1..Len(crashes) : crashes'[i] = crashes[i]
  BY <1>1 DEF CrashKinds
<1> QED
  BY <1>1, <1>2 DEF NoKill, PowerLossAfterKill

\* A power loss that is the first to follow a kill is named by PowerLossAfterKill.
LEMMA PowerLogged ==
  ASSUME TypeOK, Stop("power")
  PROVE  /\ NoKill' => NoKill
         /\ ~PowerLossAfterKill' => NoKill /\ ~PowerLossAfterKill
<1>1. crashes \in Seq(CrashKinds) /\ crashes' = Append(crashes, "power")
  BY DEF TypeOK, Stop
<1>2. /\ Len(crashes') = Len(crashes) + 1 /\ crashes'[Len(crashes) + 1] = "power"
      /\ \A i \in 1..Len(crashes) : crashes'[i] = crashes[i]
  BY <1>1 DEF CrashKinds
<1> QED
  BY <1>1, <1>2 DEF NoKill, PowerLossAfterKill

\* The records before a written one stay, and the written one carries NextHash.
LEMMA Written ==
  ASSUME TypeOK, WriteRecord
  PROVE  /\ Len(file') \in Nat /\ Len(file) <= Len(file')
         /\ pc' = "sync" => Len(file') = Len(file) + 1
         /\ \A i \in 1..Len(file) : file'[i] = file[i]
         /\ \A i \in 1..Len(file') : i > Len(file) => \E ev \in cur : file'[i].hash = NextHash(ev)
<1>1. PICK ev \in cur :
        \/ file' = file /\ pc' = "idle"
        \/ \E part \in {Half, NoNewline, Whole} : file' = Append(file, Stored(ev, part))
  BY DEF WriteRecord
<1>2. file \in Seq(Entry) /\ ev \in Event
  BY DEF TypeOK
<1>3. CASE file' = file /\ pc' = "idle"
  BY <1>2, <1>3
<1>4. ASSUME NEW part \in {Half, NoNewline, Whole}, file' = Append(file, Stored(ev, part))
      PROVE  /\ Len(file') = Len(file) + 1
             /\ \A i \in 1..Len(file) : file'[i] = file[i]
             /\ file'[Len(file) + 1].hash = NextHash(ev)
  <2>1. Stored(ev, part) \in Entry /\ Stored(ev, part).hash = NextHash(ev)
    <3>1. part \in Half..Whole
      BY DEF Half, NoNewline, Whole
    <3>2. Stored(ev, part).hash = NextHash(ev)
      BY DEF Stored
    <3> QED
      BY <1>2, <3>1, <3>2, StoredType
  <2> QED
    BY <1>2, <1>4, <2>1
<1> QED
  BY <1>1, <1>2, <1>3, <1>4

\* A new log has nothing to keep.
LEMMA InitShip == Init => BookInv /\ KeptInv
BY DEF Init, BookInv, Single, NoKill, KeptInv

\* Starting an append, or committing the head again, moves no anchor past it.
LEMMA AnchorsBehind ==
  ASSUME TypeOK, BookInv, up, UNCHANGED <<seq, head>>, NEW a, a.count = seq, a.head = head,
         writeAnchor(a) \/ writeAnchorFails(a)
  PROVE  /\ Single(anchor)' /\ Single(anchorDurable)'
         /\ \A b \in anchor' : Behind(b)'
<1>1. Behind(a)
  BY ExtendsRefl DEF Behind, TypeOK
<1>2. /\ anchor' = anchor \/ anchor' = {a}
      /\ anchorDurable' = anchorDurable \/ anchorDurable' = {a}
  BY DEF writeAnchor, writeAnchorFails
<1>3. Single(anchor') /\ Single(anchorDurable')
  BY <1>2 DEF BookInv, Single
<1>4. \A b \in anchor' : Behind(b)
  BY <1>1, <1>2, Zenon DEF BookInv
<1> QED
  BY <1>3, <1>4 DEF Single, Behind

\* What reads neither the anchors nor the history of the appends is kept.
LEMMA BookFrame ==
  ASSUME BookInv, up, UNCHANGED <<file, synced, up, seq, head, capture, crashes>>,
         Single(anchor)', Single(anchorDurable)', \A b \in anchor' : Behind(b)', pc' # "sync"
  PROVE  BookInv'
BY DEF BookInv, Behind, ChainedAfter, NoKill

\* Starting an append keeps the books.
LEMMA AppendLockedBook ==
  ASSUME TypeOK, BookInv, up, NEW ev \in Event, appendLocked(ev), pc = "idle"
  PROVE  BookInv'
<1> DEFINE a == anchorWithPending(seq, head, [count |-> seq + 1, head |-> NextHash(ev)])
<1>1. a.count = seq /\ a.head = head
  BY DEF anchorWithPending
<1>2. writeAnchor(a) \/ writeAnchorFails(a)
  BY DEF appendLocked
<1>3. UNCHANGED <<file, synced, up, seq, head, capture, crashes>> /\ pc' # "sync"
  BY DEF appendLocked, watch
<1> HIDE DEF a
<1>4. Single(anchor)' /\ Single(anchorDurable)' /\ \A b \in anchor' : Behind(b)'
  BY <1>1, <1>2, <1>3, AnchorsBehind
<1> QED
  BY <1>3, <1>4, BookFrame

\* Every step keeps the books.
LEMMA StepBook == TypeOK /\ BookInv /\ [Next]_vars => BookInv'
<1> SUFFICES ASSUME TypeOK, BookInv, [Next]_vars PROVE BookInv'
  OBVIOUS
<1>t. file \in Seq(Entry) /\ Len(file) \in Nat /\ seq \in Nat /\ synced \in Nat /\ head \in Hash
  BY DEF TypeOK
<1>1. CASE openWAL
  <2>1. /\ ~up /\ up' /\ UNCHANGED <<file, synced, pc, capture, crashes>>
        /\ seq' = Result(file).count /\ head' = Result(file).head
    BY <1>1 DEF openWAL, watch
  <2>2. Result(file).count = Len(file) /\ Result(file).head \in Hash
    BY <1>t, HashOfResult DEF Result
  <2>3. Single(anchor') /\ Single(anchorDurable') /\ \A a \in anchor' : CommittedAt(a, Result(file))
    <3>1. CASE OpenReady(Result(file))
      BY <1>1, <3>1 DEF openWAL, OpenReady, BookInv, Single
    <3>2. CASE ~OpenReady(Result(file))
      <4>1. writeAnchor(anchorCommitted(Result(file).count, Result(file).head))
        BY <1>1, <3>2 DEF openWAL
      <4>2. CommittedAt(anchorCommitted(Result(file).count, Result(file).head), Result(file))
        BY Zenon DEF anchorCommitted, CommittedAt
      <4> QED
        BY <4>1, <4>2, Zenon DEF writeAnchor, Single
    <3> QED
      BY <3>1, <3>2, Zenon
  <2>4. \A a \in anchor' : a.count <= seq' /\ Extends(head', a.head)
    BY <1>t, <2>1, <2>2, <2>3, ExtendsRefl DEF CommittedAt
  <2>5. capture = {} /\ pc = "idle"
    BY <2>1, Zenon DEF BookInv
  <2>6. NoKill' => seq' <= synced'
    BY <1>t, <2>1, <2>2 DEF BookInv, NoKill
  <2> QED
    BY <1>t, <2>1, <2>2, <2>3, <2>4, <2>5, <2>6 DEF BookInv, Behind, Single
<1>2. CASE openWALFails
  <2>1. ~up /\ UNCHANGED <<file, synced, up, pc, seq, capture, crashes>>
    BY <1>2 DEF openWALFails, mem, watch
  <2>2. Single(anchor') /\ Single(anchorDurable')
    BY <1>2, Zenon DEF openWALFails, writeAnchorFails, BookInv, Single
  <2>3. capture = {} /\ pc = "idle"
    BY <2>1 DEF BookInv
  <2> QED
    BY <2>1, <2>2, <2>3 DEF BookInv, Single, NoKill
<1>3. ASSUME NEW ev \in Event, AppendAny(ev)
      PROVE  BookInv'
  BY <1>3, AppendLockedBook DEF AppendAny
<1>4. ASSUME NEW ev \in Event, AppendIdempotent(ev)
      PROVE  BookInv'
  <2>1. CASE appendLocked(ev)
    BY <1>4, <2>1, AppendLockedBook DEF AppendIdempotent
  <2>2. CASE ~appendLocked(ev)
    <3> DEFINE a == anchorCommitted(seq, head)
    <3>1. a.count = seq /\ a.head = head
      BY DEF anchorCommitted
    <3>2. writeAnchor(a) \/ writeAnchorFails(a)
      BY <1>4, <2>2 DEF AppendIdempotent
    <3>3. up /\ UNCHANGED <<file, synced, up, seq, head, capture, crashes>> /\ pc' # "sync"
      BY <1>4, <2>2, Zenon DEF AppendIdempotent, mem, watch
    <3> HIDE DEF a
    <3>4. Single(anchor)' /\ Single(anchorDurable)' /\ \A b \in anchor' : Behind(b)'
      BY <3>1, <3>2, <3>3, AnchorsBehind
    <3> QED
      BY <3>3, <3>4, BookFrame
  <2> QED
    BY <2>1, <2>2
<1>5. CASE WriteRecord
  <2>1. /\ up /\ UNCHANGED <<synced, anchor, anchorDurable, up, seq, head, capture, crashes>>
        /\ pc' \in {"sync", "idle"}
    BY <1>5 DEF WriteRecord, watch, BookInv
  <2>2. Len(file') \in Nat /\ Len(file) <= Len(file') /\ (pc' = "sync" => Len(file') = Len(file) + 1)
    BY <1>5, Written, Zenon
  <2>3. ASSUME NEW c \in capture
        PROVE  ChainedAfter(c.limit, c.anchor.head)'
    <3>1. \A ev \in cur : Extends(NextHash(ev), c.anchor.head)
      BY ExtendsChainHash DEF TypeOK, NextHash, BookInv, Behind, Anchor
    <3>2. c \in [limit : Nat, anchor : Anchor]
      BY DEF TypeOK
    <3> SUFFICES ASSUME NEW i \in 1..Len(file'), i > c.limit
                 PROVE  Extends(file'[i].hash, c.anchor.head)
      BY <2>1 DEF ChainedAfter
    <3>3. CASE i <= Len(file)
      BY <1>5, <1>t, <3>3, Written DEF BookInv, ChainedAfter
    <3>4. CASE i > Len(file)
      BY <1>5, <3>1, <3>4, Written, Zenon
    <3> QED
      BY <1>t, <2>2, <3>3, <3>4
  <2>4. \A c \in capture' : /\ up' /\ c.limit <= Len(file')
                            /\ Behind(c.anchor)' /\ ChainedAfter(c.limit, c.anchor.head)'
    BY <1>t, <2>1, <2>2, <2>3 DEF BookInv, Behind, TypeOK
  <2> QED
    <3>1. seq' <= Len(file') /\ (pc' = "sync" => seq' < Len(file'))
      BY <1>t, <2>1, <2>2 DEF BookInv
    <3> QED
      BY <2>1, <2>4, <3>1, Zenon DEF BookInv, Behind, Single, NoKill
<1>6. CASE SyncRecord
  <2>1. /\ up /\ UNCHANGED <<file, anchor, anchorDurable, up, capture, crashes>>
        /\ pc' \in {"commit", "idle"} /\ seq < Len(file)
    BY <1>6 DEF SyncRecord, watch, BookInv
  <2>2. \/ UNCHANGED <<synced, seq, head>>
        \/ /\ synced' = Len(file) /\ seq' = seq + 1
           /\ \E ev \in cur : head' = NextHash(ev)
    BY <1>6 DEF SyncRecord
  <2>3. \A a \in Anchor : Behind(a) => Behind(a)'
    <3> SUFFICES ASSUME NEW a \in Anchor, Behind(a)
                 PROVE  a.count <= seq' /\ Extends(head', a.head)
      BY Zenon DEF Behind
    <3>1. \A ev \in cur : Extends(NextHash(ev), a.head)
      BY ExtendsChainHash DEF TypeOK, NextHash, Behind, Anchor
    <3> QED
      BY <1>t, <2>2, <3>1 DEF Behind, Anchor
  <2>4. up' => seq' <= Len(file') /\ \A a \in anchor' : Behind(a)'
    BY <1>t, <2>1, <2>2, <2>3 DEF BookInv, TypeOK
  <2>5. \A c \in capture' : /\ up' /\ c.limit <= Len(file')
                            /\ Behind(c.anchor)' /\ ChainedAfter(c.limit, c.anchor.head)'
    BY <2>1, <2>3, Zenon DEF BookInv, ChainedAfter, TypeOK
  <2>6. NoKill' => seq' <= synced'
    BY <1>t, <2>1, <2>2 DEF BookInv, NoKill
  <2> QED
    BY <2>1, <2>4, <2>5, <2>6, Zenon DEF BookInv, Single
<1>7. CASE CommitAnchor
  <2> DEFINE a == anchorCommitted(seq, head)
  <2>1. a.count = seq /\ a.head = head
    BY DEF anchorCommitted
  <2>2. writeAnchor(a) \/ writeAnchorFails(a)
    BY <1>7, Zenon DEF CommitAnchor
  <2>3. up /\ UNCHANGED <<file, synced, up, seq, head, capture, crashes>> /\ pc' # "sync"
    BY <1>7, Zenon DEF CommitAnchor, watch, BookInv
  <2> HIDE DEF a
  <2>4. Single(anchor)' /\ Single(anchorDurable)' /\ \A b \in anchor' : Behind(b)'
    BY <2>1, <2>2, <2>3, AnchorsBehind, Zenon
  <2> QED
    BY <2>3, <2>4, BookFrame
<1>8. CASE CapturePrefix
  <2>1. /\ up /\ UNCHANGED <<file, synced, anchor, anchorDurable, up, seq, head, pc, crashes>>
        /\ capture' = {[limit |-> Len(file), anchor |-> a] : a \in anchor}
    BY <1>8, Zenon DEF CapturePrefix, disk, mem
  <2>2. ASSUME NEW c \in capture'
        PROVE  /\ c.limit <= Len(file') /\ Behind(c.anchor)'
               /\ ChainedAfter(c.limit, c.anchor.head)'
    <3>1. c.limit = Len(file) /\ c.anchor \in anchor
      BY <2>1, Captured, Zenon
    <3>2. c.limit <= Len(file) /\ \A i \in 1..Len(file) : ~(i > c.limit)
      BY <1>t, <3>1
    <3> QED
      BY <2>1, <3>1, <3>2, Zenon DEF BookInv, Behind, ChainedAfter
  <2> QED
    BY <2>1, <2>2 DEF BookInv, Behind, Single, NoKill
<1>9. CASE WalkPrefix
  BY <1>9, Zenon DEF WalkPrefix, disk, mem, BookInv, Behind, Single, NoKill
<1>10. CASE Kill
  <2>1. ~NoKill'
    BY <1>10, KillLogged, ZenonT(40) DEF Kill
  <2> QED
    BY <1>10, <2>1, Zenon DEF Kill, Stop, disk, BookInv, Single
<1>11. CASE PowerLoss
  BY <1>11, ZenonT(40) DEF PowerLoss, Stop, BookInv, Single
<1>12. CASE Truncate
  <2>1. PICK n \in 0..(Len(file) - 1) : file' = SubSeq(file, 1, n) /\ synced' = n
    BY <1>12 DEF Truncate
  <2>2. n \in 0..Len(file)
    BY <1>t, <2>1
  <2>3. synced' = Len(file')
    BY <1>t, <2>1, <2>2, PrefixOf, Zenon
  <2> QED
    BY <1>12, <2>3 DEF Truncate, mem, watch, BookInv, Single, NoKill
<1>13. CASE UNCHANGED vars
  BY <1>13 DEF vars, disk, mem, watch, hist, BookInv, Behind, ChainedAfter, Single, NoKill
<1> QED
  BY <1>1, <1>2, <1>3, <1>4, <1>5, <1>6, <1>7, <1>8, <1>9, <1>10, <1>11, <1>12, <1>13 DEF Next

\* A step that touches neither the file nor the head keeps what was shipped.
LEMMA KeptFrame ==
  ASSUME NEW h, NEW n, KeptAt(h, n), UNCHANGED <<file, synced, crashes>>
  PROVE  KeptAt(h, n)'
BY Zenon DEF KeptAt, NoKill

\* A power loss that follows no kill keeps every synced record.
LEMMA Survives ==
  ASSUME TypeOK, PowerLoss, NoKill, NEW h, NEW n \in Nat, KeptAt(h, n)
  PROVE  KeptAt(h, n)'
<1>1. file \in Seq(Entry) /\ Len(file) \in Nat /\ synced \in 0..Len(file) /\ n <= synced
  BY DEF TypeOK, KeptAt
<1>2. PICK m \in synced..Len(file) :
        \/ file' = SubSeq(file, 1, m)
        \/ /\ m < Len(file)
           /\ \E part \in {Half, NoNewline} :
                file' = Append(SubSeq(file, 1, m), [file[m + 1] EXCEPT !.part = part])
  BY Zenon DEF PowerLoss
<1> DEFINE g == SubSeq(file, 1, m)
<1>3. g \in Seq(Entry) /\ Len(g) = m /\ \A i \in 1..m : g[i] = file[i]
  BY <1>1
<1>4. m <= Len(file') /\ synced' = Len(file') /\ Len(file') \in Nat
      /\ \A i \in 1..Len(file') : i \in 1..Len(file) /\ file'[i].hash = file[i].hash
  <2>1. synced' = Len(file')
    BY DEF PowerLoss
  <2>2. CASE file' = g
    BY <1>1, <1>3, <2>1, <2>2
  <2>3. ASSUME m < Len(file), NEW part \in {Half, NoNewline},
               file' = Append(g, [file[m + 1] EXCEPT !.part = part])
        PROVE  /\ Len(file') = m + 1
               /\ \A i \in 1..(m + 1) : file'[i].hash = file[i].hash
    <3> DEFINE e == [file[m + 1] EXCEPT !.part = part]
    <3>1. file[m + 1] \in Entry
      BY <1>1, <2>3
    <3>2. e \in Entry /\ e.hash = file[m + 1].hash
      BY <3>1 DEF Entry, Half, NoNewline, Whole
    <3>3. file' = Append(g, e)
      BY <2>3
    <3> HIDE DEF e, g
    <3>4. Len(file') = m + 1 /\ file'[m + 1] = e /\ \A i \in 1..m : file'[i] = g[i]
      BY <1>3, <3>2, <3>3
    <3> QED
      BY <1>3, <3>2, <3>4
  <2> QED
    BY <1>1, <1>2, <2>1, <2>2, <2>3
<1> QED
  <2>1. n <= Len(file') /\ n <= synced'
    BY <1>1, <1>2, <1>4
  <2> QED
    BY <1>4, <2>1, Zenon DEF KeptAt

\* Every step keeps what was shipped.
LEMMA StepKept == TypeOK /\ BookInv /\ KeptInv /\ [Next]_vars => KeptInv'
<1> SUFFICES ASSUME TypeOK, BookInv, KeptInv, [Next]_vars PROVE KeptInv'
  BY Zenon
<1>n. Len(file') \in Nat
  BY StepType DEF TypeOK
<1> SUFFICES ASSUME Uncut', ~PowerLossAfterKill', NEW h \in shipped'
             PROVE  (\E n \in Nat : KeptAt(h, n)') /\ (up' => Extends(head', h))
  BY <1>n DEF KeptInv, KeptAt
<1>t. file \in Seq(Entry) /\ Len(file) \in Nat /\ seq \in Nat /\ synced \in Nat /\ head \in Hash
  BY DEF TypeOK
<1>u. Uncut
  BY OnlyFaultsBefore, Zenon DEF Uncut
<1>h. h \in Hash
  BY StepType DEF TypeOK
<1>k. ASSUME ~PowerLossAfterKill, h \in shipped
      PROVE  (\E n \in Nat : KeptAt(h, n)) /\ (up => Extends(head, h))
  BY <1>k, <1>u DEF KeptInv
<1>f. ASSUME UNCHANGED <<file, synced, crashes, shipped>>, up' => up /\ head' = head
      PROVE  (\E n \in Nat : KeptAt(h, n)') /\ (up' => Extends(head', h))
  <2>1. ~PowerLossAfterKill /\ h \in shipped
    BY <1>f DEF PowerLossAfterKill
  <2> QED
    BY <1>f, <1>k, <2>1, KeptFrame
<1>1. CASE openWAL
  <2>1. UNCHANGED <<file, synced, crashes, shipped>> /\ head' = Result(file).head
    BY <1>1 DEF openWAL, watch
  <2>2. ~PowerLossAfterKill /\ h \in shipped
    BY <2>1 DEF PowerLossAfterKill
  <2>3. PICK n \in Nat : KeptAt(h, n)
    BY <1>k, <2>2
  <2>4. Extends(head', h)
    <3>1. CASE file = << >>
      BY <1>t, <2>1, <2>3, <3>1, ExtendsRefl, <1>h DEF KeptAt, Result
    <3>2. CASE file # << >>
      BY <1>t, <2>1, <2>3, <3>2 DEF KeptAt, Result
    <3> QED
      BY <3>1, <3>2, ZenonT(40)
  <2> QED
    BY <2>1, <2>3, <2>4, KeptFrame, Zenon
<1>2. CASE openWALFails
  BY <1>2, <1>f, Zenon DEF openWALFails, mem, watch
<1>3. ASSUME NEW ev \in Event, AppendAny(ev) \/ AppendIdempotent(ev)
      PROVE  (\E n \in Nat : KeptAt(h, n)') /\ (up' => Extends(head', h))
  BY <1>3, <1>f, Zenon DEF AppendAny, AppendIdempotent, appendLocked, mem, watch
<1>5. CASE WriteRecord
  <2>1. up /\ UNCHANGED <<synced, up, head, shipped, crashes>>
    BY <1>5, Zenon DEF WriteRecord, watch, BookInv
  <2>2. ~PowerLossAfterKill /\ h \in shipped
    BY <2>1, Zenon DEF PowerLossAfterKill
  <2>3. PICK n \in Nat : KeptAt(h, n)
    BY <1>k, <2>2
  <2>4. Extends(head, h) /\ \A ev \in cur : Extends(NextHash(ev), h)
    BY <1>h, <1>k, <2>1, <2>2, ExtendsChainHash DEF TypeOK, NextHash
  <2>5. ASSUME NEW i \in 1..Len(file'), i >= n
        PROVE  Extends(file'[i].hash, h)
    <3>1. CASE i <= Len(file)
      BY <1>5, <1>t, <2>3, <2>5, <3>1, Written DEF KeptAt
    <3>2. CASE i > Len(file)
      BY <1>5, <2>4, <3>2, Written, Zenon
    <3> QED
      BY <1>t, <3>1, <3>2
  <2>6. Len(file') \in Nat /\ Len(file) <= Len(file')
    BY <1>5, Written, Zenon
  <2>7. KeptAt(h, n)'
    <3>1. n <= Len(file')
      BY <1>t, <2>3, <2>6 DEF KeptAt
    <3> QED
      BY <2>1, <2>3, <2>5, <3>1, Zenon DEF KeptAt, NoKill
  <2> QED
    BY <2>1, <2>4, <2>7, Zenon
<1>6. CASE SyncRecord
  <2>1. /\ up /\ UNCHANGED <<file, shipped, crashes>>
        /\ synced' = synced \/ synced' = Len(file)
        /\ head' = head \/ \E ev \in cur : head' = NextHash(ev)
    BY <1>6, Zenon DEF SyncRecord, watch, BookInv
  <2>2. ~PowerLossAfterKill /\ h \in shipped
    BY <2>1, Zenon DEF PowerLossAfterKill
  <2>3. PICK n \in Nat : KeptAt(h, n)
    BY <1>k, <2>2
  <2>4. Extends(head, h) /\ \A ev \in cur : Extends(NextHash(ev), h)
    BY <1>h, <1>k, <2>1, <2>2, ExtendsChainHash DEF TypeOK, NextHash
  <2>5. KeptAt(h, n)'
    BY <1>t, <2>1, <2>3, Zenon DEF KeptAt, NoKill
  <2> QED
    BY <2>1, <2>4, <2>5, Zenon
<1>7. CASE CommitAnchor
  BY <1>7, <1>f, Zenon DEF CommitAnchor, watch
<1>8. CASE CapturePrefix
  BY <1>8, <1>f DEF CapturePrefix, disk, mem
<1>9. CASE WalkPrefix
  <2>1. UNCHANGED <<file, synced, up, head, crashes>>
    BY <1>9 DEF WalkPrefix, disk, mem
  <2>2. ~PowerLossAfterKill
    BY <2>1 DEF PowerLossAfterKill
  <2>3. CASE h \in shipped
    BY <1>k, <2>1, <2>2, <2>3, KeptFrame, Zenon
  <2>4. CASE h \notin shipped
    <3>1. PICK c \in capture : /\ h = c.anchor.head
                               /\ CommittedAt(c.anchor, Result(SubSeq(file, 1, c.limit)))
      BY <1>9, <2>4, Zenon DEF WalkPrefix
    <3>2. /\ c.limit \in Nat /\ up /\ c.limit <= Len(file) /\ c.anchor.count <= seq
          /\ Extends(head, h) /\ ChainedAfter(c.limit, h)
      BY <3>1, Zenon DEF TypeOK, BookInv, Behind
    <3> DEFINE g == SubSeq(file, 1, c.limit)
    <3>3. g \in Seq(Entry) /\ Len(g) = c.limit /\ \A i \in 1..c.limit : g[i] = file[i]
      BY <1>t, <3>2, PrefixOf
    <3>4. /\ c.anchor.count = c.limit
          /\ h = IF c.limit = 0 THEN genesisHash ELSE file[c.limit].hash
      <4> HIDE DEF g
      <4>1. g = << >> <=> c.limit = 0
        BY <3>2, <3>3
      <4>2. CommittedAt(c.anchor, Result(g))
        BY <3>1 DEF g
      <4> QED
        <5>1. c.anchor.count = Len(g) /\ c.anchor.head = IF g = << >> THEN genesisHash ELSE g[Len(g)].hash
          BY <4>2, Zenon DEF CommittedAt, Result
        <5>2. c.limit # 0 => c.limit \in 1..c.limit
          BY <3>2
        <5> QED
          BY <3>1, <3>3, <4>1, <5>1, <5>2, Zenon
    <3>5. NoKill => c.limit <= synced
      BY <1>t, <3>2, <3>4 DEF BookInv
    <3>6. KeptAt(h, c.limit)
      BY <1>h, <1>t, <3>2, <3>4, <3>5, ExtendsRefl DEF KeptAt, ChainedAfter
    <3> QED
      BY <2>1, <3>2, <3>6, KeptFrame, Zenon
  <2> QED
    BY <2>3, <2>4, Zenon
<1>10. CASE Kill
  <2>1. Stop("kill") /\ UNCHANGED <<file, synced, shipped>> /\ ~up'
    BY <1>10, Zenon DEF Kill, Stop, disk
  <2>2. ~PowerLossAfterKill /\ ~NoKill'
    BY <2>1, KillLogged
  <2>3. PICK n \in Nat : KeptAt(h, n)
    BY <1>k, <2>1, <2>2
  <2> QED
    BY <2>1, <2>2, <2>3, Zenon DEF KeptAt
<1>11. CASE PowerLoss
  <2>1. Stop("power") /\ shipped' = shipped /\ ~up'
    BY <1>11 DEF PowerLoss, Stop
  <2>2. ~PowerLossAfterKill /\ NoKill
    BY <2>1, PowerLogged
  <2>3. PICK n \in Nat : KeptAt(h, n)
    BY <1>k, <2>1, <2>2
  <2> QED
    BY <1>11, <2>1, <2>2, <2>3, Survives, Zenon
<1>12. CASE Truncate
  BY <1>12, FaultCounts, Zenon DEF Truncate, Uncut
<1>13. CASE UNCHANGED vars
  BY <1>13, <1>f DEF vars, disk, mem, watch
<1> QED
  BY <1>1, <1>2, <1>3, <1>5, <1>6, <1>7, <1>8, <1>9, <1>10, <1>11, <1>12, <1>13 DEF Next

\* As long as nobody cuts the file and no power loss follows a kill, a head the
\* receiver accepted is a prefix of every log the server opens later.
THEOREM ShippedNeverRolledBack == Spec => []ShippedStands
<1>1. KeptInv => ShippedStands
  BY DEF KeptInv, ShippedStands, Uncut
<1> QED
  BY InitType, StepType, InitShip, StepBook, StepKept, <1>1, PTL DEF Spec

-----------------------------------------------------------------------------
(* A log no fault but a failed write of the anchor has touched.            *)

HeadAt(f, n) == IF n = 0 THEN genesisHash ELSE f[n].hash
At(f, n) == [count |-> n, head |-> HeadAt(f, n)]

Sound(f) ==
  \A i \in 1..Len(f) :
    /\ f[i].part = Whole /\ f[i].seq = i
    /\ f[i].prevHash = HeadAt(f, i - 1)
    /\ f[i].hash = ChainHash(HeadAt(f, i - 1), i, f[i].event)

\* The records the fields of WAL account for: all but the one being synced.
Counted == IF pc = "sync" THEN Len(file) - 1 ELSE Len(file)

FileInv ==
  /\ Sound(file) /\ ~DuplicateId(file)
  /\ \A i \in 1..Len(file) : file[i].event.id \in usedIds
  /\ Single(cur) /\ \A ev \in cur : ev.id \in usedIds
  /\ up => /\ seq = Counted /\ head = HeadAt(file, Counted)
           /\ \A i \in 1..Counted : Known(file[i].event) # {}
  /\ pc = "write" => \A ev \in cur : \A i \in 1..Len(file) : file[i].event.id # ev.id
  /\ pc = "sync" => file # << >> /\ cur = {file[Len(file)].event}

Matched(A) == \A a \in A : anchorMatchesResult(a, At(file, Len(file)))

Announced(ev) == anchorWithPending(seq, head, [count |-> seq + 1, head |-> NextHash(ev)])

AnchorInv ==
  /\ up \/ ~PowerLossAfterKill => Matched(anchor)
  /\ NoKill => Matched(anchorDurable) /\ synced = Counted
  /\ pc \in {"write", "sync"} =>
       \A ev \in cur : anchor = {Announced(ev)} /\ anchorDurable = {Announced(ev)}
  /\ verdict # "broken"
  /\ \A c \in capture : anchorMatchesResult(c.anchor, At(file, c.limit))

Clean == OnlyFaults({"anchor"})

CleanInv == Clean => FileInv /\ AnchorInv

\* Such a log sees no other fault.
LEMMA CleanFaults ==
  ASSUME TypeOK, Clean'
  PROVE  ~Fault("short") /\ ~Fault("sync") /\ ~Fault("torn") /\ ~Fault("truncate")
<1>1. ASSUME NEW kind, Fault(kind) PROVE kind \in {"anchor"}
  BY <1>1, FaultCounts, Zenon DEF Clean
<1> QED
  BY <1>1

\* A sound file passes Verify.
LEMMA SoundVerifies ==
  ASSUME NEW f \in Seq(Entry), Sound(f)
  PROVE  Verify(f)
BY DEF Sound, Verify, HeadAt

\* Verify reports the count and the last hash of what it read.
LEMMA ResultAt ==
  ASSUME NEW f \in Seq(Entry)
  PROVE  Result(f) = At(f, Len(f))
<1>1. f = << >> <=> Len(f) = 0
  OBVIOUS
<1> QED
  BY <1>1 DEF Result, At, HeadAt

\* A prefix of a sound file is sound and ends where the file stood.
LEMMA PrefixSound ==
  ASSUME NEW f \in Seq(Entry), NEW n \in 0..Len(f), Sound(f)
  PROVE  /\ SubSeq(f, 1, n) \in Seq(Entry) /\ Len(SubSeq(f, 1, n)) = n
         /\ \A i \in 1..n : SubSeq(f, 1, n)[i] = f[i]
         /\ Sound(SubSeq(f, 1, n))
         /\ \A m \in 0..n : At(SubSeq(f, 1, n), m) = At(f, m)
<1> DEFINE g == SubSeq(f, 1, n)
<1>1. g \in Seq(Entry) /\ Len(g) = n /\ \A i \in 1..n : g[i] = f[i]
  OBVIOUS
<1> HIDE DEF g
<1>2. \A m \in 0..n : HeadAt(g, m) = HeadAt(f, m)
  BY <1>1 DEF HeadAt
<1>3. Sound(g)
  <2> SUFFICES ASSUME NEW i \in 1..n
               PROVE  /\ g[i].part = Whole /\ g[i].seq = i
                      /\ g[i].prevHash = HeadAt(g, i - 1)
                      /\ g[i].hash = ChainHash(HeadAt(g, i - 1), i, g[i].event)
    BY <1>1, Zenon DEF Sound
  <2>1. g[i] = f[i] /\ HeadAt(g, i - 1) = HeadAt(f, i - 1) /\ i \in 1..Len(f)
    BY <1>1, <1>2
  <2> QED
    BY <2>1, Zenon DEF Sound
<1>4. \A m \in 0..n : At(g, m) = At(f, m)
  BY <1>2, Zenon DEF At
<1> QED
  BY <1>1, <1>3, <1>4, Zenon DEF g

\* A whole record chained to the end of a sound file leaves it sound.
LEMMA AppendSound ==
  ASSUME NEW f \in Seq(Entry), Sound(f), NEW e \in Entry,
         e.part = Whole, e.seq = Len(f) + 1, e.prevHash = HeadAt(f, Len(f)),
         e.hash = ChainHash(HeadAt(f, Len(f)), Len(f) + 1, e.event)
  PROVE  /\ Sound(Append(f, e))
         /\ \A m \in 0..Len(f) : At(Append(f, e), m) = At(f, m)
         /\ At(Append(f, e), Len(f) + 1) = [count |-> Len(f) + 1, head |-> e.hash]
<1> DEFINE g == Append(f, e)
<1>1. /\ g \in Seq(Entry) /\ Len(f) \in Nat /\ Len(g) = Len(f) + 1 /\ g[Len(f) + 1] = e
      /\ \A i \in 1..Len(f) : g[i] = f[i]
  BY Appended, SMTT(30)
<1> HIDE DEF g
<1>2. \A m \in 0..Len(f) : HeadAt(g, m) = HeadAt(f, m)
  BY <1>1 DEF HeadAt
<1>3. HeadAt(g, Len(f) + 1) = e.hash
  BY <1>1 DEF HeadAt
<1>4. Sound(g)
  <2> SUFFICES ASSUME NEW i \in 1..(Len(f) + 1)
               PROVE  /\ g[i].part = Whole /\ g[i].seq = i
                      /\ g[i].prevHash = HeadAt(g, i - 1)
                      /\ g[i].hash = ChainHash(HeadAt(g, i - 1), i, g[i].event)
    BY <1>1, Zenon DEF Sound
  <2>1. i - 1 \in 0..Len(f) /\ HeadAt(g, i - 1) = HeadAt(f, i - 1)
    BY <1>1, <1>2, Indices, Zenon
  <2>2. CASE i \in 1..Len(f)
    <3>1. g[i] = f[i]
      BY <1>1, <2>2
    <3> QED
      BY <2>1, <2>2, <3>1 DEF Sound
  <2>3. CASE i = Len(f) + 1
    <3>1. g[i] = e /\ i - 1 = Len(f)
      BY <1>1, <2>3
    <3> QED
      BY <2>1, <2>3, <3>1, Zenon
  <2> QED
    BY <1>1, <2>2, <2>3, Indices, Zenon
<1>5. \A m \in 0..Len(f) : At(g, m) = At(f, m)
  BY <1>2, Zenon DEF At
<1>6. At(g, Len(f) + 1) = [count |-> Len(f) + 1, head |-> e.hash]
  BY <1>3 DEF At
<1> QED
  BY <1>4, <1>5, <1>6, Zenon DEF g

\* A new log is untouched.
LEMMA InitClean == Init => CleanInv
<1> SUFFICES ASSUME Init PROVE FileInv /\ AnchorInv
  BY DEF CleanInv
<1>1. Len(<< >>) = 0
  BY Zenon
<1>2. FileInv
  BY <1>1 DEF Init, FileInv, Sound, DuplicateId, Single
<1>3. AnchorInv
  BY <1>1 DEF Init, AnchorInv, Matched, Counted
<1> QED
  BY <1>2, <1>3

\* Records are untouched by a step that leaves the file and the fields of WAL.
LEMMA FileStays ==
  ASSUME FileInv, UNCHANGED <<file, mem, usedIds>>
  PROVE  FileInv'
BY ZenonT(40) DEF FileInv, mem, Counted, Known, Single

\* and by a step of an append that neither writes nor syncs.
LEMMA FileFrame ==
  ASSUME FileInv, UNCHANGED <<file, up, seq, head, fingerprintByID>>,
         usedIds \subseteq usedIds', Single(cur'), \A ev \in cur' : ev.id \in usedIds',
         pc # "sync", pc' # "sync",
         pc' = "write" => \A ev \in cur' : \A i \in 1..Len(file) : file[i].event.id # ev.id
  PROVE  FileInv'
BY ZenonT(40) DEF FileInv, Counted, Known, Single

\* An append that starts is of an id the file does not hold.
LEMMA AppendLockedFile ==
  ASSUME TypeOK, BookInv, FileInv, NEW ev \in Event, appendLocked(ev), up, pc = "idle",
         usedIds' = usedIds \cup {ev.id}, ev.id \notin usedIds \/ Known(ev) = {}
  PROVE  FileInv'
<1>1. \A i \in 1..Len(file) : file[i].event.id # ev.id
  <2> SUFFICES ASSUME NEW i \in 1..Len(file), file[i].event.id = ev.id PROVE FALSE
    OBVIOUS
  <2>1. CASE ev.id \notin usedIds
    BY <2>1, Zenon DEF FileInv
  <2>2. CASE Known(ev) = {}
    <3>1. Known(file[i].event) # {}
      BY Zenon DEF FileInv, Counted
    <3> QED
      BY <2>2, <3>1, Zenon DEF Known
  <2> QED
    BY <2>1, <2>2, Zenon
<1>2. UNCHANGED <<file, up, seq, head, fingerprintByID>>
  BY Zenon DEF appendLocked
<1>3. (cur' = cur /\ pc' = pc) \/ (cur' = {ev} /\ pc' = "write")
  BY DEF appendLocked
<1>4. Single(cur') /\ \A e \in cur' : e.id \in usedIds'
  BY <1>3 DEF FileInv, Single
<1>5. pc' # "sync" /\ (pc' = "write" => cur' = {ev})
  BY <1>3, Zenon
<1>6. pc' = "write" => \A e \in cur' : \A i \in 1..Len(file) : file[i].event.id # e.id
  BY <1>1, <1>5, Zenon
<1> QED
  BY <1>2, <1>4, <1>5, <1>6, FileFrame, Zenon

\* In an untouched log WriteRecord stores a whole record at the end of the chain.
LEMMA WrittenWhole ==
  ASSUME TypeOK, BookInv, FileInv, WriteRecord, Clean'
  PROVE  \E ev \in cur :
           /\ ev \in Event /\ pc' = "sync" /\ cur' = cur
           /\ Stored(ev, Whole) \in Entry /\ Stored(ev, Whole).event = ev
           /\ file' = Append(file, Stored(ev, Whole))
           /\ Sound(file') /\ Len(file') = Len(file) + 1 /\ file'[Len(file) + 1] = Stored(ev, Whole)
           /\ \A i \in 1..Len(file) : file'[i] = file[i]
           /\ \A m \in 0..Len(file) : At(file', m) = At(file, m)
           /\ At(file', Len(file')) = [count |-> seq + 1, head |-> NextHash(ev)]
<1>1. PICK ev \in cur : file' = Append(file, Stored(ev, Whole)) /\ pc' = "sync" /\ cur' = cur
  BY CleanFaults, Zenon DEF WriteRecord
<1>2. file \in Seq(Entry) /\ Len(file) \in Nat /\ ev \in Event /\ up /\ pc = "write"
  BY DEF TypeOK, BookInv, WriteRecord
<1> DEFINE e == Stored(ev, Whole)
<1>3. e \in Entry
  BY <1>2, StoredType DEF Half, Whole
<1>4. seq = Len(file) /\ head = HeadAt(file, Len(file))
  BY <1>2, Zenon DEF FileInv, Counted
<1>5. /\ e.part = Whole /\ e.seq = seq + 1 /\ e.prevHash = head
      /\ e.hash = ChainHash(head, seq + 1, ev) /\ e.event = ev /\ e.hash = NextHash(ev)
  BY Zenon DEF Stored, NextHash
<1> HIDE DEF e
<1>6. /\ Sound(Append(file, e))
      /\ \A m \in 0..Len(file) : At(Append(file, e), m) = At(file, m)
      /\ At(Append(file, e), Len(file) + 1) = [count |-> Len(file) + 1, head |-> e.hash]
  BY <1>2, <1>3, <1>4, <1>5, AppendSound DEF FileInv
<1>7. /\ Len(Append(file, e)) = Len(file) + 1 /\ Append(file, e)[Len(file) + 1] = e
      /\ \A i \in 1..Len(file) : Append(file, e)[i] = file[i]
  BY <1>2, <1>3
<1>8. file' = Append(file, e)
  BY <1>1, Zenon DEF e
<1> QED
  BY <1>1, <1>2, <1>3, <1>4, <1>5, <1>6, <1>7, <1>8, Zenon DEF e

\* Writing a record keeps an untouched log in order.
LEMMA WriteRecordFile ==
  ASSUME TypeOK, BookInv, FileInv, WriteRecord, Clean'
  PROVE  FileInv'
<1>1. PICK ev \in cur :
           /\ ev \in Event /\ pc' = "sync" /\ cur' = cur
           /\ Stored(ev, Whole) \in Entry /\ Stored(ev, Whole).event = ev
           /\ file' = Append(file, Stored(ev, Whole))
           /\ Sound(file') /\ Len(file') = Len(file) + 1 /\ file'[Len(file) + 1] = Stored(ev, Whole)
           /\ \A i \in 1..Len(file) : file'[i] = file[i]
           /\ \A m \in 0..Len(file) : At(file', m) = At(file, m)
           /\ At(file', Len(file')) = [count |-> seq + 1, head |-> NextHash(ev)]
  BY WrittenWhole
<1>2. /\ up /\ pc = "write" /\ UNCHANGED <<up, seq, head, fingerprintByID, usedIds>>
      /\ Len(file) \in Nat
  BY DEF WriteRecord, hist, BookInv, TypeOK
<1>3. file'[Len(file) + 1].event = ev
  BY <1>1, Zenon
<1>4. \A i \in 1..Len(file) : file'[i].event = file[i].event /\ file[i].event.id # ev.id
  BY <1>1, <1>2, Zenon DEF FileInv
<1>5. \A i \in 1..Len(file') : i \in 1..Len(file) \/ i = Len(file) + 1
  BY <1>1, <1>2
<1>6. ~DuplicateId(file')
  BY <1>3, <1>4, <1>5 DEF FileInv, DuplicateId
<1>7. \A i \in 1..Len(file') : file'[i].event.id \in usedIds'
  BY <1>2, <1>3, <1>4, <1>5, Zenon DEF FileInv
<1>8. Counted' = Len(file) /\ Counted = Len(file)
  BY <1>1, <1>2 DEF Counted
<1>9. seq' = Counted' /\ head' = HeadAt(file', Counted')
  <2>1. HeadAt(file', Len(file)) = HeadAt(file, Len(file))
    BY <1>1, <1>2 DEF HeadAt
  <2> QED
    BY <1>2, <1>8, <2>1, Zenon DEF FileInv
<1>10. \A i \in 1..Counted' : Known(file[i].event)' # {}
  <2> SUFFICES ASSUME NEW i \in 1..Len(file) PROVE Known(file[i].event)' # {}
    BY <1>8, Zenon
  <2>1. Known(file[i].event) # {}
    BY <1>2, <1>8, Zenon DEF FileInv
  <2>2. PICK e \in fingerprintByID : e.id = file[i].event.id
    BY <2>1 DEF Known
  <2>3. e \in fingerprintByID' /\ e.id = file'[i].event.id
    BY <1>2, <1>4, <2>2, Zenon
  <2> QED
    BY <2>3 DEF Known
<1>11. cur = {ev}
  BY <1>1 DEF FileInv, Single
<1>12. cur' = {file'[Len(file')].event} /\ file' # << >>
  BY <1>1, <1>2, <1>3, <1>11
<1> QED
  BY <1>1, <1>2, <1>6, <1>7, <1>9, <1>10, <1>12, Zenon DEF FileInv, Single

\* In an untouched log SyncRecord accounts for the record it synced.
LEMMA SyncedFields ==
  ASSUME TypeOK, BookInv, FileInv, SyncRecord, Clean'
  PROVE  /\ UNCHANGED <<file, up, cur, usedIds, anchor, anchorDurable, capture, verdict, crashes>>
         /\ up /\ pc' = "commit" /\ synced' = Len(file)
         /\ seq' = Len(file) /\ head' = HeadAt(file, Len(file))
         /\ fingerprintByID' = (fingerprintByID \ Known(file[Len(file)].event)) \cup {file[Len(file)].event}
<1>1. /\ pc' = "commit" /\ synced' = Len(file) /\ seq' = seq + 1 /\ cur' = cur
      /\ \E ev \in cur : /\ head' = NextHash(ev)
                         /\ fingerprintByID' = (fingerprintByID \ Known(ev)) \cup {ev}
  BY CleanFaults, Zenon DEF SyncRecord
<1>2. UNCHANGED <<file, up, usedIds, anchor, anchorDurable, capture, verdict, crashes>> /\ up /\ pc = "sync"
  BY Zenon DEF SyncRecord, watch, hist, BookInv
<1>3. file # << >> /\ cur = {file[Len(file)].event}
  BY <1>2, Zenon DEF FileInv
<1>4. Len(file) \in Nat /\ Len(file) \in 1..Len(file)
  BY <1>3 DEF TypeOK
<1>5. seq = Len(file) - 1 /\ head = HeadAt(file, Len(file) - 1)
  BY <1>2, Zenon DEF FileInv, Counted
<1>6. file[Len(file)].hash = ChainHash(HeadAt(file, Len(file) - 1), Len(file), file[Len(file)].event)
  BY <1>4 DEF FileInv, Sound
<1>7. NextHash(file[Len(file)].event) = HeadAt(file, Len(file)) /\ seq + 1 = Len(file)
  BY <1>4, <1>5, <1>6 DEF NextHash, HeadAt
<1> QED
  BY <1>1, <1>2, <1>3, <1>7

\* Syncing a record keeps an untouched log in order.
LEMMA SyncRecordFile ==
  ASSUME TypeOK, BookInv, FileInv, SyncRecord, Clean'
  PROVE  FileInv'
<1>1. /\ UNCHANGED <<file, up, cur, usedIds>>
      /\ up /\ pc' = "commit"
      /\ seq' = Len(file) /\ head' = HeadAt(file, Len(file))
      /\ fingerprintByID' = (fingerprintByID \ Known(file[Len(file)].event)) \cup {file[Len(file)].event}
  BY SyncedFields, Zenon
<1>2. Len(file) \in Nat /\ pc = "sync" /\ Counted = Len(file) - 1 /\ Counted' = Len(file)
  BY <1>1 DEF TypeOK, SyncRecord, Counted
<1>3. ASSUME NEW i \in 1..Len(file)
      PROVE  Known(file[i].event)' # {}
  <2> DEFINE last == file[Len(file)].event
  <2>1. CASE file[i].event.id = last.id
    BY <1>1, <2>1 DEF Known
  <2>2. CASE file[i].event.id # last.id
    <3>1. i \in 1..Counted
      BY <1>2, <2>2
    <3>2. PICK e \in fingerprintByID : e.id = file[i].event.id
      BY <1>1, <3>1 DEF FileInv, Known
    <3>3. e \in fingerprintByID'
      BY <1>1, <2>2, <3>2 DEF Known
    <3> QED
      BY <1>1, <3>2, <3>3 DEF Known
  <2> QED
    BY <2>1, <2>2
<1> QED
  BY <1>1, <1>2, <1>3, Zenon DEF FileInv, Single

\* Every step keeps the records of an untouched log in order.
LEMMA StepFile == TypeOK /\ BookInv /\ (Clean => FileInv) /\ [Next]_vars => (Clean' => FileInv')
<1> SUFFICES ASSUME TypeOK, BookInv, Clean => FileInv, [Next]_vars, Clean' PROVE FileInv'
  OBVIOUS
<1>c. FileInv
  BY OnlyFaultsBefore DEF Clean
<1>x. ~Fault("torn") /\ ~Fault("truncate")
  BY CleanFaults
<1>t. file \in Seq(Entry) /\ Len(file) \in Nat
  BY DEF TypeOK
<1>1. CASE openWAL
  <2>1. /\ ~up /\ pc = "idle" /\ UNCHANGED <<file, pc, cur, usedIds>>
        /\ seq' = Result(file).count /\ head' = Result(file).head
        /\ fingerprintByID' = {file[i].event : i \in 1..Len(file)}
    BY <1>1 DEF openWAL, hist, BookInv
  <2>2. Result(file).count = Len(file) /\ Result(file).head = HeadAt(file, Len(file))
    BY <1>t, ResultAt DEF At
  <2>3. \A i \in 1..Len(file) : Known(file[i].event)' # {}
    BY <2>1, Zenon DEF Known
  <2>4. Counted' = Len(file)
    BY <2>1 DEF Counted
  <2> QED
    BY <1>c, <2>1, <2>2, <2>3, <2>4, ZenonT(40) DEF FileInv, Single
<1>2. CASE openWALFails
  BY <1>2, <1>c, FileStays DEF openWALFails, hist
<1>3. ASSUME NEW ev \in Event, AppendAny(ev)
      PROVE  FileInv'
  BY <1>3, <1>c, AppendLockedFile, Zenon DEF AppendAny
<1>4. ASSUME NEW ev \in Event, AppendIdempotent(ev)
      PROVE  FileInv'
  <2>1. CASE Known(ev) = {} /\ appendLocked(ev)
    BY <1>4, <1>c, <2>1, AppendLockedFile, Zenon DEF AppendIdempotent
  <2>2. CASE UNCHANGED <<file, synced, mem, watch, crashes>>
    <3>1. usedIds \subseteq usedIds' /\ pc = "idle"
      BY <1>4 DEF AppendIdempotent
    <3>2. UNCHANGED <<file, up, seq, head, fingerprintByID, pc, cur>>
      BY <2>2, Zenon DEF mem
    <3>3. Single(cur') /\ \A e \in cur' : e.id \in usedIds'
      BY <1>c, <3>1, <3>2 DEF FileInv, Single
    <3> QED
      BY <1>c, <3>1, <3>2, <3>3, FileFrame
  <2> QED
    BY <1>4, <2>1, <2>2, Zenon DEF AppendIdempotent
<1>5. CASE WriteRecord
  BY <1>5, <1>c, WriteRecordFile
<1>6. CASE SyncRecord
  BY <1>6, <1>c, SyncRecordFile, Zenon
<1>7. CASE CommitAnchor
  <2>1. UNCHANGED <<file, up, seq, head, fingerprintByID, usedIds>> /\ pc = "commit" /\ pc' = "idle" /\ cur' = {}
    BY <1>7, Zenon DEF CommitAnchor
  <2> QED
    BY <1>c, <2>1, FileFrame DEF Single
<1>8. CASE CapturePrefix
  BY <1>8, <1>c, FileStays, Zenon DEF CapturePrefix, disk, hist
<1>9. CASE WalkPrefix
  BY <1>9, <1>c, FileStays, Zenon DEF WalkPrefix, disk, hist
<1>10. CASE Kill
  <2>1. ~up' /\ pc' = "idle" /\ cur' = {} /\ UNCHANGED <<file, usedIds>>
    BY <1>10, Zenon DEF Kill, Stop, disk, hist
  <2> QED
    BY <1>c, <2>1 DEF FileInv, Single
<1>11. CASE PowerLoss
  <2>1. PICK n \in synced..Len(file) : file' = SubSeq(file, 1, n)
    BY <1>11, <1>x, Zenon DEF PowerLoss
  <2>2. n \in 0..Len(file)
    BY <2>1 DEF TypeOK
  <2>3. Len(file') = n /\ Sound(file') /\ \A i \in 1..n : file'[i] = file[i]
    BY <1>c, <1>t, <2>1, <2>2, PrefixSound, Zenon DEF FileInv
  <2>4. ~up' /\ pc' = "idle" /\ cur' = {} /\ UNCHANGED usedIds
    BY <1>11, Zenon DEF PowerLoss, Stop, hist
  <2>5. \A i \in 1..n : i \in 1..Len(file) /\ file'[i].event = file[i].event
    BY <2>2, <2>3
  <2>6. ~DuplicateId(file') /\ \A i \in 1..Len(file') : file'[i].event.id \in usedIds'
    BY <1>c, <2>3, <2>4, <2>5 DEF FileInv, DuplicateId
  <2> QED
    BY <2>3, <2>4, <2>6 DEF FileInv, Single
<1>12. CASE Truncate
  BY <1>12, <1>x DEF Truncate
<1>13. CASE UNCHANGED vars
  BY <1>13, <1>c, FileStays, Zenon DEF vars, disk, hist
<1> QED
  BY <1>1, <1>2, <1>3, <1>4, <1>5, <1>6, <1>7, <1>8, <1>9, <1>10, <1>11, <1>12, <1>13, Zenon DEF Next

\* An anchor committed at the end of the file matches it.
LEMMA CommittedMatches ==
  ASSUME NEW a, a.count = Len(file), a.head = HeadAt(file, Len(file))
  PROVE  Matched({a})
BY DEF Matched, anchorMatchesResult, CommittedAt, At

\* The anchors match after either outcome of writing one that does.
LEMMA WriteMatching ==
  ASSUME AnchorInv, NEW a, Matched({a}), Matched(anchor), UNCHANGED file,
         writeAnchor(a) \/ writeAnchorFails(a)
  PROVE  Matched(anchor') /\ (NoKill => Matched(anchorDurable'))
BY Zenon DEF AnchorInv, Matched, writeAnchor, writeAnchorFails

\* A step that rewrites the anchors between records.
LEMMA AnchorFrame ==
  ASSUME AnchorInv, UNCHANGED <<file, synced, crashes, capture, verdict>>,
         Matched(anchor'), NoKill => Matched(anchorDurable'),
         pc # "sync", pc' \notin {"write", "sync"}
  PROVE  AnchorInv'
BY Zenon DEF AnchorInv, Matched, Counted, NoKill

\* Nothing is checked again when neither the log nor its watchers change.
LEMMA AnchorStays ==
  ASSUME AnchorInv, UNCHANGED <<disk, mem, capture, verdict, crashes>>
  PROVE  AnchorInv'
BY DEF AnchorInv, disk, mem, Matched, Counted, NoKill, Announced, NextHash, PowerLossAfterKill

\* Starting an append announces the record before it is written.
LEMMA AppendLockedAnchor ==
  ASSUME TypeOK, BookInv, FileInv, AnchorInv, NEW ev \in Event, appendLocked(ev), up, pc = "idle"
  PROVE  AnchorInv'
<1>1. Announced(ev).count = seq /\ Announced(ev).head = head
  BY Zenon DEF Announced, anchorWithPending
<1>2. seq = Len(file) /\ head = HeadAt(file, Len(file))
  BY Zenon DEF FileInv, Counted
<1>3. Matched({Announced(ev)}) /\ Matched(anchor)
  BY <1>1, <1>2, CommittedMatches, Zenon DEF AnchorInv
<1>4. UNCHANGED <<file, synced, crashes, capture, verdict, seq, head>>
  BY Zenon DEF appendLocked, watch
<1>5. \/ writeAnchorFails(Announced(ev)) /\ pc' = pc
      \/ writeAnchor(Announced(ev)) /\ pc' = "write" /\ cur' = {ev}
  BY Zenon DEF appendLocked, Announced
<1>6. Matched(anchor') /\ (NoKill => Matched(anchorDurable'))
  BY <1>3, <1>4, <1>5, WriteMatching, Zenon
<1>7. CASE pc' = pc
  BY <1>4, <1>6, <1>7, AnchorFrame, Zenon
<1>8. CASE writeAnchor(Announced(ev)) /\ pc' = "write" /\ cur' = {ev}
  <2>1. Announced(ev)' = Announced(ev)
    BY <1>4 DEF Announced, NextHash
  <2>2. \A e \in cur' : anchor' = {Announced(e)'} /\ anchorDurable' = {Announced(e)'}
    BY <1>8, <2>1 DEF writeAnchor
  <2> QED
    BY <1>4, <1>6, <1>8, <2>2, Zenon DEF AnchorInv, Matched, Counted, NoKill
<1> QED
  BY <1>5, <1>7, <1>8, Zenon

\* The capture a walk reads never looks broken.
LEMMA WalkAgrees ==
  ASSUME TypeOK, BookInv, FileInv, AnchorInv, NEW c \in capture
  PROVE  VerifyPrefixAgainstAnchor(c.limit, c.anchor)
<1>1. file \in Seq(Entry) /\ c.limit \in 0..Len(file)
  BY DEF TypeOK, BookInv
<1> DEFINE g == SubSeq(file, 1, c.limit)
<1>2. g \in Seq(Entry) /\ Len(g) = c.limit /\ Sound(g) /\ At(g, c.limit) = At(file, c.limit)
  BY <1>1, PrefixSound DEF FileInv
<1>3. Verify(g) /\ Result(g) = At(file, c.limit)
  BY <1>2, SoundVerifies, ResultAt, Zenon
<1> QED
  BY <1>3, Zenon DEF VerifyPrefixAgainstAnchor, AnchorInv

\* After a power loss that follows no kill, both anchors match what is left.
LEMMA LossMatches ==
  ASSUME TypeOK, BookInv, FileInv, AnchorInv, NoKill, NEW n \in synced..Len(file)
  PROVE  \A a \in anchor \cup anchorDurable : anchorMatchesResult(a, At(file, n))
<1>1. Len(file) \in Nat /\ synced = Counted
  BY DEF TypeOK, AnchorInv
<1>2. \A a \in anchor \cup anchorDurable : anchorMatchesResult(a, At(file, Len(file)))
  <2>1. ~PowerLossAfterKill
    BY DEF NoKill, PowerLossAfterKill
  <2> QED
    BY <2>1 DEF AnchorInv, Matched
<1>3. CASE n = Len(file)
  BY <1>2, <1>3, Zenon
<1>4. CASE n # Len(file)
  <2>1. pc = "sync" /\ n = Len(file) - 1
    BY <1>1, <1>4 DEF Counted
  <2>2. up /\ seq = n /\ head = HeadAt(file, n)
    BY <2>1 DEF BookInv, FileInv, Counted
  <2>3. PICK ev \in cur : anchor = {Announced(ev)} /\ anchorDurable = {Announced(ev)}
    BY <2>1, Zenon DEF FileInv, AnchorInv
  <2>4. Announced(ev).count = n /\ Announced(ev).head = HeadAt(file, n)
    BY <2>2 DEF Announced, anchorWithPending
  <2>5. anchorMatchesResult(Announced(ev), At(file, n))
    BY <2>4, Zenon DEF anchorMatchesResult, CommittedAt, At
  <2> QED
    BY <2>3, <2>5
<1> QED
  BY <1>3, <1>4

\* Every step keeps the anchors of an untouched log matching it.
LEMMA StepAnchor ==
  TypeOK /\ BookInv /\ CleanInv /\ [Next]_vars => (Clean' => AnchorInv')
<1> SUFFICES ASSUME TypeOK, BookInv, CleanInv, [Next]_vars, Clean' PROVE AnchorInv'
  OBVIOUS
<1>c. FileInv /\ AnchorInv
  BY OnlyFaultsBefore DEF Clean, CleanInv
<1>x. ~Fault("torn") /\ ~Fault("truncate")
  BY CleanFaults
<1>t. file \in Seq(Entry) /\ Len(file) \in Nat
  BY DEF TypeOK
<1>r. Result(file) = At(file, Len(file))
  BY <1>t, ResultAt
<1>1. CASE openWAL
  <2> DEFINE a == anchorCommitted(Result(file).count, Result(file).head)
  <2>1. /\ ~up /\ pc = "idle" /\ UNCHANGED <<file, synced, pc, capture, verdict, crashes>>
        /\ writeAnchor(a) \/ UNCHANGED <<anchor, anchorDurable>>
    BY <1>1, Zenon DEF openWAL, watch, BookInv
  <2>2. Matched(anchor)
    BY <1>1, <1>r, Zenon DEF openWAL, OpenAccepts, Matched
  <2>3. a.count = Len(file) /\ a.head = HeadAt(file, Len(file))
    BY <1>r DEF anchorCommitted, At
  <2> HIDE DEF a
  <2>4. Matched(anchor') /\ (NoKill => Matched(anchorDurable'))
    BY <1>c, <2>1, <2>2, <2>3, CommittedMatches, WriteMatching, Zenon DEF AnchorInv
  <2> QED
    BY <1>c, <2>1, <2>4, AnchorFrame, Zenon
<1>2. CASE openWALFails
  <2> DEFINE a == anchorCommitted(Result(file).count, Result(file).head)
  <2>1. /\ ~up /\ pc = "idle" /\ UNCHANGED <<file, synced, pc, capture, verdict, crashes>>
        /\ writeAnchorFails(a)
    BY <1>2, Zenon DEF openWALFails, watch, mem, BookInv
  <2>2. Matched(anchor)
    BY <1>2, <1>r, Zenon DEF openWALFails, Matched
  <2>3. a.count = Len(file) /\ a.head = HeadAt(file, Len(file))
    BY <1>r DEF anchorCommitted, At
  <2> HIDE DEF a
  <2>4. Matched(anchor') /\ (NoKill => Matched(anchorDurable'))
    BY <1>c, <2>1, <2>2, <2>3, CommittedMatches, WriteMatching, Zenon
  <2> QED
    BY <1>c, <2>1, <2>4, AnchorFrame, Zenon
<1>3. ASSUME NEW ev \in Event, AppendAny(ev)
      PROVE  AnchorInv'
  BY <1>3, <1>c, AppendLockedAnchor DEF AppendAny
<1>m. ASSUME up, pc \in {"idle", "commit"}, pc' = "idle",
             UNCHANGED <<file, synced, capture, verdict, crashes>>,
             writeAnchor(anchorCommitted(seq, head)) \/ writeAnchorFails(anchorCommitted(seq, head))
      PROVE  AnchorInv'
  <2> DEFINE a == anchorCommitted(seq, head)
  <2>1. seq = Len(file) /\ head = HeadAt(file, Len(file))
    BY <1>c, <1>m DEF FileInv, Counted
  <2>2. a.count = Len(file) /\ a.head = HeadAt(file, Len(file))
    BY <2>1, Zenon DEF anchorCommitted
  <2> HIDE DEF a
  <2>3. Matched(anchor') /\ (NoKill => Matched(anchorDurable'))
    BY <1>c, <1>m, <2>2, CommittedMatches, WriteMatching, Zenon DEF AnchorInv, a
  <2> QED
    BY <1>c, <1>m, <2>3, AnchorFrame
<1>4. ASSUME NEW ev \in Event, AppendIdempotent(ev)
      PROVE  AnchorInv'
  <2>1. CASE appendLocked(ev)
    BY <1>4, <1>c, <2>1, AppendLockedAnchor, Zenon DEF AppendIdempotent
  <2>2. CASE ~appendLocked(ev)
    BY <1>4, <1>m, <2>2, Zenon DEF AppendIdempotent, mem, watch
  <2> QED
    BY <2>1, <2>2, Zenon
<1>5. CASE WriteRecord
  <2>1. PICK ev \in cur :
           /\ pc' = "sync" /\ cur' = cur /\ Len(file') = Len(file) + 1
           /\ \A m \in 0..Len(file) : At(file', m) = At(file, m)
           /\ At(file', Len(file')) = [count |-> seq + 1, head |-> NextHash(ev)]
    BY <1>5, <1>c, WrittenWhole, Zenon
  <2>2. /\ pc = "write"
        /\ UNCHANGED <<synced, anchor, anchorDurable, up, seq, head, capture, verdict, crashes>>
    BY <1>5, Zenon DEF WriteRecord, watch
  <2>3. anchor = {Announced(ev)} /\ anchorDurable = {Announced(ev)}
    BY <1>c, <2>1, <2>2, Zenon DEF AnchorInv
  <2>4. Announced(ev).pending = {[count |-> seq + 1, head |-> NextHash(ev)]}
    BY ZenonT(40) DEF Announced, anchorWithPending
  <2>5. Matched(anchor)' /\ Matched(anchorDurable)'
    BY <2>1, <2>2, <2>3, <2>4 DEF Matched, anchorMatchesResult
  <2>6. NoKill' => synced' = Counted'
    BY <1>c, <1>t, <2>1, <2>2 DEF AnchorInv, NoKill, Counted
  <2>7. \A e \in cur' : anchor' = {Announced(e)'} /\ anchorDurable' = {Announced(e)'}
    BY <1>c, <2>1, <2>2, Zenon DEF AnchorInv, Announced, NextHash
  <2>8. \A c \in capture' : anchorMatchesResult(c.anchor, At(file', c.limit))
    <3>1. \A c \in capture : c.limit \in 0..Len(file)
      BY <1>t DEF TypeOK, BookInv
    <3> QED
      BY <1>c, <2>1, <2>2, <3>1, Zenon DEF AnchorInv
  <2> QED
    BY <1>c, <2>2, <2>5, <2>6, <2>7, <2>8 DEF AnchorInv
<1>6. CASE SyncRecord
  <2>1. /\ UNCHANGED <<file, anchor, anchorDurable, capture, verdict, crashes>>
        /\ up /\ pc' = "commit" /\ synced' = Len(file)
    BY <1>6, <1>c, SyncedFields, ZenonT(40)
  <2> QED
    BY <1>c, <2>1, Zenon DEF AnchorInv, Matched, NoKill, Counted
<1>7. CASE CommitAnchor
  BY <1>7, <1>m DEF CommitAnchor, watch, BookInv
<1>8. CASE CapturePrefix
  <2>1. /\ up /\ UNCHANGED <<file, synced, anchor, anchorDurable, verdict, crashes, pc, up, seq, head, cur>>
        /\ capture' = {[limit |-> Len(file), anchor |-> a] : a \in anchor}
    BY <1>8, Zenon DEF CapturePrefix, disk, mem
  <2>2. \A c \in capture' : anchorMatchesResult(c.anchor, At(file', c.limit))
    <3>1. \A c \in capture' : c.limit = Len(file) /\ c.anchor \in anchor
      BY <2>1, Captured, Zenon
    <3> QED
      BY <1>c, <2>1, <3>1, Zenon DEF AnchorInv, Matched
  <2> QED
    BY <1>c, <2>1, <2>2, Zenon DEF AnchorInv, Matched, Counted, NoKill, Announced, NextHash
<1>9. CASE WalkPrefix
  <2>1. UNCHANGED <<disk, mem, crashes>> /\ capture' = {}
    BY <1>9, Zenon DEF WalkPrefix
  <2>2. verdict' # "broken"
    BY <1>9, <1>c, WalkAgrees, Zenon DEF WalkPrefix
  <2> QED
    BY <1>c, <2>1, <2>2, Zenon
       DEF AnchorInv, disk, mem, Matched, Counted, NoKill, Announced, NextHash, PowerLossAfterKill
<1>10. CASE Kill
  <2>1. Stop("kill") /\ UNCHANGED <<file, anchor>> /\ up
    BY <1>10, Zenon DEF Kill, disk, Stop
  <2>2. ~NoKill' /\ pc' = "idle" /\ verdict' = "none" /\ capture' = {}
    BY <2>1, KillLogged, Zenon DEF Stop
  <2> QED
    BY <1>c, <2>1, <2>2, Zenon DEF AnchorInv, Matched
<1>11. CASE PowerLoss
  <2>1. PICK n \in synced..Len(file) : file' = SubSeq(file, 1, n)
    BY <1>11, <1>x DEF PowerLoss
  <2>2. n \in 0..Len(file)
    BY <2>1 DEF TypeOK
  <2>3. Len(file') = n /\ At(file', n) = At(file, n)
    BY <1>c, <1>t, <2>1, <2>2, PrefixSound DEF FileInv
  <2>4. /\ Stop("power") /\ ~up' /\ pc' = "idle" /\ cur' = {} /\ verdict' = "none" /\ capture' = {}
        /\ anchor' \in {anchor, anchorDurable} /\ anchorDurable' = anchor' /\ synced' = Len(file')
    BY <1>11 DEF PowerLoss, Stop
  <2>6. (NoKill' => NoKill) /\ (~PowerLossAfterKill' => NoKill)
    BY <2>4, PowerLogged, Zenon
  <2>7. NoKill => Matched(anchor)' /\ Matched(anchorDurable)'
    BY <1>c, <2>1, <2>3, <2>4, LossMatches DEF Matched
  <2> QED
    BY <2>4, <2>6, <2>7 DEF AnchorInv, Counted
<1>12. CASE Truncate
  BY <1>12, <1>x, Zenon DEF Truncate
<1>13. CASE UNCHANGED vars
  BY <1>13, <1>c, AnchorStays DEF vars, watch
<1> QED
  BY <1>1, <1>2, <1>3, <1>4, <1>5, <1>6, <1>7, <1>8, <1>9, <1>10, <1>11, <1>12, <1>13, Zenon DEF Next

\* Every step keeps an untouched log untouched.
LEMMA StepClean == TypeOK /\ BookInv /\ CleanInv /\ [Next]_vars => CleanInv'
BY StepFile, StepAnchor, Zenon DEF CleanInv

\* An untouched log satisfies what openWAL asks, unless a power loss followed a kill.
LEMMA CleanReopens ==
  ASSUME TypeOK, CleanInv
  PROVE  Reopenable
<1> SUFFICES ASSUME Clean, ~up, ~PowerLossAfterKill PROVE OpenAccepts
  BY Zenon DEF Reopenable, Clean
<1>1. FileInv /\ AnchorInv /\ file \in Seq(Entry)
  BY Zenon DEF CleanInv, TypeOK
<1>2. Verify(file) /\ ~DuplicateId(file) /\ Result(file) = At(file, Len(file))
  BY <1>1, SoundVerifies, ResultAt DEF FileInv
<1> QED
  BY <1>1, <1>2 DEF OpenAccepts, AnchorInv, Matched

\* A stopped server whose disk only ever failed to write the anchor can open its
\* log again, unless a power loss undid what a restart had read.
THEOREM AlwaysReopenable == Spec => []Reopenable
BY InitType, StepType, InitShip, StepBook, InitClean, StepClean, CleanReopens, PTL DEF Spec

\* Under the same faults and any crashes, retried appends leave one record per id
\* and a check that races them never calls the log broken.
THEOREM RecordsStaySound == Spec => []RecordsSound
<1>1. TypeOK /\ CleanInv => RecordsSound
  BY DEF CleanInv, Clean, FileInv, AnchorInv, RecordsSound, NoFalseAlarm, OneRecordPerId
<1> QED
  BY InitType, StepType, InitShip, StepBook, InitClean, StepClean, <1>1, PTL DEF Spec

=============================================================================
