----------------------------- MODULE TraceStore -----------------------------
(***************************************************************************)
(* Connection tracing: the batches a node's agent uploads (at least once,  *)
(* in any order), the records, session lines and five-minute rollups they  *)
(* are stored in, the sweep that attributes records again once vpn-core    *)
(* knows their user, retention, the paged reads, and the stitching of      *)
(* records of several nodes into hop paths.                                *)
(*                                                                         *)
(* A connection is a number, in the order of its key (node, core           *)
(* generation, log id); TrcConn gives what its records never change:       *)
(* [node, at, line, user, dst, src].  Attribution to a user and a line is  *)
(* one fact, who: "" when vpn-core does not know the connection's tag and  *)
(* name, otherwise the user, on the connection's line.                     *)
(***************************************************************************)
EXTENDS Integers, FiniteSets, FiniteSetsExt, SequencesExt, Common

CONSTANTS TrcConn,        \* what is fixed about each connection
          TrcEdges,       \* the chain's <<source line, target line>> pairs
          TrcIPs,         \* the public addresses of each node
          TrcWindow,      \* tracestitch.DefaultWindow
          TrcUploads,     \* the sets of records an agent uploads
          TrcBatches,     \* the sequences of session lines an agent uploads
          TrcGens,        \* core generations a batch names
          TrcSessions,    \* capture sessions
          TrcMaxActive,   \* traceMaxActiveSessions
          TrcPageSizes,   \* the limits a read may give
          TrcMaxPages,    \* traceHopMaxPages
          TrcWorkers,     \* rollupScanWorkers
          TrcEvicts,      \* the tables retention deletes from
          TrcLateResends, \* TRUE: an agent resends what retention has deleted
          MaxTrcOps       \* uploads, edits, sweeps and reads together

VARIABLES trcTopo,   \* vpn-core knows the tags and the names
          trcRow,    \* conn_records
          trcRoll,   \* rollups_5m: <<bucket, who>> to [n, id]
          trcLines,  \* trace_lines: per session, line to seq
          trcSess,   \* the capture sessions
          trcNew,    \* sessions whose creation has passed its checks
          trcReq,    \* the upload being handled
          trcFix,    \* what a re-attribution sweep has read and not written
          trcNode,   \* the node row: its trace policy and core generation
          trcSrc,    \* the node's sing-box log source is enabled
          trcPol,    \* a policy change between its read and its write
          trcPage,   \* a paged read
          trcTail,   \* a follower of a session's lines
          trcFinal,  \* ghost: connections whose final record has been stored
          trcGone,   \* ghost: connections retention has deleted
          trcMoved,  \* ghost: rows a resend gave another attribution
          trcOps     \* the budget spent

trcVars == <<trcTopo, trcRow, trcRoll, trcLines, trcSess, trcNew, trcReq,
             trcFix, trcNode, trcSrc, trcPol, trcPage, trcTail, trcFinal,
             trcGone, trcMoved, trcOps>>

trcRowVars == <<trcRow, trcRoll, trcFinal, trcMoved>>
trcSessVars == <<trcSess, trcNew>>
trcNodeVars == <<trcNode, trcSrc, trcPol>>
trcReadVars == <<trcPage, trcTail>>

Conns == DOMAIN TrcConn
Buckets == {TrcConn[k].at : k \in Conns}
Whos == {""} \cup {TrcConn[k].user : k \in Conns}
RollKeys == Buckets \X Whos
StoredConns == {k \in Conns : trcRow[k] # None}
LineIds == UNION {Range(b) : b \in TrcBatches}

TrcSpend == trcOps < MaxTrcOps /\ trcOps' = trcOps + 1

TrcInit ==
  /\ trcTopo = FALSE
  /\ trcRow = [k \in Conns |-> None]
  /\ trcRoll = [r \in RollKeys |-> None]
  /\ trcLines = [s \in TrcSessions |-> [l \in LineIds |-> 0]]
  /\ trcSess = [s \in TrcSessions |-> None]
  /\ trcNew = {}
  /\ trcReq = None
  /\ trcFix = None
  /\ trcNode = [raw |-> FALSE, gen |-> 0]
  /\ trcSrc = FALSE
  /\ trcPol = None
  /\ trcPage = None
  /\ trcTail = [after |-> 0, seen |-> {}]
  /\ trcFinal = {}
  /\ trcGone = {}
  /\ trcMoved = {}
  /\ trcOps = 0

-----------------------------------------------------------------------------
(* Attribution. *)

(* attributeLine and attributeUser, by the read model as it is now. *)
attribute(k) == IF trcTopo THEN TrcConn[k].user ELSE ""

(* vpn-core's read model fills, or loses what it knew. *)
traceTopology ==
  /\ TrcSpend
  /\ trcTopo' = ~trcTopo
  /\ UNCHANGED <<trcRowVars, trcLines, trcSessVars, trcReq, trcFix, trcNodeVars,
                 trcReadVars, trcGone>>

-----------------------------------------------------------------------------
(* The store's writes. *)

NextRowid(roll) ==
  1 + Max({0} \cup {roll[r].id : r \in {q \in RollKeys : roll[q] # None}})

(* One rollup delta: read the row, add, write it back or insert it. *)
applyRollupDeltas(roll, r, n) ==
  [roll EXCEPT ![r] = IF @ = None THEN [n |-> n, id |-> NextRowid(roll)]
                      ELSE [@ EXCEPT !.n = @ + n]]

RollKey(k, who) == <<TrcConn[k].at, who>>

(* A record enters the rollups the first time it is final. *)
Counts(k, open) == ~open /\ (trcRow[k] # None => trcRow[k].open)

(* A late open snapshot does not replace a final record. *)
Takes(k, open) == ~(open /\ trcRow[k] # None /\ (trcRow[k] # None => ~trcRow[k].open))

(* The records K of a batch, all open snapshots or all final, attributed as
   the read model is now; one transaction. *)
AppendRecords(K, open) ==
  LET taken == {k \in K : Takes(k, open)}
      counted == {k \in taken : Counts(k, open)}
      final == {k \in K : ~open /\ trcRow[k] # None /\ (trcRow[k] # None => ~trcRow[k].open)}
  IN
  /\ trcRow' = [k \in Conns |-> IF k \in taken THEN [open |-> open, who |-> attribute(k)]
                                ELSE trcRow[k]]
  /\ trcRoll' = FoldSet(LAMBDA k, roll : applyRollupDeltas(roll, RollKey(k, attribute(k)), 1),
                        trcRoll, counted)
  /\ trcFinal' = IF open THEN trcFinal ELSE trcFinal \cup K
  /\ trcMoved' = trcMoved \cup {k \in final : trcRow[k].who # attribute(k)}

LastSeq(s) == Max({0} \cup Range(trcLines[s]))

(* The lines of a batch the session does not hold yet. *)
FreshLines(s, ls) == SelectSeq(ls, LAMBDA l : trcLines[s][l] = 0)

(* Lines get the session's next numbers, under the write lock. *)
AppendLines(s, ls) ==
  LET fresh == FreshLines(s, ls) IN
  trcLines' = [trcLines EXCEPT ![s] =
    [l \in LineIds |-> IF l \in Range(fresh)
                       THEN LastSeq(s) + (CHOOSE i \in DOMAIN fresh : fresh[i] = l)
                       ELSE @[l]]]

-----------------------------------------------------------------------------
(* handleAgentTrace, in the steps other requests can come between. *)

(* A batch: the records K as open snapshots or as final, sent once or again,
   early or late.  Its lines' session must exist; then the node row is read
   for the batch's core generation. *)
handleAgentTrace(K, open, s, ls, gen) ==
  /\ trcReq = None
  /\ K \cap trcGone = {} \/ TrcLateResends
  /\ s = None <=> ls = <<>>
  /\ s # None => trcSess[s] # None
  /\ TrcSpend
  /\ trcReq' = [at |-> "gen", recs |-> K, open |-> open, s |-> s, ls |-> ls, gen |-> gen,
                node |-> trcNode, sess |-> None]
  /\ UNCHANGED <<trcTopo, trcRowVars, trcLines, trcSessVars, trcFix, trcNodeVars,
                 trcReadVars, trcGone>>

(* noteTraceCoreGeneration writes the whole node row when the generation is
   new; then the records are attributed and stored. *)
noteTraceCoreGeneration ==
  /\ trcReq # None
  /\ trcReq # None => trcReq.at = "gen"
  /\ trcNode' = IF trcReq.node.gen = trcReq.gen THEN trcNode
                ELSE [trcReq.node EXCEPT !.gen = trcReq.gen]
  /\ AppendRecords(trcReq.recs, trcReq.open)
  /\ trcReq' = [trcReq EXCEPT !.at = "lines"]
  /\ UNCHANGED <<trcTopo, trcLines, trcSessVars, trcFix, trcSrc, trcPol, trcReadVars,
                 trcGone, trcOps>>

(* The lines are stored, and the session is read for its counters. *)
BatchLines ==
  /\ trcReq # None
  /\ trcReq # None => trcReq.at = "lines"
  /\ IF trcReq.s = None THEN trcReq' = None /\ UNCHANGED trcLines
     ELSE /\ AppendLines(trcReq.s, trcReq.ls)
          /\ trcReq' = [trcReq EXCEPT !.at = "count", !.sess = trcSess[trcReq.s]]
  /\ UNCHANGED <<trcTopo, trcRowVars, trcSessVars, trcFix, trcNodeVars, trcReadVars,
                 trcGone, trcOps>>

(* The counted session is written back whole. *)
updateTraceSessionCounters ==
  /\ trcReq # None
  /\ trcReq # None => trcReq.at = "count"
  /\ trcSess' = [trcSess EXCEPT ![trcReq.s] =
                   [trcReq.sess EXCEPT !.lines = @ + Len(trcReq.ls)]]
  /\ trcReq' = None
  /\ UNCHANGED <<trcTopo, trcRowVars, trcLines, trcNew, trcFix, trcNodeVars,
                 trcReadVars, trcGone, trcOps>>

-----------------------------------------------------------------------------
(* Re-attribution. *)

(* A final record's count moves from the attribution its row holds. *)
MovedCount(k, who) ==
  applyRollupDeltas(applyRollupDeltas(trcRoll, RollKey(k, trcRow[k].who), -1),
                    RollKey(k, who), 1)

(* The sweep reads the final records without a user, and the read model. *)
reattributeUnresolved ==
  LET found == {k \in StoredConns : ~trcRow[k].open /\ trcRow[k].who = "" /\ attribute(k) # ""}
  IN
  /\ trcFix = None /\ found # {}
  /\ TrcSpend
  /\ trcFix' = [k \in found |-> attribute(k)]
  /\ UNCHANGED <<trcTopo, trcRowVars, trcLines, trcSessVars, trcReq, trcNodeVars,
                 trcReadVars, trcGone>>

(* Record by record: nothing if retention took it, else row and rollups move
   in one transaction. *)
Reattribute(k) ==
  /\ trcFix # None
  /\ trcFix # None => k \in DOMAIN trcFix
  /\ IF trcRow[k] = None THEN UNCHANGED <<trcRow, trcRoll>>
     ELSE /\ trcRow' = [trcRow EXCEPT ![k].who = trcFix[k]]
          /\ trcRoll' = IF trcRow[k].open THEN trcRoll ELSE MovedCount(k, trcFix[k])
  /\ trcFix' = IF DOMAIN trcFix = {k} THEN None
               ELSE [q \in DOMAIN trcFix \ {k} |-> trcFix[q]]
  /\ UNCHANGED <<trcTopo, trcFinal, trcMoved, trcLines, trcSessVars, trcReq,
                 trcNodeVars, trcReadVars, trcGone, trcOps>>

-----------------------------------------------------------------------------
(* Retention: one batch, which holds the lock, deletes the oldest rows.
   Records go first; lines go only when no record is left. *)

OldestConns(S) == {k \in S : \A q \in S : TrcConn[k].at <= TrcConn[q].at}

deleteOldest(k) ==
  /\ trcReq # None /\ ~TrcLateResends => k \notin trcReq.recs
  /\ trcRow' = [trcRow EXCEPT ![k] = None]
  /\ trcGone' = trcGone \cup {k}
  /\ trcPage' = IF trcPage = None THEN None ELSE [trcPage EXCEPT !.steady = @ \ {k}]
  /\ UNCHANGED trcLines

(* A full store gives up its oldest records, and a session's lines once no
   record is left. *)
evictToMaxBytes(t) ==
  /\ IF t = "records" THEN \E k \in OldestConns(StoredConns) : deleteOldest(k)
     ELSE /\ StoredConns = {}
          /\ \E s \in TrcSessions :
               /\ LastSeq(s) > 0
               /\ trcLines' = [trcLines EXCEPT ![s] = [l \in LineIds |-> 0]]
          /\ UNCHANGED <<trcRow, trcGone, trcPage>>
  /\ TrcSpend
  /\ UNCHANGED <<trcTopo, trcRoll, trcFinal, trcMoved, trcSessVars, trcReq, trcFix, trcNodeVars,
                 trcTail>>

-----------------------------------------------------------------------------
(* Capture sessions and the trace policy. *)

ActiveTraceSessions ==
  {s \in TrcSessions : trcSess[s] # None /\ (trcSess[s] # None => trcSess[s].state = "running")}

(* The caps are read before the session is written, without a lock. *)
createTraceSession(s) ==
  /\ trcSess[s] = None /\ s \notin trcNew
  /\ Cardinality(ActiveTraceSessions) < TrcMaxActive
  /\ TrcSpend
  /\ trcNew' = trcNew \cup {s}
  /\ UNCHANGED <<trcTopo, trcRowVars, trcLines, trcSess, trcReq, trcFix, trcNodeVars,
                 trcReadVars, trcGone>>

UpsertTraceSession(s) ==
  /\ s \in trcNew
  /\ trcSess' = [trcSess EXCEPT ![s] = [state |-> "running", lines |-> 0]]
  /\ trcNew' = trcNew \ {s}
  /\ UNCHANGED <<trcTopo, trcRowVars, trcLines, trcReq, trcFix, trcNodeVars,
                 trcReadVars, trcGone, trcOps>>

(* A running session is stopped by its operator, or expires when the list is
   next read. *)
EndSession(s, state) ==
  /\ s \in ActiveTraceSessions
  /\ TrcSpend
  /\ trcSess' = [trcSess EXCEPT ![s].state = state]
  /\ UNCHANGED <<trcTopo, trcRowVars, trcLines, trcNew, trcReq, trcFix, trcNodeVars,
                 trcReadVars, trcGone>>

handleTraceSessionStop(s) == EndSession(s, "stopped")

ExpireTraceSessions(s) == EndSession(s, "expired")

(* A policy change reads the node row, and sets the log source to follow it. *)
handleTracePolicy(raw) ==
  /\ trcPol = None
  /\ TrcSpend
  /\ trcPol' = [trcNode EXCEPT !.raw = raw]
  /\ trcSrc' = raw
  /\ UNCHANGED <<trcTopo, trcRowVars, trcLines, trcSessVars, trcReq, trcFix, trcNode,
                 trcReadVars, trcGone>>

(* Then the whole row is written. *)
PolicyWrites ==
  /\ trcPol # None
  /\ trcNode' = trcPol
  /\ trcPol' = None
  /\ UNCHANGED <<trcTopo, trcRowVars, trcLines, trcSessVars, trcReq, trcFix, trcSrc,
                 trcReadVars, trcGone, trcOps>>

-----------------------------------------------------------------------------
(* Reads. *)

(* compareRecord: newest first is the reverse of this order. *)
compareRecord(k, q) == \/ TrcConn[k].at < TrcConn[q].at
                       \/ TrcConn[k].at = TrcConn[q].at /\ k < q

(* The keyset cursor: the whole key of the last row returned (0: none). *)
AfterCursor(k, cursor) == cursor # 0 => compareRecord(k, cursor)

NewestFirst(S) == SetToSortSeq(S, LAMBDA k, q : compareRecord(q, k))

(* One page, and whether a row follows it. *)
QueryRecords(all, cursor, limit) ==
  LET hits == NewestFirst({k \in StoredConns : /\ all \/ ~trcRow[k].open
                                               /\ AfterCursor(k, cursor)})
  IN [rows |-> SubSeq(hits, 1, IF Len(hits) > limit THEN limit ELSE Len(hits)),
      more |-> Len(hits) > limit]

StartRead(all, limit) ==
  /\ trcPage = None
  /\ TrcSpend
  /\ trcPage' = [all |-> all, limit |-> limit, cursor |-> 0, got |-> <<>>, read |-> [k \in Conns |-> None],
                 steady |-> {k \in StoredConns : all \/ ~trcRow[k].open},
                 pages |-> 0, at |-> "reading", complete |-> FALSE]
  /\ UNCHANGED <<trcTopo, trcRowVars, trcLines, trcSessVars, trcReq, trcFix, trcNodeVars,
                 trcTail, trcGone>>

(* handleTraceHops pages until no row follows, or its pages are used up. *)
ReadPage ==
  /\ trcPage # None
  /\ trcPage # None => trcPage.at = "reading"
  /\ LET page == QueryRecords(trcPage.all, trcPage.cursor, trcPage.limit)
         pages == trcPage.pages + 1
     IN trcPage' = [trcPage EXCEPT
          !.got = @ \o page.rows,
          !.read = [k \in Conns |-> IF k \in Range(page.rows) THEN trcRow[k] ELSE @[k]],
          !.cursor = IF page.rows = <<>> THEN @ ELSE Last(page.rows),
          !.pages = pages,
          !.complete = ~page.more,
          !.at = IF page.more /\ pages < TrcMaxPages THEN "reading" ELSE "done"]
  /\ UNCHANGED <<trcTopo, trcRowVars, trcLines, trcSessVars, trcReq, trcFix, trcNodeVars,
                 trcTail, trcGone, trcOps>>

ReadAnswered ==
  /\ trcPage # None
  /\ trcPage # None => trcPage.at = "done"
  /\ trcPage' = None
  /\ UNCHANGED <<trcTopo, trcRowVars, trcLines, trcSessVars, trcReq, trcFix, trcNodeVars,
                 trcTail, trcGone, trcOps>>

(* A follower asks for the lines past its cursor. *)
QueryLines(s) ==
  LET fresh == {l \in LineIds : trcLines[s][l] > trcTail.after} IN
  /\ fresh # {}
  /\ TrcSpend
  /\ trcTail' = [after |-> LastSeq(s), seen |-> trcTail.seen \cup fresh]
  /\ UNCHANGED <<trcTopo, trcRowVars, trcLines, trcSessVars, trcReq, trcFix, trcNodeVars,
                 trcPage, trcGone>>

-----------------------------------------------------------------------------
(* The rollup series: the table is scanned in parts by several workers, by
   row id or by time, and the parts are added. *)

ScanRanges(from, to) ==
  LET parts == Min({TrcWorkers, to - from})
      width == (to - from + parts - 1) \div parts
  IN {[from |-> from + i * width, to |-> Min({from + (i + 1) * width, to})] :
        i \in 0..(parts - 1)}

(* scanRollupSeries: the part's rows of one key inside the window. *)
scanRollupSeries(who, byRowid, since, until, range) ==
  {b \in Buckets :
     /\ b >= since /\ b < until /\ trcRoll[<<b, who>>] # None
     /\ trcRoll[<<b, who>>] # None =>
          LET at == IF byRowid THEN trcRoll[<<b, who>>].id ELSE b
          IN range.from <= at /\ at < range.to}

RollupSeries(who, byRowid, since, until) ==
  LET held == {r \in RollKeys : trcRoll[r] # None}
      heldAt == {r[1] : r \in held}
      ids == {trcRoll[r].id : r \in held}
      lo == Max({since, Min(heldAt)})
      hi == Min({until, Max(heldAt) + 1})
      ranges == IF byRowid THEN ScanRanges(Min(ids), Max(ids) + 1) ELSE ScanRanges(lo, hi)
      part(range) == FoldSet(LAMBDA b, acc : acc + trcRoll[<<b, who>>].n, 0,
                             scanRollupSeries(who, byRowid, since, until, range))
  IN IF held = {} \/ (held # {} => lo >= hi) THEN 0
     ELSE FoldSet(LAMBDA range, acc : acc + part(range), 0, ranges)

-----------------------------------------------------------------------------
(* Stitching: rows maps each record read to [open, who], or None. *)

LineOf(rows, k) == IF rows[k].who = "" THEN "" ELSE TrcConn[k].line

edgeAllows(rows, p, q) ==
  /\ LineOf(rows, p) # "" /\ LineOf(rows, q) # ""
  /\ <<LineOf(rows, p), LineOf(rows, q)>> \in TrcEdges

withinWindow(p, q) == TrcConn[q].at \in TrcConn[p].at..(TrcConn[p].at + TrcWindow)

dialedFrom(p, q) == TrcConn[q].src \in TrcIPs[TrcConn[p].node]

flowEvidence(p, q) == dialedFrom(p, q) /\ TrcConn[p].dst = TrcConn[q].dst

(* The records that may be the next hop of p: of the same user if any is,
   otherwise by destination and dialling address alone. *)
candidatesFor(rows, p) ==
  LET R == {k \in Conns : rows[k] # None}
      hops == {q \in R \ {p} : edgeAllows(rows, p, q) /\ withinWindow(p, q) /\ flowEvidence(p, q)}
      sameUser == {q \in hops : rows[p].who # "" /\ rows[q].who = rows[p].who}
  IN IF sameUser # {} THEN sameUser ELSE hops

(* Mutant: a next hop claimed by two records is accepted from both. *)
AcceptedUnclaimed(rows, p) == Cardinality(candidatesFor(rows, p)) = 1

(* A hop is accepted when it is the only candidate and nobody else's only
   candidate. *)
Accepted(rows, p) ==
  LET R == {k \in Conns : rows[k] # None} IN
  /\ Cardinality(candidatesFor(rows, p)) = 1
  /\ \A q \in R \ {p} : candidatesFor(rows, q) # candidatesFor(rows, p)

NextHop(rows, p) == CHOOSE q \in candidatesFor(rows, p) : TRUE

(* The path from a head: accepted hops, to the end or back to a record
   already on it. *)
foldPath(rows, head) ==
  LET f[n \in 0..Cardinality(Conns)] ==
        IF n = 0 THEN <<head>>
        ELSE LET path == f[n - 1]
                 last == Last(path)
             IN IF Accepted(rows, last) /\ NextHop(rows, last) \notin Range(path)
                THEN Append(path, NextHop(rows, last)) ELSE path
  IN f[Cardinality(Conns)]

(* Heads are the records no accepted hop enters; what is left is cycles,
   each opened at its least record. *)
Stitch(rows) ==
  LET R == {k \in Conns : rows[k] # None}
      inbound == {NextHop(rows, p) : p \in {q \in R : Accepted(rows, q)}}
      open == {foldPath(rows, h) : h \in R \ inbound}
      rest == R \ UNION {Range(path) : path \in open}
  IN open \cup {foldPath(rows, h) : h \in {k \in rest :
                  \A q \in Range(foldPath(rows, k)) \ {k} : compareRecord(k, q)}}

(* What handleTraceHops says of a path: ambiguous where the path stops at
   several candidates or at one claimed twice, or not every page was read. *)
Confidence(page, path) ==
  IF \/ ~page.complete
     \/ candidatesFor(page.read, Last(path)) # {} /\ ~Accepted(page.read, Last(path))
  THEN "ambiguous" ELSE IF Len(path) > 1 THEN "inferred" ELSE "none"

-----------------------------------------------------------------------------
TrcNext ==
  \/ traceTopology
  \/ \E k \in Conns : Reattribute(k)
  \/ \E K \in TrcUploads, open \in BOOLEAN, s \in Maybe(TrcSessions),
        ls \in TrcBatches \cup {<<>>}, gen \in TrcGens : handleAgentTrace(K, open, s, ls, gen)
  \/ noteTraceCoreGeneration
  \/ BatchLines
  \/ updateTraceSessionCounters
  \/ reattributeUnresolved
  \/ \E t \in TrcEvicts : evictToMaxBytes(t)
  \/ \E s \in TrcSessions : \/ createTraceSession(s)
                            \/ UpsertTraceSession(s)
                            \/ handleTraceSessionStop(s)
                            \/ ExpireTraceSessions(s)
                            \/ QueryLines(s)
  \/ \E raw \in BOOLEAN : handleTracePolicy(raw)
  \/ PolicyWrites
  \/ \E all \in BOOLEAN, limit \in TrcPageSizes : StartRead(all, limit)
  \/ ReadPage
  \/ ReadAnswered

TrcSpec == TrcInit /\ [][TrcNext]_trcVars

-----------------------------------------------------------------------------
(* Properties. *)

(* Types of the trace store, the sessions and the handlers in progress. *)
TrcTypeOK ==
  /\ trcTopo \in BOOLEAN /\ trcSrc \in BOOLEAN
  /\ trcRow \in [Conns -> Maybe([open : BOOLEAN, who : Whos])]
  /\ \A r \in RollKeys : trcRoll[r] = None \/ (trcRoll[r].n \in Int /\ trcRoll[r].id \in Nat \ {0})
  /\ trcLines \in [TrcSessions -> [LineIds -> 0..Cardinality(LineIds)]]
  /\ \A s \in TrcSessions : trcSess[s] = None
       \/ (trcSess[s].state \in {"running", "stopped", "expired"} /\ trcSess[s].lines \in Nat)
  /\ trcFinal \subseteq Conns /\ trcGone \subseteq Conns /\ trcMoved \subseteq Conns

RollCount(r) == IF trcRoll[r] = None THEN 0 ELSE trcRoll[r].n

RollTotal(b) == FoldSet(LAMBDA w, acc : acc + RollCount(<<b, w>>), 0, Whos)

FinalAt(b) == {k \in trcFinal : TrcConn[k].at = b}

(* Each connection whose final record was stored is counted exactly once in
   its bucket, however often the batch arrived and wherever its count moved. *)
CountedOnce == \A b \in Buckets : RollTotal(b) = Cardinality(FinalAt(b))

(* While retention has deleted nothing and no resend changed an attribution,
   the rollup of each user says what that user's final records say. *)
RollupsAgree ==
  trcGone = {} /\ trcMoved = {} =>
    \A r \in RollKeys : RollCount(r) =
      Cardinality({k \in StoredConns : ~trcRow[k].open /\ RollKey(k, trcRow[k].who) = r})

(* The same without the exceptions: what Reattribute's comment promises. *)
\* TLC refutes it (README.md, section 6).
RollupsAgreeAlways ==
  trcGone = {} =>
    \A r \in RollKeys : RollCount(r) =
      Cardinality({k \in StoredConns : ~trcRow[k].open /\ RollKey(k, trcRow[k].who) = r})

(* A session's stored lines are numbered 1, 2, ... without a repeat, and a
   follower has every line up to its cursor. *)
LinesFollowable ==
  \A s \in TrcSessions :
    LET held == {l \in LineIds : trcLines[s][l] > 0} IN
    /\ {trcLines[s][l] : l \in held} = 1..Cardinality(held)
    /\ \A l \in held : trcLines[s][l] <= trcTail.after => l \in trcTail.seen

(* A read that ran to the end returned every row that was there throughout,
   once, newest first, whatever was stored or deleted between its pages. *)
PagesWhole ==
  trcPage # None => LET got == trcPage.got IN
    /\ \A i, j \in DOMAIN got : i < j => compareRecord(got[j], got[i])
    /\ trcPage.at = "done" /\ trcPage.complete => trcPage.steady \subseteq Range(got)

(* The hop paths of what was read: every record is on exactly one path, each
   hop has its evidence, and a hop reported as inferred has no rival among
   the rows that were there throughout. *)
StitchSound ==
  trcPage # None /\ (trcPage # None => trcPage.at = "done") =>
    LET rows == trcPage.read
        R == {k \in Conns : rows[k] # None}
        paths == Stitch(rows)
        hop(p, q) == edgeAllows(rows, p, q) /\ withinWindow(p, q) /\ flowEvidence(p, q)
    IN /\ \A k \in R : Cardinality({path \in paths : k \in Range(path)}) = 1
       /\ \A path \in paths : \A i \in 1..(Len(path) - 1) : hop(path[i], path[i + 1])
       /\ \A path \in paths : Confidence(trcPage, path) = "inferred" =>
            (trcPage.all => trcPage.steady \subseteq R)

(* Adding up the parts of a scan, by row id or by time, gives the sum of the
   rows of the window: no row is missed and none is counted twice. *)
SeriesWhole ==
  \A who \in Whos, byRowid \in BOOLEAN, since \in Buckets, until \in {b + 1 : b \in Buckets} :
    since < until =>
      RollupSeries(who, byRowid, since, until) =
        FoldSet(LAMBDA b, acc : acc + RollCount(<<b, who>>), 0,
                {b \in Buckets : b >= since /\ b < until})

(* A final record is never replaced by an open one. *)
FinalStays ==
  [][\A k \in StoredConns : ~trcRow[k].open /\ trcRow'[k] # None => ~trcRow'[k].open]_trcVars

(* The trace store is sound: rows, rollups, lines, pages, stitched paths and series tell of every connection once,
   whatever uploads, resends, re-attributions and evictions interleave. *)
TraceSound ==
  TrcTypeOK /\ CountedOnce /\ RollupsAgree /\ LinesFollowable /\ PagesWhole /\ StitchSound /\ SeriesWhole

(* A stopped capture stays stopped. *)
\* TLC refutes it (README.md, section 6).
StoppedStays ==
  [][\A s \in TrcSessions : trcSess[s] # None /\ (trcSess[s] # None => trcSess[s].state = "stopped")
       => trcSess'[s].state = "stopped"]_trcVars

(* The caps on running captures hold. *)
\* TLC refutes it (README.md, section 6).
SessionsCapped == Cardinality(ActiveTraceSessions) <= TrcMaxActive

(* With no policy change in progress, the log source follows the policy. *)
\* TLC refutes it (README.md, section 6).
SourceFollowsPolicy == trcPol = None => trcSrc = trcNode.raw
=============================================================================
