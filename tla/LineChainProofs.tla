---------------------------- MODULE LineChainProofs ----------------------------
(***************************************************************************)
(* LineChain for every set of lines, nodes and approvals: its records      *)
(* agree, the hosts never forward in a circle, and it implements LineGraph.*)
(***************************************************************************)
EXTENDS LineChain, FiniteSetTheorems, TLAPS

-----------------------------------------------------------------------------
(* The inductive invariant.                                                *)

Open(p) == p # None /\ p.status # "failed"
Applying(p) == p # None /\ p.status = "applying"

\* What compiling a change fixes about it.
Reviewed(p) ==
    p # None => /\ p.op = "remove" <=> p.target = None
                /\ p.frag # None <=> p.target # None
                /\ p.art.desired = p.target

\* The attempt, the approval, the task, the agent's journal and the request of
\* one change.
RowOK(p, ap, tk, jb, dr) ==
    /\ Reviewed(p) /\ Reviewed(dr)
    /\ p # None => p.status # "compiled"
    /\ dr # None => ap = None /\ dr.status = "compiled" /\ ~dr.issued
    /\ ap = None => p = None /\ tk = None /\ jb = None
    /\ ap = "pending" => p # None /\ p.status = "planned"
    /\ ap = "applied" => tk = "finished" /\ p = None
    /\ tk \in {"queued", "leased"} => Applying(p)
    /\ p # None /\ p.status = "planned" => ap = "pending" /\ tk = None /\ jb = None /\ ~p.issued
    /\ Applying(p) => /\ ap = "approved" /\ tk \in {"queued", "leased"} /\ (p.issued <=> tk = "leased")
    /\ tk = "queued" => jb = None
    /\ tk = "leased" => jb \in {"held", "ok", "failed"}
    /\ jb = "held" => tk = "leased"

Row(a) == RowOK(attempt[a], chainApproval[a], chainTask[a], job[a], draft[a])

\* A definition, and the one a line has that no change was committed for.
DefOK(d) ==
    /\ d.status = "drifted" <=> d.drift # ""
    /\ d.frag # None <=> d.target # None
    /\ d.gen = 0 => d = NoDef

ChainShape ==
    /\ chainNodes \subseteq {NodeOf[l] : l \in Lines}
    /\ seen \in [Lines -> Lines \cup {None, Unlisted}] /\ host \in [Lines -> Maybe(Lines)]
    /\ managed \in [Lines -> Maybe(Nat)] /\ graphRev \in Nat
    /\ chainDef \in [Lines -> Definition]
    /\ attempt \in [ChainApprovals -> Maybe(Attempt)] /\ draft \in [ChainApprovals -> Maybe(Attempt)]
    /\ chainApproval \in [ChainApprovals -> Maybe(ApprovalStatus)]
    /\ chainTask \in [ChainApprovals -> Maybe(ChainTaskStatus)]
    /\ job \in [ChainApprovals -> Maybe(JobStatus)]
    /\ checked \subseteq ChainApprovals /\ handEdited \subseteq Lines

\* At most one change of a line is open, and it was compiled from the line's
\* present definition.
OneOpen == \A a, b \in ChainApprovals :
    Open(attempt[a]) /\ Open(attempt[b]) /\ attempt[a].source = attempt[b].source => a = b

Based == \A a \in ChainApprovals :
    Open(attempt[a]) => attempt[a].baseGen = chainDef[attempt[a].source].gen

\* Committed downstreams and those being applied together have no loop.
NoLoop == ~Graph!Loops(Edges(chainDef, attempt))

\* The change that a host has applied and the server has not committed yet.
Ahead(a, l) ==
    /\ Applying(attempt[a]) /\ attempt[a].issued /\ job[a] = "ok"
    /\ attempt[a].source = l /\ attempt[a].target = host[l]

HostInv ==
    handEdited = {} =>
        \A l \in Lines : NodeOf[l] \in chainNodes =>
            /\ host[l] = chainDef[l].target \/ \E a \in ChainApprovals : Ahead(a, l)
            /\ \A a \in ChainApprovals :
                 Applying(attempt[a]) /\ job[a] = "ok" /\ attempt[a].source = l => attempt[a].target = host[l]

ChainInv ==
    /\ ChainShape
    /\ \A a \in ChainApprovals : Row(a)
    /\ \A l \in Lines : DefOK(chainDef[l])
    /\ OneOpen /\ Based /\ NoLoop /\ HostInv

-----------------------------------------------------------------------------
(* One change, through its life.                                           *)

\* Nothing is no status and no attempt.
LEMMA NotNone ==
  /\ \A p \in Attempt : p # None
  /\ \A l \in Lines : l # None /\ \A v \in Nat : <<l, v>> # None
  /\ None \notin {"pending", "approved", "applied", "rejected"}
  /\ None \notin {"queued", "leased", "cancelled", "finished"}
  /\ None \notin {"held", "ok", "failed", "done"}
<1>1. \A p \in Attempt : p # None
  BY NoneAssumption, Zenon
<1>2. \A l \in Lines : l # None
  BY NoneAssumption, Zenon
<1>3. \A l \in Lines : \A v \in Nat : <<l, v>> # None
  BY NoneAssumption
<1>4. None \notin {"pending", "approved", "applied", "rejected"}
  BY NoneAssumption, Zenon DEF ApprovalStatus
<1>5. None \notin {"queued", "leased", "cancelled", "finished"}
  BY NoneAssumption, Zenon DEF ChainTaskStatus
<1>6. None \notin {"held", "ok", "failed", "done"}
  BY NoneAssumption, Zenon DEF JobStatus
<1> QED
  BY <1>1, <1>2, <1>3, <1>4, <1>5, <1>6, Zenon

\* Changing the status of an attempt changes nothing else.
LEMMA Restated ==
  ASSUME NEW p \in Attempt, NEW st \in {"compiled", "planned", "applying", "failed"},
         NEW q, q = [p EXCEPT !.status = st]
  PROVE  /\ q \in Attempt /\ q.status = st /\ q.op = p.op /\ q.source = p.source /\ q.target = p.target
         /\ q.baseGen = p.baseGen /\ q.frag = p.frag /\ q.art = p.art /\ q.issued = p.issued
BY DEF Attempt

\* Leasing an attempt changes nothing else of it.
LEMMA Issued ==
  ASSUME NEW p \in Attempt, NEW q, q = [p EXCEPT !.issued = TRUE]
  PROVE  /\ q \in Attempt /\ q.issued /\ q.op = p.op /\ q.source = p.source /\ q.target = p.target
         /\ q.baseGen = p.baseGen /\ q.frag = p.frag /\ q.art = p.art /\ q.status = p.status
BY Zenon DEF Attempt

\* A request enters the empty row of its approval.
LEMMA RowCompiled ==
  ASSUME NEW p, NEW tk, NEW jb, NEW c \in Attempt, RowOK(p, None, tk, jb, None),
         Reviewed(c), c.status = "compiled", ~c.issued
  PROVE  RowOK(p, None, tk, jb, c)
BY DEF RowOK

\* A request may be dropped at any time.
LEMMA RowDropped ==
  ASSUME NEW p, NEW ap, NEW tk, NEW jb, NEW dr, RowOK(p, ap, tk, jb, dr)
  PROVE  RowOK(p, ap, tk, jb, None)
BY DEF RowOK, Reviewed

\* Planning turns the request into a planned attempt with a pending approval.
LEMMA RowPlanned ==
  ASSUME NEW p, NEW ap, NEW tk, NEW jb, NEW dr \in Attempt, RowOK(p, ap, tk, jb, dr),
         NEW q, q = [dr EXCEPT !.status = "planned"]
  PROVE  RowOK(q, "pending", tk, jb, None)
BY NotNone, Restated DEF RowOK, Reviewed, Applying

\* A failed attempt may be forgotten.
LEMMA RowForgotten ==
  ASSUME NEW p \in Attempt, NEW ap, NEW tk, NEW jb, NEW dr, RowOK(p, ap, tk, jb, dr), p.status = "failed"
  PROVE  RowOK(None, ap, tk, jb, dr)
BY NotNone DEF RowOK, Reviewed, Applying

\* Rejecting a planned attempt leaves no task behind.
LEMMA RowRejected ==
  ASSUME NEW p \in Attempt, NEW ap, NEW tk, NEW jb, NEW dr, RowOK(p, ap, tk, jb, dr), p.status = "planned",
         NEW q, q = [p EXCEPT !.status = "failed"]
  PROVE  tk = None /\ RowOK(q, "rejected", tk, jb, dr)
BY NotNone, Restated DEF RowOK, Reviewed, Applying

\* Approving queues the task.
LEMMA RowApproved ==
  ASSUME NEW p \in Attempt, NEW ap, NEW tk, NEW jb, NEW dr, RowOK(p, ap, tk, jb, dr), p.status = "planned",
         NEW q, q = [p EXCEPT !.status = "applying"]
  PROVE  RowOK(q, "approved", "queued", jb, dr)
BY NotNone, Restated DEF RowOK, Reviewed, Applying

\* An attempt found stale before its lease is rejected and its task cancelled.
LEMMA RowStale ==
  ASSUME NEW p \in Attempt, NEW ap, NEW jb, NEW dr, RowOK(p, ap, "queued", jb, dr),
         NEW q, q = [p EXCEPT !.status = "failed"]
  PROVE  RowOK(q, "rejected", "cancelled", jb, dr)
BY NotNone, Restated DEF RowOK, Reviewed, Applying

\* The lease hands the script to the agent for the first time.
LEMMA RowLeased ==
  ASSUME NEW p \in Attempt, NEW ap, NEW jb, NEW dr, RowOK(p, ap, "queued", jb, dr),
         NEW q, q = [p EXCEPT !.issued = TRUE]
  PROVE  jb = None /\ RowOK(q, ap, "leased", "held", dr)
BY NotNone, Issued DEF RowOK, Reviewed, Applying

\* The agent runs only a script that is leased and still being applied.
LEMMA RowRun ==
  ASSUME NEW p, NEW ap, NEW tk, NEW dr, RowOK(p, ap, tk, "held", dr), NEW jb \in {"ok", "failed"}
  PROVE  tk = "leased" /\ Applying(p) /\ p.issued /\ RowOK(p, ap, tk, jb, dr)
BY NotNone DEF RowOK, Reviewed, Applying

\* A committed change is done and its attempt gone.
LEMMA RowApplied ==
  ASSUME NEW p, NEW ap, NEW tk, NEW dr, RowOK(p, ap, tk, "ok", dr), ap # None
  PROVE  RowOK(None, "applied", "finished", "ok", dr)
BY NotNone DEF RowOK, Reviewed, Applying

\* A failed script leaves a failed attempt and a finished task.
LEMMA RowFailed ==
  ASSUME NEW p \in Attempt, NEW dr, RowOK(p, "approved", "leased", "failed", dr),
         NEW q, q = [p EXCEPT !.status = "failed"]
  PROVE  RowOK(q, "approved", "finished", "failed", dr)
BY NotNone, Restated DEF RowOK, Reviewed, Applying

\* The agent forgets its result only when the task is finished.
LEMMA RowDone ==
  ASSUME NEW p, NEW ap, NEW jb, NEW dr, RowOK(p, ap, "finished", jb, dr)
  PROVE  ~Applying(p) /\ RowOK(p, ap, "finished", "done", dr)
BY NotNone DEF RowOK, Reviewed, Applying

\* An attempt that is not at an agent may be released.
LEMMA RowReleased ==
  ASSUME NEW p \in Attempt, NEW ap, NEW tk, NEW jb, NEW dr, RowOK(p, ap, tk, jb, dr),
         ~(p.issued /\ p.status # "failed"), NEW tk2, tk2 = IF tk # None THEN "cancelled" ELSE tk
  PROVE  RowOK(None, "rejected", tk2, jb, dr)
BY NotNone DEF RowOK, Reviewed, Applying

-----------------------------------------------------------------------------
(* The graph.                                                              *)

\* A committed downstream is an edge of the graph.
LEMMA EdgeOfDefinition ==
  ASSUME NEW defs, NEW atts, NEW l \in Lines, defs[l].target # None
  PROVE  <<l, defs[l].target>> \in Edges(defs, atts)
BY DEF Edges

\* A change being applied is an edge of the graph.
LEMMA EdgeOfAttempt ==
  ASSUME NEW defs, NEW atts, NEW a \in ChainApprovals, Applying(atts[a]), atts[a].target # None
  PROVE  <<atts[a].source, atts[a].target>> \in Edges(defs, atts)
BY DEF Edges, Applying

\* Every edge comes from a definition or from a change being applied.
LEMMA EdgesAre ==
  ASSUME NEW defs, NEW atts, NEW e \in Edges(defs, atts)
  PROVE  \/ \E l \in Lines : defs[l].target # None /\ e = <<l, defs[l].target>>
         \/ \E a \in ChainApprovals : /\ Applying(atts[a]) /\ atts[a].target # None
                                      /\ e = <<atts[a].source, atts[a].target>>
BY DEF Edges, Applying

\* Fewer edges close no loop.
LEMMA LoopsMonotone ==
  ASSUME NEW E, NEW F, E \subseteq F, ~Graph!Loops(F)
  PROVE  ~Graph!Loops(E)
BY Zenon DEF Graph!Loops

\* A step whose downstreams and changes were all counted before closes no loop.
LEMMA NoLoopKept ==
  ASSUME NoLoop,
         \A l \in Lines : chainDef'[l].target # None =>
            <<l, chainDef'[l].target>> \in Edges(chainDef, attempt),
         \A a \in ChainApprovals : Applying(attempt'[a]) /\ attempt'[a].target # None =>
            <<attempt'[a].source, attempt'[a].target>> \in Edges(chainDef, attempt)
  PROVE  NoLoop'
<1>1. Edges(chainDef', attempt') \subseteq Edges(chainDef, attempt)
  <2> SUFFICES ASSUME NEW e \in Edges(chainDef', attempt') PROVE e \in Edges(chainDef, attempt)
    BY Zenon
  <2>1. \/ \E l \in Lines : chainDef'[l].target # None /\ e = <<l, chainDef'[l].target>>
        \/ \E a \in ChainApprovals : /\ Applying(attempt'[a]) /\ attempt'[a].target # None
                                     /\ e = <<attempt'[a].source, attempt'[a].target>>
    BY EdgesAre
  <2> QED
    BY <2>1, Zenon
<1>2. ~Graph!Loops(Edges(chainDef', attempt'))
  BY <1>1, LoopsMonotone, Zenon DEF NoLoop
<1> QED
  BY <1>2 DEF NoLoop, Edges, Graph!Loops

\* In particular one that takes downstreams and changes away.
LEMMA EdgesTaken ==
  ASSUME NoLoop, \A l \in Lines : chainDef'[l].target # None => chainDef'[l].target = chainDef[l].target,
         \A a \in ChainApprovals : Applying(attempt'[a]) =>
            /\ Applying(attempt[a]) /\ attempt'[a].source = attempt[a].source
            /\ attempt'[a].target = attempt[a].target
  PROVE  NoLoop'
<1>1. \A l \in Lines : chainDef'[l].target # None => <<l, chainDef'[l].target>> \in Edges(chainDef, attempt)
  BY EdgeOfDefinition, Zenon
<1>2. \A a \in ChainApprovals : Applying(attempt'[a]) /\ attempt'[a].target # None =>
        <<attempt'[a].source, attempt'[a].target>> \in Edges(chainDef, attempt)
  BY EdgeOfAttempt, Zenon
<1> QED
  BY <1>1, <1>2, NoLoopKept, Zenon

\* q is what became of an attempt p that was not planned anew.
Carries(q, p) ==
    Open(q) => /\ Open(p) /\ q.source = p.source /\ q.target = p.target /\ q.baseGen = p.baseGen

\* An open change that is only carried on stays the only one, with its base.
LEMMA OpenKept ==
  ASSUME OneOpen, Based, \A a \in ChainApprovals : Carries(attempt'[a], attempt[a]),
         \A a \in ChainApprovals : Open(attempt'[a]) =>
            chainDef'[attempt[a].source].gen = chainDef[attempt[a].source].gen
  PROVE  OneOpen' /\ Based'
<1>1. OneOpen'
  BY ZenonT(40) DEF OneOpen, Carries, Open
<1>2. Based'
  BY Zenon DEF Based, Carries, Open
<1> QED
  BY <1>1, <1>2

\* Steps that leave the hosts and the changes they have applied.
LEMMA HostKept ==
  ASSUME HostInv, UNCHANGED <<host, handEdited>>, chainNodes' \subseteq chainNodes,
         \A l \in Lines : NodeOf[l] \in chainNodes' => chainDef'[l].target = chainDef[l].target,
         \A a \in ChainApprovals :
            \/ Applying(attempt'[a]) /\ job'[a] = "ok"
            \/ Applying(attempt[a]) /\ attempt[a].issued /\ job[a] = "ok"
            => attempt'[a] = attempt[a] /\ job'[a] = job[a]
  PROVE  HostInv'
<1> SUFFICES ASSUME handEdited = {}, NEW l \in Lines, NodeOf[l] \in chainNodes'
             PROVE  /\ host[l] = chainDef[l].target \/ \E a \in ChainApprovals : Ahead(a, l)'
                    /\ \A a \in ChainApprovals :
                         Applying(attempt'[a]) /\ job'[a] = "ok" /\ attempt'[a].source = l
                            => attempt'[a].target = host[l]
  BY Zenon DEF HostInv, Applying
<1>1. /\ host[l] = chainDef[l].target \/ \E a \in ChainApprovals : Ahead(a, l)
      /\ \A a \in ChainApprovals :
            Applying(attempt[a]) /\ job[a] = "ok" /\ attempt[a].source = l => attempt[a].target = host[l]
  BY Zenon DEF HostInv
<1>2. \A a \in ChainApprovals : Ahead(a, l) => Ahead(a, l)'
  BY Zenon DEF Ahead, Applying
<1> QED
  BY <1>1, <1>2, Zenon

-----------------------------------------------------------------------------
(* Every action keeps the invariant.                                       *)

\* What the invariant says of the row of an approval.
LEMMA RowOf ==
  ASSUME ChainInv, NEW a \in ChainApprovals
  PROVE  /\ RowOK(attempt[a], chainApproval[a], chainTask[a], job[a], draft[a])
         /\ attempt[a] # None => attempt[a] \in Attempt
         /\ draft[a] # None => draft[a] \in Attempt
<1>1. attempt[a] \in Maybe(Attempt) /\ draft[a] \in Maybe(Attempt)
  BY DEF ChainInv, ChainShape
<1> QED
  BY <1>1, Zenon DEF ChainInv, Row, Maybe

\* The fields of an attempt.
LEMMA AttemptFields ==
  ASSUME NEW p \in Attempt
  PROVE  /\ p.source \in Lines /\ p.target \in Maybe(Lines) /\ p.baseGen \in Nat
         /\ p.frag \in Fragment /\ p.art \in Artifacts /\ p.art.desired \in Maybe(Lines)
         /\ p.status \in {"compiled", "planned", "applying", "failed"} /\ p.issued \in BOOLEAN
BY DEF Attempt, Artifacts

\* The step leaves what is recorded about a change.
Untouched(a) ==
    /\ attempt'[a] = attempt[a] /\ chainApproval'[a] = chainApproval[a] /\ chainTask'[a] = chainTask[a]
    /\ job'[a] = job[a] /\ draft'[a] = draft[a]

\* A step that leaves a row alone keeps what the invariant says of it.
LEMMA RowUntouched ==
  ASSUME ChainInv, NEW a \in ChainApprovals, Untouched(a)
  PROVE  Row(a)'
BY RowOf, Zenon DEF Untouched, Row

\* Unchanged definitions stay sound.
LEMMA DefinitionsStay ==
  ASSUME ChainInv, UNCHANGED chainDef
  PROVE  \A l \in Lines : DefOK(chainDef[l])'
BY Zenon DEF ChainInv

\* Unchanged attempts and definitions keep the graph and what is open.
LEMMA AttemptsStay ==
  ASSUME ChainInv, UNCHANGED <<chainDef, attempt>>
  PROVE  OneOpen' /\ Based' /\ NoLoop' /\ \A l \in Lines : DefOK(chainDef[l])'
BY Zenon DEF ChainInv, OneOpen, Based, NoLoop

\* The record a compile builds is an attempt.
LEMMA AttemptBuilt ==
  ASSUME NEW op \in {"set", "remove"}, NEW s \in Lines, NEW d \in Maybe(Lines), NEW g \in Nat,
         NEW ba \in Maybe(Artifacts), NEW f \in Fragment, NEW x \in Artifacts, NEW r \in Nat
  PROVE  [op |-> op, source |-> s, target |-> d, baseGen |-> g, baseArt |-> ba, frag |-> f, art |-> x,
          rev |-> r, status |-> "compiled", issued |-> FALSE] \in Attempt
BY DEF Attempt

\* What compiling yields.
LEMMA CompiledType ==
  ASSUME ChainInv, NEW s \in Lines, NEW t \in Maybe(Lines), NEW c, c # None,
         c = IF t = None THEN compileLineChainRemoveSnapshot(s) ELSE compileLineChainSnapshot(s, t)
  PROVE  c \in Attempt /\ Reviewed(c) /\ c.status = "compiled" /\ ~c.issued
<1>1. chainDef[s] \in Definition /\ graphRev \in Nat
  BY DEF ChainInv, ChainShape
<1>2. /\ chainDef[s].gen \in Nat /\ chainDef[s].art \in Maybe(Artifacts)
      /\ chainDef[s].frag \in Fragment /\ chainDef[s].target \in Maybe(Lines)
  BY <1>1 DEF Definition
<1>3. ASSUME NEW op \in {"set", "remove"}, NEW d \in Maybe(Lines), NEW f \in Fragment,
             op = "remove" <=> d = None, f # None <=> d # None, c = Compiled(op, s, d, f)
      PROVE  c \in Attempt /\ Reviewed(c) /\ c.status = "compiled" /\ ~c.issued
  <2>1. Artifact(chainDef[s].frag, f, chainDef[s].target, d) \in Artifacts
    BY <1>2, <1>3 DEF Artifact, Artifacts
  <2>2. /\ c.op = op /\ c.source = s /\ c.target = d /\ c.frag = f /\ c.status = "compiled" /\ c.issued = FALSE
        /\ c.art.desired = d
    BY <1>3 DEF Compiled, Artifact
  <2>3. c \in Attempt
    <3>1. PICK x \in Artifacts, g \in Nat, ba \in Maybe(Artifacts), r \in Nat :
            c = [op |-> op, source |-> s, target |-> d, baseGen |-> g, baseArt |-> ba, frag |-> f, art |-> x,
                 rev |-> r, status |-> "compiled", issued |-> FALSE]
      BY <1>1, <1>2, <1>3, <2>1, Zenon DEF Compiled
    <3> QED
      BY <3>1, AttemptBuilt
  <2> QED
    BY <1>3, <2>2, <2>3 DEF Reviewed
<1>4. CASE t = None
  <2>1. c = Compiled("remove", s, None, None)
    BY <1>4 DEF compileLineChainRemoveSnapshot
  <2> QED
    BY <1>3, <2>1 DEF Maybe, Fragment
<1>5. CASE t # None
  <2>1. managed[t] # None /\ c = Compiled("set", s, t, <<t, managed[t]>>)
    BY <1>5 DEF compileLineChainSnapshot
  <2>2. t \in Lines
    BY <1>5 DEF Maybe
  <2>3. managed[t] \in Nat
    BY <2>1, <2>2 DEF ChainInv, ChainShape, Maybe
  <2>4. <<t, managed[t]>> \in Fragment /\ <<t, managed[t]>> # None
    BY <2>2, <2>3, NotNone DEF Fragment, Maybe
  <2> QED
    BY <1>3, <1>5, <2>1, <2>4
<1> QED
  BY <1>4, <1>5

\* Compiling a change keeps the invariant.
LEMMA StepCompile ==
  ASSUME ChainInv, NEW a \in ChainApprovals, NEW s \in Lines, NEW t \in Maybe(Lines), compileLineChain(a, s, t)
  PROVE  ChainInv'
<1>1. PICK c : /\ c = IF t = None THEN compileLineChainRemoveSnapshot(s) ELSE compileLineChainSnapshot(s, t)
               /\ c # None /\ draft' = [draft EXCEPT ![a] = c]
  BY Zenon DEF compileLineChain
<1>2. /\ chainApproval[a] = None /\ draft[a] = None
      /\ UNCHANGED <<chainNodes, seen, managed, chainDef, attempt, chainApproval, chainTask, graphRev,
                     unlogged, checked, host, job, handEdited>>
  BY Zenon DEF compileLineChain
<1>3. c \in Attempt /\ Reviewed(c) /\ c.status = "compiled" /\ ~c.issued
  BY <1>1, CompiledType, Zenon
<1>4. draft \in [ChainApprovals -> Maybe(Attempt)]
  BY DEF ChainInv, ChainShape
<1>5. draft' \in [ChainApprovals -> Maybe(Attempt)] /\ draft'[a] = c /\ \A b \in ChainApprovals \ {a} : draft'[b] = draft[b]
  BY <1>1, <1>3, <1>4 DEF Maybe
<1>6. ChainShape'
  BY <1>2, <1>5, Zenon DEF ChainInv, ChainShape
<1>7. ASSUME NEW b \in ChainApprovals PROVE Row(b)'
  <2>1. CASE b = a
    BY <1>2, <1>3, <1>5, <2>1, RowOf, RowCompiled DEF Row
  <2>2. CASE b # a
    BY <1>2, <1>5, <2>2, RowUntouched, Zenon DEF Untouched
  <2> QED
    BY <2>1, <2>2
<1>8. HostInv'
  BY <1>2, Zenon DEF ChainInv, HostInv, Ahead
<1> QED
  BY <1>2, <1>6, <1>7, <1>8, AttemptsStay, Zenon DEF ChainInv

\* So does planning it, which forgets the failed attempts of its line.
LEMMA StepPlan ==
  ASSUME ChainInv, NEW a \in ChainApprovals, planLineChainLocked(a)
  PROVE  ChainInv'
<1> DEFINE rivals(c) == {x \in ChainApprovals : attempt[x] # None /\ attempt[x].source = c.source}
<1>1. PICK c : c = draft[a]
  OBVIOUS
<1>2. /\ c # None /\ draft' = [draft EXCEPT ![a] = None]
      /\ UNCHANGED <<chainNodes, seen, managed, chainDef, chainTask, graphRev, checked, host, job, handEdited>>
  BY <1>1, Zenon DEF planLineChainLocked
<1>3. /\ c \in Attempt /\ chainApproval[a] = None /\ attempt[a] = None /\ job[a] = None
      /\ RowOK(attempt[a], chainApproval[a], chainTask[a], job[a], c)
  BY <1>1, <1>2, RowOf, Zenon DEF RowOK
<1>4. /\ draft' \in [ChainApprovals -> Maybe(Attempt)] /\ draft'[a] = None
      /\ \A b \in ChainApprovals \ {a} : draft'[b] = draft[b]
  <2>1. draft \in [ChainApprovals -> Maybe(Attempt)]
    BY DEF ChainInv, ChainShape
  <2> QED
    BY <1>2, <2>1 DEF Maybe
<1>5. CASE UNCHANGED <<attempt, chainApproval>>
  <2>1. ChainShape'
    BY <1>2, <1>4, <1>5, Zenon DEF ChainInv, ChainShape
  <2>2. ASSUME NEW b \in ChainApprovals PROVE Row(b)'
    <3>1. CASE b = a
      BY <1>2, <1>3, <1>4, <1>5, <3>1, RowDropped DEF Row
    <3>2. CASE b # a
      BY <1>2, <1>4, <1>5, <3>2, RowUntouched, Zenon DEF Untouched
    <3> QED
      BY <3>1, <3>2
  <2>3. HostInv'
    BY <1>2, <1>5, Zenon DEF ChainInv, HostInv, Ahead
  <2> QED
    BY <1>2, <1>5, <2>1, <2>2, <2>3, AttemptsStay, Zenon DEF ChainInv
<1>6. CASE ~UNCHANGED <<attempt, chainApproval>>
  <2> DEFINE q == [c EXCEPT !.status = "planned"]
  <2>1. /\ ~BaseMoved(c) /\ \A x \in rivals(c) : attempt[x].status = "failed"
        /\ attempt' = [x \in ChainApprovals |-> IF x = a THEN q ELSE IF x \in rivals(c) THEN None ELSE attempt[x]]
        /\ chainApproval' = [chainApproval EXCEPT ![a] = "pending"]
    BY <1>1, <1>6 DEF planLineChainLocked
  <2>2. /\ q \in Attempt /\ q.status = "planned" /\ q.source = c.source /\ q.baseGen = c.baseGen
    BY <1>3, Restated
  <2>3. RowOK(q, "pending", chainTask[a], job[a], None)
    BY <1>3, RowPlanned
  <2> HIDE DEF q
  <2>4. attempt'[a] = q /\ attempt' = [x \in ChainApprovals |-> attempt'[x]]
    BY <2>1
  <2>5. ASSUME NEW b \in ChainApprovals \ {a}
        PROVE  /\ attempt'[b] = attempt[b] \/ (attempt[b] \in Attempt /\ attempt[b].status = "failed" /\ attempt'[b] = None)
               /\ attempt'[b] # None => attempt'[b].source # c.source
    BY <2>1, RowOf
  <2>6. chainApproval'[a] = "pending" /\ \A b \in ChainApprovals \ {a} : chainApproval'[b] = chainApproval[b]
    BY <2>1 DEF ChainInv, ChainShape
  <2>7. ChainShape'
    <3>1. \A b \in ChainApprovals : attempt'[b] \in Maybe(Attempt)
      BY <2>2, <2>4, <2>5, RowOf, Zenon DEF Maybe
    <3>2. attempt' \in [ChainApprovals -> Maybe(Attempt)]
      BY <2>4, <3>1
    <3>3. chainApproval' \in [ChainApprovals -> Maybe(ApprovalStatus)]
      BY <2>1 DEF ChainInv, ChainShape, ApprovalStatus, Maybe
    <3> QED
      BY <1>2, <1>4, <3>2, <3>3, Zenon DEF ChainInv, ChainShape
  <2>8. ASSUME NEW b \in ChainApprovals PROVE Row(b)'
    <3>1. CASE b = a
      BY <1>2, <1>4, <2>3, <2>4, <2>6, <3>1 DEF Row
    <3>2. CASE b # a /\ attempt'[b] = attempt[b]
      BY <1>2, <1>4, <2>6, <3>2, RowUntouched, Zenon DEF Untouched
    <3>3. CASE b # a /\ attempt[b] \in Attempt /\ attempt[b].status = "failed" /\ attempt'[b] = None
      BY <1>2, <1>4, <2>6, <3>3, RowOf, RowForgotten DEF Row
    <3> QED
      BY <2>5, <3>1, <3>2, <3>3, Zenon
  <2>9. OneOpen'
    <3> SUFFICES ASSUME NEW b \in ChainApprovals, NEW d \in ChainApprovals, Open(attempt'[b]),
                        Open(attempt'[d]), attempt'[b].source = attempt'[d].source
                 PROVE  b = d
      BY Zenon DEF OneOpen, Open
    <3>1. CASE b = a \/ d = a
      BY <2>2, <2>4, <2>5, <3>1, Zenon DEF Open
    <3>2. CASE b # a /\ d # a
      BY <2>5, <3>2, Zenon DEF ChainInv, OneOpen, Open
    <3> QED
      BY <3>1, <3>2
  <2>10. Based'
    <3>1. chainDef[q.source].gen = q.baseGen
      BY <2>1, <2>2, Zenon DEF BaseMoved
    <3> QED
      BY <1>2, <2>4, <2>5, <3>1, Zenon DEF ChainInv, Based, Open
  <2>11. \A b \in ChainApprovals : Applying(attempt'[b]) \/ Applying(attempt[b]) => attempt'[b] = attempt[b]
    BY <1>3, <2>2, <2>4, <2>5, Zenon DEF Applying
  <2>12. NoLoop'
    BY <1>2, <2>11, EdgesTaken, Zenon DEF ChainInv
  <2>13. HostInv'
    BY <1>2, <2>11, HostKept, Zenon DEF ChainInv
  <2> QED
    BY <1>2, <2>7, <2>8, <2>9, <2>10, <2>12, <2>13, DefinitionsStay, Zenon DEF ChainInv
<1> QED
  BY <1>5, <1>6

\* Rejecting, whoever asks for it, keeps the invariant.
LEMMA StepReject ==
  ASSUME ChainInv, NEW a \in ChainApprovals, Rejectable(a), rejectLineChainApprovalLocked(a),
         UNCHANGED <<chainNodes, seen, managed, chainDef, graphRev, draft, host, job, handEdited>>,
         checked' \subseteq ChainApprovals
  PROVE  ChainInv'
<1> DEFINE p == attempt[a]
           q == [p EXCEPT !.status = "failed"]
<1>1. p \in Attempt /\ p.status = "planned" /\ RowOK(p, chainApproval[a], chainTask[a], job[a], draft[a])
  BY RowOf, Zenon DEF Rejectable
<1>2. q \in Attempt /\ q.status = "failed"
  BY <1>1, Restated
<1>3. chainTask[a] = None /\ RowOK(q, "rejected", chainTask[a], job[a], draft[a])
  BY <1>1, RowRejected
<1>4. attempt' = [attempt EXCEPT ![a] = q]
  BY DEF rejectLineChainApprovalLocked, Staled
<1> HIDE DEF q
<1>5. /\ chainApproval' = [chainApproval EXCEPT ![a] = "rejected"]
      /\ chainTask' = [chainTask EXCEPT ![a] = IF @ = None THEN None ELSE "cancelled"]
  BY Zenon DEF rejectLineChainApprovalLocked
<1>6. /\ attempt \in [ChainApprovals -> Maybe(Attempt)] /\ chainTask \in [ChainApprovals -> Maybe(ChainTaskStatus)]
      /\ chainApproval \in [ChainApprovals -> Maybe(ApprovalStatus)]
  BY Zenon DEF ChainInv, ChainShape
<1>7. /\ attempt' \in [ChainApprovals -> Maybe(Attempt)] /\ attempt'[a] = q
      /\ \A b \in ChainApprovals \ {a} : attempt'[b] = attempt[b]
  BY <1>2, <1>4, <1>6 DEF Maybe
<1>8. /\ chainApproval' \in [ChainApprovals -> Maybe(ApprovalStatus)] /\ chainApproval'[a] = "rejected"
      /\ \A b \in ChainApprovals \ {a} : chainApproval'[b] = chainApproval[b]
  BY <1>5, <1>6 DEF Maybe, ApprovalStatus
<1>9. chainTask' \in [ChainApprovals -> Maybe(ChainTaskStatus)] /\ \A b \in ChainApprovals : chainTask'[b] = chainTask[b]
  BY <1>3, <1>5, <1>6 DEF Maybe
<1>10. ChainShape'
  BY <1>7, <1>8, <1>9, Zenon DEF ChainInv, ChainShape
<1>11. ASSUME NEW b \in ChainApprovals PROVE Row(b)'
  <2>1. CASE b = a
    BY <1>3, <1>7, <1>8, <1>9, <2>1, Zenon DEF Row
  <2>2. CASE b # a
    BY <1>7, <1>8, <1>9, <2>2, RowUntouched, Zenon DEF Untouched
  <2> QED
    BY <2>1, <2>2
<1>12. \A b \in ChainApprovals : /\ Carries(attempt'[b], attempt[b])
                                 /\ Applying(attempt'[b]) \/ Applying(attempt[b]) => attempt'[b] = attempt[b]
  BY <1>1, <1>2, <1>7, Zenon DEF Carries, Open, Applying
<1>13. OneOpen' /\ Based'
  BY <1>12, OpenKept, Zenon DEF ChainInv
<1>14. NoLoop'
  BY <1>12, EdgesTaken, Zenon DEF ChainInv
<1>15. HostInv'
  BY <1>12, HostKept, Zenon DEF ChainInv
<1> QED
  BY <1>10, <1>11, <1>13, <1>14, <1>15, DefinitionsStay, Zenon DEF ChainInv

\* The check before queueing may reject the change.
LEMMA StepValidate ==
  ASSUME ChainInv, NEW a \in ChainApprovals, validateLineChainApprovalForQueue(a)
  PROVE  ChainInv'
<1>1. CASE UNCHANGED <<attempt, chainApproval, chainTask>>
  <2>1. /\ checked' \subseteq ChainApprovals
        /\ UNCHANGED <<chainNodes, seen, managed, chainDef, graphRev, draft, host, job, handEdited>>
    BY Zenon DEF validateLineChainApprovalForQueue, ChainInv, ChainShape
  <2>2. ChainShape' /\ HostInv' /\ \A b \in ChainApprovals : Row(b)'
    BY <1>1, <2>1, Zenon DEF ChainInv, ChainShape, HostInv, Ahead, Row
  <2> QED
    BY <1>1, <2>1, <2>2, AttemptsStay, Zenon DEF ChainInv
<1>2. CASE ~UNCHANGED <<attempt, chainApproval, chainTask>>
  <2>1. /\ Rejectable(a) /\ rejectLineChainApprovalLocked(a) /\ checked' = checked
        /\ UNCHANGED <<chainNodes, seen, managed, chainDef, graphRev, draft, host, job, handEdited>>
    BY <1>2, Zenon DEF validateLineChainApprovalForQueue
  <2> QED
    BY <2>1, StepReject, Zenon DEF ChainInv, ChainShape
<1> QED
  BY <1>1, <1>2

\* The operator rejects.
LEMMA StepRejectRequest ==
  ASSUME ChainInv, NEW a \in ChainApprovals, RejectLineChainApproval(a)
  PROVE  ChainInv'
<1>1. /\ Rejectable(a) /\ rejectLineChainApprovalLocked(a) /\ checked' = checked
      /\ UNCHANGED <<chainNodes, seen, managed, chainDef, graphRev, draft, host, job, handEdited>>
  BY Zenon DEF RejectLineChainApproval
<1> QED
  BY <1>1, StepReject, Zenon DEF ChainInv, ChainShape

\* Approving queues the task.
LEMMA StepApprove ==
  ASSUME ChainInv, NEW a \in ChainApprovals, ApproveLineChain(a)
  PROVE  ChainInv'
<1> DEFINE q == [attempt[a] EXCEPT !.status = "applying"]
<1>1. /\ checked' \subseteq ChainApprovals
      /\ UNCHANGED <<chainNodes, seen, managed, chainDef, draft, host, job, handEdited>>
  BY Zenon DEF ApproveLineChain, ChainInv, ChainShape
<1>2. CASE UNCHANGED <<attempt, chainApproval, chainTask, graphRev>>
  <2>1. ChainShape' /\ HostInv' /\ \A b \in ChainApprovals : Row(b)'
    BY <1>1, <1>2, Zenon DEF ChainInv, ChainShape, HostInv, Ahead, Row
  <2> QED
    BY <1>1, <1>2, <2>1, AttemptsStay, Zenon DEF ChainInv
<1>3. CASE Rejectable(a) /\ rejectLineChainApprovalLocked(a) /\ UNCHANGED graphRev
  BY <1>1, <1>3, StepReject, Zenon
<1>4. CASE /\ Rejectable(a) /\ attempt' = [attempt EXCEPT ![a] = q] /\ ~lineChainGraphHasCycle(chainDef, attempt')
           /\ graphRev' = graphRev + 1
           /\ chainApproval' = [chainApproval EXCEPT ![a] = "approved"]
           /\ chainTask' = [chainTask EXCEPT ![a] = "queued"]
  <2>1. /\ attempt[a] \in Attempt /\ attempt[a].status = "planned"
        /\ RowOK(attempt[a], chainApproval[a], chainTask[a], job[a], draft[a])
    BY <1>4, RowOf, Zenon DEF Rejectable
  <2>2. /\ q \in Attempt /\ q.status = "applying" /\ q.source = attempt[a].source
        /\ q.target = attempt[a].target /\ q.baseGen = attempt[a].baseGen
    BY <2>1, Restated
  <2>3. RowOK(q, "approved", "queued", job[a], draft[a])
    BY <2>1, RowApproved
  <2> HIDE DEF q
  <2>4. job[a] = None
    BY <2>1, NotNone, Zenon DEF RowOK
  <2>5. /\ attempt \in [ChainApprovals -> Maybe(Attempt)] /\ chainTask \in [ChainApprovals -> Maybe(ChainTaskStatus)]
        /\ chainApproval \in [ChainApprovals -> Maybe(ApprovalStatus)] /\ graphRev \in Nat
    BY Zenon DEF ChainInv, ChainShape
  <2>6. /\ attempt' \in [ChainApprovals -> Maybe(Attempt)] /\ attempt'[a] = q
        /\ \A b \in ChainApprovals \ {a} : attempt'[b] = attempt[b]
    BY <1>4, <2>2, <2>5 DEF Maybe
  <2>7. /\ chainApproval' \in [ChainApprovals -> Maybe(ApprovalStatus)] /\ chainApproval'[a] = "approved"
        /\ \A b \in ChainApprovals \ {a} : chainApproval'[b] = chainApproval[b]
    BY <1>4, <2>5 DEF Maybe, ApprovalStatus
  <2>8. /\ chainTask' \in [ChainApprovals -> Maybe(ChainTaskStatus)] /\ chainTask'[a] = "queued"
        /\ \A b \in ChainApprovals \ {a} : chainTask'[b] = chainTask[b]
    BY <1>4, <2>5 DEF Maybe, ChainTaskStatus
  <2>9. graphRev' \in Nat
    BY <1>4, <2>5
  <2>10. ChainShape'
    BY <1>1, <2>6, <2>7, <2>8, <2>9, Zenon DEF ChainInv, ChainShape
  <2>11. ASSUME NEW b \in ChainApprovals PROVE Row(b)'
    <3>1. CASE b = a
      BY <1>1, <2>3, <2>6, <2>7, <2>8, <3>1, Zenon DEF Row
    <3>2. CASE b # a
      BY <1>1, <2>6, <2>7, <2>8, <3>2, RowUntouched, Zenon DEF Untouched
    <3> QED
      BY <3>1, <3>2
  <2>12. \A b \in ChainApprovals : Carries(attempt'[b], attempt[b])
    BY <2>1, <2>2, <2>6, NotNone, Zenon DEF Carries, Open
  <2>13. OneOpen' /\ Based'
    BY <1>1, <2>12, OpenKept, Zenon DEF ChainInv
  <2>14. NoLoop'
    BY <1>1, <1>4, Zenon DEF NoLoop, lineChainGraphHasCycle
  <2>15. \A b \in ChainApprovals : job[b] = "ok" => attempt'[b] = attempt[b]
    BY <2>4, <2>6, NotNone, Zenon
  <2>16. HostInv'
    BY <1>1, <2>15, HostKept, Zenon DEF ChainInv
  <2> QED
    BY <1>1, <2>10, <2>11, <2>13, <2>14, <2>16, DefinitionsStay, Zenon DEF ChainInv
<1> QED
  BY <1>2, <1>3, <1>4 DEF ApproveLineChain

\* The open changes of a set of them are as many as their lines.
LEMMA OpenFinite ==
  ASSUME ChainInv, NEW S \in SUBSET ChainApprovals, \A a \in S : Open(attempt[a])
  PROVE  Cardinality(S) \in Nat
<1> DEFINE f == [a \in S |-> attempt[a].source]
<1>1. \A a \in S : attempt[a].source \in Lines
  BY RowOf, AttemptFields, Zenon DEF Open
<1>2. f \in [S -> Lines]
  BY <1>1
<1>3. \A a, b \in S : f[a] = f[b] => a = b
  BY Zenon DEF ChainInv, OneOpen
<1>4. f \in Injection(S, Lines)
  BY <1>2, <1>3 DEF Injection, IsInjective
<1>5. IsFiniteSet(S)
  BY <1>4, FS_Injection, LineChainAssumption, Zenon
<1> QED
  BY <1>5, FS_CardinalityType

\* The lease: a stale change is rejected, a sound one goes to the agent.
LEMMA StepLease ==
  ASSUME ChainInv, NEW n, leaseTaskDeliveries(n)
  PROVE  ChainInv'
<1> DEFINE failed(b) == [attempt[b] EXCEPT !.status = "failed"]
           issued(b) == [attempt[b] EXCEPT !.issued = TRUE]
           WasStale(b) == /\ Applying(attempt[b]) /\ chainTask[b] = "queued" /\ attempt'[b] = failed(b)
                          /\ chainApproval'[b] = "rejected" /\ chainTask'[b] = "cancelled" /\ job'[b] = job[b]
           WasLeased(b) == /\ Applying(attempt[b]) /\ chainTask[b] = "queued" /\ attempt'[b] = issued(b)
                           /\ chainApproval'[b] = chainApproval[b] /\ chainTask'[b] = "leased"
                           /\ job'[b] = IF job[b] = None THEN "held" ELSE job[b]
           mine == {a \in ChainApprovals : Gated(a, n)}
           held == {a \in mine : chainTask[a] = "leased"}
           fresh == IF held = {} THEN {a \in mine : chainTask[a] = "queued"} ELSE {}
           stale == {a \in fresh : ~validateLineChainFirstLease(a)}
           leased == fresh \ stale
<1>1. /\ chainTask' = [a \in ChainApprovals |-> IF a \in stale THEN "cancelled"
                                                ELSE IF a \in leased THEN "leased" ELSE chainTask[a]]
      /\ chainApproval' = [a \in ChainApprovals |-> IF a \in stale THEN "rejected" ELSE chainApproval[a]]
      /\ attempt' = [a \in ChainApprovals |-> IF a \in stale THEN failed(a)
                                              ELSE IF a \in leased THEN issued(a) ELSE attempt[a]]
      /\ graphRev' = graphRev + Cardinality(stale)
      /\ job' = [a \in ChainApprovals |-> IF a \in held \cup leased /\ job[a] = None THEN "held" ELSE job[a]]
      /\ UNCHANGED <<chainNodes, seen, managed, chainDef, draft, checked, host, handEdited>>
  BY DEF leaseTaskDeliveries
<1>2. \A b \in mine : Applying(attempt[b])
  BY DEF Gated, Applying
<1>3. /\ \A b \in stale : b \in mine /\ chainTask[b] = "queued" /\ b \notin held /\ b \notin leased
      /\ \A b \in leased : b \in mine /\ chainTask[b] = "queued" /\ b \notin held /\ b \notin stale
      /\ \A b \in held : chainTask[b] = "leased"
      /\ stale \in SUBSET ChainApprovals
  OBVIOUS
<1> HIDE DEF mine, held, fresh, stale, leased, failed, issued
<1>4. graphRev' \in Nat
  <2>1. Cardinality(stale) \in Nat
    BY <1>2, <1>3, OpenFinite, Zenon DEF Open, Applying
  <2> QED
    BY <1>1, <2>1 DEF ChainInv, ChainShape
<1>5. ASSUME NEW b \in ChainApprovals
      PROVE  (Untouched(b) \/ WasStale(b) \/ WasLeased(b)) /\ draft'[b] = draft[b]
  <2>1. CASE b \in stale
    BY <1>1, <1>2, <1>3, <2>1, Zenon
  <2>2. CASE b \in leased
    BY <1>1, <1>2, <1>3, <2>2, Zenon
  <2>3. CASE b \notin stale /\ b \notin leased
    <3>1. b \in held => job[b] # None
      BY <1>3, RowOf, NotNone DEF RowOK
    <3> QED
      BY <1>1, <2>3, <3>1 DEF Untouched
  <2> QED
    BY <2>1, <2>2, <2>3
<1>6. ASSUME NEW b \in ChainApprovals, WasStale(b)
      PROVE  attempt'[b] \in Attempt /\ ~Open(attempt'[b]) /\ job[b] = None /\ Row(b)'
  <2>1. attempt[b] \in Attempt /\ RowOK(attempt[b], chainApproval[b], "queued", job[b], draft[b])
    BY <1>6, RowOf, Zenon DEF Applying
  <2>2. attempt'[b] \in Attempt /\ attempt'[b].status = "failed"
    BY <1>6, <2>1, Restated DEF failed
  <2>3. RowOK(attempt'[b], "rejected", "cancelled", job[b], draft[b])
    BY <1>6, <2>1, RowStale DEF failed
  <2> QED
    BY <1>5, <1>6, <2>1, <2>2, <2>3, Zenon DEF Open, Row, RowOK
<1>7. ASSUME NEW b \in ChainApprovals, WasLeased(b)
      PROVE  /\ attempt'[b] \in Attempt /\ Applying(attempt'[b]) /\ Carries(attempt'[b], attempt[b])
             /\ job[b] = None /\ job'[b] = "held" /\ Row(b)'
  <2>1. attempt[b] \in Attempt /\ RowOK(attempt[b], chainApproval[b], "queued", job[b], draft[b])
    BY <1>7, RowOf, Zenon DEF Applying
  <2>2. /\ attempt'[b] \in Attempt /\ attempt'[b].status = attempt[b].status /\ attempt'[b].source = attempt[b].source
        /\ attempt'[b].target = attempt[b].target /\ attempt'[b].baseGen = attempt[b].baseGen
    BY <1>7, <2>1, Issued DEF issued
  <2>3. job[b] = None /\ RowOK(attempt'[b], chainApproval[b], "leased", "held", draft[b])
    BY <1>7, <2>1, RowLeased DEF issued
  <2> QED
    BY <1>5, <1>7, <2>1, <2>2, <2>3, NotNone, Zenon DEF Open, Applying, Carries, Row
<1> HIDE DEF WasStale, WasLeased
<1>8. ChainShape'
  <2>1. \A b \in ChainApprovals : /\ attempt[b] \in Maybe(Attempt) /\ chainTask[b] \in Maybe(ChainTaskStatus)
                                  /\ chainApproval[b] \in Maybe(ApprovalStatus) /\ job[b] \in Maybe(JobStatus)
    BY DEF ChainInv, ChainShape
  <2>2. \A b \in ChainApprovals : attempt'[b] \in Maybe(Attempt)
    BY <1>5, <1>6, <1>7, <2>1, Zenon DEF Untouched, Maybe
  <2>3. attempt' \in [ChainApprovals -> Maybe(Attempt)]
    BY <1>1, <2>2, Zenon
  <2>4. /\ chainTask' \in [ChainApprovals -> Maybe(ChainTaskStatus)]
        /\ chainApproval' \in [ChainApprovals -> Maybe(ApprovalStatus)]
        /\ job' \in [ChainApprovals -> Maybe(JobStatus)]
    BY <1>1, <2>1 DEF Maybe, ChainTaskStatus, ApprovalStatus, JobStatus
  <2> QED
    BY <1>1, <1>4, <2>3, <2>4, Zenon DEF ChainInv, ChainShape
<1>9. \A b \in ChainApprovals : Row(b)'
  BY <1>5, <1>6, <1>7, RowUntouched, ZenonT(40)
<1>10. \A b \in ChainApprovals :
        /\ Carries(attempt'[b], attempt[b])
        /\ Applying(attempt'[b]) => Applying(attempt[b]) /\ attempt'[b].source = attempt[b].source
                                     /\ attempt'[b].target = attempt[b].target
        /\ job'[b] = "ok" \/ job[b] = "ok" => attempt'[b] = attempt[b] /\ job'[b] = job[b]
  <2> SUFFICES ASSUME NEW b \in ChainApprovals
               PROVE  /\ Carries(attempt'[b], attempt[b])
                      /\ Applying(attempt'[b]) => Applying(attempt[b]) /\ attempt'[b].source = attempt[b].source
                                                   /\ attempt'[b].target = attempt[b].target
                      /\ job'[b] = "ok" \/ job[b] = "ok" => attempt'[b] = attempt[b] /\ job'[b] = job[b]
    BY Zenon
  <2>1. CASE Untouched(b)
    BY <2>1, Zenon DEF Untouched, Carries
  <2>2. CASE WasStale(b)
    BY <1>6, <2>2, NotNone, Zenon DEF WasStale, Carries, Open, Applying
  <2>3. CASE WasLeased(b)
    BY <1>7, <2>3, NotNone DEF WasLeased, Carries, Open, Applying
  <2> QED
    BY <1>5, <2>1, <2>2, <2>3
<1>11. OneOpen' /\ Based'
  BY <1>1, <1>10, OpenKept, Zenon DEF ChainInv
<1>12. NoLoop'
  BY <1>1, <1>10, EdgesTaken, Zenon DEF ChainInv
<1>13. HostInv'
  BY <1>1, <1>10, HostKept, Zenon DEF ChainInv
<1> QED
  BY <1>1, <1>8, <1>9, <1>11, <1>12, <1>13, DefinitionsStay, Zenon DEF ChainInv

\* The only open change of a line.
LEMMA OnlyOpen ==
  ASSUME ChainInv, NEW a \in ChainApprovals, NEW b \in ChainApprovals, Applying(attempt[a]), Applying(attempt[b]),
         attempt[a].source = attempt[b].source
  PROVE  a = b
BY Zenon DEF ChainInv, OneOpen, Open, Applying

\* The agent runs the script.
LEMMA StepRun ==
  ASSUME ChainInv, NEW a \in ChainApprovals, RunScript(a)
  PROVE  ChainInv'
<1>1. /\ job[a] = "held"
      /\ UNCHANGED <<chainNodes, seen, managed, chainDef, attempt, chainApproval, chainTask, graphRev,
                     unlogged, draft, checked, handEdited>>
  BY Zenon DEF RunScript
<1>2. job \in [ChainApprovals -> Maybe(JobStatus)] /\ host \in [Lines -> Maybe(Lines)]
  BY Zenon DEF ChainInv, ChainShape
<1>3. PICK jb \in {"ok", "failed"} :
        /\ job' = [job EXCEPT ![a] = jb]
        /\ IF jb = "ok" THEN host' = [host EXCEPT ![attempt[a].source] = attempt[a].art.desired] ELSE host' = host
  BY DEF RunScript
<1>4. /\ job' \in [ChainApprovals -> Maybe(JobStatus)] /\ job'[a] = jb
      /\ \A b \in ChainApprovals \ {a} : job'[b] = job[b]
  BY <1>2, <1>3 DEF Maybe, JobStatus
<1>5. RowOK(attempt[a], chainApproval[a], chainTask[a], "held", draft[a])
  BY <1>1, RowOf, Zenon
<1>6. /\ Applying(attempt[a]) /\ attempt[a].issued
      /\ RowOK(attempt[a], chainApproval[a], chainTask[a], jb, draft[a])
  BY <1>5, RowRun
<1>7. /\ attempt[a] \in Attempt /\ attempt[a].source \in Lines
      /\ attempt[a].art.desired = attempt[a].target /\ attempt[a].target \in Maybe(Lines)
  BY <1>6, RowOf, AttemptFields, Zenon DEF Applying, RowOK, Reviewed
<1>8. /\ host' \in [Lines -> Maybe(Lines)]
      /\ jb = "ok" => host'[attempt[a].source] = attempt[a].target
      /\ \A l \in Lines : jb # "ok" \/ l # attempt[a].source => host'[l] = host[l]
  BY <1>2, <1>3, <1>7
<1>9. ChainShape'
  BY <1>1, <1>4, <1>8, Zenon DEF ChainInv, ChainShape
<1>10. ASSUME NEW b \in ChainApprovals PROVE Row(b)'
  <2>1. CASE b = a
    BY <1>1, <1>4, <1>6, <2>1, Zenon DEF Row
  <2>2. CASE b # a
    BY <1>1, <1>4, <2>2, RowUntouched, Zenon DEF Untouched
  <2> QED
    BY <2>1, <2>2
<1>11. HostInv'
  <2> SUFFICES ASSUME handEdited = {}, NEW l \in Lines, NodeOf[l] \in chainNodes
               PROVE  /\ host'[l] = chainDef[l].target \/ \E b \in ChainApprovals : Ahead(b, l)'
                      /\ \A b \in ChainApprovals :
                           Applying(attempt[b]) /\ job'[b] = "ok" /\ attempt[b].source = l
                              => attempt[b].target = host'[l]
    BY <1>1, Zenon DEF HostInv
  <2>1. /\ host[l] = chainDef[l].target \/ \E b \in ChainApprovals : Ahead(b, l)
        /\ \A b \in ChainApprovals :
              Applying(attempt[b]) /\ job[b] = "ok" /\ attempt[b].source = l => attempt[b].target = host[l]
    BY Zenon DEF ChainInv, HostInv
  <2>2. CASE jb = "ok" /\ l = attempt[a].source
    <3>1. Ahead(a, l)'
      BY <1>1, <1>4, <1>6, <1>8, <2>2, Zenon DEF Ahead
    <3>2. \A b \in ChainApprovals : Applying(attempt[b]) /\ attempt[b].source = l => b = a
      BY <1>6, <2>2, OnlyOpen, Zenon
    <3> QED
      BY <1>8, <2>2, <3>1, <3>2, Zenon
  <2>3. CASE jb # "ok" \/ l # attempt[a].source
    <3>1. host'[l] = host[l]
      BY <1>8, <2>3, Zenon
    <3>2. \A b \in ChainApprovals : Ahead(b, l) => Ahead(b, l)'
      BY <1>1, <1>4, <3>1, Zenon DEF Ahead
    <3> QED
      BY <1>4, <2>1, <2>3, <3>1, <3>2, Zenon
  <2> QED
    BY <2>2, <2>3
<1> QED
  BY <1>1, <1>9, <1>10, <1>11, AttemptsStay, Zenon DEF ChainInv

\* The agent learns that its result was taken.
LEMMA StepConfirm ==
  ASSUME ChainInv, NEW a \in ChainApprovals, ConfirmTaskResultReplay(a)
  PROVE  ChainInv'
<1>1. /\ chainTask[a] = "finished" /\ job' = [job EXCEPT ![a] = "done"]
      /\ UNCHANGED <<chainNodes, seen, managed, chainDef, attempt, chainApproval, chainTask, graphRev,
                     draft, checked, host, handEdited>>
  BY Zenon DEF ConfirmTaskResultReplay
<1>2. job \in [ChainApprovals -> Maybe(JobStatus)]
  BY Zenon DEF ChainInv, ChainShape
<1>3. /\ job' \in [ChainApprovals -> Maybe(JobStatus)] /\ job'[a] = "done"
      /\ \A b \in ChainApprovals \ {a} : job'[b] = job[b]
  BY <1>1, <1>2 DEF Maybe, JobStatus
<1>4. RowOK(attempt[a], chainApproval[a], "finished", job[a], draft[a])
  BY <1>1, RowOf, Zenon
<1>5. ~Applying(attempt[a]) /\ RowOK(attempt[a], chainApproval[a], "finished", "done", draft[a])
  BY <1>4, RowDone, Zenon
<1>6. ChainShape'
  BY <1>1, <1>3, Zenon DEF ChainInv, ChainShape
<1>7. ASSUME NEW b \in ChainApprovals PROVE Row(b)'
  <2>1. CASE b = a
    BY <1>1, <1>3, <1>5, <2>1, Zenon DEF Row
  <2>2. CASE b # a
    BY <1>1, <1>3, <2>2, RowUntouched, Zenon DEF Untouched
  <2> QED
    BY <2>1, <2>2
<1>8. HostInv'
  BY <1>1, <1>3, <1>5, HostKept, Zenon DEF ChainInv
<1> QED
  BY <1>1, <1>6, <1>7, <1>8, AttemptsStay, Zenon DEF ChainInv

Classified(st) ==
    /\ st[1] \in {"applied_unobserved", "drifted"}
    /\ st[2] \in {"", "source_missing", "inputs_changed", "target_missing"}
    /\ st[1] = "drifted" <=> st[2] # ""

\* The status a result is committed with says whether and why it has drifted.
LEMMA ClassifiedStatus ==
  ASSUME NEW p \in Attempt, NEW st, st = classifyLineChainTerminalCompiledSnapshot(p)
  PROVE  Classified(st)
<1>1. p.op \in {"set", "remove"}
  BY DEF Attempt
<1>2. \/ st = <<"drifted", "source_missing">> \/ st = <<"drifted", "inputs_changed">>
      \/ st = <<"drifted", "target_missing">> \/ st = <<"applied_unobserved", "">>
  BY <1>1 DEF classifyLineChainTerminalCompiledSnapshot
<1>3. \A x, y : st = <<x, y>> => st[1] = x /\ st[2] = y
  OBVIOUS
<1>4. PICK x \in {"applied_unobserved", "drifted"}, y \in {"", "source_missing", "inputs_changed", "target_missing"} :
        st = <<x, y>> /\ (x = "drifted" <=> y # "")
  BY <1>2, Zenon
<1> QED
  BY <1>3, <1>4, Zenon DEF Classified

\* A committed definition is sound and belongs to the next generation.
LEMMA CommittedDefinition ==
  ASSUME NEW a \in ChainApprovals, NEW p \in Attempt, Reviewed(p), p # None, NEW st, Classified(st),
         NEW d, d = Committed(p, st, a)
  PROVE  d \in Definition /\ DefOK(d) /\ d.target = p.target /\ d.gen = p.baseGen + 1
<1>1. /\ p.target \in Maybe(Lines) /\ p.baseGen \in Nat /\ p.frag \in Fragment /\ p.art \in Maybe(Artifacts)
  BY DEF Attempt, Maybe
<1>2. /\ st[1] \in {"none", "applied_unobserved", "converged", "drifted"}
      /\ st[2] \in {"", "source_missing", "target_missing", "inputs_changed",
                    "observed_mismatch", "remove_artifacts_present"}
      /\ st[1] = "drifted" <=> st[2] # ""
  BY Zenon DEF Classified
<1>3. /\ d.target = p.target /\ d.gen = p.baseGen + 1 /\ d.frag = p.frag
      /\ d.status = st[1] /\ d.drift = st[2]
  BY DEF Committed
<1>4. d \in Definition
  <2>1. a \in Maybe(ChainApprovals) /\ p.baseGen + 1 \in Nat
    BY <1>1 DEF Maybe
  <2> QED
    BY <1>1, <1>2, <2>1 DEF Committed, Definition
<1>5. d.gen # 0
  BY <1>1, <1>3
<1> QED
  BY <1>2, <1>3, <1>4, <1>5, Zenon DEF DefOK, Reviewed

\* The result of a successful script commits the change.
LEMMA StepCommit ==
  ASSUME ChainInv, NEW a \in ChainApprovals, completeLineChainTaskResultLocked(a), job[a] = "ok"
  PROVE  ChainInv'
<1>1. PICK p, st, d : /\ p = attempt[a] /\ st = classifyLineChainTerminalCompiledSnapshot(p)
                      /\ d = Committed(p, st, a)
  BY Zenon
<1>2. /\ p # None /\ p.status = "applying" /\ p.issued
      /\ chainDef' = [chainDef EXCEPT ![p.source] = d]
      /\ attempt' = [attempt EXCEPT ![a] = None]
      /\ chainApproval[a] = "approved" /\ chainApproval' = [chainApproval EXCEPT ![a] = "applied"]
      /\ chainTask' = [chainTask EXCEPT ![a] = "finished"]
      /\ graphRev' = graphRev + 1
      /\ UNCHANGED <<chainNodes, seen, managed, draft, checked, host, job, handEdited>>
  BY <1>1 DEF completeLineChainTaskResultLocked
<1>3. p \in Attempt /\ RowOK(p, chainApproval[a], chainTask[a], "ok", draft[a]) /\ Applying(p)
  BY <1>1, <1>2, RowOf, ZenonT(40) DEF Applying
<1>4. d \in Definition /\ DefOK(d) /\ d.target = p.target /\ d.gen = p.baseGen + 1
  <2>1. Classified(st)
    BY <1>1, <1>3, ClassifiedStatus, Zenon
  <2>2. Reviewed(p)
    BY <1>3, Zenon DEF RowOK
  <2> QED
    BY <1>1, <1>2, <1>3, <2>1, <2>2, CommittedDefinition, SMTT(30)
<1>5. p.source \in Lines
  BY <1>3, AttemptFields, Zenon
<1>6. /\ attempt \in [ChainApprovals -> Maybe(Attempt)] /\ chainTask \in [ChainApprovals -> Maybe(ChainTaskStatus)]
      /\ chainApproval \in [ChainApprovals -> Maybe(ApprovalStatus)] /\ chainDef \in [Lines -> Definition]
      /\ graphRev \in Nat
  BY Zenon DEF ChainInv, ChainShape
<1>7. /\ attempt' \in [ChainApprovals -> Maybe(Attempt)] /\ attempt'[a] = None
      /\ \A b \in ChainApprovals \ {a} : attempt'[b] = attempt[b]
  BY <1>2, <1>6, Zenon DEF Maybe
<1>8. /\ chainApproval' \in [ChainApprovals -> Maybe(ApprovalStatus)] /\ chainApproval'[a] = "applied"
      /\ \A b \in ChainApprovals \ {a} : chainApproval'[b] = chainApproval[b]
  BY <1>2, <1>6, Zenon DEF Maybe, ApprovalStatus
<1>9. /\ chainTask' \in [ChainApprovals -> Maybe(ChainTaskStatus)] /\ chainTask'[a] = "finished"
      /\ \A b \in ChainApprovals \ {a} : chainTask'[b] = chainTask[b]
  BY <1>2, <1>6, Zenon DEF Maybe, ChainTaskStatus
<1>10. /\ chainDef' \in [Lines -> Definition] /\ chainDef'[p.source] = d
       /\ \A l \in Lines \ {p.source} : chainDef'[l] = chainDef[l]
  BY <1>2, <1>4, <1>5, <1>6, Zenon
<1>11. graphRev' \in Nat
  BY <1>2, <1>6
<1>12. ChainShape'
  BY <1>2, <1>7, <1>8, <1>9, <1>10, <1>11, Zenon DEF ChainInv, ChainShape
<1>13. ASSUME NEW b \in ChainApprovals PROVE Row(b)'
  <2>1. CASE b = a
    <3>1. RowOK(None, "applied", "finished", "ok", draft[a])
      BY <1>2, <1>3, RowApplied, NotNone
    <3> QED
      BY <1>2, <1>7, <1>8, <1>9, <2>1, <3>1, Zenon DEF Row
  <2>2. CASE b # a
    BY <1>2, <1>7, <1>8, <1>9, <2>2, RowUntouched, Zenon DEF Untouched
  <2> QED
    BY <2>1, <2>2
<1>14. \A l \in Lines : DefOK(chainDef[l])'
  BY <1>4, <1>10, Zenon DEF ChainInv
<1>15. \A b \in ChainApprovals \ {a} : Open(attempt[b]) => attempt[b].source # p.source
  BY <1>1, <1>3, Zenon DEF ChainInv, OneOpen, Open, Applying
<1>16. OneOpen' /\ Based'
  <2>1. \A b \in ChainApprovals : Carries(attempt'[b], attempt[b])
    BY <1>7, Zenon DEF Carries, Open
  <2>2. \A b \in ChainApprovals : Open(attempt'[b]) =>
          chainDef'[attempt[b].source].gen = chainDef[attempt[b].source].gen
    BY <1>7, <1>10, <1>15, RowOf, AttemptFields, Zenon DEF Open
  <2> QED
    BY <2>1, <2>2, OpenKept, Zenon DEF ChainInv
<1>17. NoLoop'
  <2>1. \A l \in Lines : chainDef'[l].target # None => <<l, chainDef'[l].target>> \in Edges(chainDef, attempt)
    BY <1>1, <1>3, <1>4, <1>10, EdgeOfDefinition, EdgeOfAttempt, Zenon
  <2>2. \A b \in ChainApprovals : Applying(attempt'[b]) /\ attempt'[b].target # None =>
          <<attempt'[b].source, attempt'[b].target>> \in Edges(chainDef, attempt)
    BY <1>7, EdgeOfAttempt, Zenon DEF Applying
  <2> QED
    BY <2>1, <2>2, NoLoopKept, Zenon DEF ChainInv
<1>18. HostInv'
  <2> SUFFICES ASSUME handEdited = {}, NEW l \in Lines, NodeOf[l] \in chainNodes
               PROVE  /\ host[l] = chainDef'[l].target \/ \E b \in ChainApprovals : Ahead(b, l)'
                      /\ \A b \in ChainApprovals :
                           Applying(attempt'[b]) /\ job[b] = "ok" /\ attempt'[b].source = l
                              => attempt'[b].target = host[l]
    BY <1>2 DEF HostInv
  <2>1. /\ host[l] = chainDef[l].target \/ \E b \in ChainApprovals : Ahead(b, l)
        /\ \A b \in ChainApprovals :
              Applying(attempt[b]) /\ job[b] = "ok" /\ attempt[b].source = l => attempt[b].target = host[l]
    BY Zenon DEF ChainInv, HostInv
  <2>2. \A b \in ChainApprovals :
          Applying(attempt'[b]) /\ job[b] = "ok" /\ attempt'[b].source = l => attempt'[b].target = host[l]
    BY <1>7, <2>1, Zenon DEF Applying
  <2>3. CASE l = p.source
    BY <1>1, <1>3, <1>4, <1>10, <2>1, <2>2, <2>3, Zenon
  <2>4. CASE l # p.source
    <3>1. \A b \in ChainApprovals : Ahead(b, l) => Ahead(b, l)'
      BY <1>1, <1>2, <1>7, <2>4, Zenon DEF Ahead
    <3> QED
      BY <1>10, <2>1, <2>2, <2>4, <3>1, Zenon
  <2> QED
    BY <2>3, <2>4, Zenon
<1> QED
  BY <1>12, <1>13, <1>14, <1>16, <1>17, <1>18, Zenon DEF ChainInv

\* The result of a failed script fails the attempt.
LEMMA StepFailure ==
  ASSUME ChainInv, NEW a \in ChainApprovals, completeLineChainTaskResultLocked(a), job[a] # "ok"
  PROVE  ChainInv'
<1> DEFINE p == attempt[a]
           q == [p EXCEPT !.status = "failed"]
<1>1. /\ p # None /\ job[a] = "failed" /\ chainApproval[a] = "approved" /\ chainTask[a] = "leased"
      /\ p.status = "applying" /\ attempt' = Staled(a)
      /\ chainTask' = [chainTask EXCEPT ![a] = "finished"] /\ graphRev' = graphRev + 1
      /\ UNCHANGED <<chainDef, chainApproval, chainNodes, seen, managed, draft, checked, host, job, handEdited>>
  BY DEF completeLineChainTaskResultLocked
<1>2. p \in Attempt /\ RowOK(p, "approved", "leased", "failed", draft[a])
  BY <1>1, RowOf, Zenon
<1>3. q \in Attempt /\ q.status = "failed"
  BY <1>2, Restated
<1>4. RowOK(q, "approved", "finished", "failed", draft[a])
  BY <1>2, RowFailed
<1>5. attempt' = [attempt EXCEPT ![a] = q]
  BY <1>1 DEF Staled
<1> HIDE DEF q
<1>6. /\ attempt \in [ChainApprovals -> Maybe(Attempt)] /\ chainTask \in [ChainApprovals -> Maybe(ChainTaskStatus)]
      /\ graphRev \in Nat
  BY Zenon DEF ChainInv, ChainShape
<1>7. /\ attempt' \in [ChainApprovals -> Maybe(Attempt)] /\ attempt'[a] = q
      /\ \A b \in ChainApprovals \ {a} : attempt'[b] = attempt[b]
  BY <1>3, <1>5, <1>6, Zenon DEF Maybe
<1>8. /\ chainTask' \in [ChainApprovals -> Maybe(ChainTaskStatus)] /\ chainTask'[a] = "finished"
      /\ \A b \in ChainApprovals \ {a} : chainTask'[b] = chainTask[b]
  BY <1>1, <1>6, Zenon DEF Maybe, ChainTaskStatus
<1>9. graphRev' \in Nat
  BY <1>1, <1>6
<1>10. ChainShape'
  BY <1>1, <1>7, <1>8, <1>9, Zenon DEF ChainInv, ChainShape
<1>11. ASSUME NEW b \in ChainApprovals PROVE Row(b)'
  <2>1. CASE b = a
    BY <1>1, <1>4, <1>7, <1>8, <2>1, Zenon DEF Row
  <2>2. CASE b # a
    BY <1>1, <1>7, <1>8, <2>2, RowUntouched, Zenon DEF Untouched
  <2> QED
    BY <2>1, <2>2
<1>12. \A b \in ChainApprovals :
        /\ Carries(attempt'[b], attempt[b])
        /\ Applying(attempt'[b]) => attempt'[b] = attempt[b]
        /\ job[b] = "ok" => attempt'[b] = attempt[b]
  BY <1>1, <1>3, <1>7, Zenon DEF Carries, Open, Applying
<1>13. OneOpen' /\ Based'
  BY <1>1, <1>12, OpenKept, Zenon DEF ChainInv
<1>14. NoLoop'
  BY <1>1, <1>12, EdgesTaken, Zenon DEF ChainInv
<1>15. HostInv'
  BY <1>1, <1>12, HostKept, Zenon DEF ChainInv
<1> QED
  BY <1>1, <1>10, <1>11, <1>13, <1>14, <1>15, DefinitionsStay, Zenon DEF ChainInv

\* Comparing a definition with a report changes its status alone.
LEMMA ReconciledDefinition ==
  ASSUME NEW d \in Definition, DefOK(d), NEW down, NEW e, e = Reconciled(d, down)
  PROVE  /\ e \in Definition /\ DefOK(e) /\ e.target = d.target /\ e.gen = d.gen
         /\ stickyLineChainDriftCode(d.drift) => stickyLineChainDriftCode(e.drift)
<1>1. CASE d.by = None \/ (d.status = "drifted" /\ stickyLineChainDriftCode(d.drift))
  BY <1>1, Zenon DEF Reconciled
<1>2. CASE ~(d.by = None \/ (d.status = "drifted" /\ stickyLineChainDriftCode(d.drift)))
  <2>1. PICK st \in {"converged", "drifted"}, dr \in {"", "observed_mismatch", "remove_artifacts_present"} :
          e = [d EXCEPT !.status = st, !.drift = dr] /\ (st = "drifted" <=> dr # "")
    BY <1>2, Zenon DEF Reconciled
  <2>2. /\ e \in Definition /\ e.target = d.target /\ e.gen = d.gen /\ e.frag = d.frag
        /\ e.status = st /\ e.drift = dr
    BY <2>1 DEF Definition
  <2>3. d.gen # 0
    <3>1. NoDef.by = None
      BY DEF NoDef
    <3> QED
      BY <1>2, <3>1, Zenon DEF DefOK
  <2>4. ~stickyLineChainDriftCode(d.drift)
    BY <1>2, Zenon DEF DefOK, stickyLineChainDriftCode
  <2> QED
    BY <2>1, <2>2, <2>3, <2>4, Zenon DEF DefOK
<1> QED
  BY <1>1, <1>2

\* An inventory of a node marks definitions.
LEMMA StepReconcile ==
  ASSUME ChainInv, NEW n, NEW listed \in BOOLEAN, reconcileLineChainsForNodeUnlocked(n, listed)
  PROVE  ChainInv'
<1> DEFINE mine == {l \in Lines : NodeOf[l] = n}
           report(l) == IF listed THEN host[l] ELSE Unlisted
<1>1. /\ seen' = [l \in Lines |-> IF l \in mine THEN report(l) ELSE seen[l]]
      /\ chainDef' = [l \in Lines |-> IF l \notin mine THEN chainDef[l]
                                      ELSE Reconciled(chainDef[l], IF listed THEN report(l) ELSE None)]
      /\ UNCHANGED <<chainNodes, managed, attempt, chainApproval, chainTask, graphRev, unlogged,
                     draft, checked, host, job, handEdited>>
  BY Zenon DEF reconcileLineChainsForNodeUnlocked
<1>2. /\ seen \in [Lines -> Lines \cup {None, Unlisted}] /\ host \in [Lines -> Maybe(Lines)]
      /\ \A l \in Lines : chainDef[l] \in Definition /\ DefOK(chainDef[l])
  BY Zenon DEF ChainInv, ChainShape
<1>3. seen' \in [Lines -> Lines \cup {None, Unlisted}]
  BY <1>1, <1>2, Zenon DEF Maybe
<1>4. \A l \in Lines : chainDef'[l] = chainDef[l] \/ \E down : chainDef'[l] = Reconciled(chainDef[l], down)
  BY <1>1
<1>5. \A l \in Lines : /\ chainDef'[l] \in Definition /\ DefOK(chainDef'[l])
                       /\ chainDef'[l].target = chainDef[l].target /\ chainDef'[l].gen = chainDef[l].gen
  <2> SUFFICES ASSUME NEW l \in Lines
               PROVE  /\ chainDef'[l] \in Definition /\ DefOK(chainDef'[l])
                      /\ chainDef'[l].target = chainDef[l].target /\ chainDef'[l].gen = chainDef[l].gen
    BY Zenon
  <2>1. CASE chainDef'[l] = chainDef[l]
    BY <1>2, <2>1, Zenon
  <2>2. ASSUME NEW down, chainDef'[l] = Reconciled(chainDef[l], down)
        PROVE  /\ chainDef'[l] \in Definition /\ DefOK(chainDef'[l])
               /\ chainDef'[l].target = chainDef[l].target /\ chainDef'[l].gen = chainDef[l].gen
    BY <1>2, <2>2, ReconciledDefinition, SMTT(30)
  <2> QED
    BY <1>4, <2>1, <2>2, Zenon
<1>6. chainDef' \in [Lines -> Definition]
  BY <1>1, <1>5
<1>7. ChainShape' /\ \A b \in ChainApprovals : Row(b)'
  BY <1>1, <1>3, <1>6, Zenon DEF ChainInv, ChainShape, Row
<1>8. OneOpen' /\ Based'
  <2>1. \A b \in ChainApprovals : Carries(attempt'[b], attempt[b])
    BY <1>1, Zenon DEF Carries
  <2>2. \A b \in ChainApprovals : Open(attempt'[b]) =>
          chainDef'[attempt[b].source].gen = chainDef[attempt[b].source].gen
    BY <1>1, <1>5, RowOf, AttemptFields, Zenon DEF Open
  <2> QED
    BY <2>1, <2>2, OpenKept, Zenon DEF ChainInv
<1>9. NoLoop'
  BY <1>1, <1>5, EdgesTaken, Zenon DEF ChainInv
<1>10. HostInv'
  BY <1>1, <1>5, HostKept, Zenon DEF ChainInv
<1> QED
  BY <1>5, <1>7, <1>8, <1>9, <1>10, Zenon DEF ChainInv

\* Marking a definition whose target is gone, and forgetting one.
LEMMA MarkedDefinition ==
  ASSUME NEW d \in Definition, DefOK(d), d.target # None, NEW e,
         e = [d EXCEPT !.status = "drifted", !.drift = "target_missing"]
  PROVE  e \in Definition /\ DefOK(e) /\ e.target = d.target /\ e.gen = d.gen /\ e.drift = "target_missing"
<1>1. /\ e \in Definition /\ e.target = d.target /\ e.gen = d.gen /\ e.frag = d.frag
      /\ e.status = "drifted" /\ e.drift = "target_missing"
  BY DEF Definition
<1>2. d.gen # 0
  <2>1. NoDef.target = None
    BY DEF NoDef
  <2> QED
    BY <2>1, Zenon DEF DefOK
<1> QED
  BY <1>1, <1>2, Zenon DEF DefOK

\* The definition of a line nothing was committed for.
LEMMA NoDefinition ==
  NoDef \in Definition /\ DefOK(NoDef) /\ NoDef.target = None /\ NoDef.gen = 0 /\ NoDef.drift = ""
BY DEF NoDef, Definition, DefOK, Maybe, Fragment

\* A node is deleted.
LEMMA StepCascade ==
  ASSUME ChainInv, NEW n, buildNodeCascadeLocked(n)
  PROVE  ChainInv'
<1> DEFINE touching == {a \in ChainApprovals : /\ attempt[a] # None
                           /\ \/ NodeOf[attempt[a].source] = n
                              \/ attempt[a].target # None /\ NodeOf[attempt[a].target] = n}
           leased == {a \in touching : attempt[a].issued /\ attempt[a].status # "failed"}
           released == touching \ leased
           mine == {l \in Lines : NodeOf[l] = n}
           pointing == {l \in Lines \ mine : /\ chainDef[l].target \in mine
                                             /\ ~(chainDef[l].status = "drifted" /\ chainDef[l].drift = "target_missing")}
           marked(l) == [chainDef[l] EXCEPT !.status = "drifted", !.drift = "target_missing"]
<1>1. /\ \A a \in leased : NodeOf[attempt[a].source] # n
      /\ chainNodes' = chainNodes \ {n}
      /\ attempt' = [a \in ChainApprovals |-> IF a \in released THEN None ELSE attempt[a]]
      /\ chainApproval' = [a \in ChainApprovals |-> IF a \in released THEN "rejected" ELSE chainApproval[a]]
      /\ chainTask' = [a \in ChainApprovals |-> IF a \in released /\ chainTask[a] # None THEN "cancelled" ELSE chainTask[a]]
      /\ chainDef' = [l \in Lines |-> IF l \in mine THEN NoDef ELSE IF l \in pointing THEN marked(l) ELSE chainDef[l]]
      /\ managed' = [l \in Lines |-> IF l \in mine THEN None ELSE managed[l]]
      /\ graphRev' \in {graphRev, graphRev + 1}
      /\ seen' = [l \in Lines |-> IF l \in mine THEN Unlisted ELSE seen[l]]
      /\ UNCHANGED <<unlogged, draft, checked, host, job, handEdited>>
  BY Zenon DEF buildNodeCascadeLocked
<1>2. /\ \A a \in released : attempt[a] # None /\ ~(attempt[a].issued /\ attempt[a].status # "failed")
      /\ \A a \in ChainApprovals : attempt[a] # None /\ NodeOf[attempt[a].source] = n => a \in touching
      /\ \A l \in pointing : l \notin mine /\ chainDef[l].target \in Lines
      /\ \A l \in Lines : NodeOf[l] # n => l \notin mine
      /\ \A l \in Lines : l \notin mine => NodeOf[l] # n
  BY Zenon
<1>3. \A a \in ChainApprovals : a \notin released => a \notin touching \/ a \in leased
  BY Zenon
<1> HIDE DEF touching, leased, released, mine, pointing, marked
<1>4. ASSUME NEW a \in ChainApprovals
      PROVE  /\ a \in released => /\ attempt'[a] = None /\ chainApproval'[a] = "rejected"
                                  /\ chainTask'[a] = IF chainTask[a] # None THEN "cancelled" ELSE chainTask[a]
             /\ a \notin released => attempt'[a] = attempt[a] /\ chainApproval'[a] = chainApproval[a]
                                     /\ chainTask'[a] = chainTask[a]
             /\ job'[a] = job[a] /\ draft'[a] = draft[a]
  BY <1>1, Zenon
<1>5. ASSUME NEW l \in Lines
      PROVE  /\ chainDef'[l] \in Definition /\ DefOK(chainDef'[l])
             /\ chainDef'[l].target # None => chainDef'[l].target = chainDef[l].target
             /\ NodeOf[l] # n => chainDef'[l].target = chainDef[l].target /\ chainDef'[l].gen = chainDef[l].gen
  <2>1. chainDef[l] \in Definition /\ DefOK(chainDef[l])
    BY DEF ChainInv, ChainShape
  <2>2. CASE l \in mine
    BY <1>1, <1>2, <2>2, NoDefinition, ZenonT(40)
  <2>3. CASE l \in pointing
    <3>1. chainDef'[l] = marked(l) /\ chainDef[l].target # None
      BY <1>1, <1>2, <2>3, NotNone, Zenon
    <3> QED
      BY <2>1, <3>1, MarkedDefinition, Zenon DEF marked
  <2>4. CASE l \notin mine /\ l \notin pointing
    <3>1. chainDef'[l] = chainDef[l]
      BY <1>1, <2>4
    <3> QED
      BY <2>1, <3>1, Zenon
  <2> QED
    BY <2>2, <2>3, <2>4, Zenon
<1>6. ChainShape'
  <2>1. chainDef' \in [Lines -> Definition]
    BY <1>1, <1>5, Zenon
  <2>2. attempt' \in [ChainApprovals -> Maybe(Attempt)]
    BY <1>1, Zenon DEF ChainInv, ChainShape, Maybe
  <2>3. chainApproval' \in [ChainApprovals -> Maybe(ApprovalStatus)]
    BY <1>1, Zenon DEF ChainInv, ChainShape, Maybe, ApprovalStatus
  <2>4. chainTask' \in [ChainApprovals -> Maybe(ChainTaskStatus)]
    BY <1>1, Zenon DEF ChainInv, ChainShape, Maybe, ChainTaskStatus
  <2>5. managed' \in [Lines -> Maybe(Nat)]
    BY <1>1, Zenon DEF ChainInv, ChainShape, Maybe
  <2>6. seen' \in [Lines -> Lines \cup {None, Unlisted}]
    BY <1>1, Zenon DEF ChainInv, ChainShape
  <2>7. graphRev' \in Nat
    BY <1>1, SMTT(30) DEF ChainInv, ChainShape
  <2>8. chainNodes' \subseteq {NodeOf[l] : l \in Lines}
    BY <1>1 DEF ChainInv, ChainShape
  <2> QED
    BY <1>1, <2>1, <2>2, <2>3, <2>4, <2>5, <2>6, <2>7, <2>8, Zenon DEF ChainInv, ChainShape
<1>7. ASSUME NEW b \in ChainApprovals PROVE Row(b)'
  <2>1. CASE b \in released
    <3>1. attempt[b] \in Attempt /\ RowOK(attempt[b], chainApproval[b], chainTask[b], job[b], draft[b])
      BY <1>2, <2>1, RowOf, ZenonT(40)
    <3>2. RowOK(None, "rejected", chainTask'[b], job[b], draft[b])
      <4>1. ~(attempt[b].issued /\ attempt[b].status # "failed")
        BY <1>2, <2>1, Zenon
      <4>2. chainTask'[b] = IF chainTask[b] # None THEN "cancelled" ELSE chainTask[b]
        BY <1>4, <2>1, Zenon
      <4> QED
        BY <3>1, <4>1, <4>2, RowReleased, Zenon
    <3> QED
      BY <1>4, <2>1, <3>2, Zenon DEF Row
  <2>2. CASE b \notin released
    BY <1>4, <2>2, RowUntouched, Zenon DEF Untouched
  <2> QED
    BY <2>1, <2>2
<1>8. OneOpen' /\ Based'
  <2>1. \A b \in ChainApprovals : Carries(attempt'[b], attempt[b])
    BY <1>4, Zenon DEF Carries, Open
  <2>2. ASSUME NEW b \in ChainApprovals, Open(attempt'[b])
        PROVE  chainDef'[attempt[b].source].gen = chainDef[attempt[b].source].gen
    <3>1. b \notin released /\ attempt[b] # None
      BY <1>4, <2>2, Zenon DEF Open
    <3>2. attempt[b].source \in Lines
      BY <3>1, RowOf, AttemptFields, Zenon
    <3>3. NodeOf[attempt[b].source] # n
      BY <1>1, <1>2, <1>3, <3>1, Zenon
    <3> QED
      BY <1>5, <3>2, <3>3, Zenon
  <2> QED
    BY <2>1, <2>2, OpenKept, Zenon DEF ChainInv
<1>9. \A b \in ChainApprovals : Applying(attempt'[b]) => attempt'[b] = attempt[b]
  BY <1>4, Zenon DEF Applying
<1>10. NoLoop'
  BY <1>5, <1>9, EdgesTaken, Zenon DEF ChainInv
<1>11. HostInv'
  <2>1. \A b \in ChainApprovals : Applying(attempt[b]) /\ attempt[b].issued => attempt'[b] = attempt[b]
    BY <1>2, <1>4, Zenon DEF Applying
  <2>2. chainNodes' \subseteq chainNodes /\ \A l \in Lines : NodeOf[l] \in chainNodes' => NodeOf[l] # n
    BY <1>1
  <2> QED
    BY <1>1, <1>4, <1>5, <1>9, <2>1, <2>2, HostKept, Zenon DEF ChainInv
<1> QED
  BY <1>5, <1>6, <1>7, <1>8, <1>10, <1>11, Zenon DEF ChainInv

\* A managed line is edited.
LEMMA StepEdit ==
  ASSUME ChainInv, NEW l \in Lines, EditManagedLine(l)
  PROVE  ChainInv'
<1>1. /\ managed[l] # None /\ managed' = [managed EXCEPT ![l] = @ + 1]
      /\ UNCHANGED <<chainNodes, seen, chainDef, attempt, chainApproval, chainTask, graphRev, unlogged,
                     draft, checked, host, job, handEdited>>
  BY Zenon DEF EditManagedLine
<1>2. managed \in [Lines -> Maybe(Nat)]
  BY Zenon DEF ChainInv, ChainShape
<1>3. managed[l] \in Nat
  BY <1>1, <1>2 DEF Maybe
<1>4. managed' \in [Lines -> Maybe(Nat)]
  BY <1>1, <1>2, <1>3 DEF Maybe
<1>5. ChainShape' /\ HostInv' /\ \A b \in ChainApprovals : Row(b)'
  BY <1>1, <1>4, Zenon DEF ChainInv, ChainShape, HostInv, Ahead, Row
<1> QED
  BY <1>1, <1>5, AttemptsStay, Zenon DEF ChainInv

\* A line is edited by hand on its host.
LEMMA StepEditHost ==
  ASSUME ChainInv, NEW l \in Lines, NEW down \in Maybe(Lines), EditHost(l, down)
  PROVE  ChainInv'
<1>1. /\ host' = [host EXCEPT ![l] = down] /\ handEdited' = handEdited \cup {l}
      /\ UNCHANGED <<chainNodes, seen, managed, chainDef, attempt, chainApproval, chainTask, graphRev,
                     unlogged, draft, checked, job>>
  BY Zenon DEF EditHost
<1>2. host' \in [Lines -> Maybe(Lines)] /\ handEdited' \subseteq Lines /\ handEdited' # {}
  BY <1>1 DEF ChainInv, ChainShape
<1>3. ChainShape' /\ HostInv' /\ \A b \in ChainApprovals : Row(b)'
  BY <1>1, <1>2, Zenon DEF ChainInv, ChainShape, HostInv, Row
<1> QED
  BY <1>1, <1>3, AttemptsStay, Zenon DEF ChainInv

\* The server restarts.
LEMMA StepRestart ==
  ASSUME ChainInv, ChainRestart
  PROVE  ChainInv'
<1>1. /\ seen' = [l \in Lines |-> Unlisted] /\ draft' = [a \in ChainApprovals |-> None] /\ checked' = {}
      /\ UNCHANGED <<chainNodes, managed, chainDef, attempt, chainApproval, chainTask, graphRev,
                     unlogged, host, job, handEdited>>
  BY Zenon DEF ChainRestart
<1>2. /\ seen' \in [Lines -> Lines \cup {None, Unlisted}] /\ draft' \in [ChainApprovals -> Maybe(Attempt)]
      /\ \A b \in ChainApprovals : draft'[b] = None
  BY <1>1 DEF Maybe
<1>3. ChainShape' /\ HostInv'
  BY <1>1, <1>2, Zenon DEF ChainInv, ChainShape, HostInv, Ahead
<1>4. ASSUME NEW b \in ChainApprovals PROVE Row(b)'
  <2>1. RowOK(attempt[b], chainApproval[b], chainTask[b], job[b], None)
    BY RowOf, RowDropped, Zenon
  <2> QED
    BY <1>1, <1>2, <2>1, Zenon DEF Row
<1> QED
  BY <1>1, <1>3, <1>4, AttemptsStay, Zenon DEF ChainInv

\* The server starts in the invariant.
LEMMA ChainStarts == ChainInit => ChainInv
<1> SUFFICES ASSUME ChainInit PROVE ChainInv
  OBVIOUS
<1>1. /\ \A l \in Lines : chainDef[l] = NoDef /\ host[l] = None
      /\ \A a \in ChainApprovals : /\ attempt[a] = None /\ draft[a] = None /\ chainApproval[a] = None
                                   /\ chainTask[a] = None /\ job[a] = None
  BY Zenon DEF ChainInit
<1>2. ChainShape
  BY NoDefinition DEF ChainInit, ChainShape, Maybe
<1>3. \A a \in ChainApprovals : Row(a)
  BY <1>1, NotNone DEF Row, RowOK, Reviewed, Applying
<1>4. \A l \in Lines : DefOK(chainDef[l])
  BY <1>1, NoDefinition, Zenon
<1>5. OneOpen /\ Based
  BY <1>1, Zenon DEF OneOpen, Based, Open
<1>6. NoLoop
  <2>1. ASSUME NEW e \in Edges(chainDef, attempt) PROVE FALSE
    <3>1. \/ \E l \in Lines : chainDef[l].target # None
          \/ \E b \in ChainApprovals : Applying(attempt[b])
      BY EdgesAre
    <3> QED
      BY <1>1, <3>1, NoDefinition, Zenon DEF Applying
  <2> QED
    BY <2>1, Zenon DEF NoLoop, Graph!Loops
<1>7. HostInv
  BY <1>1, NoDefinition, Zenon DEF HostInv, Applying
<1> QED
  BY <1>2, <1>3, <1>4, <1>5, <1>6, <1>7, Zenon DEF ChainInv

\* Every step keeps the invariant.
LEMMA ChainKept == ChainInv /\ [ChainNext]_chainVars => ChainInv'
<1> SUFFICES ASSUME ChainInv, [ChainNext]_chainVars PROVE ChainInv'
  OBVIOUS
<1>1. ASSUME NEW a \in ChainApprovals, NEW s \in Lines, NEW t \in Maybe(Lines), compileLineChain(a, s, t)
      PROVE  ChainInv'
  BY <1>1, StepCompile, Zenon
<1>2. ASSUME NEW a \in ChainApprovals,
             \/ planLineChainLocked(a) \/ validateLineChainApprovalForQueue(a) \/ ApproveLineChain(a)
             \/ RejectLineChainApproval(a) \/ RunScript(a)
             \/ completeLineChainTaskResultLocked(a) \/ ConfirmTaskResultReplay(a)
      PROVE  ChainInv'
  BY <1>2, StepPlan, StepValidate, StepApprove, StepRejectRequest, StepRun, StepCommit, StepFailure, StepConfirm, Zenon
<1>3. ASSUME NEW n, leaseTaskDeliveries(n) \/ buildNodeCascadeLocked(n) PROVE ChainInv'
  BY <1>3, StepLease, StepCascade, Zenon
<1>4. ASSUME NEW n, NEW listed \in BOOLEAN, reconcileLineChainsForNodeUnlocked(n, listed) PROVE ChainInv'
  BY <1>4, StepReconcile, Zenon
<1>5. ASSUME NEW l \in Lines, EditManagedLine(l) \/ \E d \in Maybe(Lines) : EditHost(l, d) PROVE ChainInv'
  BY <1>5, StepEdit, StepEditHost, Zenon
<1>6. CASE ChainRestart
  BY <1>6, StepRestart
<1>7. CASE UNCHANGED chainVars
  <2>1. UNCHANGED <<chainNodes, seen, managed, chainDef, attempt, chainApproval, chainTask, graphRev,
                    unlogged, draft, checked, host, job, handEdited>>
    BY <1>7 DEF chainVars
  <2>2. ChainShape' /\ HostInv' /\ \A b \in ChainApprovals : Row(b)'
    BY <2>1, Zenon DEF ChainInv, ChainShape, HostInv, Ahead, Row
  <2> QED
    BY <2>1, <2>2, AttemptsStay, Zenon DEF ChainInv
<1> QED
  BY <1>1, <1>2, <1>3, <1>4, <1>5, <1>6, <1>7, Zenon DEF ChainNext

\* The invariant is one of every behaviour.
LEMMA ChainInvariant == ChainSpec => []ChainInv
BY ChainStarts, ChainKept, PTL DEF ChainSpec

-----------------------------------------------------------------------------
(* What follows from it.                                                   *)

\* The invariant implies the types.
LEMMA InvTypes == ChainInv => ChainTypeOK
<1> SUFFICES ASSUME ChainInv PROVE ChainTypeOK
  OBVIOUS
<1>1. \A l \in Lines : /\ (chainDef[l].status = "drifted") = (chainDef[l].drift # "")
                       /\ (chainDef[l].frag # None) = (chainDef[l].target # None)
  BY DEF ChainInv, DefOK
<1>2. \A a \in ChainApprovals :
        attempt[a] # None => /\ attempt[a].status # "compiled"
                             /\ (attempt[a].op = "remove") = (attempt[a].target = None)
  BY DEF ChainInv, Row, RowOK, Reviewed
<1> QED
  BY <1>1, <1>2, Zenon DEF ChainInv, ChainShape, ChainTypeOK

\* The invariant implies that the records agree.
LEMMA InvBooks == ChainInv => BooksAgree
<1> SUFFICES ASSUME ChainInv, NEW a \in ChainApprovals
             PROVE  LET open == attempt[a] # None /\ attempt[a].status # "failed"
                    IN /\ (chainApproval[a] = "pending") = (open /\ attempt[a].status = "planned")
                       /\ (chainTask[a] \in {"queued", "leased"}) = (open /\ attempt[a].status = "applying")
                       /\ open /\ attempt[a].status = "applying" =>
                            chainApproval[a] = "approved" /\ attempt[a].issued = (chainTask[a] = "leased")
                       /\ chainApproval[a] = "applied" => chainTask[a] = "finished" /\ attempt[a] = None
                       /\ open => \A b \in ChainApprovals \ {a} :
                            attempt[b] = None \/ attempt[b].status = "failed" \/ attempt[b].source # attempt[a].source
  BY DEF BooksAgree
<1>1. RowOK(attempt[a], chainApproval[a], chainTask[a], job[a], draft[a])
  BY RowOf, Zenon
<1>2. attempt[a] # None => attempt[a].issued \in BOOLEAN
  BY RowOf, AttemptFields, Zenon
<1>3. Open(attempt[a]) => \A b \in ChainApprovals \ {a} :
        attempt[b] = None \/ attempt[b].status = "failed" \/ attempt[b].source # attempt[a].source
  BY Zenon DEF ChainInv, OneOpen, Open
<1>4. (chainApproval[a] = "pending") = (attempt[a] # None /\ attempt[a].status # "failed" /\ attempt[a].status = "planned")
  BY <1>1, Zenon DEF RowOK
<1>5. (chainTask[a] \in {"queued", "leased"}) =
        (attempt[a] # None /\ attempt[a].status # "failed" /\ attempt[a].status = "applying")
  BY <1>1, SMTT(30) DEF RowOK, Applying
<1>6. attempt[a] # None /\ attempt[a].status = "applying" =>
        chainApproval[a] = "approved" /\ attempt[a].issued = (chainTask[a] = "leased")
  BY <1>1, <1>2 DEF RowOK, Applying
<1>7. chainApproval[a] = "applied" => chainTask[a] = "finished" /\ attempt[a] = None
  BY <1>1, Zenon DEF RowOK
<1> QED
  BY <1>3, <1>4, <1>5, <1>6, <1>7, Zenon DEF Open

\* The invariant implies that the hosts do not forward in a circle.
LEMMA InvHosts == ChainInv => HostsNeverLoop
<1> SUFFICES ASSUME ChainInv, handEdited = {} PROVE HostsNeverLoop
  BY DEF HostsNeverLoop
<1> DEFINE hops == {<<l, host[l]>> : l \in {x \in Lines : host[x] # None /\ NodeOf[x] \in chainNodes}}
<1>1. ASSUME NEW l \in Lines, NodeOf[l] \in chainNodes
      PROVE  \/ host[l] = chainDef[l].target
             \/ \E a \in ChainApprovals : /\ Applying(attempt[a]) /\ attempt[a].issued
                                          /\ attempt[a].source = l /\ attempt[a].target = host[l]
  BY <1>1, Zenon DEF ChainInv, HostInv, Ahead
<1>2. hops \subseteq Edges(chainDef, attempt)
  <2> SUFFICES ASSUME NEW l \in Lines, host[l] # None, NodeOf[l] \in chainNodes
               PROVE  <<l, host[l]>> \in Edges(chainDef, attempt)
    OBVIOUS
  <2> QED
    BY <1>1, EdgeOfDefinition, EdgeOfAttempt, Zenon
<1>3. ~Graph!Loops(hops)
  BY <1>2, LoopsMonotone, Zenon DEF ChainInv, NoLoop
<1>4. \A l \in Lines : NodeOf[l] \in chainNodes =>
        \/ host[l] = chainDef[l].target
        \/ \E a \in ChainApprovals : /\ attempt[a] # None /\ attempt[a].status = "applying"
                                     /\ attempt[a].issued /\ attempt[a].source = l /\ attempt[a].target = host[l]
  BY <1>1, Zenon DEF Applying
<1> QED
  BY <1>3, <1>4, Zenon DEF HostsNeverLoop

\* Whatever is planned, approved, leased, reported, deleted and restarted in what
\* order, the attempt, the approval and the task of a change agree, and hosts
\* nobody edits never forward in a circle.
THEOREM ChainStaysSound == ChainSpec => []ChainSound
<1>1. ChainInv => ChainSound
  BY InvTypes, InvBooks, InvHosts DEF ChainSound
<1> QED
  BY ChainInvariant, <1>1, PTL

Sticky(d) == d.drift \in {"inputs_changed", "target_missing", "source_missing"}

\* What a step does to the definition of a line it neither commits nor forgets.
Marked(l) ==
    /\ chainDef'[l].target = chainDef[l].target /\ chainDef'[l].gen = chainDef[l].gen
    /\ Sticky(chainDef[l]) => Sticky(chainDef'[l])

Forgets(gone) == \A l \in Lines : IF l \in gone THEN chainDef'[l] = NoDef ELSE Marked(l)

Commits(s, t) ==
    /\ chainDef'[s].target = t /\ chainDef'[s].gen = chainDef[s].gen + 1
    /\ \A l \in Lines \ {s} : chainDef'[l] = chainDef[l]

\* A successful result commits one line.
LEMMA CommitMoves ==
  ASSUME ChainInv, NEW a \in ChainApprovals, completeLineChainTaskResultLocked(a), job[a] = "ok"
  PROVE  \E s \in Lines, t \in Maybe(Lines) : Commits(s, t)
<1>1. PICK p, st, d : /\ p = attempt[a] /\ st = classifyLineChainTerminalCompiledSnapshot(p)
                      /\ d = Committed(p, st, a)
  BY Zenon
<1>2. p # None /\ p.status = "applying" /\ chainDef' = [chainDef EXCEPT ![p.source] = d]
  BY <1>1 DEF completeLineChainTaskResultLocked
<1>3. p \in Attempt /\ Open(p) /\ p.source \in Lines /\ p.target \in Maybe(Lines)
  BY <1>1, <1>2, RowOf, AttemptFields, Zenon DEF Open
<1>4. p.baseGen = chainDef[p.source].gen
  BY <1>1, <1>3, ZenonT(40) DEF ChainInv, Based
<1>5. d.target = p.target /\ d.gen = p.baseGen + 1
  BY <1>1, Zenon DEF Committed
<1>6. chainDef'[p.source] = d /\ \A l \in Lines \ {p.source} : chainDef'[l] = chainDef[l]
  BY <1>2, <1>3 DEF ChainInv, ChainShape
<1> QED
  BY <1>3, <1>4, <1>5, <1>6, Zenon DEF Commits

\* Deleting a node forgets its lines and marks those that point at them.
LEMMA CascadeMoves ==
  ASSUME ChainInv, NEW n, buildNodeCascadeLocked(n)
  PROVE  Forgets({l \in Lines : NodeOf[l] = n})
<1> DEFINE mine == {l \in Lines : NodeOf[l] = n}
<1>1. PICK pointing \in SUBSET (Lines \ mine) :
        /\ \A l \in pointing : chainDef[l].target \in Lines
        /\ chainDef' = [l \in Lines |-> IF l \in mine THEN NoDef ELSE IF l \in pointing
                          THEN [chainDef[l] EXCEPT !.status = "drifted", !.drift = "target_missing"]
                          ELSE chainDef[l]]
  BY Zenon DEF buildNodeCascadeLocked
<1>2. ASSUME NEW l \in Lines
      PROVE  IF l \in mine THEN chainDef'[l] = NoDef ELSE Marked(l)
  <2>1. CASE l \in mine
    BY <1>1, <2>1, Zenon
  <2>2. CASE l \in pointing
    <3>1. chainDef'[l] = [chainDef[l] EXCEPT !.status = "drifted", !.drift = "target_missing"]
      BY <1>1, <2>2, Zenon
    <3>2. chainDef[l] \in Definition /\ DefOK(chainDef[l]) /\ chainDef[l].target # None
      BY <1>1, <2>2, NotNone, Zenon DEF ChainInv, ChainShape
    <3>3. /\ chainDef'[l].target = chainDef[l].target /\ chainDef'[l].gen = chainDef[l].gen
          /\ chainDef'[l].drift = "target_missing"
      BY <3>1, <3>2, MarkedDefinition, Zenon
    <3> QED
      BY <2>2, <3>3 DEF Marked, Sticky
  <2>3. CASE l \notin mine /\ l \notin pointing
    <3>1. chainDef'[l] = chainDef[l]
      BY <1>1, <2>3, Zenon
    <3> QED
      BY <2>3, <3>1, Zenon DEF Marked
  <2> QED
    BY <2>1, <2>2, <2>3
<1> QED
  BY <1>2, Zenon DEF Forgets

\* Reconciling with an inventory marks, and never moves, a definition.
LEMMA ReconcileMoves ==
  ASSUME ChainInv, NEW n, NEW listed \in BOOLEAN, reconcileLineChainsForNodeUnlocked(n, listed)
  PROVE  Forgets({})
<1>1. \A l \in Lines : chainDef'[l] = chainDef[l] \/ \E down : chainDef'[l] = Reconciled(chainDef[l], down)
  BY DEF reconcileLineChainsForNodeUnlocked
<1>2. ASSUME NEW l \in Lines PROVE Marked(l)
  <2>1. CASE chainDef'[l] = chainDef[l]
    BY <2>1, Zenon DEF Marked
  <2>2. ASSUME NEW down, chainDef'[l] = Reconciled(chainDef[l], down)
        PROVE  Marked(l)
    <3>1. chainDef[l] \in Definition /\ DefOK(chainDef[l])
      BY DEF ChainInv, ChainShape
    <3> QED
      BY <2>2, <3>1, ReconciledDefinition, SMTT(30) DEF Marked, Sticky, stickyLineChainDriftCode
  <2> QED
    BY <1>1, <2>1, <2>2, Zenon
<1> QED
  BY <1>2, Zenon DEF Forgets

\* Every step commits a change of one line or forgets lines, perhaps none.
LEMMA DefinitionMoves ==
  ASSUME ChainInv, [ChainNext]_chainVars
  PROVE  \/ \E s \in Lines, t \in Maybe(Lines) : Commits(s, t)
         \/ \E gone \in SUBSET Lines : Forgets(gone)
<1>1. UNCHANGED chainDef => Forgets({})
  BY Zenon DEF Forgets, Marked
<1>2. ASSUME NEW a \in ChainApprovals, NEW s \in Lines, NEW t \in Maybe(Lines), compileLineChain(a, s, t)
      PROVE  UNCHANGED chainDef
  BY <1>2, Zenon DEF compileLineChain
<1>3. ASSUME NEW a \in ChainApprovals,
             \/ planLineChainLocked(a) \/ validateLineChainApprovalForQueue(a) \/ ApproveLineChain(a)
             \/ RejectLineChainApproval(a) \/ RunScript(a) \/ ConfirmTaskResultReplay(a)
      PROVE  UNCHANGED chainDef
  BY <1>3, Zenon DEF planLineChainLocked, validateLineChainApprovalForQueue, ApproveLineChain,
                     RejectLineChainApproval, RunScript, ConfirmTaskResultReplay
<1>4. ASSUME NEW a \in ChainApprovals, completeLineChainTaskResultLocked(a)
      PROVE  UNCHANGED chainDef \/ \E s \in Lines, t \in Maybe(Lines) : Commits(s, t)
  <2>1. CASE job[a] = "ok"
    BY <1>4, <2>1, CommitMoves, Zenon
  <2>2. CASE job[a] # "ok"
    BY <1>4, <2>2, Zenon DEF completeLineChainTaskResultLocked
  <2> QED
    BY <2>1, <2>2
<1>5. ASSUME NEW n, leaseTaskDeliveries(n) PROVE UNCHANGED chainDef
  BY <1>5, Zenon DEF leaseTaskDeliveries
<1>6. ASSUME NEW l \in Lines, EditManagedLine(l) \/ \E d \in Maybe(Lines) : EditHost(l, d) PROVE UNCHANGED chainDef
  BY <1>6, Zenon DEF EditManagedLine, EditHost
<1>7. ChainRestart \/ UNCHANGED chainVars => UNCHANGED chainDef
  BY Zenon DEF ChainRestart, chainVars
<1>8. ASSUME NEW n, buildNodeCascadeLocked(n) PROVE \E gone \in SUBSET Lines : Forgets(gone)
  <2>1. {l \in Lines : NodeOf[l] = n} \in SUBSET Lines
    OBVIOUS
  <2> QED
    BY <1>8, <2>1, CascadeMoves, Zenon
<1>9. Forgets({}) => \E gone \in SUBSET Lines : Forgets(gone)
  <2>1. {} \in SUBSET Lines
    OBVIOUS
  <2> QED
    BY <2>1, Zenon
<1> QED
  BY <1>1, <1>2, <1>3, <1>4, <1>5, <1>6, <1>7, <1>8, <1>9, ReconcileMoves, Zenon DEF ChainNext

\* The protocol of plans, approvals, leases and results implements the line graph:
\* every step changes one line to a new generation without closing a loop, or
\* forgets the lines of a deleted node.
THEOREM ChainImplementsGraph == ChainSpec => ImplementsLineGraph
<1> DEFINE down == [l \in Lines |-> chainDef[l].target]
           gen == [l \in Lines |-> chainDef[l].gen]
<1>1. ChainInit => Graph!GraphInit
  <2> SUFFICES ASSUME ChainInit PROVE Graph!GraphInit
    OBVIOUS
  <2>1. \A l \in Lines : chainDef[l].target = None /\ chainDef[l].gen = 0
    BY NoDefinition DEF ChainInit
  <2> QED
    BY <2>1, Zenon DEF Graph!GraphInit
<1>2. ChainInv /\ ChainInv' /\ [ChainNext]_chainVars => Graph!GraphNext
  <2> SUFFICES ASSUME ChainInv, ChainInv', [ChainNext]_chainVars PROVE Graph!GraphNext
    BY Zenon
  <2>1. ASSUME NEW s \in Lines, NEW t \in Maybe(Lines), Commits(s, t) PROVE Graph!Change(s, t)
    <3>1. /\ down' = [down EXCEPT ![s] = t]
          /\ gen' = [gen EXCEPT ![s] = @ + 1]
      BY <2>1, Zenon DEF Commits
    <3>2. {<<x, down'[x]>> : x \in {y \in Lines : down'[y] # None}} \subseteq Edges(chainDef', attempt')
      BY Zenon DEF Edges
    <3>3. ~Graph!Loops(Edges(chainDef', attempt'))
      BY Zenon DEF ChainInv, NoLoop
    <3>4. ~Graph!Loops({<<x, down'[x]>> : x \in {y \in Lines : down'[y] # None}})
      BY <3>2, <3>3, LoopsMonotone, Zenon
    <3> QED
      BY <3>1, <3>4 DEF Graph!Change
  <2>2. ASSUME NEW gone \in SUBSET Lines, Forgets(gone) PROVE Graph!Forget(gone)
    <3>1. \A l \in Lines : /\ chainDef'[l].target = IF l \in gone THEN None ELSE chainDef[l].target
                           /\ chainDef'[l].gen = IF l \in gone THEN 0 ELSE chainDef[l].gen
      BY <2>2, NoDefinition, Zenon DEF Forgets, Marked
    <3> QED
      BY <3>1 DEF Graph!Forget
  <2> QED
    BY <2>1, <2>2, DefinitionMoves, Zenon DEF Graph!GraphNext, Graph!Maybe, Maybe
<1> QED
  BY ChainInvariant, <1>1, <1>2, PTL DEF ChainSpec, ImplementsLineGraph, Graph!GraphSpec

\* A definition found stale or without its target stays marked until a newer
\* change of its line is committed or its node is deleted.
THEOREM DriftStays == ChainSpec => DriftSticks
<1>1. ChainInv /\ [ChainNext]_chainVars =>
        [\A l \in Lines :
            chainDef[l].drift \in {"inputs_changed", "target_missing", "source_missing"} =>
              \/ chainDef'[l].gen # chainDef[l].gen
              \/ chainDef'[l].drift \in {"inputs_changed", "target_missing", "source_missing"}]_chainVars
  <2> SUFFICES ASSUME ChainInv, [ChainNext]_chainVars, NEW l \in Lines, Sticky(chainDef[l])
               PROVE  chainDef'[l].gen # chainDef[l].gen \/ Sticky(chainDef'[l])
    BY DEF Sticky
  <2>1. chainDef[l].gen \in Nat /\ chainDef[l].gen # 0
    <3>1. chainDef[l] \in Definition /\ DefOK(chainDef[l])
      BY DEF ChainInv, ChainShape
    <3>2. chainDef[l] # NoDef
      BY NoDefinition DEF Sticky
    <3> QED
      BY <3>1, <3>2 DEF DefOK, Definition
  <2>2. ASSUME NEW s \in Lines, NEW t \in Maybe(Lines), Commits(s, t)
        PROVE  chainDef'[l].gen # chainDef[l].gen \/ Sticky(chainDef'[l])
    <3>1. CASE l = s
      BY <2>1, <2>2, <3>1 DEF Commits
    <3>2. CASE l # s
      BY <2>2, <3>2, Zenon DEF Commits
    <3> QED
      BY <3>1, <3>2, Zenon
  <2>3. ASSUME NEW gone \in SUBSET Lines, Forgets(gone)
        PROVE  chainDef'[l].gen # chainDef[l].gen \/ Sticky(chainDef'[l])
    BY <2>1, <2>3, NoDefinition, Zenon DEF Forgets, Marked
  <2> QED
    BY <2>2, <2>3, DefinitionMoves, Zenon
<1> QED
  BY ChainInvariant, <1>1, PTL DEF ChainSpec, DriftSticks

================================================================================
