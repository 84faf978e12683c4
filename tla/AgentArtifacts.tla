--------------------------- MODULE AgentArtifacts ---------------------------
(***************************************************************************)
(* Agent releases the control plane holds and hands to nodes               *)
(* (server/server_agent_artifacts.go, server/server_agent_prefetch.go) and *)
(* the registry of download mirrors (server/server_agent_mirrors.go,       *)
(* store/agent_mirrors.go).  Storing a release lists the objects, checks   *)
(* the cap, puts the new one and deletes those it replaces, each step      *)
(* under its own lock.  Serving one goes through a cache of verified bytes *)
(* that decodes an object once for all readers.  A digest is the bytes it  *)
(* names; bytes on disk may be damaged.                                    *)
(***************************************************************************)
EXTENDS Common, Integers, Sequences, FiniteSets, SequencesExt

CONSTANTS
    Digests,        \* digests of releases; an object path is its digest here
    PlatformOf,     \* PlatformOf[d]: version, os and arch the release d is for
    ArtReaders,     \* downloads in flight
    ArtWriters,     \* operator requests in flight
    UpdPlans,       \* agent update approvals of one node, newest first: a sequence of digests
    Preferred,      \* mirrors that prefer the node
    Mirrors,        \* ids of mirrors
    MirrorHosts,    \* base URLs they may have
    StoreCap,       \* maxAgentArtifactStoreBytes, in objects
    CacheBudget,    \* agentArtifactByteCacheBudget, in objects
    MaxInFlight,    \* agentPrefetchMaxInFlight
    MaxSources,     \* maxAgentUpdateSources
    MaxArtWrites    \* bound: operator requests, approval moves and disk faults

ASSUME ArtAssumption == MaxInFlight >= 1 /\ CacheBudget >= 1 /\ MaxSources >= 2

Bad == "bad"        \* bytes that match no digest
Plans == DOMAIN UpdPlans
PlanOpen == {"pending", "approved", "queued", "leased"}

VARIABLES
    objects,        \* static bucket agent-releases: digest -> content, or None
    manifests,      \* State.AgentArtifactManifests: digests with a recorded manifest
    cache,          \* agentArtifactByteCache.entries, most recent first
    loading,        \* agentArtifactByteCache.loading: digest -> the reader that decodes, or None
    reader,         \* downloads in flight
    writer,         \* requests in flight
    inFlight,       \* agentPrefetchBook.inFlight of the node
    updPlan,        \* the node's update approvals and their task: pending, approved, queued, leased, closed
    index,          \* agentPrefetchBook.index: what the config pull read up to a TTL ago
    named,          \* the approval the last config pull named for prefetch, or None
    mirrors,        \* AgentMirrorRegistry: revision, host of each mirror, ids with a first plan
    mirrorPlans,    \* agent.mirrors approvals
    artWrites       \* bound counter

artStoreVars  == <<objects, manifests, writer>>
serveVars  == <<cache, loading, reader, inFlight>>
planVars   == <<updPlan, index, named>>
mirrorVars == <<mirrors, mirrorPlans>>
artVars == <<objects, manifests, cache, loading, reader, writer, inFlight, updPlan, index, named, mirrors, mirrorPlans, artWrites>>
ArtWrite == artWrites < MaxArtWrites /\ artWrites' = artWrites + 1

(* ---- storing releases ---------------------------------------------------- *)

Held == {d \in Digests : objects[d] # None}
SamePlatform(d) == {e \in Held : PlatformOf[e] = PlatformOf[d]}
Step(w, k) == writer[w] # None /\ (writer[w] # None => writer[w].step = k)

(* handleAgentArtifactUpload and -Import: bytes verified; an import records the manifest first; then      *)
(* putAgentArtifact lists what the new object replaces and measures the rest against the cap.             *)
ListArtifacts(w, d, import) ==
    /\ writer[w] = None /\ ArtWrite
    /\ manifests' = IF import THEN manifests \cup {d} ELSE manifests
    /\ IF Cardinality(Held \ SamePlatform(d)) + 1 > StoreCap THEN UNCHANGED writer
       ELSE writer' = [writer EXCEPT ![w] = [step |-> "put", d |-> d, import |-> import, old |-> SamePlatform(d) \ {d}]]
    /\ UNCHANGED <<objects, serveVars, planVars, mirrorVars>>

putAgentArtifact(w) ==
    /\ Step(w, "put")
    /\ \/ objects' = [objects EXCEPT ![writer[w].d] = writer[w].d] /\ writer' = [writer EXCEPT ![w].step = "delete"]
       \/ UNCHANGED objects /\ writer' = [writer EXCEPT ![w] = None]            \* the write failed
    /\ UNCHANGED <<manifests, serveVars, planVars, mirrorVars, artWrites>>

(* The superseded objects go one by one, after the new one is stored; a failure leaves the rest. *)
DeleteSuperseded(w) ==
    /\ Step(w, "delete")
    /\ \/ \E e \in writer[w].old : /\ objects' = [objects EXCEPT ![e] = None]
                                   /\ writer' = [writer EXCEPT ![w].old = @ \ {e}] /\ UNCHANGED manifests
       \/ /\ UNCHANGED objects /\ writer' = [writer EXCEPT ![w] = None]
          /\ \/ writer[w].old # {} /\ UNCHANGED manifests
             \/ writer[w].old = {} /\ manifests' = manifests \cup {writer[w].d} \* storeAgentArtifact records last
    /\ UNCHANGED <<serveVars, planVars, mirrorVars, artWrites>>

handleAgentArtifactDelete(d) ==
    /\ ArtWrite /\ d \in Held /\ objects' = [objects EXCEPT ![d] = None]
    /\ UNCHANGED <<manifests, writer, serveVars, planVars, mirrorVars>>

DamageObject(d) ==
    /\ ArtWrite /\ d \in Held /\ objects' = [objects EXCEPT ![d] = Bad]
    /\ UNCHANGED <<manifests, writer, serveVars, planVars, mirrorVars>>

(* ---- which release a node may fetch ---------------------------------------- *)

(* The approval moves on: decided, its task queued, leased, and closed. *)
MovePlan(i, st) ==
    /\ ArtWrite
    /\ <<updPlan[i], st>> \in {<<"pending", "approved">>, <<"approved", "queued">>, <<"queued", "leased">>,
                               <<"leased", "closed">>, <<"pending", "closed">>, <<"queued", "closed">>}
    /\ updPlan' = [updPlan EXCEPT ![i] = st]
    /\ UNCHANGED <<artStoreVars, serveVars, index, named, mirrorVars>>

(* agentPrefetchPlanFor on the approvals seen: none while any runs; the newest queued one, else the newest. *)
ChosenPlan(seen) ==
    LET open == {i \in Plans : seen[i] \in PlanOpen}
        queued == {i \in open : seen[i] = "queued"}
        newest(S) == CHOOSE i \in S : \A j \in S : i <= j
    IN IF open = {} \/ \E i \in open : seen[i] = "leased" THEN None
       ELSE IF queued # {} THEN newest(queued) ELSE newest(open)

ApprovalRow(st) == IF st \in {"approved", "queued", "leased"} THEN "approved" ELSE st
StillOpen(i, seen) == ApprovalRow(updPlan[i]) = ApprovalRow(seen[i])

(* The config pull: approvals from an index at most a TTL old, the chosen one read again, its object held. *)
openAgentUpdateApprovals ==
    /\ index' = updPlan /\ index # updPlan
    /\ UNCHANGED <<artStoreVars, serveVars, updPlan, named, mirrorVars, artWrites>>

PullConfig ==
    LET i == ChosenPlan(index) IN
    /\ named' = IF i # None THEN (IF StillOpen(i, index) /\ UpdPlans[i] \in Held THEN i ELSE None) ELSE None
    /\ named' # named
    /\ UNCHANGED <<artStoreVars, serveVars, updPlan, index, mirrorVars, artWrites>>

(* ---- serving -------------------------------------------------------------- *)

(* agentPrefetchBook.enter and leave *)
enter(n) == n < MaxInFlight
leave(n) == IF n <= 1 THEN 0 ELSE n - 1

ReadObject(r, d, prefetch) ==
    reader' = [reader EXCEPT ![r] = [step |-> IF d \in Held THEN "lookup" ELSE "not_found", d |-> d, content |-> objects[d],
                                     prefetch |-> prefetch, data |-> None, on |-> None]]

(* authorizeAgentBinaryRequest: the task that presents its lease runs an approved plan for exactly d. *)
handleAgentBinary(r, i) ==
    /\ reader[r] = None /\ updPlan[i] = "leased" /\ ReadObject(r, UpdPlans[i], FALSE)
    /\ UNCHANGED <<artStoreVars, cache, loading, inFlight, planVars, mirrorVars, artWrites>>

(* handleAgentPrefetchBinary: the plan read fresh names d, and a place is free. *)
handleAgentPrefetchBinary(r) ==
    LET i == ChosenPlan(updPlan) IN
    /\ reader[r] = None /\ i # None /\ (i # None => UpdPlans[i] \in Held) /\ enter(inFlight)
    /\ inFlight' = inFlight + 1 /\ ReadObject(r, UpdPlans[i], TRUE)
    /\ UNCHANGED <<artStoreVars, cache, loading, planVars, mirrorVars, artWrites>>

Entry(k) == [path |-> k.d, content |-> k.content]
\* Mutant: a reader joins whatever decode of its path is under way.
JoinsPath(k) == loading[k.d] # None
(* A reader joins a decode only of the same content. *)
Joins(k) == loading[k.d] # None /\ (loading[k.d] # None => reader[loading[k.d]].content = k.content)

(* agentArtifactByteCache.verified, under its lock: a hit moves to the front; else join a decode or start one. *)
verified(r) ==
    LET k == reader[r] IN
    /\ k # None /\ (k # None => k.step = "lookup")
    /\ IF \E e \in ToSet(cache) : e = Entry(k)
       THEN /\ cache' = <<Entry(k)>> \o SelectSeq(cache, LAMBDA e : e # Entry(k)) /\ UNCHANGED loading
            /\ reader' = [reader EXCEPT ![r].step = "send", ![r].data = k.content]
       ELSE IF Joins(k) THEN UNCHANGED <<cache, loading>> /\ reader' = [reader EXCEPT ![r].step = "wait", ![r].on = loading[k.d]]
       ELSE /\ loading' = [loading EXCEPT ![k.d] = r] /\ UNCHANGED cache
            /\ reader' = [reader EXCEPT ![r].step = "decode"]
    /\ UNCHANGED <<artStoreVars, inFlight, planVars, mirrorVars, artWrites>>

(* decodeVerifiedAgentArtifact: the digest decides, and the readers that wait on this decode get its outcome. *)
decodeVerifiedAgentArtifact(r) ==
    LET k == reader[r]
        good == k.content = k.d
        waits(x) == reader[x] # None /\ (reader[x] # None => reader[x].step = "wait" /\ reader[x].on = r)
    IN /\ k # None /\ (k # None => k.step = "decode")
       /\ loading' = IF loading[k.d] = r THEN [loading EXCEPT ![k.d] = None] ELSE loading
       /\ cache' = IF good THEN SubSeq(<<Entry(k)>> \o cache, 1, IF Len(cache) < CacheBudget THEN Len(cache) + 1 ELSE CacheBudget)
                   ELSE cache
       /\ reader' = [x \in ArtReaders |->
                       IF x = r \/ waits(x) THEN [reader[x] EXCEPT !.step = IF good THEN "send" ELSE "refuse",
                                                                   !.data = IF good THEN k.content ELSE None]
                       ELSE reader[x]]
       /\ UNCHANGED <<artStoreVars, inFlight, planVars, mirrorVars, artWrites>>

ArtEnded(r) == reader[r] # None /\ (reader[r] # None => reader[r].step \in {"send", "refuse", "not_found"})

EndServe(r) ==
    /\ ArtEnded(r) /\ reader' = [reader EXCEPT ![r] = None]
    /\ inFlight' = IF reader[r].prefetch THEN leave(inFlight) ELSE inFlight
    /\ UNCHANGED <<artStoreVars, cache, loading, planVars, mirrorVars, artWrites>>

(* agentArtifactManifest: a manifest missing for a held release is computed from its verified bytes. *)
agentArtifactManifest(d) ==
    /\ d \notin manifests /\ objects[d] = d /\ manifests' = manifests \cup {d}
    /\ UNCHANGED <<objects, writer, serveVars, planVars, mirrorVars, artWrites>>

(* ---- the mirror registry --------------------------------------------------- *)

Known == {m \in Mirrors : mirrors.host[m] # None}

(* buildAgentMirrorPlan: create, move or delete one mirror of the registry as it is. *)
handleAgentMirrorPlan(m, h) ==
    /\ ArtWrite /\ mirrors.host[m] # h
    /\ mirrorPlans' = mirrorPlans \cup {[status |-> "pending", base |-> mirrors.rev, before |-> mirrors.host,
                                         next |-> [mirrors.host EXCEPT ![m] = h]]}
    /\ UNCHANGED <<artStoreVars, serveVars, planVars, mirrors>>

ArtDecide(p, st) == mirrorPlans' = (mirrorPlans \ {p}) \cup {[p EXCEPT !.status = st]}

(* agentMirrorsApprove: rendered again from the live registry, it is the same plan. *)
agentMirrorsApprove(w, p) ==
    /\ writer[w] = None /\ p.status = "pending" /\ p.base = mirrors.rev
    /\ writer' = [writer EXCEPT ![w] = [step |-> "apply", plan |-> p]]
    /\ UNCHANGED <<objects, manifests, serveVars, planVars, mirrorVars, artWrites>>

AtBase(p) == mirrors.rev = p.base

(* ApplyAgentMirrorPlan: one write, refused unless the approval is pending and the registry at its base. *)
ApplyAgentMirrorPlan(w) ==
    LET p == writer[w].plan IN
    /\ Step(w, "apply") /\ writer' = [writer EXCEPT ![w] = None]
    /\ IF p \in mirrorPlans /\ AtBase(p)
       THEN /\ mirrors' = [rev |-> mirrors.rev + 1, host |-> p.next,
                           first |-> {m \in mirrors.first : p.next[m] = mirrors.host[m]}]
            /\ ArtDecide(p, "applied")
       ELSE UNCHANGED mirrorVars
    /\ UNCHANGED <<objects, manifests, serveVars, planVars, artWrites>>

(* agentUpdateSourceOrder: preferred mirrors, the control plane, the others, upstream last; mirrors give way. *)
agentUpdateSourceOrder(holds, usable) ==
    LET room == MaxSources - (IF holds THEN 2 ELSE 1)
        pref == SetToSeq(usable \cap Preferred)
        glob == SetToSeq(usable \ Preferred)
        kept == SubSeq(pref, 1, IF Len(pref) < room THEN Len(pref) ELSE room)
        left == room - Len(kept)
    IN kept \o (IF holds THEN <<"control-plane">> ELSE <<>>) \o SubSeq(glob, 1, IF Len(glob) < left THEN Len(glob) ELSE left)
            \o <<"upstream">>

(* agentUpdateSourcesFor while a plan for d is made: mirrors only for bytes with a manifest. *)
agentUpdateSourcesFor(w, d) ==
    /\ writer[w] = None /\ ArtWrite
    /\ LET order == agentUpdateSourceOrder(d \in Held, IF d \in manifests THEN Known ELSE {})
       IN writer' = [writer EXCEPT ![w] = [step |-> "note", ids |-> ToSet(order) \cap Mirrors, host |-> mirrors.host]]
    /\ UNCHANGED <<objects, manifests, serveVars, planVars, mirrorVars>>

(* noteAgentMirrorsPlanned, MarkAgentMirrorsPlanned: the first plan of a known mirror is marked and alerts. *)
noteAgentMirrorsPlanned(w) ==
    /\ Step(w, "note") /\ writer' = [writer EXCEPT ![w] = None]
    /\ mirrors' = [mirrors EXCEPT !.first = @ \cup (writer[w].ids \cap Known)]
    /\ UNCHANGED <<objects, manifests, serveVars, planVars, mirrorPlans, artWrites>>

(* A restart: the store is kept; cache, decodes, downloads, index and requests are gone. *)
ArtRestart ==
    /\ ArtWrite /\ cache' = <<>> /\ loading' = [d \in Digests |-> None] /\ inFlight' = 0
    /\ reader' = [r \in ArtReaders |-> None] /\ writer' = [w \in ArtWriters |-> None]
    /\ index' = updPlan /\ named' = None
    /\ UNCHANGED <<objects, manifests, updPlan, mirrorVars>>

ArtInit ==
    /\ objects = [d \in Digests |-> None] /\ manifests = {} /\ cache = <<>> /\ loading = [d \in Digests |-> None]
    /\ reader = [r \in ArtReaders |-> None] /\ writer = [w \in ArtWriters |-> None] /\ inFlight = 0
    /\ updPlan = [i \in Plans |-> "pending"] /\ index = updPlan /\ named = None
    /\ mirrors = [rev |-> 0, host |-> [m \in Mirrors |-> None], first |-> {}] /\ mirrorPlans = {} /\ artWrites = 0

ArtNext ==
    \/ \E w \in ArtWriters : \/ \E d \in Digests : agentUpdateSourcesFor(w, d) \/ \E i \in BOOLEAN : ListArtifacts(w, d, i)
                             \/ putAgentArtifact(w) \/ DeleteSuperseded(w) \/ ApplyAgentMirrorPlan(w) \/ noteAgentMirrorsPlanned(w)
                             \/ \E p \in mirrorPlans : agentMirrorsApprove(w, p)
    \/ \E d \in Digests : handleAgentArtifactDelete(d) \/ DamageObject(d) \/ agentArtifactManifest(d)
    \/ \E i \in Plans : \/ \E st \in PlanOpen \cup {"closed"} : MovePlan(i, st)
                        \/ \E r \in ArtReaders : handleAgentBinary(r, i)
    \/ \E r \in ArtReaders : handleAgentPrefetchBinary(r) \/ verified(r) \/ decodeVerifiedAgentArtifact(r) \/ EndServe(r)
    \/ openAgentUpdateApprovals \/ PullConfig
    \/ \E m \in Mirrors, h \in MirrorHosts \cup {None} : handleAgentMirrorPlan(m, h)
    \/ ArtRestart

(* ---- properties ------------------------------------------------------------ *)

ArtTypeOK ==
    /\ objects \in [Digests -> Digests \cup {Bad, None}] /\ manifests \subseteq Digests /\ Len(cache) <= CacheBudget
    /\ inFlight \in 0..MaxInFlight /\ mirrors.first \subseteq Known

(* A node is sent exactly the bytes its plan pins, and is refused only when the bytes it was to get failed  *)
(* their digest, whatever damage, replacement, restart or shared decode intervenes (verified); and the      *)
(* places its prefetches take are those of its downloads in flight, so each is given back however the       *)
(* download ends (enter, leave).                                                                            *)
DownloadsSound ==
    /\ \A r \in ArtReaders : reader[r] # None =>
          /\ reader[r].step = "send" => reader[r].data = reader[r].d
          /\ reader[r].step = "refuse" => reader[r].content # reader[r].d
    /\ inFlight = Cardinality({r \in ArtReaders : reader[r] # None /\ (reader[r] # None => reader[r].prefetch)})

(* A reviewed mirror change replaces only the registry it was made on, so none is lost under another        *)
(* (ApplyAgentMirrorPlan); and a config pull served from an old index names no plan that has closed since   *)
(* (agentPrefetchPlanFor).                                                                                  *)
PlansStand ==
    [][ /\ mirrors'.host # mirrors.host => \E p \in mirrorPlans : p.before = mirrors.host /\ p.next = mirrors'.host
        /\ named' # named => (named' # None => updPlan[named'] \in PlanOpen) ]_artVars

(* Every download is the pinned bytes or refused for a reason, and its place is given back (serveAgentArtifact).  *)
ArtifactsSound == ArtTypeOK /\ DownloadsSound

=============================================================================
