---------------------------- MODULE AgentInstall ----------------------------
(***************************************************************************)
(* The script an agent update runs on a node, as the server renders it     *)
(* (server/server_agent_update.go agentUpdateApplyScript and its steps,    *)
(* server/server_agent_update_walk.go): walk the plan's sources into one   *)
(* kept file inside a time budget, hold every chunk to the plan's          *)
(* manifest, verify, install, arm the guard and restart.  A file is a      *)
(* sequence of bytes, TRUE for a byte of the pinned binary; two bytes make *)
(* a chunk.                                                                *)
(***************************************************************************)
EXTENDS Common, Integers, Sequences, FiniteSets

CONSTANTS
    InstSources,   \* number of sources the plan lists
    InstTotal,         \* CHUNK_TOTAL: bytes of the pinned binary, an even number
    Budget,        \* FETCH_BUDGET
    Connect,       \* FETCH_CONNECT
    Retries,       \* FETCH_RETRIES
    MaxAttempts,   \* bound: runs of the script
    MaxInstReboots     \* bound: reboots of the host, and kills of the script past the download

FetchSources == 1..InstSources
Pause == 1                      \* FETCH_PAUSE
Good == [i \in 1..InstTotal |-> TRUE]
Old == "old"
New == "new"

VARIABLES
    honest,     \* external: the sources that hold the pinned bytes; the others serve anything
    chunkOn,    \* CHUNK_ON: dd, cut and sha256 work on the node
    works,      \* external: does the new binary start and say hello, does it write the health marker; None: not run yet
    instCand,       \* $CANDIDATE, kept between attempts
    walk,       \* shell variables of the walk in progress, or None
    step,       \* where the script is
    target,     \* the binary at $TARGET
    backup,     \* the binary at $BACKUP, or None
    guard,      \* the guard timer is armed
    agent,      \* the binary the service runs, and whether it said hello ($LATTICE_GUARD_MARKER)
    attempts, instReboots   \* bound counters

instVars == <<honest, chunkOn, works, instCand, walk, step, target, backup, guard, agent, attempts, instReboots>>
hostVars == <<honest, chunkOn, works, attempts, instReboots>>
diskVars == <<target, backup, guard, agent>>

(* ---- the chunk manifest -------------------------------------------------- *)

Files == UNION {[1..n -> BOOLEAN] : n \in 0..(InstTotal + 1)}
Cut(f, n) == IF Len(f) > n THEN SubSeq(f, 1, n) ELSE f
(* The bytes of whole chunks that match the manifest, from byte ok on. *)
Verified(f, ok) ==
    CHOOSE n \in {m \in ok..InstTotal : m % 2 = 0 \/ m = ok} :
        /\ n <= Len(f) \/ n = ok
        /\ \A i \in (ok + 1)..n : f[i]
        /\ \A m \in {k \in (n + 1)..InstTotal : k % 2 = 0 /\ k <= Len(f)} : \E i \in (ok + 1)..m : ~f[i]

(* fetch_chunks: cut to CHUNK_TOTAL, check whole chunks, cut back at the first bad one. *)
fetch_chunks(f, ok) ==
    LET have == Cut(f, InstTotal)
        n == Verified(have, ok)
        bad == Len(have) - n >= 2
    IN [file |-> IF bad THEN SubSeq(have, 1, n) ELSE have, ok |-> n, mark |-> Len(f) > InstTotal \/ bad]

(* ---- one fetch ----------------------------------------------------------- *)

Left == Budget - walk.spent
(* The first pass shares what is left among the sources not tried yet. *)
Share == Left \div walk.untried

(* The bytes source i appends to the file from offset Len(f): curl -C -. *)
Delivered(i, f) ==
    {d \in Files : /\ Len(f) + Len(d) <= (IF i \in honest THEN InstTotal ELSE InstTotal + 1)
                   /\ (i \in honest => \A j \in DOMAIN d : d[j])}
(* A transfer reports success only when the source's object ended. *)
Codes(i, f, d) ==
    {"transient", "fatal"} \cup (IF Len(f) + Len(d) = InstTotal \/ i \notin honest THEN {"ok"} ELSE {})
                           \cup (IF d = <<>> THEN {"refused"} ELSE {})   \* curl 33: no resume at this offset

\* Mutant: the tail another source left is not cut back before source i continues it.
CutTail_keeps(i) == instCand

(* fetch_one, first half: a tail below the last whole chunk belongs to the source that left it. *)
CutTail(i) == IF chunkOn /\ walk.tail # i THEN Cut(instCand, walk.ok) ELSE instCand

(* fetch_uncredit: the bytes cut back no longer count for the source that delivered them. *)
Uncredited(i) ==
    LET gone == Len(instCand) - Len(CutTail(i)) IN
    [s \in FetchSources |-> IF s = walk.tail THEN (IF walk.got[s] > gone THEN walk.got[s] - gone ELSE 0) ELSE walk.got[s]]

(* fetch_one: source i is fetched for at most limit, and the result judged. *)
fetch_one(i, limit, pass, nextWalk(_)) ==
    \E d \in Delivered(i, CutTail(i)), took \in 0..limit :
        LET before == CutTail(i)
            after == before \o d
            checked == IF chunkOn THEN fetch_chunks(after, walk.ok) ELSE [file |-> after, ok |-> walk.ok, mark |-> FALSE]
            got == IF Len(checked.file) > Len(before) THEN Len(checked.file) - Len(before) ELSE 0
        IN \E code \in Codes(i, before, d) :
               LET rc == IF code = "ok" /\ chunkOn /\ checked.ok # InstTotal THEN "fatal" ELSE code
                   w == [walk EXCEPT !.spent = @ + took, !.ok = checked.ok, !.tail = IF chunkOn THEN i ELSE @,
                                     !.done = rc = "ok", !.last = rc, !.rc[i] = IF rc = "refused" THEN rc ELSE "tried",
                                     !.got = IF pass = 1 THEN [Uncredited(i) EXCEPT ![i] = got] ELSE Uncredited(i),
                                     !.bad[i] = @ \/ checked.mark]
               IN instCand' = checked.file /\ walk' = nextWalk(w)

(* ---- the walk ------------------------------------------------------------ *)

(* fetch_kept: the file already holds the pinned bytes. *)
KeptChunks == instCand = Good

agentUpdateApplyScript ==
    /\ step = "idle" /\ attempts < MaxAttempts /\ agent.hello
    /\ LET start == IF chunkOn THEN fetch_chunks(instCand, 0) ELSE [file |-> instCand, ok |-> 0, mark |-> FALSE]
       IN /\ instCand' = IF KeptChunks THEN instCand ELSE start.file
          /\ walk' = [spent |-> 0, untried |-> InstSources, next |-> 1, tail |-> 0,
                      ok |-> IF KeptChunks THEN 0 ELSE start.ok, done |-> KeptChunks, last |-> "fatal",
                      rc |-> [s \in FetchSources |-> "none"], got |-> [s \in FetchSources |-> 0],
                      bad |-> [s \in FetchSources |-> FALSE], best |-> 0, tries |-> 0]
    /\ step' = "walk" /\ attempts' = attempts + 1
    /\ UNCHANGED <<honest, chunkOn, works, target, backup, guard, agent, instReboots>>

(* The loop of agentUpdateWalkStep: each source once, in the plan's order. *)
FirstPass ==
    /\ step = "walk" /\ walk.next <= InstSources /\ ~walk.done
    /\ LET moved(w) == [w EXCEPT !.next = @ + 1, !.untried = @ - 1]
       IN IF Left >= Connect THEN fetch_one(walk.next, Share, 1, moved)
          ELSE walk' = moved(walk) /\ UNCHANGED instCand
    /\ UNCHANGED <<step, diskVars, hostVars>>

(* FETCH_BEST: the clean source that delivered most. *)
Best == {s \in FetchSources : /\ walk.got[s] > 0 /\ ~walk.bad[s]
                         /\ \A t \in FetchSources : walk.bad[t] \/ walk.got[t] < walk.got[s] \/ (walk.got[t] = walk.got[s] /\ s <= t)}

StartSecondPass ==
    /\ step = "walk" /\ walk.next > InstSources /\ ~walk.done /\ walk.best = 0
    /\ \E s \in Best : walk' = [walk EXCEPT !.best = s]
    /\ UNCHANGED <<instCand, step, diskVars, hostVars>>

(* The retry loop: rest of the budget, no cutoff, a pause between tries. *)
SecondPass ==
    /\ step = "walk" /\ walk.best \in FetchSources /\ ~walk.done
    /\ LET again(w) ==
               IF w.done THEN w
               ELSE IF w.bad[w.best] \/ w.tries + 1 > Retries \/ w.last # "transient" \/ Budget - w.spent - Pause < Connect
               THEN [w EXCEPT !.best = -1]
               ELSE [w EXCEPT !.tries = @ + 1, !.spent = @ + Pause]
       IN IF Left >= Connect THEN fetch_one(walk.best, Left, 2, again)
          ELSE walk' = [walk EXCEPT !.best = -1] /\ UNCHANGED instCand
    /\ UNCHANGED <<step, diskVars, hostVars>>

WalkOver == walk.done \/ walk.best = -1 \/ (walk.next > InstSources /\ walk.best = 0 /\ Best = {})
Refused == \A s \in FetchSources : walk.rc[s] \in {"none", "refused"}

(* No source finished: the bytes are kept for the next attempt unless every source reached refused to resume. *)
InstGiveUp ==
    /\ step = "walk" /\ WalkOver /\ ~walk.done /\ ~KeptChunks
    /\ instCand' = IF Refused /\ (\E s \in FetchSources : walk.rc[s] # "none") THEN <<>> ELSE instCand
    /\ walk' = None /\ step' = "idle"
    /\ UNCHANGED <<diskVars, hostVars>>

(* agentUpdateMismatch: a digest mismatch deletes the download. *)
Verify ==
    /\ step = "walk" /\ WalkOver /\ (walk.done \/ KeptChunks)
    /\ IF instCand = Good THEN step' = "install" /\ UNCHANGED instCand ELSE step' = "idle" /\ instCand' = <<>>
    /\ walk' = None
    /\ UNCHANGED <<diskVars, hostVars>>

(* ---- install, guard, restart --------------------------------------------- *)

BinaryOf(f) == IF f = Good THEN New ELSE "other"

(* cp to $BACKUP, install to $TARGET.new, mv over $TARGET: one rename. *)
Install ==
    /\ step = "install"
    /\ IF works = None THEN works' \in [starts : BOOLEAN, marker : BOOLEAN] ELSE UNCHANGED works
    /\ backup' = target /\ target' = BinaryOf(instCand) /\ instCand' = <<>> /\ step' = "guard"
    /\ UNCHANGED <<walk, guard, agent, honest, chunkOn, attempts, instReboots>>

(* agentUpdateGuardStep: armed for a binary that writes the marker; if systemd-run refuses, the backup goes back. *)
agentUpdateGuardStep(armed) ==
    /\ step = "guard"
    /\ IF works.marker /\ ~armed
       THEN target' = backup /\ step' = "idle" /\ UNCHANGED guard
       ELSE guard' = (guard \/ works.marker) /\ step' = "restart" /\ UNCHANGED target
    /\ UNCHANGED <<instCand, walk, backup, agent, hostVars>>

(* The service manager starts what $TARGET holds; its runtime directory, and the marker in it, are fresh. *)
Started == [runs |-> target, hello |-> FALSE]

(* The delayed restart; the script has ended. *)
RestartService ==
    /\ step = "restart" /\ agent' = Started /\ step' = "idle"
    /\ UNCHANGED <<instCand, walk, target, backup, guard, hostVars>>

(* The agent's first hello writes the marker. *)
Hello ==
    /\ ~agent.hello /\ (agent.runs # Old => works.starts)
    /\ agent' = [agent EXCEPT !.hello = TRUE]
    /\ UNCHANGED <<instCand, walk, step, target, backup, guard, hostVars>>

(* agentUpdateGuardScript, when its timer fires. *)
GuardFires ==
    /\ guard /\ step = "idle" /\ guard' = FALSE
    /\ IF (agent.hello /\ agent.runs = New) \/ target # New
       THEN UNCHANGED <<target, agent>>
       ELSE target' = backup /\ agent' = [runs |-> backup, hello |-> FALSE]
    /\ UNCHANGED <<instCand, walk, step, backup, hostVars>>

(* A reboot ends the script and loses the transient units and /run. *)
InstReboot ==
    /\ instReboots < MaxInstReboots /\ instReboots' = instReboots + 1
    /\ step' = "idle" /\ walk' = None /\ guard' = FALSE /\ agent' = Started
    /\ UNCHANGED <<honest, chunkOn, works, instCand, target, backup, attempts>>

(* The task's timeout kills the script; the units it armed stay. *)
Timeout ==
    /\ step \in {"walk", "install", "guard"} /\ step' = "idle" /\ walk' = None
    /\ IF step = "walk" THEN UNCHANGED instReboots ELSE instReboots < MaxInstReboots /\ instReboots' = instReboots + 1
    /\ UNCHANGED <<honest, chunkOn, works, attempts, instCand, diskVars>>

InstInit ==
    /\ honest \in SUBSET FetchSources /\ chunkOn \in BOOLEAN /\ works = None
    /\ instCand = <<>> /\ walk = None /\ step = "idle" /\ target = Old /\ backup = None /\ guard = FALSE
    /\ agent = [runs |-> Old, hello |-> TRUE] /\ attempts = 0 /\ instReboots = 0

InstNext ==
    \/ agentUpdateApplyScript \/ FirstPass \/ StartSecondPass \/ SecondPass \/ InstGiveUp \/ Verify
    \/ Install \/ \E armed \in BOOLEAN : agentUpdateGuardStep(armed)
    \/ RestartService \/ Hello \/ GuardFires \/ InstReboot \/ Timeout

InstSpec == InstInit /\ [][InstNext]_instVars

(* ---- properties ----------------------------------------------------------- *)

InstTypeOK ==
    /\ honest \subseteq FetchSources /\ instCand \in Files /\ target \in {Old, New, "other"}
    /\ step \in {"idle", "walk", "install", "guard", "restart"} /\ (step = "walk") = (walk # None)
    /\ walk # None => /\ walk.untried \in 0..InstSources /\ walk.ok \in 0..InstTotal /\ walk.tail \in 0..InstSources
                      /\ walk.got \in [FetchSources -> 0..(InstTotal + 1)] /\ walk.tries \in 0..Retries

(* The walk is sound whatever the sources serve and wherever an attempt is cut short: only the pinned   *)
(* bytes are ever installed (agentUpdateMismatch); a source is given up as serving bad chunks only if   *)
(* it did serve bad bytes, never for a tail another source left (FETCH_TAIL in fetch_one); the time     *)
(* charged never exceeds FETCH_BUDGET; and CHUNK_OK never covers a byte that is not of the binary.      *)
WalkSound ==
    /\ target \in {Old, New}
    /\ walk # None => /\ \A s \in honest : ~walk.bad[s]
                      /\ walk.spent <= Budget
                      /\ chunkOn => \A i \in 1..walk.ok : i <= Len(instCand) /\ instCand[i]

(* The install script keeps its files well formed and the walk over the sources sound, through every cut of an  *)
(* attempt (fetch_one, fetch_chunks, agentUpdateGuardStep).                                             *)
InstallSound == InstTypeOK /\ WalkSound

=============================================================================
