------------------------------ MODULE HotStore ------------------------------
(***************************************************************************)
(* Where the store keeps its high-churn collections (store.go,             *)
(* bolt_state.go): in state.json until an operator names a bbolt sidecar,  *)
(* and in the sidecar from then on.  Every start that names it copies the  *)
(* rows of state.json across, one transaction after another, by the rule   *)
(* of each collection, and merges the sidecar back into memory; from then  *)
(* on each write goes to the sidecar alone and the next whole-state save   *)
(* drops the stale copy from state.json.  The process may die between any  *)
(* two transactions.  A row is the instant it was written, 0 for no row.   *)
(*                                                                         *)
(* A collection stands for those treated alike: "user" for proxy users,    *)
(* node profiles and usage snapshots; "day" for usage days and status      *)
(* events; "share" for subscription shares and snapshots; "kv" for KV and  *)
(* static objects.                                                         *)
(***************************************************************************)
EXTENDS Common, Naturals, FiniteSets

CONSTANTS
    HotIds,              \* row ids of each collection
    HotLegacy,           \* the sidecar at Init was written by a release that kept share secrets in plain text
    MaxHotOps, MaxHotCrashes   \* bounds

VARIABLES
    hotMode,             \* "down", "json" (no sidecar), a step of the enable, or "hot"
    hotJson,             \* the rows in state.json
    hotMem,              \* Store.state
    hotBolt,             \* the rows in the sidecar
    hotMarks,            \* flags in the sidecar's _meta bucket
    hotPlain,            \* share rows in the sidecar are plain text
    hotUsed,             \* the operator has configured the sidecar
    hotExpired,          \* sessions that are no longer active
    hotAcked,            \* the row a caller last got an answer for
    hotOps, hotCrashes

hotVars == <<hotMode, hotJson, hotMem, hotBolt, hotMarks, hotPlain, hotUsed, hotExpired, hotAcked, hotOps, hotCrashes>>

Kinds == {"audit", "session", "user", "day", "share", "kv", "mon"}
Rows == [Kinds -> [HotIds -> Nat]]
Marks == {"share", "kv", "mon"}
NoRows == [k \in Kinds |-> [i \in HotIds |-> 0]]
Steps == <<"audit", "session", "user", "day", "share", "kv", "mon", "merge">>
After(step) == LET n == CHOOSE n \in DOMAIN Steps : Steps[n] = step IN Steps[n + 1]
Serving == hotMode \in {"json", "hot"}
Newer(a, b) == [i \in HotIds |-> IF a[i] > b[i] THEN a[i] ELSE b[i]]

-----------------------------------------------------------------------------
(* ---- the files ---------------------------------------------------------------- *)

(* jsonPersistState: with the sidecar open, state.json carries none of its collections. *)
jsonPersistState(st) == IF hotMode \in {"hot", "merge"} THEN NoRows ELSE st

(* exportState without the audit log also leaves out the day rows and the monitor results. *)
exportState(b) == [b EXCEPT !["audit"] = NoRows["audit"], !["day"] = NoRows["day"], !["mon"] = NoRows["mon"]]

(* importState into a new file: the rows it is given, and of the flags only the share authority. *)
importState(rows, authority) == [rows |-> rows, marks |-> IF authority THEN {"share"} ELSE {}]

(* replaceWithCompactEncryptedState: the file is rewritten from an export, and what the export does not carry goes. *)
replaceWithCompactEncryptedState(b, marks) == importState(exportState(b), "share" \in marks)

(* openWithCipher: memory is what state.json holds. *)
openWithCipher ==
    /\ hotMode = "down" /\ hotMem' = hotJson
    /\ hotMode' = "json" /\ ~hotUsed
    /\ UNCHANGED <<hotJson, hotBolt, hotMarks, hotPlain, hotUsed, hotExpired, hotAcked, hotOps, hotCrashes>>

(* EnableRuntimeBoltHotStore opens the sidecar; plain-text share rows are migrated on the way in (OpenBoltState). *)
OpenBoltState ==
    /\ hotMode = "down"
    /\ LET c == replaceWithCompactEncryptedState(hotBolt, hotMarks) IN
       /\ hotBolt' = IF hotPlain THEN c.rows ELSE hotBolt
       /\ hotMarks' = IF hotPlain THEN c.marks ELSE hotMarks
    /\ hotMem' = hotJson /\ hotPlain' = FALSE /\ hotUsed' = TRUE
    /\ hotMode' = "audit"
    /\ UNCHANGED <<hotJson, hotExpired, hotAcked, hotOps, hotCrashes>>

-----------------------------------------------------------------------------
(* ---- syncRuntimeBoltHotState ------------------------------------------------------ *)

(* Which JSON rows a start pushes one by one: events by key, active sessions the sidecar lacks, proxy users that
   are newer, and KV rows it lacks until the migration flag is set. *)
Seeds(k, i) ==
    /\ hotMem[k][i] > 0
    /\ CASE k = "audit" -> hotBolt[k][i] = 0
         [] k = "session" -> hotBolt[k][i] = 0 /\ i \notin hotExpired
         [] k = "user" -> hotMem[k][i] > hotBolt[k][i]
         [] k = "kv" -> "kv" \notin hotMarks /\ hotBolt[k][i] = 0

SeedRow ==
    /\ hotMode \in {"audit", "session", "user", "kv"}
    /\ \E i \in HotIds : Seeds(hotMode, i) /\ hotBolt' = [hotBolt EXCEPT ![hotMode][i] = hotMem[hotMode][i]]
    /\ UNCHANGED <<hotMode, hotJson, hotMem, hotMarks, hotPlain, hotUsed, hotExpired, hotAcked, hotOps, hotCrashes>>

\* Mutant: the flag is set before the rows are across.
MarksFirst ==
    /\ hotMode \in {"audit", "session", "user", "kv"}
    /\ hotMode = "user" \/ \A i \in HotIds : ~Seeds(hotMode, i)
    /\ hotMarks' = IF hotMode = "user" THEN hotMarks \cup {"kv"} ELSE hotMarks
    /\ hotMode' = After(hotMode)
    /\ UNCHANGED <<hotJson, hotMem, hotBolt, hotPlain, hotUsed, hotExpired, hotAcked, hotOps, hotCrashes>>

(* The loop over a collection is done; the KV loop ends by setting its flag. *)
SeedDone ==
    /\ hotMode \in {"audit", "session", "user", "kv"}
    /\ \A i \in HotIds : ~Seeds(hotMode, i)
    /\ hotMarks' = IF hotMode = "kv" THEN hotMarks \cup {"kv"} ELSE hotMarks
    /\ hotMode' = After(hotMode)
    /\ UNCHANGED <<hotJson, hotMem, hotBolt, hotPlain, hotUsed, hotExpired, hotAcked, hotOps, hotCrashes>>

(* SeedUsageDays, SeedNodeStatusEvents: rows the sidecar lacks, in one transaction. *)
SeedUsageDays ==
    /\ hotMode = "day" /\ hotMode' = After("day")
    /\ hotBolt' = [hotBolt EXCEPT !["day"] = [i \in HotIds |-> IF @[i] = 0 THEN hotMem["day"][i] ELSE @[i]]]
    /\ UNCHANGED <<hotJson, hotMem, hotMarks, hotPlain, hotUsed, hotExpired, hotAcked, hotOps, hotCrashes>>

(* mergeSubscriptionHotSeed: per row, the later of the two. *)
mergeSubscriptionHotSeed(j, b) == Newer(j, b)

(* initializeSubscriptionHotAuthority: once, rows and marker in one transaction. *)
initializeSubscriptionHotAuthority ==
    /\ hotMode = "share" /\ hotMode' = After("share")
    /\ IF "share" \in hotMarks THEN UNCHANGED <<hotBolt, hotMarks>>
       ELSE /\ hotBolt' = [hotBolt EXCEPT !["share"] = mergeSubscriptionHotSeed(hotMem["share"], @)]
            /\ hotMarks' = hotMarks \cup {"share"}
    /\ UNCHANGED <<hotJson, hotMem, hotPlain, hotUsed, hotExpired, hotAcked, hotOps, hotCrashes>>

(* MigrateMonitorResults: once, rows and flag in one transaction; a row already there is a duplicate. *)
MigrateMonitorResults ==
    /\ hotMode = "mon" /\ hotMode' = After("mon")
    /\ IF "mon" \in hotMarks THEN UNCHANGED <<hotBolt, hotMarks>>
       ELSE /\ hotBolt' = [hotBolt EXCEPT !["mon"] = [i \in HotIds |-> IF @[i] = 0 THEN hotMem["mon"][i] ELSE @[i]]]
            /\ hotMarks' = hotMarks \cup {"mon"}
    /\ UNCHANGED <<hotJson, hotMem, hotPlain, hotUsed, hotExpired, hotAcked, hotOps, hotCrashes>>

(* mergeRuntimeBoltHotState: memory takes the sidecar's rows; a collection the sidecar has none of keeps the JSON
   rows where the code asks for a non-empty one, and what is read from the sidecar on demand is dropped. *)
mergeRuntimeBoltHotState(mem, hot) ==
    [k \in Kinds |-> CASE k \in {"audit", "day", "mon"} -> NoRows[k]
                       [] k \in {"session", "user"} -> IF \E i \in HotIds : hot[k][i] > 0 THEN hot[k] ELSE mem[k]
                       [] OTHER -> hot[k]]

(* The end of EnableRuntimeBoltHotStore: the merge, and a save that may fail when state.json still has KV or
   monitor rows to drop. *)
EnableRuntimeBoltHotStore ==
    /\ hotMode = "merge" /\ hotMode' = "hot"
    /\ hotMem' = mergeRuntimeBoltHotState(hotMem, hotBolt)
    /\ LET stale == \E i \in HotIds, k \in {"kv", "mon"} : hotMem[k][i] > 0 IN
       \/ stale /\ hotJson' = jsonPersistState(hotMem)
       \/ hotJson' = hotJson
    /\ UNCHANGED <<hotBolt, hotMarks, hotPlain, hotUsed, hotExpired, hotAcked, hotOps, hotCrashes>>

-----------------------------------------------------------------------------
(* ---- the writers ------------------------------------------------------------------- *)

Op == Serving /\ hotOps < MaxHotOps /\ hotOps' = hotOps + 1
Stamp == hotOps + 1
Set(rows, k, i, v) == [rows EXCEPT ![k][i] = v]
Quiet == UNCHANGED <<hotMode, hotMarks, hotPlain, hotUsed, hotExpired, hotCrashes>>

(* Without the sidecar every writer changes memory and saves the whole state. *)
SaveAll(k, i, v) ==
    /\ hotMode = "json"
    /\ hotMem' = Set(hotMem, k, i, v) /\ hotJson' = Set(hotMem, k, i, v)
    /\ hotAcked' = Set(hotAcked, k, i, v) /\ UNCHANGED hotBolt

(* The sidecar first: a failed transaction leaves memory alone. *)
BoltFirst(k, i, v) ==
    /\ hotMode = "hot" /\ UNCHANGED hotJson
    /\ \/ /\ hotBolt' = Set(hotBolt, k, i, v) /\ hotMem' = Set(hotMem, k, i, v) /\ hotAcked' = Set(hotAcked, k, i, v)
       \/ UNCHANGED <<hotBolt, hotMem, hotAcked>>

(* Memory first: a failed transaction is reported, and memory keeps the change until the process ends. *)
MemFirst(k, i, v) ==
    /\ hotMode = "hot" /\ UNCHANGED hotJson
    /\ hotMem' = Set(hotMem, k, i, v)
    /\ \/ hotBolt' = Set(hotBolt, k, i, v) /\ hotAcked' = Set(hotAcked, k, i, v)
       \/ UNCHANGED <<hotBolt, hotAcked>>

(* The sidecar only: memory holds no row of the collection. *)
BoltOnly(k, i, v) ==
    /\ hotMode = "hot" /\ UNCHANGED <<hotJson, hotMem>>
    /\ hotBolt' = Set(hotBolt, k, i, v) /\ hotAcked' = Set(hotAcked, k, i, v)

HotFresh(k, i) == hotAcked[k][i] = 0

AppendAudit(i) == Op /\ Quiet /\ HotFresh("audit", i) /\ (SaveAll("audit", i, Stamp) \/ BoltOnly("audit", i, Stamp))
PutKV(i) == Op /\ Quiet /\ (SaveAll("kv", i, Stamp) \/ BoltFirst("kv", i, Stamp))
DeleteKV(i) == Op /\ Quiet /\ (SaveAll("kv", i, 0) \/ BoltFirst("kv", i, 0))
UpsertSubscriptionShare(i) == Op /\ Quiet /\ (SaveAll("share", i, Stamp) \/ BoltFirst("share", i, Stamp))
DeleteSubscriptionShare(i) == Op /\ Quiet /\ (SaveAll("share", i, 0) \/ BoltFirst("share", i, 0))
PutSession(i) == Op /\ Quiet /\ HotFresh("session", i) /\ (SaveAll("session", i, Stamp) \/ MemFirst("session", i, Stamp))
DeleteSession(i) == Op /\ Quiet /\ hotMem["session"][i] > 0 /\ (SaveAll("session", i, 0) \/ MemFirst("session", i, 0))
UpsertProxyUser(i) == Op /\ Quiet /\ (SaveAll("user", i, Stamp) \/ MemFirst("user", i, Stamp))
DeleteProxyUser(i) == Op /\ Quiet /\ hotMem["user"][i] > 0 /\ (SaveAll("user", i, 0) \/ MemFirst("user", i, 0))
DeleteMonitorResults(i) == Op /\ Quiet /\ (SaveAll("mon", i, 0) \/ BoltOnly("mon", i, 0))

(* recordMonitorResults: without the sidecar a result that changes nothing waits in memory for a later save. *)
RecordMonitorResults(i) ==
    /\ Op /\ Quiet /\ HotFresh("mon", i)
    /\ \/ SaveAll("mon", i, Stamp)
       \/ BoltOnly("mon", i, Stamp)
       \/ /\ hotMode = "json" /\ hotMem' = Set(hotMem, "mon", i, Stamp) /\ hotAcked' = Set(hotAcked, "mon", i, Stamp)
          /\ UNCHANGED <<hotJson, hotBolt>>

(* ApplyProxyUsage: a report changes the user row and the day row; the sidecar takes both in one transaction. *)
ApplyProxyUsage(i) ==
    /\ Op /\ Quiet /\ hotMem["user"][i] > 0
    /\ LET both(r) == Set(Set(r, "user", i, Stamp), "day", i, Stamp) IN
       \/ /\ hotMode = "json" /\ hotMem' = both(hotMem) /\ hotJson' = both(hotMem)
          /\ hotAcked' = both(hotAcked) /\ UNCHANGED hotBolt
       \/ /\ hotMode = "hot" /\ hotMem' = Set(hotMem, "user", i, Stamp) /\ UNCHANGED hotJson
          /\ \/ hotBolt' = both(hotBolt) /\ hotAcked' = both(hotAcked)
             \/ UNCHANGED <<hotBolt, hotAcked>>

(* DeleteSessionsByActor: the error of the sidecar is dropped. *)
DeleteSessionsByActor(i) ==
    /\ Op /\ Quiet /\ hotMode = "hot" /\ hotMem["session"][i] > 0
    /\ hotMem' = Set(hotMem, "session", i, 0) /\ UNCHANGED hotJson
    /\ hotBolt' \in {hotBolt, Set(hotBolt, "session", i, 0)}
    /\ hotAcked' = Set(hotAcked, "session", i, 0)

(* Any other write of the store rewrites state.json. *)
Save ==
    /\ hotMode = "hot" /\ hotJson # NoRows
    /\ hotJson' = jsonPersistState(hotMem)
    /\ UNCHANGED <<hotMode, hotMem, hotBolt, hotMarks, hotPlain, hotUsed, hotExpired, hotAcked, hotOps, hotCrashes>>

SessionExpires(i) ==
    /\ hotAcked["session"][i] > 0 /\ i \notin hotExpired /\ hotExpired' = hotExpired \cup {i}
    /\ UNCHANGED <<hotMode, hotJson, hotMem, hotBolt, hotMarks, hotPlain, hotUsed, hotAcked, hotOps, hotCrashes>>

(* The process ends: killed, or a failed enable, which is fatal at start.  Monitor results that only memory held
   are given up, as the save throttle accepts. *)
Die ==
    /\ hotMode # "down" /\ hotCrashes < MaxHotCrashes
    /\ hotMode' = "down" /\ hotCrashes' = hotCrashes + 1 /\ hotMem' = NoRows
    /\ hotAcked' = IF hotMode = "json" THEN [hotAcked EXCEPT !["mon"] = hotJson["mon"]] ELSE hotAcked
    /\ UNCHANGED <<hotJson, hotBolt, hotMarks, hotPlain, hotUsed, hotExpired, hotOps>>

LegacyRows == [NoRows EXCEPT !["audit"] = [i \in HotIds |-> 1], !["share"] = [i \in HotIds |-> 1]]

HotInit ==
    /\ hotMode = "down" /\ hotJson = NoRows /\ hotMem = NoRows
    /\ hotBolt = (IF HotLegacy THEN LegacyRows ELSE NoRows) /\ hotMarks = (IF HotLegacy THEN {"share", "kv"} ELSE {})
    /\ hotPlain = HotLegacy /\ hotUsed = HotLegacy /\ hotExpired = {}
    /\ hotAcked = (IF HotLegacy THEN LegacyRows ELSE NoRows) /\ hotOps = (IF HotLegacy THEN 1 ELSE 0) /\ hotCrashes = 0

HotNext ==
    \/ openWithCipher \/ OpenBoltState \/ SeedRow \/ SeedDone \/ SeedUsageDays
    \/ initializeSubscriptionHotAuthority \/ MigrateMonitorResults \/ EnableRuntimeBoltHotStore
    \/ \E i \in HotIds : \/ AppendAudit(i) \/ PutKV(i) \/ DeleteKV(i) \/ UpsertSubscriptionShare(i) \/ DeleteSubscriptionShare(i)
                         \/ PutSession(i) \/ DeleteSession(i) \/ UpsertProxyUser(i) \/ DeleteProxyUser(i)
                         \/ RecordMonitorResults(i) \/ DeleteMonitorResults(i) \/ ApplyProxyUsage(i)
                         \/ DeleteSessionsByActor(i) \/ SessionExpires(i)
    \/ Save \/ Die

-----------------------------------------------------------------------------
(* ---- properties ----------------------------------------------------------------------- *)

HotTypeOK ==
    /\ hotMode \in {"down", "json", "hot"} \cup {Steps[n] : n \in DOMAIN Steps}
    /\ hotJson \in Rows /\ hotMem \in Rows /\ hotBolt \in Rows /\ hotAcked \in Rows
    /\ hotMarks \subseteq Marks /\ hotPlain \in BOOLEAN /\ hotUsed \in BOOLEAN /\ hotExpired \subseteq HotIds

(* Nothing answered is lost by the move to the sidecar, whatever start of it died half way: while the store serves
   from the sidecar, KV, share and monitor rows are exactly the last ones answered (a deleted row does not come back
   from state.json), memory and the sidecar agree on what is written sidecar-first, and every event, day, user and
   live session answered for is still there. *)
MoveKeepsRows ==
    hotMode = "hot" =>
        /\ \A k \in {"kv", "share"} : hotMem[k] = hotBolt[k] /\ hotBolt[k] = hotAcked[k]
        /\ hotBolt["mon"] = hotAcked["mon"]
        /\ \A k \in {"audit", "user", "day"}, i \in HotIds : hotBolt[k][i] >= hotAcked[k][i]
        /\ \A i \in HotIds \ hotExpired : hotAcked["session"][i] > 0 => hotBolt["session"][i] > 0

(* "a restart recovers hot-domain writes that intentionally did not rewrite the whole JSON file" (store.go:678): a
   proxy user whose deletion was answered is not in the sidecar. *)
\* TLC refutes it (README.md, section 6).
DeletedUserStaysDeleted ==
    hotMode = "hot" => \A i \in HotIds : hotAcked["user"][i] = 0 => hotBolt["user"][i] = 0

(* "The full export used by migration and backup carries them" (bolt_state.go:1112): an answered audit event is in
   the sidecar while the store serves from it. *)
\* TLC refutes it (README.md, section 6).
MigrationKeepsEvents ==
    hotMode = "hot" => \A i \in HotIds : hotAcked["audit"][i] > 0 => hotBolt["audit"][i] > 0

(* The move of the hot rows into the sidecar, restarted at any point, loses none and revives none              *)
(* (MigrateHotStateToBolt and the writers of the hot buckets).                                                *)
HotStoreSound == HotTypeOK /\ MoveKeepsRows

=============================================================================
