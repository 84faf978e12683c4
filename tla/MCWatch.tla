---- MODULE MCWatch ----
(* The components that watch and remember. *)
EXTENDS Incidents, CheckPlans, PathHistory, TraceStore, HotStore, SubServe, SubPlans, TLC

VARIABLE focus   \* the component this behaviour exercises; the others rest in their initial state

MCSpecs == {[on |-> TRUE, type |-> "icmp", src |-> {"a"}, tgt |-> {"b"}, ex |-> {}], [on |-> TRUE, type |-> "auto", src |-> {"*"}, tgt |-> {"*"}, ex |-> {<<"b", "a">>}], [on |-> FALSE, type |-> "icmp", src |-> {"a"}, tgt |-> {"b"}, ex |-> {}]}
MCCans == {{}, {"tcp"}, {"icmp", "tcp"}}
MCConfigs == {[on |-> FALSE, src |-> {"a"}, tgt |-> {"b"}, dis |-> {}, method |-> "icmp"], [on |-> TRUE, src |-> {"a"}, tgt |-> {"b"}, dis |-> {}, method |-> "auto"]}

TrcConnsDef == <<[node |-> "m", at |-> 0, line |-> "l", user |-> "u", dst |-> "d", src |-> "x"],
  [node |-> "n", at |-> 1, line |-> "r", user |-> "u", dst |-> "d", src |-> "ipm"],
  [node |-> "m", at |-> 1, line |-> "l", user |-> "u", dst |-> "d", src |-> "x"]>>
TrcEdgesDef == {<<"l", "r">>}
TrcIPsDef == [m |-> {"ipm"}, n |-> {"ipn"}]
TrcBatchesDef == {<<"a">>, <<"a", "b">>}

vars == <<focus, incVars, chkVars, histVars, trcVars, hotVars, subVars, splVars>>

Init ==
  /\ focus \in {"Incidents", "CheckPlans", "PathHistory", "TraceStore", "HotStore", "SubServe", "SubPlans"}
  /\ IncInit
  /\ ChkInit /\ (focus = "CheckPlans" \/ (chkSet.cfg = CHOOSE c \in ChkConfigs : TRUE))
  /\ HistInit /\ (focus = "PathHistory" \/ (histHot /\ histKind = "icmp"))
  /\ TrcInit
  /\ HotInit
  /\ SubInit
  /\ SplInit /\ (focus = "SubPlans" \/ (splDoc["b"].live.src = "fleet"))

Next ==
  /\ UNCHANGED focus
  /\ \/ focus = "Incidents" /\ IncNext /\ UNCHANGED <<chkVars, histVars, trcVars, hotVars, subVars, splVars>>
     \/ focus = "CheckPlans" /\ ChkNext /\ UNCHANGED <<incVars, histVars, trcVars, hotVars, subVars, splVars>>
     \/ focus = "PathHistory" /\ HistNext /\ UNCHANGED <<incVars, chkVars, trcVars, hotVars, subVars, splVars>>
     \/ focus = "TraceStore" /\ TrcNext /\ UNCHANGED <<incVars, chkVars, histVars, hotVars, subVars, splVars>>
     \/ focus = "HotStore" /\ HotNext /\ UNCHANGED <<incVars, chkVars, histVars, trcVars, subVars, splVars>>
     \/ focus = "SubServe" /\ SubNext /\ UNCHANGED <<incVars, chkVars, histVars, trcVars, hotVars, splVars>>
     \/ focus = "SubPlans" /\ SplNext /\ UNCHANGED <<incVars, chkVars, histVars, trcVars, hotVars, subVars>>

Spec == Init /\ [][Next]_vars

(* Every rule has heard of an open incident, is about to, or is owed it (rulesThatMissedOpen). *)
IncidentsHold == focus = "Incidents" => IncidentsSound

(* Where the sweeps have nothing left to write the monitors measure what the definitions select, and no step
   on the way drops one that measured (syncCheckDefinitions). *)
ChecksHold == [](focus = "CheckPlans" => ChecksSound) /\ MeasuredStay

(* A result is counted once in every tier, the summary and the down state follow the results, and pages and
   series have no gaps (monitor_results.go). *)
HistoryHolds == focus = "PathHistory" => HistorySound

(* Rows, rollups, lines, pages, stitched paths and series tell of every connection once, and a final record
   stays final (tracestore). *)
TraceHolds == [](focus = "TraceStore" => TraceSound) /\ FinalStays

(* The move of hot rows into the sidecar, restarted at any point, loses none and revives none
   (MigrateHotStateToBolt). *)
HotStoreHolds == focus = "HotStore" => HotStoreSound

(* A share is answered from the current record, policy and snapshot (server_subscription_share.go). *)
ServeHolds == focus = "SubServe" => ServeSound

(* What is applied is what was reviewed, whole, whatever moves between proposal, decision and apply
   (subStorePlanApprove, subStorePlansPublish). *)
PlansHold == [](focus = "SubPlans" => PlansSound) /\ MovesAreReviewed /\ NoIdentitySwap /\ AppliedIsWhole
====
