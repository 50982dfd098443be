------------------------------ MODULE MCParts -------------------------------
(* The components that share nothing with another, one in each behaviour:    *)
(* pure algorithms over bounded inputs, then small machines.                *)
EXTENDS PrioritySort, RoutingRules, Statistics,
        RateLimiter, ModelStore, Telemetry, ToolCalls, Analytics,
        StatusLine, TLC

CONSTANTS q1, q2, q3, q4, c1, c2, l1, l2, t1, t2, r1, r2, v1, v2, s1, s2, a1, a2
VARIABLE part

MCRequest == {q1, q2, q3, q4}
MCPriorityOf == [r \in MCRequest |-> IF r = q1 THEN 0 ELSE IF r = q4 THEN 2 ELSE 1]
MaxQueue == 4
MCCost == {1, 2}
MCCount == 0..2
MCLevel == 0..3
MCClient == {c1, c2}
MCLoader == {l1, l2}
MCEvent == {"hit", "saved", "success", "unknown"}
MCTarget == <<t1, t2>>
MCLayer == {"exact_dedup", "batch_api"}
MCDay == 1..2
MCAmount == {1, 2}
MCTool == {"rtk_git", "lsp_lookup"}
MCIntent == {"general"}
MCDefaultTools == "general" :> <<"rtk_git", "lsp_lookup", "rtk_git">>
MCFallbackTools == <<"rtk_git", "lsp_lookup">>
MCSize == {0, 1, 3}
MCRunner == {r1, r2}
MCSaver == {s1, s2}
MCRecordId == {v1, v2}
MCFrustrated == {v1}
MCCron == {a1, a2}
MCListings == {<<"file", "barista", "native">>, <<"barista", "webhook", "envvar">>, <<"envvar", "file">>}
MCReports == {[tokens |-> 8, hit |-> -1, context |-> 101], [tokens |-> 0, hit |-> 3, context |-> -1]}

pureVars == <<sortVars, costVars, rulesVars, statisticsVars>>
machineVars == <<limiterVars, storeVars, telemetryVars, callsVars, analyticsVars, statusVars>>
vars == <<part, pureVars, machineVars>>

Init ==
  /\ part \in {"sort", "costs", "rules", "statistics",
               "limiter", "store", "meter", "books", "invocation", "processing", "guarded", "records", "buckets", "status"}
  /\ CostInit /\ RulesInit /\ StatisticsInit
  /\ LimiterInit /\ StoreInit /\ TelemetryInit /\ CallsInit /\ AnalyticsInit /\ StatusInit
  /\ input \in IF part = "sort"
               THEN {s \in UNION {[1..n -> Request] : n \in 0..MaxQueue} : IsInjective(s)}
               ELSE {<<>>}
  /\ part # "status" => /\ sources = CHOOSE o \in Listings : TRUE
                        /\ report["envvar"] = CHOOSE r \in Reports : TRUE
  /\ a = input /\ i = 1 /\ j = 2

Pure ==
  \/ part = "sort" /\ SortNext /\ UNCHANGED <<costVars, rulesVars, statisticsVars>>
  \/ part = "costs" /\ CostNext /\ UNCHANGED <<sortVars, rulesVars, statisticsVars>>
  \/ part = "rules" /\ RulesNext /\ UNCHANGED <<sortVars, costVars, statisticsVars>>
  \/ part = "statistics" /\ Sampled /\ UNCHANGED <<sortVars, costVars, rulesVars>>
Machine ==
  \/ part = "limiter" /\ LimiterNext /\ UNCHANGED <<storeVars, telemetryVars, callsVars, analyticsVars, statusVars>>
  \/ part = "store" /\ StoreNext /\ UNCHANGED <<limiterVars, telemetryVars, callsVars, analyticsVars, statusVars>>
  \/ part = "meter" /\ Meter /\ UNCHANGED <<limiterVars, storeVars, books, callsVars, analyticsVars, statusVars>>
  \/ part = "books" /\ Keep /\ UNCHANGED <<limiterVars, storeVars, meterVars, callsVars, analyticsVars, statusVars>>
  \/ part = "invocation" /\ Invocation /\ UNCHANGED <<limiterVars, storeVars, telemetryVars, analyticsVars, statusVars>>
  \/ part = "processing" /\ Processing /\ UNCHANGED <<limiterVars, storeVars, telemetryVars, analyticsVars, statusVars>>
  \/ part = "guarded" /\ Guarded /\ UNCHANGED <<limiterVars, storeVars, telemetryVars, analyticsVars, statusVars>>
  \/ part = "records" /\ SaveNext /\ UNCHANGED <<limiterVars, storeVars, telemetryVars, callsVars, statusVars>>
  \/ part = "buckets" /\ BucketNext /\ UNCHANGED <<limiterVars, storeVars, telemetryVars, callsVars, statusVars>>
  \/ part = "status" /\ StatusNext
                     /\ UNCHANGED <<limiterVars, storeVars, telemetryVars, callsVars, analyticsVars>>

Next ==
  /\ UNCHANGED part
  /\ \/ Pure /\ UNCHANGED machineVars
     \/ Machine /\ UNCHANGED pureVars
Spec == Init /\ [][Next]_vars
=============================================================================
