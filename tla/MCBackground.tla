--------------------------- MODULE MCBackground ---------------------------
(***************************************************************************)
(* Model checking of requests, schedules, the workers behind them, and what  *)
(* they record of financings and other matters.  A behaviour is one of one     *)
(* component, chosen at the start; the others stay in their initial states:   *)
(* the sizes of their instances add up.                                      *)
(***************************************************************************)
EXTENDS SourceMonitoring, MockRefresh, InvestorAnalysis, WatchSchedule, Entitlements,
        MCFinancing, MCMatters, TLC

CONSTANTS p1, p2, e1, e2, e3

MCLinks == <<"link">>

VARIABLE component

Init ==
    /\ component \in {"monitoring", "refresh", "analysis", "watch", "members", "financing",
                     "matters"}
    /\ SourceInit /\ RefreshInit /\ AnalysisInit /\ WatchInit /\ EntitlementInit
    /\ FinancingInit /\ MatterInit
    /\ component # "monitoring" => \A s \in TrustedSources : source[s].kind = "single_page"

(* One disjunct per component: its steps, and the others where they are.      *)
Next ==
    \/ component = "monitoring" /\ SourceNext
       /\ UNCHANGED <<component, refreshVars, analysisVars, watchVars, memberVars, financingVars, matterVars>>
    \/ component = "refresh" /\ RefreshNext
       /\ UNCHANGED <<component, sourceVars, analysisVars, watchVars, memberVars, financingVars, matterVars>>
    \/ component = "analysis" /\ AnalysisNext
       /\ UNCHANGED <<component, sourceVars, refreshVars, watchVars, memberVars, financingVars, matterVars>>
    \/ component = "watch" /\ WatchNext
       /\ UNCHANGED <<component, sourceVars, refreshVars, analysisVars, memberVars, financingVars, matterVars>>
    \/ component = "members" /\ EntitlementNext
       /\ UNCHANGED <<component, sourceVars, refreshVars, analysisVars, watchVars, financingVars, matterVars>>
    \/ component = "financing" /\ FinancingNext
       /\ UNCHANGED <<component, sourceVars, refreshVars, analysisVars, watchVars, memberVars, matterVars>>
    \/ component = "matters" /\ MatterNext
       /\ UNCHANGED <<component, sourceVars, refreshVars, analysisVars, watchVars, memberVars, financingVars>>

allVars == <<component, sourceVars, refreshVars, analysisVars, watchVars, memberVars, financingVars, matterVars>>
Spec == Init /\ [][Next]_allVars

(* Of the component that runs; the others stay as their Init leaves them.     *)
TypeOK ==
    /\ component = "monitoring" => SourceTypeOK
    /\ component = "refresh" => RefreshTypeOK
    /\ component = "analysis" => AnalysisTypeOK
    /\ component = "watch" => WatchTypeOK
    /\ component = "members" => EntitlementTypeOK
    /\ component = "financing" => FinancingTypeOK
    /\ component = "matters" => MatterTypeOK

Symmetry == Permutations({p1, p2}) \cup Permutations(Events)
=============================================================================
