-------------------------- MODULE InvestorAnalysis --------------------------
(***************************************************************************)
(* Analyses of shared events by a language model (investor_analysis.py): a   *)
(* worker queues one per event and input, leases one, locks its row, checks  *)
(* that the event still qualifies and that the month's tokens suffice, calls *)
(* the model with the row locked and records the result with its usage.      *)
(*                                                                         *)
(* Between lease and lock anything may happen; while the model answers only  *)
(* the row is protected, not the event nor the month's sum.                  *)
(***************************************************************************)
EXTENDS Naturals, FiniteSets, FiniteSetsExt

CONSTANTS
    Events,         \* events of the shared catalog
    InputLimit,     \* bound: versions of what an analysis of an event reads
    Analysts,       \* processes of run_investor_analysis_worker.py
    ProjectedTokens, \* projected_tokens: the bare request and one answer
    CallTokens,     \* what an analysis costs at most: the policy's limits on prompt and answer,
                    \* once per attempt
    TokenLimit,     \* monthly_token_limit
    AnalysisLease,  \* worker_lease_seconds
    MonthLength,
    AnalysisClockEnd, \* bound: the clock stops here
    LossLimit,      \* bound: calls whose tokens are lost
    Nobody          \* no worker

Inputs == 1 .. InputLimit
Analyses == Events \X Inputs        \* one per event and input_hash
AnalysisTimes == 0 .. AnalysisClockEnd
MonthOf(t) == t \div MonthLength
Months == {MonthOf(t) : t \in AnalysisTimes}

ASSUME AnalysisAssumption ==
    /\ InputLimit \in Nat \ {0} /\ TokenLimit \in Nat
    /\ {ProjectedTokens, CallTokens} \subseteq Nat \ {0} /\ ProjectedTokens <= CallTokens
    /\ AnalysisLease \in Nat \ {0} /\ MonthLength \in Nat \ {0}
    /\ AnalysisClockEnd \in Nat /\ LossLimit \in Nat
    /\ IsFiniteSet(Analysts) /\ Analysts # {} /\ Nobody \notin Analysts

VARIABLES
    analysisClock,
    event,      \* [Events -> 0 .. InputLimit]: what an analysis would read; 0 if not eligible
    analysis,   \* [Analyses -> row of investor_change_analyses]
    analyst,    \* [Analysts -> where a worker is]
    tokens,     \* [Months -> tokens in the usage ledger]
    spent,      \* history, [Months -> tokens the provider has charged]
    unrecorded  \* history, [Months -> calls whose tokens the ledger may miss]

analysisVars == <<analysisClock, event, analysis, analyst, tokens, spent, unrecorded>>

(* Nothing here tells completed from failed: an analysis has ended.          *)
AnalysisRow == [status : {"absent", "pending", "running", "ended", "budget_deferred"},
                until : Nat,            \* leased_until
                deferred : Months,      \* updated_at of a deferral
                by : Analysts \cup {Nobody}]    \* history, who ended it
Free == [at |-> "idle"]

AnalysisInit ==
    /\ analysisClock = 0
    /\ event = [e \in Events |-> 0]
    /\ analysis = [a \in Analyses |->
            [status |-> "absent", until |-> 0, deferred |-> 0, by |-> Nobody]]
    /\ analyst = [w \in Analysts |-> Free]
    /\ tokens = [m \in Months |-> 0]
    /\ spent = [m \in Months |-> 0] /\ unrecorded = [m \in Months |-> 0]

(* An event is published, retracted, or given other evidence.                *)
ChangeEvent(e) ==
    /\ event' \in {[event EXCEPT ![e] = i] : i \in (0 .. InputLimit) \ {event[e]}}
    /\ UNCHANGED <<analysisClock, analysis, analyst, tokens, spent, unrecorded>>

(* enqueue_pending_*: every event that qualifies has an analysis of its input. *)
Eligible(a) == event[a[1]] = a[2]
Missing == {a \in Analyses : analysis[a].status = "absent" /\ Eligible(a)}
Enqueue(w) ==
    /\ analyst[w] = Free /\ Missing # {}
    /\ analysis' = [a \in Analyses |->
            IF a \in Missing THEN [analysis[a] EXCEPT !.status = "pending"] ELSE analysis[a]]
    /\ UNCHANGED <<analysisClock, event, analyst, tokens, spent, unrecorded>>

HasLock(w) == analyst[w].at \in {"locked", "calling"}
Locked(a) == \E w \in Analysts : HasLock(w) /\ analyst[w].on = a

Available(a) ==
    \/ analysis[a].status = "pending"
    \/ analysis[a].status = "budget_deferred" /\ analysis[a].deferred < MonthOf(analysisClock)
    \/ analysis[a].status = "running" /\ analysis[a].until <= analysisClock

(* _lease_next_analysis passes over rows that another worker has locked.     *)
LeaseAnalysis(w) ==
    /\ analyst[w] = Free
    /\ \E a \in Analyses :
          /\ Available(a) /\ ~Locked(a)
          /\ analysis' = [analysis EXCEPT ![a].status = "running",
                                          ![a].until = analysisClock + AnalysisLease]
          /\ analyst' = [analyst EXCEPT ![w] =
                            [at |-> "leased", on |-> a, month |-> MonthOf(analysisClock)]]
    /\ UNCHANGED <<analysisClock, event, tokens, spent, unrecorded>>

(* Mutant: the status is not read again under the lock.                      *)
AsLeased(a) == TRUE
NotEnded(a) == analysis[a].status = "running"
(* The worker waits for the row; the lease is not compared again, only that  *)
(* nobody has ended the analysis meanwhile.                                  *)
LockRow(w) ==
    /\ analyst[w].at = "leased"
    /\ ~Locked(analyst[w].on)
    /\ analyst' = [analyst EXCEPT ![w] =
            IF NotEnded(@.on) THEN [@ EXCEPT !.at = "locked"] ELSE Free]
    /\ UNCHANGED <<analysisClock, event, analysis, tokens, spent, unrecorded>>

Ended(a, w) == [analysis EXCEPT ![a].status = "ended", ![a].by = w]

NotEligible(w) ==
    LET a == analyst[w].on IN
    /\ analyst[w].at = "locked"
    /\ ~Eligible(a)
    /\ analysis' = Ended(a, w)
    /\ analyst' = [analyst EXCEPT ![w] = Free]
    /\ UNCHANGED <<analysisClock, event, tokens, spent, unrecorded>>

(* The usage rows since the start of the month in which the worker began;     *)
(* their sum is the number of unit pairs.                                    *)
MonthlyTokens(m) == Cardinality(UNION {{n} \X (1 .. tokens[n]) : n \in {x \in Months : x >= m}})
(* Mutant: the tokens of the call to come are left out.                      *)
AffordableSoFar(w) == MonthlyTokens(analyst[w].month) <= TokenLimit
Affordable(w) == MonthlyTokens(analyst[w].month) + ProjectedTokens <= TokenLimit

DeferAnalysis(w) ==
    LET a == analyst[w].on IN
    /\ analyst[w].at = "locked"
    /\ Eligible(a)
    /\ ~Affordable(w)
    /\ analysis' = [analysis EXCEPT ![a].status = "budget_deferred",
                                    ![a].deferred = MonthOf(analysisClock)]
    /\ analyst' = [analyst EXCEPT ![w] = Free]
    /\ UNCHANGED <<analysisClock, event, tokens, spent, unrecorded>>

CallModel(w) ==
    LET a == analyst[w].on IN
    /\ analyst[w].at = "locked"
    /\ Eligible(a)
    /\ Affordable(w)
    /\ analyst' = [analyst EXCEPT ![w].at = "calling"]
    /\ UNCHANGED <<analysisClock, event, analysis, tokens, spent, unrecorded>>

(* An answer that was accepted, one that was not, or an error of the         *)
(* provider, after some attempts: each with the tokens it says it has cost.    *)
(* What an attempt has cost that was answered with an error, or not in JSON,   *)
(* is not known.                                                            *)
Losses == FoldSet(LAMBDA m, sum : sum + unrecorded[m], 0, Months)
Unrecorded(month) == unrecorded' = [unrecorded EXCEPT ![month] = @ + 1]
RecordResult(w) ==
    LET month == MonthOf(analysisClock) IN
    /\ analyst[w].at = "calling"
    /\ analysis' = Ended(analyst[w].on, w)
    /\ \E used \in 0 .. CallTokens :
          /\ spent' = [spent EXCEPT ![month] = @ + used]
          /\ \/ /\ tokens' = [tokens EXCEPT ![month] = @ + used]
                /\ UNCHANGED unrecorded
             \/ /\ Losses < LossLimit
                /\ \E recorded \in 0 .. used - 1 : tokens' = [tokens EXCEPT ![month] = @ + recorded]
                /\ Unrecorded(month)
    /\ analyst' = [analyst EXCEPT ![w] = Free]
    /\ UNCHANGED <<analysisClock, event>>

(* A worker dies; the row's lock is released, the tokens are not recorded.   *)
AnalystCrash(w) ==
    LET month == MonthOf(analysisClock)  calling == analyst[w].at = "calling" IN
    /\ analyst[w] # Free /\ Losses < LossLimit
    /\ analyst' = [analyst EXCEPT ![w] = Free]
    /\ IF calling
       THEN /\ \E used \in {0, CallTokens} : spent' = [spent EXCEPT ![month] = @ + used]
            /\ Unrecorded(month)
       ELSE UNCHANGED <<spent, unrecorded>>
    /\ UNCHANGED <<analysisClock, event, analysis, tokens>>

AnalysisTick ==
    /\ analysisClock < AnalysisClockEnd
    /\ analysisClock' = analysisClock + 1
    /\ UNCHANGED <<event, analysis, analyst, tokens, spent, unrecorded>>

AnalystStep(w) ==
    \/ Enqueue(w) \/ LeaseAnalysis(w) \/ LockRow(w) \/ NotEligible(w)
    \/ DeferAnalysis(w) \/ CallModel(w) \/ RecordResult(w)

AnalysisNext ==
    \/ \E e \in Events : ChangeEvent(e)
    \/ \E w \in Analysts : AnalystStep(w) \/ AnalystCrash(w)
    \/ AnalysisTick

AnalysisSpec == AnalysisInit /\ [][AnalysisNext]_analysisVars

-----------------------------------------------------------------------------
AnalysisTypeOK ==
    /\ analysisClock \in AnalysisTimes
    /\ event \in [Events -> {0} \cup Inputs]
    /\ analysis \in [Analyses -> AnalysisRow]
    /\ \A w \in Analysts : analyst[w].at \in {"idle", "leased", "locked", "calling"}
    /\ {tokens, spent, unrecorded} \subseteq [Months -> Nat]

(* The month's limit is not a reservation, and what is projected is less than  *)
(* what an analysis can cost: a worker checks that its projection fits beside   *)
(* the month's rows, while the others are in calls it does not see; and each    *)
(* call whose cost is lost hides it.  By more than that it is never exceeded.  *)
(* (_monthly_tokens, projected_tokens)                                       *)
MonthlyTokensBounded ==
    \A m \in Months :
        spent[m] + ProjectedTokens
            <= TokenLimit + CallTokens * (Cardinality(Analysts) + unrecorded[m])

(* An analysis is ended once, by the worker that has its row locked, although *)
(* an expired lease may have been given to several: whoever comes to the row  *)
(* later finds it ended.  (run_investor_analysis_worker_once)                *)
AnalysisLeases == INSTANCE LeasedJob WITH
    Tasks <- Analyses, Holders <- Analysts,
    phase <- [a \in Analyses |->
        IF analysis[a].status = "absent" THEN "absent"
        ELSE IF analysis[a].status = "ended" THEN "closed" ELSE "open"],
    holding <- [a \in Analyses |->
        {w \in Analysts : HasLock(w) /\ analyst[w].on = a}],
    guarded <- [a \in Analyses |-> TRUE],
    finisher <- [a \in Analyses |-> analysis[a].by]
AnalysesAreLeased == AnalysisLeases!LeasedSpec
=============================================================================
