---------------------------- MODULE Entitlements ----------------------------
(***************************************************************************)
(* What a member may ask for (personal_features.py): requests for a company *)
(* with a cooldown, a daily and a monthly allowance, cancellation with the  *)
(* usage voided, and requests for a larger allowance.  A submission reads    *)
(* first without a lock and decides again after it has locked the user row; *)
(* everything it wrote is one transaction.  Days and months are spans of    *)
(* ticks.  The members' allowances are independent: the module follows one  *)
(* member.  What the workers do with a request is in IdentityResearch and   *)
(* WebResearchJob; here they only move its status and spend calls.          *)
(***************************************************************************)
EXTENDS Integers, FiniteSets, FiniteSetsExt

CONSTANTS
    Targets, NoTarget,  \* target_key: a company, a credit code or a name; none
    Submissions,        \* concurrent submissions of the member
    PetitionMax,        \* bound: requests ever made
    RaiseMax,           \* bound: allowance requests ever made
    DailyBase,          \* daily_request_limit
    MonthlyBase,        \* monthly_request_limit
    RaiseExtra,         \* the extra an approval grants, per day and per month
    RequestCooldown,    \* request_cooldown_hours
    DayLength, DaysPerMonth,
    MemberClockEnd      \* bound of the clock

ASSUME EntitlementAssumption ==
    /\ {DayLength, DaysPerMonth, RequestCooldown} \subseteq Nat \ {0}
    /\ {PetitionMax, RaiseMax, DailyBase, MonthlyBase, RaiseExtra, MemberClockEnd} \subseteq Nat

VARIABLES
    petition,       \* PersonalCompanyRequest with its PersonalUsageRecord, by number
    raise,          \* PersonalQuotaIncreaseRequest, by number
    submission,     \* the submissions' local state
    memberClock

memberVars == <<petition, raise, submission, memberClock>>

Petitions == 1 .. PetitionMax
Raises == 1 .. RaiseMax
NoPetition == [status |-> "absent", target |-> NoTarget, at |-> 0, used |-> 0,
               calls |-> FALSE, voided |-> FALSE]
NoRaise == [status |-> "absent", until |-> 0]
NoSubmission == [doing |-> "idle", target |-> NoTarget, now |-> 0]

(* queued: pending, in_review, *_queued, partial or budget_deferred;        *)
(* checking: identity_checking, or researching alone on a running job.      *)
PetitionActive == {"queued", "checking", "cancel_requested"}
PetitionCancellable == PetitionActive \cup {"needs_input"}

EntitlementTypeOK ==
    /\ \A p \in Petitions :
          /\ petition[p].status \in PetitionCancellable \cup {"absent", "cancelled", "closed"}
          /\ petition[p].target \in Targets \cup {NoTarget}
          /\ {petition[p].at, petition[p].used} \subseteq 0 .. MemberClockEnd
          /\ {petition[p].calls, petition[p].voided} \subseteq BOOLEAN
    /\ \A r \in Raises :
          /\ raise[r].status \in {"absent", "pending", "approved", "rejected"}
          /\ raise[r].until \in 0 .. (MemberClockEnd + 1)
    /\ \A s \in Submissions : submission[s].doing \in {"idle", "checked"}
    /\ memberClock \in 0 .. MemberClockEnd

EntitlementInit ==
    /\ petition = [p \in Petitions |-> NoPetition]
    /\ raise = [r \in Raises |-> NoRaise]
    /\ submission = [s \in Submissions |-> NoSubmission]
    /\ memberClock = 0
-----------------------------------------------------------------------------
Day(time) == time \div DayLength
Month(time) == Day(time) \div DaysPerMonth

Made == {p \in Petitions : petition[p].status # "absent"}
MadeRaises == {r \in Raises : raise[r].status # "absent"}
MadeFor(target) == {p \in Made : petition[p].target = target}

(* The daily count keeps voided usage, the monthly count does not.          *)
UsedOn(day) == {p \in Made : Day(petition[p].used) = day}
UsedIn(month) == {p \in Made : Month(petition[p].used) = month /\ ~petition[p].voided}

Extra(time) ==
    RaiseExtra * Cardinality({r \in Raises : raise[r].status = "approved" /\ raise[r].until > time})

(* The newest request for the target is answered instead of a new one.      *)
Reused(target, now) ==
    /\ MadeFor(target) # {}
    /\ LET newest == petition[Max(MadeFor(target))]
       IN  newest.status \in PetitionActive \/ newest.at + RequestCooldown > now
-----------------------------------------------------------------------------
(* A submission, before and after the lock on the user row.                 *)
BeginSubmission(s, target) ==
    /\ submission[s].doing = "idle"
    /\ ~Reused(target, memberClock)
    /\ submission' = [submission EXCEPT ![s] =
            [doing |-> "checked", target |-> target, now |-> memberClock]]
    /\ UNCHANGED <<petition, raise, memberClock>>

(* Mutants: without the second look for a request to reuse, and without the   *)
(* limit of the month.                                                      *)
MayAlways(target, now) ==
    /\ Cardinality(UsedOn(Day(now))) < DailyBase + Extra(now)
    /\ Cardinality(UsedIn(Month(now))) < MonthlyBase + Extra(now)
    /\ \A p \in MadeFor(target) : petition[p].status \notin PetitionActive
MayDaily(target, now) ==
    /\ ~Reused(target, now)
    /\ Cardinality(UsedOn(Day(now))) < DailyBase + Extra(now)
    /\ \A p \in MadeFor(target) : petition[p].status \notin PetitionActive
MayPetition(target, now) ==
    /\ ~Reused(target, now)
    /\ Cardinality(UsedOn(Day(now))) < DailyBase + Extra(now)
    /\ Cardinality(UsedIn(Month(now))) < MonthlyBase + Extra(now)
    \* the unique index over the active requests of a target
    /\ \A p \in MadeFor(target) : petition[p].status \notin PetitionActive

EndSubmission(s) ==
    LET target == submission[s].target
        now == submission[s].now
        next == 1 + Cardinality(Made)
    IN
    /\ submission[s].doing = "checked"
    /\ submission' = [submission EXCEPT ![s] = NoSubmission]
    /\ \/ /\ MayPetition(target, now) /\ next \in Petitions
          /\ petition' = [petition EXCEPT ![next] =
                [status |-> "queued", target |-> target, at |-> memberClock, used |-> now,
                 calls |-> FALSE, voided |-> FALSE]]
       \/ ~MayPetition(target, now) /\ UNCHANGED petition
    /\ UNCHANGED <<raise, memberClock>>

(* A cancellation voids the usage of a request that ended without a call.   *)
CancelPetition(p) ==
    LET row == petition[p]
        ended == [row EXCEPT !.status = "cancelled", !.voided = row.voided \/ ~row.calls]
    IN
    /\ row.status \in PetitionCancellable
    /\ petition' = [petition EXCEPT ![p] =
            IF row.status = "checking" THEN [row EXCEPT !.status = "cancel_requested"] ELSE ended]
    /\ UNCHANGED <<raise, submission, memberClock>>

(* The workers: a step spends a call; it ends with the request queued again,*)
(* closed, or waiting for input; a cancellation asked for meanwhile wins.    *)
StartStep(p) ==
    /\ petition[p].status = "queued"
    /\ petition' = [petition EXCEPT ![p].status = "checking", ![p].calls = TRUE]
    /\ UNCHANGED <<raise, submission, memberClock>>

EndStep(p) ==
    /\ petition[p].status \in {"checking", "cancel_requested"}
    /\ \E status \in IF petition[p].status = "checking" THEN {"queued", "needs_input", "closed"}
                     ELSE {"cancelled"} :
          petition' = [petition EXCEPT ![p].status = status]
    /\ UNCHANGED <<raise, submission, memberClock>>

(* A decision closes a request; a failed network check voids its usage too. *)
ClosePetition(p) ==
    /\ petition[p].status = "queued"
    /\ \E void \in BOOLEAN :
          petition' = [petition EXCEPT ![p].status = "closed",
                                      ![p].voided = @ \/ (void /\ ~petition[p].calls)]
    /\ UNCHANGED <<raise, submission, memberClock>>

(* An allowance request, one pending at a time, and its decision.           *)
AskRaise ==
    LET next == 1 + Cardinality(MadeRaises) IN
    /\ \A r \in Raises : raise[r].status # "pending"
    /\ next \in Raises
    /\ raise' = [raise EXCEPT ![next].status = "pending"]
    /\ UNCHANGED <<petition, submission, memberClock>>

DecideRaise(r) ==
    /\ raise[r].status = "pending"
    /\ \/ \E until \in (memberClock + 1) .. (MemberClockEnd + 1) :
             raise' = [raise EXCEPT ![r] = [status |-> "approved", until |-> until]]
       \/ raise' = [raise EXCEPT ![r].status = "rejected"]
    /\ UNCHANGED <<petition, submission, memberClock>>

MemberTick ==
    /\ memberClock < MemberClockEnd
    /\ memberClock' = memberClock + 1
    /\ UNCHANGED <<petition, raise, submission>>

EntitlementNext ==
    \/ \E s \in Submissions :
          \/ EndSubmission(s)
          \/ \E target \in Targets : BeginSubmission(s, target)
    \/ \E p \in Petitions :
          CancelPetition(p) \/ StartStep(p) \/ EndStep(p) \/ ClosePetition(p)
    \/ AskRaise
    \/ \E r \in Raises : DecideRaise(r)
    \/ MemberTick

EntitlementSpec == EntitlementInit /\ [][EntitlementNext]_memberVars
-----------------------------------------------------------------------------
(* However many submissions race, two requests for one target are a cooldown *)
(* apart and the first of them is over; and the usage of a day and of a      *)
(* month stays within the allowance and the extras ever in force then,       *)
(* whatever was voided, cancelled or submitted at once                       *)
(* (_create_company_request reads again under the lock;                      *)
(* uq_personal_company_request_active_target).                               *)
RequestsAdmitted ==
    LET ever(first) == RaiseExtra * Cardinality({r \in Raises :
                            raise[r].status = "approved" /\ raise[r].until > first})
    IN  /\ \A p, q \in Made :
              p < q /\ petition[p].target = petition[q].target =>
                  /\ petition[q].at >= petition[p].at + RequestCooldown
                  /\ petition[p].status \notin PetitionActive
        /\ \A day \in 0 .. Day(MemberClockEnd) :
              Cardinality(UsedOn(day)) <= DailyBase + ever(day * DayLength)
        /\ \A month \in 0 .. Month(MemberClockEnd) :
              Cardinality(UsedIn(month)) <= MonthlyBase + ever(month * DaysPerMonth * DayLength)
=============================================================================
