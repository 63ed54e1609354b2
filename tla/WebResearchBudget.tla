------------------------- MODULE WebResearchBudget -------------------------
(***************************************************************************)
(* The durable ledger of reservations for platform public-web research     *)
(* (src/backend/app/web_research_budget.py).                               *)
(*                                                                         *)
(* A caller that wants to make a priced HTTP call first reserves the call  *)
(* under an idempotency key, then dispatches the reservation, then makes   *)
(* the call with no database lock held, and finally settles it with the    *)
(* number of requests it really made.  Each of reserve, dispatch, settle,  *)
(* recover and reconcile is one database transaction and one action here.  *)
(* A caller may die between any two of them; a key may be taken up again   *)
(* by another caller, because the lease of the task it belongs to expired. *)
(*                                                                         *)
(* Time is the number of the UTC day; WeekStart and MonthStart give the    *)
(* first day of the week and of the month that a day belongs to.           *)
(***************************************************************************)
EXTENDS Integers, FiniteSets

CONSTANTS
    Callers,            \* worker processes
    Keys,               \* idempotency keys: hashes of task_key and token
    LegacyKeys,         \* rows of the ledger older than the reservations
    NoKey,
    TaskOf,             \* [Keys -> tasks]: task_key, fixed by the key
    OperationOf,        \* [Keys -> operations]
    SubjectOf,          \* [Keys \cup LegacyKeys -> companies or NoSubject]
    NoSubject,          \* a legacy row that no company can be charged for
    ReservedCalls,      \* [Keys -> SUBSET Nat]: counts its callers may reserve
    UnitPrice,          \* [Keys -> Nat \cup {None}]: price per call, if quoted
    UnknownPriceUpperBound,   \* 0 when it is not configured
    TaskCallLimit, TaskBaseline,
    DailySearchLimit, MonthlySearchLimit,
    TaskCostLimit, CompanyDailyLimit, CompanyWeeklyLimit,
    SystemWeeklyLimit, SystemMonthlyLimit,
    WeekStart, MonthStart,    \* [0 .. MaxDay -> 0 .. MaxDay]
    CallCounts,         \* numbers of requests a caller or a bill may report
    LegacyCounts,       \* numbers of requests on legacy rows
    Costs,              \* amounts an administrator may confirm
    MaxDay              \* bound on the clock

None == -1              \* SQL NULL in a numeric column
Search == "company_discovery"

States == {"absent", "reserved", "in_flight", "uncertain", "settled",
           "released", "legacy"}
Held == {"reserved", "in_flight", "uncertain"}
CostStatuses == {"unknown", "estimated", "actual", "confirmed_free"}
Rows == Keys \cup LegacyKeys
NatOrNone == Nat \cup {None}

ASSUME BudgetAssumption ==
    /\ IsFiniteSet(Keys) /\ IsFiniteSet(LegacyKeys)
    /\ Keys \cap LegacyKeys = {} /\ NoKey \notin Keys
    /\ ReservedCalls \in [Keys -> SUBSET Nat]
    /\ UnitPrice \in [Keys -> NatOrNone]
    /\ UnknownPriceUpperBound \in Nat
    /\ {TaskCallLimit, TaskBaseline, DailySearchLimit, MonthlySearchLimit} \subseteq Nat
    /\ {TaskCostLimit, CompanyDailyLimit, CompanyWeeklyLimit,
        SystemWeeklyLimit, SystemMonthlyLimit} \subseteq Nat
    /\ MaxDay \in Nat
    /\ \A start \in {WeekStart, MonthStart} :
          /\ start \in [0 .. MaxDay -> 0 .. MaxDay]
          /\ \A d, e \in 0 .. MaxDay : d <= e => start[d] <= start[e] /\ start[d] <= d
    /\ CallCounts \subseteq Nat /\ LegacyCounts \subseteq Nat /\ Costs \subseteq Nat

VARIABLES
    ledger,     \* [Rows -> Row]: the table usage_ledger
    today,      \* the UTC day
    pc,         \* [Callers -> {"idle", "reserved", "dispatched", "answered"}]
    held,       \* [Callers -> Keys \cup {NoKey}]: the row a caller works on
    made,       \* [Callers -> Nat]: requests made by the call just answered
    attempts    \* [Keys -> Nat]: history, times the provider was called

vars == <<ledger, today, pc, held, made, attempts>>
callers == <<pc, held, made>>

-----------------------------------------------------------------------------
Row == [state : States,
        reservedCalls : Nat, reservedCost : Nat,
        calls : NatOrNone,        \* external_calls
        cost : NatOrNone,         \* estimated_cost
        costStatus : CostStatuses,
        day : Nat]                \* of dispatched_at, or else of created_at

AbsentRow == [state |-> "absent", reservedCalls |-> 0, reservedCost |-> 0,
              calls |-> 0, cost |-> 0, costStatus |-> "unknown", day |-> 0]

(* Mutant: open reservations count for nothing until they are settled.      *)
ChargedWhenSettled(r) ==
    IF r.state \in Held \cup {"released", "absent"} \/ r.calls = None THEN 0 ELSE r.calls

(* What a row counts for in the number of calls: all it reserved while its  *)
(* outcome is open, and what was confirmed afterwards.                      *)
ChargedCalls(r) ==
    CASE r.state \in Held -> r.reservedCalls
      [] r.state \in {"released", "absent"} -> 0
      [] OTHER -> IF r.calls = None THEN 0 ELSE r.calls

(* Mutant: a settled call without a price counts as free.                   *)
AmountUnknownAsFree(r) ==
    CASE r.state \in Held -> r.reservedCost
      [] r.state = "legacy" /\ r.cost = 0 /\ r.costStatus = "unknown" -> None
      [] OTHER -> IF r.cost = None THEN 0 ELSE r.cost

(* What a row counts for in money.  None is history without a price, which  *)
(* authorizes no paid work.                                                 *)
Amount(r) ==
    CASE r.state \in {"released", "absent"} -> 0
      [] r.state \in Held -> r.reservedCost
      [] r.state = "legacy" ->
            IF r.cost > 0 \/ r.costStatus \in {"actual", "confirmed_free"}
            THEN r.cost ELSE None
      [] r.state = "settled" /\ r.costStatus = "unknown" -> r.reservedCost
      [] OTHER -> r.cost

(* The rows of a window that starts on day since.  Open rows stay in every  *)
(* window, whatever their age.                                              *)
Window(since) ==
    {k \in Rows : \/ ledger[k].state \in Held
                  \/ ledger[k].state # "absent" /\ ledger[k].day >= since}

(* The sum of f over S, as the number of unit pairs.                        *)
Total(S, f) == Cardinality(UNION {{k} \X (1 .. f[k]) : k \in S})

TaskRows(k) == {j \in Keys : TaskOf[j] = TaskOf[k]}
SearchRows == {k \in Keys : OperationOf[k] = Search} \cup LegacyKeys
CompanyRows(k) == {j \in Keys : SubjectOf[j] = SubjectOf[k]} \cup
                  {j \in LegacyKeys : SubjectOf[j] \in {SubjectOf[k], NoSubject}}

Calls == [k \in Rows |-> ChargedCalls(ledger[k])]
Amounts == [k \in Rows |-> Amount(ledger[k])]

CallRoom(k, n) ==
    LET task == {j \in TaskRows(k) : OperationOf[j] = OperationOf[k]}
    IN /\ TaskBaseline + Total(task \ {k}, Calls) + n <= TaskCallLimit
       /\ OperationOf[k] = Search =>
            /\ Total((SearchRows \cap Window(today)) \ {k}, Calls) + n <= DailySearchLimit
            /\ Total((SearchRows \cap Window(MonthStart[today])) \ {k}, Calls) + n
                 <= MonthlySearchLimit

MoneyScopes(k) ==
    {[rows |-> TaskRows(k), limit |-> TaskCostLimit],
     [rows |-> CompanyRows(k) \cap Window(today), limit |-> CompanyDailyLimit],
     [rows |-> CompanyRows(k) \cap Window(WeekStart[today]), limit |-> CompanyWeeklyLimit],
     [rows |-> Window(WeekStart[today]), limit |-> SystemWeeklyLimit],
     [rows |-> Window(MonthStart[today]), limit |-> SystemMonthlyLimit]}

MoneyRoom(k, cost) ==
    \A scope \in MoneyScopes(k) :
        LET others == scope.rows \ {k}
        IN /\ \A j \in others : Amounts[j] # None
           /\ Total(others, Amounts) + cost <= scope.limit

(* _check: whether n more calls of the given cost fit every limit.  A free  *)
(* call is limited in number only.                                          *)
Fits(k, n, cost) == CallRoom(k, n) /\ (cost # 0 => MoneyRoom(k, cost))

UpperPrice(k) == IF UnitPrice[k] # None THEN UnitPrice[k] ELSE UnknownPriceUpperBound
PriceKnown(k) == UnitPrice[k] # None \/ UnknownPriceUpperBound > 0

-----------------------------------------------------------------------------
LegacyRow(n, cost) ==
    [state |-> "legacy", reservedCalls |-> 0, reservedCost |-> 0,
     calls |-> n, cost |-> cost, costStatus |-> "unknown", day |-> 0]
LegacyRows == {LegacyRow(n, cost) : n \in LegacyCounts, cost \in Costs}

Init ==
    /\ ledger \in [Rows -> {AbsentRow} \cup LegacyRows]
    /\ \A k \in Rows : ledger[k].state = "absent" <=> k \in Keys
    /\ today = 0
    /\ pc = [w \in Callers |-> "idle"]
    /\ held = [w \in Callers |-> NoKey]
    /\ made = [w \in Callers |-> 0]
    /\ attempts = [k \in Keys |-> 0]

Release(w) ==
    /\ pc' = [pc EXCEPT ![w] = "idle"]
    /\ held' = [held EXCEPT ![w] = NoKey]
    /\ made' = [made EXCEPT ![w] = 0]

TakeUp(w, k) ==
    /\ pc' = [pc EXCEPT ![w] = "reserved"]
    /\ held' = [held EXCEPT ![w] = k]
    /\ UNCHANGED made

(* reserve() with a key the ledger does not have yet.                       *)
ReserveNew(w, k, n) ==
    /\ pc[w] = "idle" /\ ledger[k].state = "absent"
    /\ n >= 1 /\ PriceKnown(k)
    /\ Fits(k, n, UpperPrice(k) * n)
    /\ ledger' = [ledger EXCEPT ![k] =
          [state |-> "reserved", reservedCalls |-> n, reservedCost |-> UpperPrice(k) * n,
           calls |-> None, cost |-> None, costStatus |-> "unknown", day |-> today]]
    /\ TakeUp(w, k)
    /\ UNCHANGED <<today, attempts>>

(* reserve() with a key reserved before: by a caller that died, by one that *)
(* was refused at dispatch, or by one that is still at work.                *)
ReserveAgain(w, k, n) ==
    /\ pc[w] = "idle" /\ ledger[k].state = "reserved"
    /\ n = ledger[k].reservedCalls
    /\ Fits(k, n, ledger[k].reservedCost)
    /\ TakeUp(w, k)
    /\ UNCHANGED <<ledger, today, attempts>>

(* Mutant: dispatch() trusts the state that reserve() saw.                  *)
DispatchUnchecked(w) ==
    LET k == held[w] IN
    /\ pc[w] = "reserved"
    /\ ledger' = [ledger EXCEPT ![k] = [@ EXCEPT !.state = "in_flight", !.day = today]]
    /\ pc' = [pc EXCEPT ![w] = "dispatched"]
    /\ UNCHANGED <<today, held, made, attempts>>

SentRow(r) == [r EXCEPT !.state = "in_flight", !.day = today]

(* dispatch(): the state is read again under the row's lock.                *)
Dispatch(w) ==
    LET k == held[w] IN
    /\ pc[w] = "reserved" /\ ledger[k].state = "reserved"
    /\ Fits(k, ledger[k].reservedCalls, ledger[k].reservedCost)
    /\ ledger' = [ledger EXCEPT ![k] = SentRow(@)]
    /\ pc' = [pc EXCEPT ![w] = "dispatched"]
    /\ UNCHANGED <<today, held, made, attempts>>

Released(r) == [r EXCEPT !.state = "released", !.calls = 0, !.cost = 0,
                         !.costStatus = "confirmed_free"]

(* dispatch() of a task whose owner asks to stop.  The callback may answer  *)
(* either way at any time.                                                  *)
DispatchCancelled(w) ==
    LET k == held[w] IN
    /\ pc[w] = "reserved" /\ ledger[k].state = "reserved"
    /\ ledger' = [ledger EXCEPT ![k] = Released(@)]
    /\ Release(w)
    /\ UNCHANGED <<today, attempts>>

(* dispatch() that raises WebResearchBudgetDeferred: the call is no longer  *)
(* only reserved, or it does not fit any more.  A row keeps its reservation.*)
DispatchRefused(w) ==
    LET k == held[w] IN
    /\ pc[w] = "reserved"
    /\ \/ ledger[k].state # "reserved"
       \/ ~Fits(k, ledger[k].reservedCalls, ledger[k].reservedCost)
    /\ Release(w)
    /\ UNCHANGED <<ledger, today, attempts>>

(* The HTTP call, made with no lock held: the provider sees n requests.     *)
CallProvider(w, n) ==
    LET k == held[w] IN
    /\ pc[w] = "dispatched"
    /\ pc' = [pc EXCEPT ![w] = "answered"]
    /\ made' = [made EXCEPT ![w] = n]
    /\ attempts' = [attempts EXCEPT ![k] = @ + 1]
    /\ UNCHANGED <<ledger, today, held>>

(* The row settle() writes for n confirmed requests and no receipt.         *)
SettledRow(k, r, n) ==
    LET free == n = 0 \/ UnitPrice[k] = 0 IN
    [r EXCEPT !.state = "settled", !.calls = n,
              !.cost = IF free THEN 0
                       ELSE IF UnitPrice[k] # None THEN UnitPrice[k] * n ELSE None,
              !.costStatus = IF free THEN "confirmed_free"
                             ELSE IF UnitPrice[k] # None THEN "estimated" ELSE "unknown"]

(* settle() by the caller, in the transaction that saves the call's result. *)
(* A row settled meanwhile is left alone: with the same count it is the     *)
(* same settlement, with another it is an error and the result is lost.     *)
Settle(w) ==
    LET k == held[w] IN
    /\ pc[w] = "answered"
    /\ ledger' = IF ledger[k].state \in {"in_flight", "uncertain"}
                 THEN [ledger EXCEPT ![k] = SettledRow(k, @, made[w])]
                 ELSE ledger
    /\ Release(w)
    /\ UNCHANGED <<today, attempts>>

(* Mutants: a call that was cut off counts as not made; a cancellation also *)
(* releases calls in flight.                                                *)
RecoverAsNotMade(r, cancelled) ==
    IF r.state \in Held THEN Released(r) ELSE r
RecoverReleasingInFlight(r, cancelled) ==
    IF cancelled /\ r.state \in Held THEN Released(r) ELSE r

(* recover(): run for a task by whoever takes over its expired lease, and   *)
(* with cancelled by whoever cancels it.  The old caller may be alive.      *)
RecoveredRow(r, cancelled) ==
    CASE r.state = "reserved" /\ cancelled -> Released(r)
      [] r.state \in {"in_flight", "uncertain"} -> [r EXCEPT !.state = "uncertain"]
      [] OTHER -> r

Recover(task, cancelled) ==
    /\ ledger' = [k \in Rows |->
          IF k \in Keys /\ TaskOf[k] = task
          THEN RecoveredRow(ledger[k], cancelled) ELSE ledger[k]]
    /\ UNCHANGED <<today, callers, attempts>>

(* Mutants: a bill may change the confirmed number of requests; a legacy    *)
(* row is settled like any other.                                           *)
ReconcileAnyCount(k, n, cost) ==
    /\ ledger[k].state \in {"uncertain", "settled"}
    /\ ledger[k].costStatus # "actual"
    /\ ledger' = [ledger EXCEPT ![k] =
          [@ EXCEPT !.state = "settled", !.calls = n, !.cost = cost, !.costStatus = "actual"]]
    /\ UNCHANGED <<today, callers, attempts>>
ReconcileLegacyAsSettled(k, n, cost) ==
    /\ ledger[k].state \in {"uncertain", "settled", "legacy"}
    /\ ledger' = [ledger EXCEPT ![k] =
          [@ EXCEPT !.state = "settled", !.calls = n, !.cost = cost, !.costStatus = "actual"]]
    /\ UNCHANGED <<today, callers, attempts>>

(* reconcile(): an administrator confirms a bill of n requests and a cost.  *)
(* Repeating a confirmation is idempotent, contradicting one is refused,    *)
(* and a confirmed number of requests cannot be changed.                    *)
ConfirmedRow(r, n, cost) ==
    IF r.state = "legacy"
    THEN [r EXCEPT !.cost = cost, !.costStatus = "actual"]
    ELSE [r EXCEPT !.state = "settled", !.calls = n, !.cost = cost, !.costStatus = "actual"]

Reconcile(k, n, cost) ==
    /\ ledger[k].state \in {"uncertain", "settled", "legacy"}
    /\ ledger[k].costStatus # "actual"
    /\ ledger[k].state \in {"settled", "legacy"} => ledger[k].calls = n
    /\ ledger' = [ledger EXCEPT ![k] = ConfirmedRow(@, n, cost)]
    /\ UNCHANGED <<today, callers, attempts>>

(* A caller's process dies: what it knew is gone, the ledger is not.        *)
Crash(w) ==
    /\ pc[w] # "idle"
    /\ Release(w)
    /\ UNCHANGED <<ledger, today, attempts>>

NextDay ==
    /\ today < MaxDay
    /\ today' = today + 1
    /\ UNCHANGED <<ledger, callers, attempts>>

Next ==
    \/ \E w \in Callers, k \in Keys : \E n \in ReservedCalls[k] :
          ReserveNew(w, k, n) \/ ReserveAgain(w, k, n)
    \/ \E w \in Callers :
          \/ Dispatch(w) \/ DispatchCancelled(w) \/ DispatchRefused(w)
          \/ Settle(w) \/ Crash(w)
          \/ \E n \in CallCounts : CallProvider(w, n)
    \/ \E task \in {TaskOf[k] : k \in Keys}, cancelled \in BOOLEAN :
          Recover(task, cancelled)
    \/ \E k \in Rows, n \in CallCounts \cup LegacyCounts, cost \in Costs :
          Reconcile(k, n, cost)
    \/ NextDay

Spec == Init /\ [][Next]_vars
-----------------------------------------------------------------------------
(* Every variable has its type, and the clock and the histories are counts. *)
TypeOK ==
    /\ ledger \in [Rows -> Row]
    /\ \A k \in Rows : ledger[k].state = "legacy" <=> k \in LegacyKeys
    /\ today \in 0 .. MaxDay
    /\ pc \in [Callers -> {"idle", "reserved", "dispatched", "answered"}]
    /\ held \in [Callers -> Keys \cup {NoKey}]
    /\ \A w \in Callers : pc[w] = "idle" <=> held[w] = NoKey
    /\ made \in [Callers -> Nat]
    /\ attempts \in [Keys -> Nat]

(* The same call key is never sent to the provider twice, whatever crashes, *)
(* recoveries and concurrent callers come between reserve() and settle().   *)
CalledAtMostOnce == \A k \in Keys : attempts[k] <= 1

(* A call the provider has seen, or may still see, is never booked as free  *)
(* or as not yet made: its row stays a liability until it is confirmed.     *)
CallIsLiability ==
    /\ \A k \in Keys : attempts[k] > 0 =>
          ledger[k].state \in {"in_flight", "uncertain", "settled"}
    /\ \A w \in Callers : pc[w] \in {"dispatched", "answered"} =>
          ledger[held[w]].state \in {"in_flight", "uncertain", "settled"}

(* The inductive invariant behind both: a key has one caller between        *)
(* dispatch() and settle(), and only an undispatched row was never called.  *)
Calling(w) == pc[w] \in {"dispatched", "answered"}

OneCallerPerKey ==
    \A v, w \in Callers : Calling(v) /\ Calling(w) /\ held[v] = held[w] => v = w

UndispatchedNotCalled ==
    /\ \A k \in Keys : ledger[k].state \in {"absent", "reserved", "released"} => attempts[k] = 0
    /\ \A w \in Callers : pc[w] = "dispatched" => attempts[held[w]] = 0

CallInvariant ==
    CalledAtMostOnce /\ CallIsLiability /\ OneCallerPerKey /\ UndispatchedNotCalled

(* What the reservations authorize: a count may turn out higher than was    *)
(* reserved (the code then marks the row reservation_exceeded), so each row *)
(* counts for no more than its reservation.  Legacy rows count in full.     *)
Authorized ==
    [k \in Rows |-> LET n == ChargedCalls(ledger[k])
                        r == ledger[k].reservedCalls
                    IN IF k \in LegacyKeys \/ n <= r THEN n ELSE r]

WithinLimit(rows, limit) ==
    \/ Total(rows, Authorized) <= limit
    \/ \A k \in rows \ LegacyKeys : Authorized[k] = 0

(* The calls a task is authorized to make never exceed its limit.           *)
TaskCallsWithinLimit ==
    \A k \in Keys :
        LET task == {j \in TaskRows(k) : OperationOf[j] = OperationOf[k]}
        IN \/ TaskBaseline + Total(task, Authorized) <= TaskCallLimit
           \/ \A j \in task : Authorized[j] = 0

(* On no day do the searches authorized in the day's and the month's window *)
(* exceed the system's limits; open reservations of earlier days and months *)
(* stay inside the window, so a rollover cannot hide them.                  *)
SearchesOpenOrSince(since) ==
    {k \in SearchRows : \/ ledger[k].state \in Held
                        \/ ledger[k].state # "absent" /\ ledger[k].day >= since}

SearchCallsWithinLimits ==
    /\ WithinLimit(SearchesOpenOrSince(today), DailySearchLimit)
    /\ WithinLimit(SearchesOpenOrSince(MonthStart[today]), MonthlySearchLimit)

(* Neither a task's calls nor the system's searches exceed their limits, with  *)
(* reservations checked one by one against limits that all of them share.     *)
(* (_check, at reserve and again at dispatch)                               *)
CallsWithinLimits == TaskCallsWithinLimit /\ SearchCallsWithinLimits

(* The same for money.  A receipt may turn out above what the confirmed     *)
(* number of requests costs at the quoted price, even for a call that was   *)
(* settled as free, so a row counts for no more than that and than its      *)
(* reservation.                                                             *)
AtMost(n, bound) == IF n <= bound THEN n ELSE bound

AuthorizedCost ==
    [k \in Rows |-> LET r == ledger[k] IN
        IF k \in LegacyKeys \/ r.state \in {"absent", "released"} THEN 0
        ELSE IF r.state \in Held \/ r.cost = None THEN r.reservedCost
        ELSE IF UnitPrice[k] = None /\ r.calls # 0 THEN AtMost(r.cost, r.reservedCost)
        ELSE IF r.calls = 0 THEN 0
        ELSE AtMost(AtMost(r.cost, UnitPrice[k] * r.calls), r.reservedCost)]

(* In no scope of a key (its task, its company's day and week, the system's *)
(* week and month) does the authorized cost exceed the limit.               *)
MoneyWithinLimits ==
    \A k \in Keys : \A scope \in MoneyScopes(k) :
        Total(scope.rows, AuthorizedCost) <= scope.limit

(* A confirmed number of requests is never changed, an amount confirmed by  *)
(* a receipt is never changed, and a released or settled row never opens    *)
(* again.                                                                   *)
ConfirmedIsFinal ==
    [][\A k \in Keys :
        /\ ledger[k].state = "settled" =>
              /\ ledger'[k].state = "settled"
              /\ ledger'[k].calls = ledger[k].calls
              /\ ledger[k].costStatus = "actual" => ledger'[k].cost = ledger[k].cost
        /\ ledger[k].state = "released" => ledger'[k] = ledger[k]]_vars

(* An open reservation leaves the windows only through a cancellation before *)
(* the call or through a confirmed count: never by a new day, by a crash or *)
(* by a recovery.                                                           *)
HeldUntilConfirmed ==
    [][\A k \in Keys : ledger[k].state \in Held =>
        \/ ledger'[k].state \in Held /\ ledger'[k].reservedCalls = ledger[k].reservedCalls
        \/ ledger'[k].state = "settled" /\ ledger'[k].calls # None
              /\ ledger[k].state # "reserved"
        \/ ledger'[k].state = "released" /\ attempts'[k] = 0]_vars
=============================================================================
