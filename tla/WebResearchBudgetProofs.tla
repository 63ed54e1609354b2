----------------------- MODULE WebResearchBudgetProofs -----------------------
(* What holds of the ledger of WebResearchBudget for every set of callers   *)
(* and keys, every price and every limit: its types, that no call is made   *)
(* twice, and the life of a row, what is never undone.                      *)
EXTENDS WebResearchBudget, FiniteSetTheorems, TLAPS

-----------------------------------------------------------------------------
(* Type correctness.                                                        *)

LEMMA InitTyped == Init => TypeOK
<1> SUFFICES ASSUME Init
             PROVE  TypeOK
  OBVIOUS
<1>1. AbsentRow \in Row /\ AbsentRow.state = "absent"
  BY DEF AbsentRow, Row, States, CostStatuses, NatOrNone
<1>2. ASSUME NEW n \in LegacyCounts, NEW cost \in Costs
      PROVE  LegacyRow(n, cost) \in Row /\ LegacyRow(n, cost).state = "legacy"
  BY BudgetAssumption DEF LegacyRow, Row, States, CostStatuses, NatOrNone
<1>3. \A r \in LegacyRows : r \in Row /\ r.state = "legacy"
  BY <1>2 DEF LegacyRows
<1>4. ledger \in [Rows -> Row]
  BY <1>1, <1>3 DEF Init
<1>5. \A k \in Rows : ledger[k].state = "legacy" <=> k \in LegacyKeys
  BY <1>1, <1>3, BudgetAssumption DEF Init, Rows
<1>6. QED
  BY <1>4, <1>5, BudgetAssumption DEF Init, TypeOK

LEMMA SentRowType ==
    ASSUME NEW r \in Row, today \in Nat
    PROVE  SentRow(r) \in Row /\ SentRow(r).state = "in_flight"
  BY DEF SentRow, Row, States

LEMMA ReleasedType ==
    ASSUME NEW r \in Row
    PROVE  Released(r) \in Row /\ Released(r).state = "released"
  BY DEF Released, Row, States, CostStatuses, NatOrNone

LEMMA ConfirmedRowType ==
    ASSUME NEW r \in Row, NEW n \in Nat, NEW cost \in Nat
    PROVE  /\ ConfirmedRow(r, n, cost) \in Row
           /\ ConfirmedRow(r, n, cost).state =
                 IF r.state = "legacy" THEN "legacy" ELSE "settled"
  BY DEF ConfirmedRow, Row, States, CostStatuses, NatOrNone

LEMMA TodayIsNat == TypeOK => today \in Nat
  BY BudgetAssumption DEF TypeOK

LEMMA PriceType ==
    ASSUME NEW k \in Keys, NEW n \in Nat, PriceKnown(k)
    PROVE  UpperPrice(k) \in Nat /\ UpperPrice(k) * n \in Nat
<1>1. UpperPrice(k) \in Nat
  BY BudgetAssumption DEF UpperPrice, NatOrNone, None
<1>2. QED
  BY <1>1

LEMMA SettledRowType ==
    ASSUME NEW k \in Keys, NEW r \in Row, NEW n \in Nat
    PROVE  /\ SettledRow(k, r, n) \in Row
           /\ SettledRow(k, r, n).state = "settled"
<1>1. UnitPrice[k] # None => UnitPrice[k] * n \in Nat
  BY BudgetAssumption DEF NatOrNone, None
<1>2. QED
  BY <1>1 DEF SettledRow, Row, States, CostStatuses, NatOrNone, None

LEMMA RecoveredRowType ==
    ASSUME NEW r \in Row, NEW c \in BOOLEAN
    PROVE  /\ RecoveredRow(r, c) \in Row
           /\ RecoveredRow(r, c).state = "legacy" <=> r.state = "legacy"
  BY DEF RecoveredRow, Released, Row, States, CostStatuses, NatOrNone, None

(* Every step of the system keeps every variable in its type.               *)
LEMMA NextTyped == TypeOK /\ [Next]_vars => TypeOK'
<1> SUFFICES ASSUME TypeOK, [Next]_vars
             PROVE  TypeOK'
  OBVIOUS
<1> USE DEF TypeOK
<1>1. ASSUME NEW w \in Callers, NEW k \in Keys, NEW n \in ReservedCalls[k], ReserveNew(w, k, n)
      PROVE  TypeOK'
  <2>1. n \in Nat
    BY BudgetAssumption
  <2>2. UpperPrice(k) * n \in Nat
    BY <2>1, <1>1, PriceType DEF ReserveNew
  <2>3. ledger' \in [Rows -> Row]
    BY <2>1, <2>2, <1>1, TodayIsNat DEF ReserveNew, Row, States, CostStatuses, NatOrNone, None
  <2>4. \A j \in Rows : ledger'[j].state = "legacy" <=> j \in LegacyKeys
    BY <1>1, BudgetAssumption DEF ReserveNew, Rows
  <2>5. QED
    BY <2>3, <2>4, <1>1, BudgetAssumption DEF ReserveNew, TakeUp, Rows
<1>2. ASSUME NEW w \in Callers, NEW k \in Keys, NEW n \in ReservedCalls[k], ReserveAgain(w, k, n)
      PROVE  TypeOK'
  BY <1>2, BudgetAssumption DEF ReserveAgain, TakeUp
<1>3. ASSUME NEW w \in Callers, Dispatch(w)
      PROVE  TypeOK'
  <2>1. held[w] \in Keys /\ held[w] \in Rows /\ held[w] \notin LegacyKeys
    BY <1>3, BudgetAssumption DEF Dispatch, Rows
  <2>2. /\ SentRow(ledger[held[w]]) \in Row
        /\ SentRow(ledger[held[w]]).state = "in_flight"
    BY <2>1, SentRowType, TodayIsNat
  <2>3. QED
    BY <2>1, <2>2, <1>3 DEF Dispatch
<1>4. ASSUME NEW w \in Callers, DispatchCancelled(w)
      PROVE  TypeOK'
  <2>1. held[w] \in Keys /\ held[w] \in Rows /\ held[w] \notin LegacyKeys
    BY <1>4, BudgetAssumption DEF DispatchCancelled, Rows
  <2>2. /\ Released(ledger[held[w]]) \in Row
        /\ Released(ledger[held[w]]).state = "released"
    BY <2>1, ReleasedType
  <2>3. QED
    BY <2>1, <2>2, <1>4 DEF DispatchCancelled, Release
<1>5. ASSUME NEW w \in Callers, DispatchRefused(w)
      PROVE  TypeOK'
  BY <1>5 DEF DispatchRefused, Release
<1>6. ASSUME NEW w \in Callers, Settle(w)
      PROVE  TypeOK'
  <2>1. held[w] \in Keys /\ held[w] \in Rows /\ held[w] \notin LegacyKeys /\ made[w] \in Nat
    BY <1>6, BudgetAssumption DEF Settle, Rows
  <2>1b. ledger[held[w]] \in Row
    BY <2>1
  <2>2. /\ SettledRow(held[w], ledger[held[w]], made[w]) \in Row
        /\ SettledRow(held[w], ledger[held[w]], made[w]).state = "settled"
    BY <2>1, <2>1b, SettledRowType
  <2>3. QED
    BY <2>1, <2>2, <1>6 DEF Settle, Release
<1>7. ASSUME NEW w \in Callers, Crash(w)
      PROVE  TypeOK'
  BY <1>7 DEF Crash, Release
<1>8. ASSUME NEW w \in Callers, NEW n \in CallCounts, CallProvider(w, n)
      PROVE  TypeOK'
  BY <1>8, BudgetAssumption DEF CallProvider
<1>9. ASSUME NEW task, NEW c \in BOOLEAN, Recover(task, c)
      PROVE  TypeOK'
  <2>1. ASSUME NEW k \in Rows
        PROVE  /\ RecoveredRow(ledger[k], c) \in Row
               /\ RecoveredRow(ledger[k], c).state = "legacy" <=> ledger[k].state = "legacy"
    <3>1. ledger[k] \in Row
      OBVIOUS
    <3>2. QED
      BY <3>1, RecoveredRowType
  <2>2. QED
    BY <2>1, <1>9 DEF Recover, callers
<1>10. ASSUME NEW k \in Rows, NEW n \in CallCounts \cup LegacyCounts, NEW cost \in Costs,
              Reconcile(k, n, cost)
       PROVE  TypeOK'
  <2>1. n \in Nat /\ cost \in Nat
    BY BudgetAssumption
  <2>2. /\ ConfirmedRow(ledger[k], n, cost) \in Row
        /\ ConfirmedRow(ledger[k], n, cost).state = "legacy" <=> ledger[k].state = "legacy"
    BY <2>1, ConfirmedRowType
  <2>3. QED
    BY <2>2, <1>10 DEF Reconcile, callers
<1>11. CASE NextDay
  BY <1>11, TodayIsNat, BudgetAssumption DEF NextDay, callers
<1>12. CASE UNCHANGED vars
  BY <1>12 DEF vars
<1>13. QED
  BY <1>1, <1>2, <1>3, <1>4, <1>5, <1>6, <1>7, <1>8, <1>9, <1>10, <1>11, <1>12 DEF Next

(* Every reachable state of the ledger and its callers is well typed.       *)
THEOREM TypeCorrect == Spec => []TypeOK
  BY InitTyped, NextTyped, PTL DEF Spec

-----------------------------------------------------------------------------
(* At most one call per key, and no call that is booked as not made.        *)

Dispatched == {"in_flight", "uncertain", "settled"}

LEMMA InitCalls == Init => CallInvariant
  BY BudgetAssumption
     DEF Init, CallInvariant, CalledAtMostOnce, CallIsLiability, OneCallerPerKey,
         UndispatchedNotCalled, Calling, Rows

(* A step that leaves the callers alone keeps the invariant when it leaves  *)
(* the rows that were dispatched dispatched, and the others not.            *)
LEMMA LedgerStep ==
    ASSUME TypeOK, CallInvariant, UNCHANGED <<callers, attempts>>,
           \A k \in Keys : ledger[k].state \in Dispatched <=> ledger'[k].state \in Dispatched,
           \A k \in Keys : ledger'[k].state \in States
    PROVE  CallInvariant'
  BY DEF TypeOK, CallInvariant, CalledAtMostOnce, CallIsLiability, OneCallerPerKey,
         UndispatchedNotCalled, Calling, callers, Dispatched, States, Row, Rows

LEMMA NextCalls == TypeOK /\ CallInvariant /\ [Next]_vars => CallInvariant'
<1> SUFFICES ASSUME TypeOK, CallInvariant, [Next]_vars
             PROVE  CallInvariant'
  OBVIOUS
<1> USE DEF TypeOK
<1>1. ASSUME NEW w \in Callers, NEW k \in Keys, NEW n \in ReservedCalls[k], ReserveNew(w, k, n)
      PROVE  CallInvariant'
  BY <1>1, BudgetAssumption
     DEF ReserveNew, TakeUp, CallInvariant, CalledAtMostOnce, CallIsLiability,
         OneCallerPerKey, UndispatchedNotCalled, Calling, Rows
<1>2. ASSUME NEW w \in Callers, NEW k \in Keys, NEW n \in ReservedCalls[k], ReserveAgain(w, k, n)
      PROVE  CallInvariant'
  BY <1>2, BudgetAssumption
     DEF ReserveAgain, TakeUp, CallInvariant, CalledAtMostOnce, CallIsLiability,
         OneCallerPerKey, UndispatchedNotCalled, Calling, Rows
<1>3. ASSUME NEW w \in Callers, Dispatch(w)
      PROVE  CallInvariant'
  <2>1. held[w] \in Keys /\ held[w] \in Rows
    BY <1>3, BudgetAssumption DEF Dispatch, Rows
  <2>2. SentRow(ledger[held[w]]).state = "in_flight"
    BY <2>1, SentRowType, TodayIsNat
  <2>3. /\ ledger'[held[w]].state = "in_flight"
        /\ \A k \in Keys \ {held[w]} : ledger'[k] = ledger[k]
    BY <2>1, <2>2, <1>3 DEF Dispatch, Rows
  <2>4. \A v \in Callers : Calling(v) => held[v] # held[w]
    BY <1>3 DEF Dispatch, CallInvariant, CallIsLiability, Calling
  <2>5. attempts[held[w]] = 0
    BY <1>3, <2>1 DEF Dispatch, CallInvariant, UndispatchedNotCalled
  <2>6. CalledAtMostOnce' /\ CallIsLiability'
    BY <2>1, <2>3, <1>3 DEF Dispatch, CallInvariant, CalledAtMostOnce, CallIsLiability
  <2>7. OneCallerPerKey'
    BY <2>4, <1>3 DEF Dispatch, CallInvariant, OneCallerPerKey, Calling
  <2>8. UndispatchedNotCalled'
    BY <2>1, <2>3, <2>5, <1>3 DEF Dispatch, CallInvariant, UndispatchedNotCalled
  <2>9. QED
    BY <2>6, <2>7, <2>8 DEF CallInvariant
<1>4. ASSUME NEW w \in Callers, DispatchCancelled(w)
      PROVE  CallInvariant'
  <2>1. held[w] \in Keys /\ held[w] \in Rows
    BY <1>4, BudgetAssumption DEF DispatchCancelled, Rows
  <2>2. /\ ledger'[held[w]].state = "released"
        /\ \A k \in Keys \ {held[w]} : ledger'[k] = ledger[k]
    BY <2>1, <1>4, ReleasedType DEF DispatchCancelled, Rows
  <2>3. \A v \in Callers : Calling(v) => held[v] # held[w]
    BY <1>4 DEF DispatchCancelled, CallInvariant, CallIsLiability, Calling
  <2>4. attempts[held[w]] = 0
    BY <1>4, <2>1 DEF DispatchCancelled, CallInvariant, UndispatchedNotCalled
  <2>5. QED
    BY <2>1, <2>2, <2>3, <2>4, <1>4
       DEF DispatchCancelled, Release, CallInvariant, CalledAtMostOnce, CallIsLiability,
           OneCallerPerKey, UndispatchedNotCalled, Calling
<1>5. ASSUME NEW w \in Callers, DispatchRefused(w) \/ Crash(w)
      PROVE  CallInvariant'
  BY <1>5
     DEF DispatchRefused, Crash, Release, CallInvariant, CalledAtMostOnce, CallIsLiability,
         OneCallerPerKey, UndispatchedNotCalled, Calling
<1>6. ASSUME NEW w \in Callers, Settle(w)
      PROVE  CallInvariant'
  <2>1. held[w] \in Keys /\ held[w] \in Rows /\ made[w] \in Nat
    BY <1>6, BudgetAssumption DEF Settle, Rows
  <2>2. SettledRow(held[w], ledger[held[w]], made[w]).state = "settled"
    BY <2>1, SettledRowType
  <2>3. ledger[held[w]].state \in Dispatched
    BY <1>6 DEF Settle, CallInvariant, CallIsLiability, Dispatched
  <2>4. /\ ledger'[held[w]].state \in Dispatched
        /\ \A k \in Keys \ {held[w]} : ledger'[k] = ledger[k]
    BY <2>1, <2>2, <2>3, <1>6 DEF Settle, Rows, Dispatched
  <2>5. QED
    BY <2>1, <2>3, <2>4, <1>6
       DEF Settle, Release, CallInvariant, CalledAtMostOnce, CallIsLiability,
           OneCallerPerKey, UndispatchedNotCalled, Calling, Dispatched
<1>7. ASSUME NEW w \in Callers, NEW n \in CallCounts, CallProvider(w, n)
      PROVE  CallInvariant'
  <2>1. held[w] \in Keys /\ attempts[held[w]] = 0 /\ ledger[held[w]].state \in Dispatched
    BY <1>7 DEF CallProvider, CallInvariant, UndispatchedNotCalled, CallIsLiability, Dispatched
  <2>2. \A v \in Callers \ {w} : Calling(v) => held[v] # held[w]
    BY <1>7 DEF CallProvider, CallInvariant, OneCallerPerKey, Calling
  <2>3. QED
    BY <2>1, <2>2, <1>7
       DEF CallProvider, CallInvariant, CalledAtMostOnce, CallIsLiability,
           OneCallerPerKey, UndispatchedNotCalled, Calling, Dispatched
<1>8. ASSUME NEW task, NEW c \in BOOLEAN, Recover(task, c)
      PROVE  CallInvariant'
  <2>1. \A k \in Keys : /\ ledger[k].state \in Dispatched <=> ledger'[k].state \in Dispatched
                        /\ ledger'[k].state \in States
    <3>1. ASSUME NEW r \in Row
          PROVE  /\ r.state \in Dispatched <=> RecoveredRow(r, c).state \in Dispatched
                 /\ RecoveredRow(r, c).state \in States
      BY <3>1 DEF RecoveredRow, Released, Row, States, Dispatched
    <3>2. QED
      BY <3>1, <1>8 DEF Recover, Rows, Row
  <2>2. QED
    BY <2>1, <1>8, LedgerStep DEF Recover
<1>9. ASSUME NEW k \in Rows, NEW n \in CallCounts \cup LegacyCounts, NEW cost \in Costs,
             Reconcile(k, n, cost)
      PROVE  CallInvariant'
  <2>1. n \in Nat /\ cost \in Nat
    BY BudgetAssumption
  <2>2. ConfirmedRow(ledger[k], n, cost).state =
          IF ledger[k].state = "legacy" THEN "legacy" ELSE "settled"
    BY <2>1, ConfirmedRowType
  <2>3. \A j \in Keys : /\ ledger[j].state \in Dispatched <=> ledger'[j].state \in Dispatched
                        /\ ledger'[j].state \in States
    BY <2>2, <1>9 DEF Reconcile, Dispatched, States, Rows, Row
  <2>4. QED
    BY <2>3, <1>9, LedgerStep DEF Reconcile
<1>10. CASE NextDay \/ UNCHANGED vars
  BY <1>10
     DEF NextDay, vars, callers, CallInvariant, CalledAtMostOnce, CallIsLiability,
         OneCallerPerKey, UndispatchedNotCalled, Calling
<1>11. QED
  BY <1>1, <1>2, <1>3, <1>4, <1>5, <1>6, <1>7, <1>8, <1>9, <1>10 DEF Next

LEMMA CallsCorrect == Spec => []CallInvariant
  BY InitCalls, NextCalls, TypeCorrect, PTL DEF Spec

(* No key is ever sent to the provider twice: "the same call key cannot be  *)
(* dispatched again" of docs/06-cost-control.md.                            *)
THEOREM NeverCalledTwice == Spec => []CalledAtMostOnce
  BY CallsCorrect, PTL DEF CallInvariant

(* A call that was or may still be made is never booked as free.            *)
THEOREM CallsStayLiabilities == Spec => []CallIsLiability
  BY CallsCorrect, PTL DEF CallInvariant

-----------------------------------------------------------------------------
(* The life of a row of the ledger: what a step may do to it, whoever takes  *)
(* the step.                                                                *)

(* The ways a step may change the row of a key.                             *)
Lawful(r, s) ==
    \/ s = r
    \/ r.state = "absent" /\ s.state = "reserved"
    \/ /\ r.state = "reserved" /\ s.state \in {"in_flight", "released"}
       /\ s.reservedCalls = r.reservedCalls
    \/ /\ r.state \in {"in_flight", "uncertain"} /\ s.state = "uncertain"
       /\ s.reservedCalls = r.reservedCalls
    \/ r.state \in {"in_flight", "uncertain"} /\ s.state = "settled" /\ s.calls \in Nat
    \/ /\ r.state = "settled" /\ s.state = "settled"
       /\ s.calls = r.calls /\ r.costStatus # "actual"

LawfulStep ==
    /\ \A k \in Keys : Lawful(ledger[k], ledger'[k])
    /\ UNCHANGED ledger \/ UNCHANGED attempts

LEMMA SentLawful ==
    ASSUME NEW r \in Row, r.state = "reserved"
    PROVE  Lawful(r, SentRow(r)) /\ Lawful(r, Released(r))
  BY DEF Lawful, SentRow, Released, Row

LEMMA SettledLawful ==
    ASSUME NEW k \in Keys, NEW r \in Row, NEW n \in Nat, r.state \in {"in_flight", "uncertain"}
    PROVE  Lawful(r, SettledRow(k, r, n))
<1>1. SettledRow(k, r, n).state = "settled" /\ SettledRow(k, r, n).calls = n
  BY DEF SettledRow, Row
<1>2. QED
  BY <1>1 DEF Lawful

LEMMA RecoveredLawful ==
    ASSUME NEW r \in Row, NEW c \in BOOLEAN
    PROVE  Lawful(r, RecoveredRow(r, c))
<1>1. CASE r.state \in {"in_flight", "uncertain"}
  BY <1>1 DEF Lawful, RecoveredRow, Row
<1>2. CASE r.state = "reserved"
  BY <1>2, SentLawful DEF Lawful, RecoveredRow
<1>3. CASE r.state \notin {"reserved", "in_flight", "uncertain"}
  BY <1>3 DEF Lawful, RecoveredRow
<1>4. QED
  BY <1>1, <1>2, <1>3

LEMMA ConfirmedLawful ==
    ASSUME NEW r \in Row, NEW n \in Nat, NEW cost \in Nat,
           r.state \in {"uncertain", "settled"}, r.costStatus # "actual",
           r.state = "settled" => r.calls = n
    PROVE  Lawful(r, ConfirmedRow(r, n, cost))
<1>1. ConfirmedRow(r, n, cost).state = "settled" /\ ConfirmedRow(r, n, cost).calls = n
  BY DEF ConfirmedRow, Row
<1>2. QED
  BY <1>1 DEF Lawful

(* A step that changes one row of the ledger, and lawfully, is lawful.      *)
LEMMA OneRowLawful ==
    ASSUME NEW k \in Rows, NEW s, TypeOK, UNCHANGED attempts,
           ledger' = [ledger EXCEPT ![k] = s], k \in Keys => Lawful(ledger[k], s)
    PROVE  LawfulStep
<1>1. \A j \in Rows : ledger'[j] = IF j = k THEN s ELSE ledger[j]
  BY DEF TypeOK
<1>2. \A j \in Keys : Lawful(ledger[j], ledger'[j])
  BY <1>1 DEF Lawful, Rows
<1>3. QED
  BY <1>2 DEF LawfulStep

(* Every step of the system is lawful.                                      *)
LEMMA NextLawful == TypeOK /\ [Next]_vars => LawfulStep
<1> SUFFICES ASSUME TypeOK, [Next]_vars
             PROVE  LawfulStep
  OBVIOUS
<1>1. \A k \in Keys : k \in Rows /\ k \notin LegacyKeys /\ ledger[k] \in Row
  BY BudgetAssumption DEF TypeOK, Rows
<1>2. ASSUME UNCHANGED ledger
      PROVE  LawfulStep
  BY <1>2 DEF LawfulStep, Lawful
<1>3. ASSUME NEW w \in Callers, NEW k \in Keys, NEW n \in ReservedCalls[k], ReserveNew(w, k, n)
      PROVE  LawfulStep
  <2> DEFINE row == [state |-> "reserved", reservedCalls |-> n,
                     reservedCost |-> UpperPrice(k) * n, calls |-> None, cost |-> None,
                     costStatus |-> "unknown", day |-> today]
  <2>1. Lawful(ledger[k], row)
    BY <1>3 DEF ReserveNew, Lawful
  <2>2. ledger' = [ledger EXCEPT ![k] = row] /\ UNCHANGED attempts
    BY <1>3 DEF ReserveNew
  <2> HIDE DEF row
  <2>3. QED
    BY <1>1, <2>1, <2>2, OneRowLawful
<1>4. ASSUME NEW w \in Callers, Dispatch(w) \/ DispatchCancelled(w)
      PROVE  LawfulStep
  <2>1. held[w] \in Keys
    BY <1>4 DEF Dispatch, DispatchCancelled, TypeOK
  <2>2. Lawful(ledger[held[w]], SentRow(ledger[held[w]])) /\
        Lawful(ledger[held[w]], Released(ledger[held[w]]))
    BY <1>1, <1>4, <2>1, SentLawful DEF Dispatch, DispatchCancelled
  <2>3. QED
    BY <1>1, <1>4, <2>1, <2>2, OneRowLawful DEF Dispatch, DispatchCancelled
<1>5. ASSUME NEW w \in Callers, Settle(w)
      PROVE  LawfulStep
  <2>1. held[w] \in Keys /\ made[w] \in Nat
    BY <1>5 DEF Settle, TypeOK
  <2>2. CASE ledger[held[w]].state \in {"in_flight", "uncertain"}
    <3>1. Lawful(ledger[held[w]], SettledRow(held[w], ledger[held[w]], made[w]))
      BY <1>1, <2>1, <2>2, SettledLawful
    <3>2. QED
      BY <1>1, <1>5, <2>1, <2>2, <3>1, OneRowLawful DEF Settle
  <2>3. CASE ledger[held[w]].state \notin {"in_flight", "uncertain"}
    BY <1>2, <1>5, <2>3 DEF Settle
  <2>4. QED
    BY <2>2, <2>3
<1>6. ASSUME NEW task, NEW c \in BOOLEAN, Recover(task, c)
      PROVE  LawfulStep
  <2>1. \A k \in Keys : ledger'[k] \in {ledger[k], RecoveredRow(ledger[k], c)}
    BY <1>1, <1>6 DEF Recover
  <2>2. \A k \in Keys : Lawful(ledger[k], ledger[k]) /\ Lawful(ledger[k], RecoveredRow(ledger[k], c))
    BY <1>1, RecoveredLawful DEF Lawful
  <2>3. QED
    BY <1>6, <2>1, <2>2 DEF Recover, LawfulStep
<1>7. ASSUME NEW k \in Rows, NEW n \in CallCounts \cup LegacyCounts, NEW cost \in Costs,
             Reconcile(k, n, cost)
      PROVE  LawfulStep
  <2>1. n \in Nat /\ cost \in Nat
    BY BudgetAssumption
  <2>2. ASSUME k \in Keys
        PROVE  Lawful(ledger[k], ConfirmedRow(ledger[k], n, cost))
    <3>1. ledger[k].state # "legacy"
      BY <1>1, <2>2 DEF TypeOK
    <3>2. QED
      BY <1>1, <1>7, <2>1, <2>2, <3>1, ConfirmedLawful DEF Reconcile
  <2>3. QED
    BY <1>7, <2>2, OneRowLawful DEF Reconcile
<1>8. ASSUME NEW w \in Callers, NEW k \in Keys, NEW n \in ReservedCalls[k], ReserveAgain(w, k, n)
      PROVE  LawfulStep
  BY <1>2, <1>8 DEF ReserveAgain
<1>9. ASSUME NEW w \in Callers,
             DispatchRefused(w) \/ Crash(w) \/ \E n \in CallCounts : CallProvider(w, n)
      PROVE  LawfulStep
  BY <1>2, <1>9 DEF DispatchRefused, Crash, CallProvider
<1>10. CASE NextDay \/ UNCHANGED vars
  BY <1>2, <1>10 DEF NextDay, vars
<1>11. QED
  BY <1>3, <1>4, <1>5, <1>6, <1>7, <1>8, <1>9, <1>10 DEF Next

-----------------------------------------------------------------------------
(* A confirmed number of requests and an amount confirmed by a receipt are  *)
(* never changed, by a late settlement or a second reconciliation, and a    *)
(* released or settled row never opens again.                               *)
THEOREM ConfirmationsAreFinal == Spec => ConfirmedIsFinal
<1> DEFINE Final(k) ==
        /\ ledger[k].state = "settled" =>
              /\ ledger'[k].state = "settled"
              /\ ledger'[k].calls = ledger[k].calls
              /\ ledger[k].costStatus = "actual" => ledger'[k].cost = ledger[k].cost
        /\ ledger[k].state = "released" => ledger'[k] = ledger[k]
<1>1. TypeOK /\ [Next]_vars => [\A k \in Keys : Final(k)]_vars
  BY NextLawful DEF LawfulStep, Lawful
<1>2. QED
  BY <1>1, TypeCorrect, PTL DEF Spec, ConfirmedIsFinal

(* An open reservation ends only by a confirmed count after a dispatch, or  *)
(* by a cancellation of a call that was never made.  The second half rests  *)
(* on CallInvariant: a row that is only reserved was never called.          *)
THEOREM ReservationsAreHeld == Spec => HeldUntilConfirmed
<1> DEFINE StaysHeld(k) == ledger[k].state \in Held =>
        \/ ledger'[k].state \in Held /\ ledger'[k].reservedCalls = ledger[k].reservedCalls
        \/ ledger'[k].state = "settled" /\ ledger'[k].calls # None
              /\ ledger[k].state # "reserved"
        \/ ledger'[k].state = "released" /\ attempts'[k] = 0
<1>1. ASSUME TypeOK, CallInvariant, [Next]_vars, NEW k \in Keys
      PROVE  StaysHeld(k)
  <2>1. Lawful(ledger[k], ledger'[k]) /\ (UNCHANGED ledger \/ UNCHANGED attempts)
    BY <1>1, NextLawful DEF LawfulStep
  <2>2. CASE ledger[k].state = "reserved" /\ ledger'[k].state = "released"
    <3>1. attempts[k] = 0
      BY <1>1, <2>2 DEF CallInvariant, UndispatchedNotCalled
    <3>2. UNCHANGED attempts
      BY <2>1, <2>2
    <3>3. QED
      BY <2>2, <3>1, <3>2
  <2>3. CASE ~(ledger[k].state = "reserved" /\ ledger'[k].state = "released")
    BY <2>1, <2>3 DEF Lawful, Held, None
  <2>4. QED
    BY <2>2, <2>3
<1>2. TypeOK /\ CallInvariant /\ [Next]_vars => [\A k \in Keys : StaysHeld(k)]_vars
  BY <1>1
<1>3. QED
  BY <1>2, TypeCorrect, CallsCorrect, PTL DEF Spec, HeldUntilConfirmed
=============================================================================
