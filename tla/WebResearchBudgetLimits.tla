----------------------- MODULE WebResearchBudgetLimits -----------------------
(* The limits on the number of calls, and on money, hold for every set of   *)
(* callers and keys and every limit: sums over the rows of the ledger are   *)
(* sizes of sets of unit pairs, so each step is an argument about subsets   *)
(* of these.                                                                *)
EXTENDS WebResearchBudgetProofs

Units(S, f) == UNION {{k} \X (1 .. f[k]) : k \in S}

-----------------------------------------------------------------------------
(* Sums.                                                                    *)

LEMMA UnitsMembers ==
    ASSUME NEW S, NEW f
    PROVE  \A p : p \in Units(S, f) <=> \E k \in S : \E i \in 1 .. f[k] : p = <<k, i>>
  BY DEF Units

LEMMA UnitsFinite ==
    ASSUME NEW S, IsFiniteSet(S), NEW f, \A k \in S : f[k] \in Nat
    PROVE  IsFiniteSet(Units(S, f))
<1> DEFINE T == {{k} \X (1 .. f[k]) : k \in S}
           pick == [k \in S |-> {k} \X (1 .. f[k])]
<1>1. pick \in Surjection(S, T)
  BY DEF Surjection
<1>2. IsFiniteSet(T)
  BY <1>1, FS_Surjection
<1>3. ASSUME NEW k \in S
      PROVE  IsFiniteSet({k} \X (1 .. f[k]))
  <2>1. IsFiniteSet({k})
    BY FS_Singleton
  <2>2. f[k] \in Int /\ 1 \in Int
    OBVIOUS
  <2>3. IsFiniteSet(1 .. f[k])
    BY <2>2, FS_Interval
  <2>4. QED
    BY <2>1, <2>3, FS_Product
<1>4. \A X \in T : IsFiniteSet(X)
  BY <1>3
<1>5. QED
  BY <1>2, <1>4, FS_UNION DEF Units

(* A sum grows with the set and with the summands.                          *)
LEMMA TotalMonotone ==
    ASSUME NEW S, NEW T, IsFiniteSet(T), S \subseteq T, NEW f, NEW g,
           \A k \in T : g[k] \in Nat,
           \A k \in S : f[k] \in Nat /\ f[k] <= g[k]
    PROVE  Total(S, f) <= Total(T, g)
<1>1. Units(S, f) \subseteq Units(T, g)
  <2> SUFFICES ASSUME NEW k \in S, NEW i \in 1 .. f[k]
               PROVE  <<k, i>> \in Units(T, g)
    BY UnitsMembers
  <2>1. i \in 1 .. g[k]
    OBVIOUS
  <2>2. QED
    BY <2>1, UnitsMembers
<1>2. IsFiniteSet(Units(T, g))
  BY UnitsFinite
<1>3. QED
  BY <1>1, <1>2, FS_Subset DEF Total, Units

LEMMA TotalType ==
    ASSUME NEW S, IsFiniteSet(S), NEW f, \A k \in S : f[k] \in Nat
    PROVE  Total(S, f) \in Nat
  BY UnitsFinite, FS_CardinalityType DEF Total, Units

(* One summand more adds at most its value.                                 *)
LEMMA TotalWith ==
    ASSUME NEW S, IsFiniteSet(S), NEW f, \A k \in S : f[k] \in Nat, NEW j \in S
    PROVE  Total(S, f) <= Total(S \ {j}, f) + f[j]
<1> DEFINE A == Units(S \ {j}, f)
           B == {j} \X (1 .. f[j])
<1>1. Units(S, f) = A \cup B
  BY DEF Units
<1>2. IsFiniteSet(S \ {j})
  BY FS_Subset
<1>3. IsFiniteSet(A)
  BY <1>2, UnitsFinite
<1>4. IsFiniteSet(B) /\ Cardinality(B) = f[j]
  <2>1. IsFiniteSet({j}) /\ Cardinality({j}) = 1
    BY FS_Singleton
  <2>2. IsFiniteSet(1 .. f[j]) /\ Cardinality(1 .. f[j]) = f[j]
    BY FS_Interval
  <2>3. QED
    BY <2>1, <2>2, FS_Product
<1>5. Cardinality(A \cup B) = Cardinality(A) + Cardinality(B) - Cardinality(A \cap B)
  BY <1>3, <1>4, FS_Union
<1>6. Cardinality(A \cap B) \in Nat /\ Cardinality(A) \in Nat
  <2>1. IsFiniteSet(A \cap B)
    BY <1>3, FS_Subset
  <2>2. QED
    BY <2>1, <1>3, FS_CardinalityType
<1>7. Total(S, f) = Cardinality(A \cup B) /\ Total(S \ {j}, f) = Cardinality(A)
  BY <1>1 DEF Total, Units
<1>8. QED
  BY <1>4, <1>5, <1>6, <1>7

-----------------------------------------------------------------------------
(* What one step may do to what a row is authorized for.                    *)

LEMMA AuthorizedType ==
    ASSUME TypeOK
    PROVE  /\ Authorized \in [Rows -> Nat] /\ Calls \in [Rows -> Nat]
           /\ \A k \in Rows : Authorized[k] <= Calls[k]
<1>1. ASSUME NEW k \in Rows
      PROVE  ChargedCalls(ledger[k]) \in Nat /\ ledger[k].reservedCalls \in Nat
  BY DEF TypeOK, Row, ChargedCalls, States, Held, NatOrNone, None
<1>2. QED
  BY <1>1 DEF Authorized, Calls

(* Every transaction but a new reservation leaves each row authorized for   *)
(* no more than before, and in the windows only if it was there before.     *)
Shrinks ==
    \A k \in Rows :
        /\ Authorized'[k] <= Authorized[k]
        /\ ledger'[k].state = "absent" <=> ledger[k].state = "absent"
        /\ \/ ledger[k].state \in Held
           \/ ledger'[k].state \notin Held /\ ledger'[k].day = ledger[k].day

(* The rows that a step may put in the place of row r.                      *)
Follows(r, s) ==
    \/ s = r
    \/ r.state = "reserved" /\ s = SentRow(r)
    \/ r.state = "reserved" /\ s = Released(r)
    \/ r.state \in {"in_flight", "uncertain"} /\ s = [r EXCEPT !.state = "uncertain"]
    \/ r.state \in {"in_flight", "uncertain"} /\ s.state = "settled"
    \/ /\ r.state \in {"settled", "legacy"}
       /\ s.state = r.state /\ s.calls = r.calls
       /\ s.reservedCalls = r.reservedCalls /\ s.day = r.day

LEMMA FollowsShrinks ==
    ASSUME TypeOK, TypeOK', \A k \in Rows : Follows(ledger[k], ledger'[k])
                                          /\ ledger'[k].reservedCalls = ledger[k].reservedCalls
    PROVE  Shrinks
<1> SUFFICES ASSUME NEW k \in Rows
             PROVE  /\ Authorized'[k] <= Authorized[k]
                    /\ ledger'[k].state = "absent" <=> ledger[k].state = "absent"
                    /\ \/ ledger[k].state \in Held
                       \/ ledger'[k].state \notin Held /\ ledger'[k].day = ledger[k].day
  BY DEF Shrinks
<1> DEFINE r == ledger[k]
           s == ledger'[k]
<1>1. r \in Row /\ s \in Row /\ Follows(r, s) /\ s.reservedCalls = r.reservedCalls
  BY DEF TypeOK
<1>2. r.state = "legacy" <=> k \in LegacyKeys
  BY DEF TypeOK
<1>3. /\ Authorized[k] = IF k \in LegacyKeys \/ ChargedCalls(r) <= r.reservedCalls
                          THEN ChargedCalls(r) ELSE r.reservedCalls
      /\ Authorized'[k] = IF k \in LegacyKeys \/ ChargedCalls(s) <= s.reservedCalls
                           THEN ChargedCalls(s) ELSE s.reservedCalls
  BY DEF Authorized
<1> HIDE DEF r, s
<1>4. ChargedCalls(r) \in Nat /\ ChargedCalls(s) \in Nat /\ r.reservedCalls \in Nat
  BY <1>1 DEF Row, ChargedCalls, States, Held, NatOrNone, None
<1>5. CASE s = r
  BY <1>3, <1>4, <1>5 DEF r, s
<1>6. CASE r.state = "reserved" /\ s = SentRow(r)
  <2>1. s.state = "in_flight"
    BY <1>6, <1>1 DEF SentRow, Row
  <2>2. ChargedCalls(r) = r.reservedCalls /\ ChargedCalls(s) = r.reservedCalls
    BY <2>1, <1>6, <1>1 DEF ChargedCalls, Held
  <2>3. QED
    BY <2>1, <2>2, <1>2, <1>3, <1>4, <1>6, <1>1 DEF r, s, Held
<1>7. CASE r.state = "reserved" /\ s = Released(r)
  <2>1. s.state = "released"
    BY <1>7, <1>1 DEF Released, Row
  <2>2. ChargedCalls(r) = r.reservedCalls /\ ChargedCalls(s) = 0
    BY <2>1, <1>7, <1>1 DEF ChargedCalls, Held
  <2>3. QED
    BY <2>1, <2>2, <1>2, <1>3, <1>4, <1>7, <1>1 DEF r, s, Held
<1>8. CASE r.state \in {"in_flight", "uncertain"} /\ s = [r EXCEPT !.state = "uncertain"]
  <2>1. s.state = "uncertain"
    BY <1>8, <1>1 DEF Row
  <2>2. ChargedCalls(r) = r.reservedCalls /\ ChargedCalls(s) = r.reservedCalls
    BY <2>1, <1>8, <1>1 DEF ChargedCalls, Held
  <2>3. QED
    BY <2>1, <2>2, <1>2, <1>3, <1>4, <1>8, <1>1 DEF r, s, Held
<1>9. CASE r.state \in {"in_flight", "uncertain"} /\ s.state = "settled"
  <2>1. ChargedCalls(r) = r.reservedCalls
    BY <1>9, <1>1 DEF ChargedCalls, Held
  <2>2. QED
    BY <2>1, <1>2, <1>3, <1>4, <1>9, <1>1 DEF r, s, Held
<1>10. CASE /\ r.state \in {"settled", "legacy"}
            /\ s.state = r.state /\ s.calls = r.calls
            /\ s.reservedCalls = r.reservedCalls /\ s.day = r.day
  <2>1. ChargedCalls(s) = ChargedCalls(r)
    BY <1>10 DEF ChargedCalls, Held
  <2>2. QED
    BY <2>1, <1>3, <1>4, <1>10, <1>1 DEF r, s, Held
<1>11. QED
  BY <1>1, <1>5, <1>6, <1>7, <1>8, <1>9, <1>10 DEF Follows

(* A step makes a new reservation, starts a day, or shrinks.                *)
LEMMA StepKinds ==
    ASSUME TypeOK, TypeOK', [Next]_vars
    PROVE  \/ \E w \in Callers, k \in Keys : \E n \in ReservedCalls[k] : ReserveNew(w, k, n)
           \/ NextDay
           \/ Shrinks /\ today' = today
<1> DEFINE Kept(k) == /\ Follows(ledger[k], ledger'[k])
                      /\ ledger'[k].reservedCalls = ledger[k].reservedCalls
<1>0. ASSUME \A k \in Rows : Kept(k), today' = today
      PROVE  Shrinks /\ today' = today
  BY <1>0, FollowsShrinks
<1>1. ASSUME UNCHANGED <<ledger, today>>
      PROVE  Shrinks /\ today' = today
  BY <1>1, <1>0 DEF Follows
<1>2. ASSUME NEW w \in Callers, NEW k \in Keys, NEW n \in ReservedCalls[k], ReserveAgain(w, k, n)
      PROVE  Shrinks /\ today' = today
  BY <1>1, <1>2 DEF ReserveAgain
<1>3. ASSUME NEW w \in Callers,
             DispatchRefused(w) \/ Crash(w) \/ \E n \in CallCounts : CallProvider(w, n)
      PROVE  Shrinks /\ today' = today
  BY <1>1, <1>3 DEF DispatchRefused, Crash, CallProvider
<1>4. ASSUME NEW w \in Callers, Dispatch(w)
      PROVE  Shrinks /\ today' = today
  <2>1. held[w] \in Rows /\ ledger \in [Rows -> Row]
    BY <1>4 DEF Dispatch, TypeOK, Rows
  <2>2. /\ ledger'[held[w]] = SentRow(ledger[held[w]])
        /\ \A k \in Rows \ {held[w]} : ledger'[k] = ledger[k]
    BY <2>1, <1>4 DEF Dispatch
  <2>3. SentRow(ledger[held[w]]).reservedCalls = ledger[held[w]].reservedCalls
    BY <2>1 DEF SentRow, Row
  <2>4. \A k \in Rows : Kept(k)
    BY <2>1, <2>2, <2>3, <1>4 DEF Dispatch, Follows
  <2>5. QED
    BY <2>4, <1>4, <1>0 DEF Dispatch
<1>5. ASSUME NEW w \in Callers, DispatchCancelled(w)
      PROVE  Shrinks /\ today' = today
  <2>1. held[w] \in Rows /\ ledger \in [Rows -> Row]
    BY <1>5 DEF DispatchCancelled, TypeOK, Rows
  <2>2. /\ ledger'[held[w]] = Released(ledger[held[w]])
        /\ \A k \in Rows \ {held[w]} : ledger'[k] = ledger[k]
    BY <2>1, <1>5 DEF DispatchCancelled
  <2>3. Released(ledger[held[w]]).reservedCalls = ledger[held[w]].reservedCalls
    BY <2>1 DEF Released, Row
  <2>4. \A k \in Rows : Kept(k)
    BY <2>1, <2>2, <2>3, <1>5 DEF DispatchCancelled, Follows
  <2>5. QED
    BY <2>4, <1>5, <1>0 DEF DispatchCancelled
<1>6. ASSUME NEW w \in Callers, Settle(w)
      PROVE  Shrinks /\ today' = today
  <2>1. held[w] \in Rows /\ held[w] \in Keys /\ made[w] \in Nat /\ ledger \in [Rows -> Row]
    BY <1>6 DEF Settle, TypeOK, Rows
  <2>2. ledger[held[w]] \in Row
    BY <2>1
  <2>3. /\ SettledRow(held[w], ledger[held[w]], made[w]).state = "settled"
        /\ SettledRow(held[w], ledger[held[w]], made[w]).reservedCalls =
             ledger[held[w]].reservedCalls
    BY <2>2 DEF SettledRow, Row
  <2>4. \/ ledger' = ledger
        \/ /\ ledger[held[w]].state \in {"in_flight", "uncertain"}
           /\ ledger'[held[w]] = SettledRow(held[w], ledger[held[w]], made[w])
           /\ \A k \in Rows \ {held[w]} : ledger'[k] = ledger[k]
    BY <2>1, <1>6 DEF Settle
  <2>5. \A k \in Rows : Kept(k)
    BY <2>3, <2>4 DEF Follows
  <2>6. QED
    BY <2>5, <1>6, <1>0 DEF Settle
<1>7. ASSUME NEW task, NEW c \in BOOLEAN, Recover(task, c)
      PROVE  Shrinks /\ today' = today
  <2>1. ASSUME NEW r \in Row
        PROVE  Follows(r, RecoveredRow(r, c)) /\ RecoveredRow(r, c).reservedCalls = r.reservedCalls
    BY <2>1 DEF RecoveredRow, Released, Follows, Row
  <2>2. \A k \in Rows : Kept(k)
    BY <2>1, <1>7 DEF Recover, TypeOK, Follows
  <2>3. QED
    BY <2>2, <1>7, <1>0 DEF Recover
<1>8. ASSUME NEW k \in Rows, NEW n \in CallCounts \cup LegacyCounts, NEW cost \in Costs,
             Reconcile(k, n, cost)
      PROVE  Shrinks /\ today' = today
  <2>1. ledger \in [Rows -> Row] /\ ledger[k] \in Row
    BY DEF TypeOK
  <2>2. /\ ledger'[k] = ConfirmedRow(ledger[k], n, cost)
        /\ \A j \in Rows \ {k} : ledger'[j] = ledger[j]
    BY <2>1, <1>8 DEF Reconcile
  <2>3. ASSUME NEW r \in Row, r.state \in {"uncertain", "settled", "legacy"},
               r.state \in {"settled", "legacy"} => r.calls = n
        PROVE  /\ Follows(r, ConfirmedRow(r, n, cost))
               /\ ConfirmedRow(r, n, cost).reservedCalls = r.reservedCalls
    BY <2>3 DEF ConfirmedRow, Follows, Row
  <2>4. Kept(k)
    BY <2>1, <2>2, <2>3, <1>8 DEF Reconcile
  <2>5. \A j \in Rows : Kept(j)
    BY <2>2, <2>4 DEF Follows
  <2>6. QED
    BY <2>5, <1>8, <1>0 DEF Reconcile
<1>9. ASSUME UNCHANGED vars
      PROVE  Shrinks /\ today' = today
  BY <1>1, <1>9 DEF vars
<1>10. QED
  BY <1>2, <1>3, <1>4, <1>5, <1>6, <1>7, <1>8, <1>9 DEF Next

-----------------------------------------------------------------------------
(* The limits.                                                              *)

LEMMA RowsFinite == IsFiniteSet(Rows) /\ \A S : S \subseteq Rows => IsFiniteSet(S)
<1>1. IsFiniteSet(Rows)
  BY BudgetAssumption, FS_Union DEF Rows
<1>2. QED
  BY <1>1, FS_Subset

(* WithinLimit for any sums f over rows S.                                  *)
Within(S, f, limit) == Total(S, f) <= limit \/ \A k \in S \ LegacyKeys : f[k] = 0

LEMMA WithinShrinks ==
    ASSUME NEW S, IsFiniteSet(S), NEW T, T \subseteq S, NEW f, NEW g, NEW limit \in Int,
           \A k \in S : f[k] \in Nat,
           \A k \in T : g[k] \in Nat /\ g[k] <= f[k],
           Within(S, f, limit)
    PROVE  Within(T, g, limit)
<1>1. CASE Total(S, f) <= limit
  <2>1. Total(T, g) <= Total(S, f)
    BY TotalMonotone
  <2>2. Total(T, g) \in Nat /\ Total(S, f) \in Nat
    BY TotalType, FS_Subset
  <2>3. QED
    BY <1>1, <2>1, <2>2 DEF Within
<1>2. CASE \A k \in S \ LegacyKeys : f[k] = 0
  BY <1>2 DEF Within
<1>3. QED
  BY <1>1, <1>2 DEF Within

(* A reservation of n calls that fits beside the calls charged so far.      *)
LEMMA WithinReserve ==
    ASSUME NEW S, IsFiniteSet(S), NEW T, IsFiniteSet(T), NEW j \in T, NEW n \in Nat,
           NEW limit \in Int, NEW f, NEW g,
           \A k \in S : f[k] \in Nat, \A k \in T : g[k] \in Nat,
           \A k \in T \ {j} : g[k] <= f[k], g[j] = n,
           T \ {j} \subseteq S \ {j},
           Total(S \ {j}, f) + n <= limit
    PROVE  Within(T, g, limit)
<1>1. IsFiniteSet(S \ {j}) /\ IsFiniteSet(T \ {j})
  BY FS_Subset
<1>2. Total(T \ {j}, g) <= Total(S \ {j}, f)
  BY <1>1, TotalMonotone
<1>3. Total(T, g) <= Total(T \ {j}, g) + g[j]
  BY <1>1, TotalWith
<1>4. Total(T, g) \in Nat /\ Total(T \ {j}, g) \in Nat /\ Total(S \ {j}, f) \in Nat
  BY <1>1, TotalType
<1>5. QED
  BY <1>2, <1>3, <1>4 DEF Within

SameCalls(k) == {j \in TaskRows(k) : OperationOf[j] = OperationOf[k]}
TaskRoom == TaskCallLimit - TaskBaseline

(* Both limits in terms of Within.                                          *)
LEMMA LimitsAsWithin ==
    ASSUME TypeOK
    PROVE  CallsWithinLimits <=>
             /\ \A k \in Keys : Within(SameCalls(k), Authorized, TaskRoom)
             /\ Within(SearchesOpenOrSince(today), Authorized, DailySearchLimit)
             /\ Within(SearchesOpenOrSince(MonthStart[today]), Authorized, MonthlySearchLimit)
<1>1. ASSUME NEW k \in Keys
      PROVE  /\ SameCalls(k) \subseteq Rows /\ SameCalls(k) \ LegacyKeys = SameCalls(k)
             /\ Total(SameCalls(k), Authorized) \in Nat
  <2>1. SameCalls(k) \subseteq Rows /\ SameCalls(k) \ LegacyKeys = SameCalls(k)
    BY BudgetAssumption DEF SameCalls, TaskRows, Rows
  <2>2. IsFiniteSet(SameCalls(k))
    BY <2>1, RowsFinite
  <2>3. \A j \in SameCalls(k) : Authorized[j] \in Nat
    BY <2>1, AuthorizedType
  <2>4. QED
    BY <2>1, <2>2, <2>3, TotalType
<1>2. TaskBaseline \in Nat /\ TaskCallLimit \in Nat
  BY BudgetAssumption
<1>3. TaskCallsWithinLimit <=> \A k \in Keys : Within(SameCalls(k), Authorized, TaskRoom)
  BY <1>1, <1>2 DEF TaskCallsWithinLimit, SameCalls, Within, TaskRoom
<1>4. QED
  BY <1>3 DEF CallsWithinLimits, SearchCallsWithinLimits, WithinLimit, Within

LimitsWithin ==
    /\ \A k \in Keys : Within(SameCalls(k), Authorized, TaskRoom)
    /\ Within(SearchesOpenOrSince(today), Authorized, DailySearchLimit)
    /\ Within(SearchesOpenOrSince(MonthStart[today]), Authorized, MonthlySearchLimit)

AuthorizedTyped ==
    /\ Authorized \in [Rows -> Nat] /\ Calls \in [Rows -> Nat]
    /\ \A k \in Rows : Authorized[k] <= Calls[k]

(* The same facts of the next state.                                        *)
LEMMA NextLimits ==
    TypeOK' => AuthorizedTyped' /\ (CallsWithinLimits' <=> LimitsWithin')
<1>1. TypeOK => AuthorizedTyped /\ (CallsWithinLimits <=> LimitsWithin)
  BY AuthorizedType, LimitsAsWithin DEF AuthorizedTyped, LimitsWithin
<1>2. QED
  BY <1>1, PTL

LEMMA ShrinksKeepsLimits ==
    ASSUME TypeOK, TypeOK', CallsWithinLimits, Shrinks, today' = today
    PROVE  CallsWithinLimits'
<1>1. \A k \in Rows : /\ Authorized[k] \in Nat /\ Authorized'[k] \in Nat
                      /\ Authorized'[k] <= Authorized[k]
  BY AuthorizedType, NextLimits DEF Shrinks, AuthorizedTyped
<1>2. TaskRoom \in Int /\ DailySearchLimit \in Nat /\ MonthlySearchLimit \in Nat
  BY BudgetAssumption DEF TaskRoom
<1>3. LimitsWithin
  BY LimitsAsWithin DEF LimitsWithin
<1>4. ASSUME NEW k \in Keys
      PROVE  Within(SameCalls(k), Authorized', TaskRoom)
  <2>1. SameCalls(k) \subseteq Rows
    BY DEF SameCalls, TaskRows, Rows
  <2>2. IsFiniteSet(SameCalls(k))
    BY <2>1, RowsFinite
  <2>3. QED
    BY <1>1, <1>2, <1>3, <2>1, <2>2, WithinShrinks DEF LimitsWithin
<1> DEFINE After(since) == {k \in SearchRows :
                \/ ledger'[k].state \in Held
                \/ ledger'[k].state # "absent" /\ ledger'[k].day >= since}
<1>5. ASSUME NEW since, NEW limit \in Int, Within(SearchesOpenOrSince(since), Authorized, limit)
      PROVE  Within(After(since), Authorized', limit)
  <2>1. SearchesOpenOrSince(since) \subseteq Rows
    BY DEF SearchesOpenOrSince, SearchRows, Rows
  <2>2. After(since) \subseteq SearchesOpenOrSince(since)
    BY DEF SearchesOpenOrSince, SearchRows, Rows, Shrinks
  <2>3. IsFiniteSet(SearchesOpenOrSince(since))
    BY <2>1, RowsFinite
  <2> HIDE DEF After
  <2>4. QED
    BY <1>1, <1>5, <2>1, <2>2, <2>3, WithinShrinks
<1>6. /\ SearchesOpenOrSince(today)' = After(today)
      /\ SearchesOpenOrSince(MonthStart[today])' = After(MonthStart[today])
  BY DEF SearchesOpenOrSince
<1>7. /\ Within(After(today), Authorized', DailySearchLimit)
      /\ Within(After(MonthStart[today]), Authorized', MonthlySearchLimit)
  BY <1>2, <1>3, <1>5 DEF LimitsWithin
<1> HIDE DEF After
<1>8. LimitsWithin'
  BY <1>4, <1>6, <1>7 DEF LimitsWithin
<1>9. QED
  BY <1>8, NextLimits

(* A new day only drops rows from the windows.                              *)
LEMMA NextDayKeepsLimits ==
    ASSUME TypeOK, TypeOK', CallsWithinLimits, NextDay
    PROVE  CallsWithinLimits'
<1>1. \A k \in Rows : Authorized[k] \in Nat
  BY AuthorizedType
<1>2. DailySearchLimit \in Int /\ MonthlySearchLimit \in Int
  BY BudgetAssumption
<1>3. LimitsWithin
  BY LimitsAsWithin DEF LimitsWithin
<1>4. ledger' = ledger /\ Authorized' = Authorized
  BY DEF NextDay, Authorized
<1>5. /\ today <= today' /\ today \in Nat /\ today' \in Nat
      /\ MonthStart[today] <= MonthStart[today']
      /\ MonthStart[today] \in Nat /\ MonthStart[today'] \in Nat
  <2>1. today \in 0 .. MaxDay /\ today' \in 0 .. MaxDay /\ today <= today' /\ MaxDay \in Nat
    BY BudgetAssumption DEF TypeOK, NextDay
  <2>2. MonthStart \in [0 .. MaxDay -> 0 .. MaxDay]
    BY BudgetAssumption
  <2>3. MonthStart[today] <= MonthStart[today']
    BY <2>1, BudgetAssumption
  <2>4. QED
    BY <2>1, <2>2, <2>3
<1>6. ASSUME NEW a \in Nat, NEW b \in Nat, a <= b, NEW limit \in Int,
             Within(SearchesOpenOrSince(a), Authorized, limit)
      PROVE  Within(SearchesOpenOrSince(b), Authorized, limit)
  <2>1. SearchesOpenOrSince(a) \subseteq Rows
    BY DEF SearchesOpenOrSince, SearchRows, Rows
  <2>2. SearchesOpenOrSince(b) \subseteq SearchesOpenOrSince(a)
    BY <1>6 DEF SearchesOpenOrSince, SearchRows, TypeOK, Row, Rows
  <2>3. IsFiniteSet(SearchesOpenOrSince(a))
    BY <2>1, RowsFinite
  <2>4. \A k \in SearchesOpenOrSince(b) : Authorized[k] \in Nat /\ Authorized[k] <= Authorized[k]
    BY <1>1, <2>1, <2>2
  <2>5. QED
    BY <1>1, <1>6, <2>1, <2>2, <2>3, <2>4, WithinShrinks
<1>7. /\ Within(SearchesOpenOrSince(today'), Authorized, DailySearchLimit)
      /\ Within(SearchesOpenOrSince(MonthStart[today']), Authorized, MonthlySearchLimit)
  BY <1>2, <1>3, <1>5, <1>6 DEF LimitsWithin
<1>8. LimitsWithin'
  BY <1>3, <1>4, <1>7 DEF LimitsWithin, SearchesOpenOrSince
<1>9. QED
  BY <1>8, NextLimits

(* A reservation is checked against all that was charged beside it.         *)
LEMMA ReserveKeepsLimits ==
    ASSUME TypeOK, TypeOK', CallsWithinLimits,
           NEW w \in Callers, NEW k \in Keys, NEW n \in ReservedCalls[k], ReserveNew(w, k, n)
    PROVE  CallsWithinLimits'
<1>1. n \in Nat /\ k \in Rows /\ k \notin LegacyKeys /\ TaskRoom \in Int
      /\ DailySearchLimit \in Int /\ MonthlySearchLimit \in Int
  BY BudgetAssumption DEF Rows, TaskRoom
<1>2. /\ \A j \in Rows : /\ Calls[j] \in Nat /\ Authorized[j] \in Nat
                         /\ Authorized[j] <= Calls[j] /\ Authorized'[j] \in Nat
      /\ LimitsWithin
  BY AuthorizedType, LimitsAsWithin, NextLimits DEF LimitsWithin, AuthorizedTyped
<1>3. /\ \A j \in Rows \ {k} : ledger'[j] = ledger[j]
      /\ ledger'[k].state = "reserved" /\ ledger'[k].reservedCalls = n
      /\ ledger[k].state = "absent" /\ today' = today
  BY <1>1 DEF ReserveNew, TypeOK
<1>4. /\ \A j \in Rows \ {k} : Authorized'[j] = Authorized[j]
      /\ Authorized'[k] = n
  BY <1>1, <1>3 DEF Authorized, ChargedCalls, Held
<1>5. Fits(k, n, UpperPrice(k) * n)
  BY DEF ReserveNew
<1>6. ASSUME NEW i \in Keys
      PROVE  Within(SameCalls(i), Authorized', TaskRoom)
  <2>1. SameCalls(i) \subseteq Rows /\ IsFiniteSet(SameCalls(i))
    BY RowsFinite DEF SameCalls, TaskRows, Rows
  <2>2. CASE k \in SameCalls(i)
    <3>1. SameCalls(k) = SameCalls(i)
      BY <2>2 DEF SameCalls, TaskRows
    <3>2. TaskBaseline + Total(SameCalls(k) \ {k}, Calls) + n <= TaskCallLimit
      BY <1>5 DEF Fits, CallRoom, SameCalls
    <3>3. IsFiniteSet(SameCalls(i) \ {k})
      BY <2>1, FS_Subset
    <3>4. Total(SameCalls(i) \ {k}, Calls) \in Nat
      BY <1>2, <2>1, <3>3, TotalType
    <3>5. Total(SameCalls(i) \ {k}, Calls) + n <= TaskRoom
      BY <1>1, <3>1, <3>2, <3>4, BudgetAssumption DEF TaskRoom
    <3>6. QED
      BY <1>1, <1>2, <1>4, <2>1, <2>2, <3>5, WithinReserve
  <2>3. CASE k \notin SameCalls(i)
    <3>1. Within(SameCalls(i), Authorized, TaskRoom)
      BY <1>2 DEF LimitsWithin
    <3>2. \A j \in SameCalls(i) : /\ Authorized[j] \in Nat /\ Authorized'[j] \in Nat
                                 /\ Authorized'[j] <= Authorized[j]
      BY <1>2, <1>4, <2>1, <2>3
    <3>3. QED
      BY <1>1, <2>1, <3>1, <3>2, WithinShrinks
  <2>4. QED
    BY <2>2, <2>3
<1> DEFINE After(since) == {j \in SearchRows :
                \/ ledger'[j].state \in Held
                \/ ledger'[j].state # "absent" /\ ledger'[j].day >= since}
<1>7. ASSUME NEW since, NEW limit \in Int, Within(SearchesOpenOrSince(since), Authorized, limit),
             OperationOf[k] = Search =>
               Total((SearchRows \cap Window(since)) \ {k}, Calls) + n <= limit
      PROVE  Within(After(since), Authorized', limit)
  <2> DEFINE S == SearchesOpenOrSince(since)
             T == After(since)
  <2>1. S \subseteq Rows /\ T \subseteq Rows /\ S = SearchRows \cap Window(since)
    BY DEF SearchesOpenOrSince, SearchRows, Rows, Window
  <2>2. T \ {k} = S /\ S \ {k} = S /\ (k \in T <=> OperationOf[k] = Search)
    BY <1>1, <1>3, <2>1 DEF SearchesOpenOrSince, SearchRows, Rows, Held
  <2>3. IsFiniteSet(S) /\ IsFiniteSet(T)
    BY <2>1, RowsFinite
  <2>4. Within(S, Authorized, limit) /\ (k \in T => Total(S \ {k}, Calls) + n <= limit)
    BY <1>7, <2>1, <2>2
  <2> HIDE DEF S, T
  <2>5. CASE k \in T
    <3>1. /\ \A j \in S : Calls[j] \in Nat
          /\ \A j \in T : Authorized'[j] \in Nat
          /\ \A j \in T \ {k} : Authorized'[j] <= Calls[j]
      BY <1>2, <1>4, <2>1
    <3>2. QED
      BY <1>1, <1>4, <2>2, <2>3, <2>4, <2>5, <3>1, WithinReserve DEF T
  <2>6. CASE k \notin T
    <3>1. T \subseteq S /\ \A j \in T : Authorized'[j] = Authorized[j]
      BY <1>4, <2>1, <2>2, <2>6
    <3>2. /\ \A j \in S : Authorized[j] \in Nat
          /\ \A j \in T : Authorized'[j] \in Nat /\ Authorized'[j] <= Authorized[j]
      BY <1>2, <2>1, <3>1
    <3>3. QED
      BY <2>3, <2>4, <3>1, <3>2, WithinShrinks DEF T
  <2>7. QED
    BY <2>5, <2>6
<1>8. /\ SearchesOpenOrSince(today)' = After(today)
      /\ SearchesOpenOrSince(MonthStart[today])' = After(MonthStart[today])
  BY <1>3 DEF SearchesOpenOrSince
<1>9. /\ Within(After(today), Authorized', DailySearchLimit)
      /\ Within(After(MonthStart[today]), Authorized', MonthlySearchLimit)
  BY <1>1, <1>2, <1>5, <1>7 DEF LimitsWithin, Fits, CallRoom
<1> HIDE DEF After
<1>10. LimitsWithin'
  BY <1>6, <1>8, <1>9 DEF LimitsWithin
<1>11. QED
  BY <1>10, NextLimits

LEMMA InitLimits == Init => CallsWithinLimits
<1> SUFFICES ASSUME Init
             PROVE  CallsWithinLimits
  OBVIOUS
<1>1. TypeOK
  BY InitTyped
<1>2. \A k \in Keys : Authorized[k] = 0
  BY <1>1, BudgetAssumption DEF Init, TypeOK, Authorized, ChargedCalls, Held, Rows, Row
<1>3. /\ \A k \in Keys : \A j \in SameCalls(k) : Authorized[j] = 0
      /\ \A k \in Rows \ LegacyKeys : Authorized[k] = 0
  BY <1>2 DEF SameCalls, TaskRows, Rows
<1>4. LimitsWithin
  BY <1>3 DEF LimitsWithin, Within, SearchesOpenOrSince, SearchRows, Rows
<1>5. QED
  BY <1>1, <1>4, LimitsAsWithin DEF LimitsWithin

(* No task is ever authorized to make more calls than its limit, and no day   *)
(* and no month more searches than the system allows, however reservations,  *)
(* crashes, settlements and new days interleave.                            *)
THEOREM CallLimitsHold == Spec => []CallsWithinLimits
<1>1. TypeOK /\ TypeOK' /\ CallsWithinLimits /\ [Next]_vars => CallsWithinLimits'
  BY StepKinds, ReserveKeepsLimits, NextDayKeepsLimits, ShrinksKeepsLimits
<1>2. QED
  BY <1>1, InitLimits, TypeCorrect, PTL DEF Spec


-----------------------------------------------------------------------------
(* Money.  What a row counts for in AuthorizedCost, and what a settled row   *)
(* that awaits its receipt costs: its confirmed requests at the quoted price. *)

RowCost(k, r) ==
    IF k \in LegacyKeys \/ r.state \in {"absent", "released"} THEN 0
    ELSE IF r.state \in Held \/ r.cost = None THEN r.reservedCost
    ELSE IF UnitPrice[k] = None /\ r.calls # 0 THEN AtMost(r.cost, r.reservedCost)
    ELSE IF r.calls = 0 THEN 0
    ELSE AtMost(AtMost(r.cost, UnitPrice[k] * r.calls), r.reservedCost)

Priced(k, r) ==
    r.state = "settled" =>
        /\ r.calls \in Nat
        /\ r.costStatus # "actual" =>
              r.cost = IF r.calls = 0 THEN 0
                       ELSE IF UnitPrice[k] = None THEN None ELSE UnitPrice[k] * r.calls

SettledAsPriced == \A k \in Keys : Priced(k, ledger[k])
MoneyInv == SettledAsPriced /\ MoneyWithinLimits

LEMMA QuotedPrice ==
    ASSUME NEW k \in Keys
    PROVE  UnitPrice[k] \in Nat \/ UnitPrice[k] = None
<1>1. UnitPrice \in [Keys -> NatOrNone]
  BY BudgetAssumption
<1>2. QED
  BY <1>1 DEF NatOrNone

(* A row counts for no more than it has reserved, and for no more than what  *)
(* the checks charge it with.                                               *)
LEMMA RowCostBounded ==
    ASSUME NEW k \in Rows, NEW r \in Row, r.state = "legacy" <=> k \in LegacyKeys,
           k \in Keys => Priced(k, r)
    PROVE  /\ RowCost(k, r) \in Nat /\ r.reservedCost \in Nat
           /\ RowCost(k, r) <= r.reservedCost
           /\ Amount(r) \in NatOrNone
           /\ Amount(r) # None => RowCost(k, r) <= Amount(r)
<1>1. /\ r.reservedCost \in Nat /\ r.cost \in NatOrNone /\ r.calls \in NatOrNone
      /\ r.state \in States
  BY DEF Row
<1>2. Amount(r) \in NatOrNone
  BY <1>1 DEF Amount, NatOrNone, Held, States, None
<1>3. CASE k \in LegacyKeys \/ r.state \in {"absent", "released"}
  <2>1. RowCost(k, r) = 0
    BY <1>3 DEF RowCost
  <2>2. QED
    BY <1>1, <1>2, <2>1 DEF NatOrNone, None
<1>4. CASE /\ k \notin LegacyKeys /\ r.state \notin {"absent", "released"}
           /\ r.state \in Held \/ r.cost = None
  <2>1. RowCost(k, r) = r.reservedCost
    BY <1>4 DEF RowCost
  <2>2. Amount(r) = r.reservedCost \/ Amount(r) = None
    BY <1>4, <1>1 DEF Amount, Held, States
  <2>3. QED
    BY <1>1, <1>2, <2>1, <2>2
<1>5. CASE /\ k \notin LegacyKeys /\ r.state \notin {"absent", "released"}
           /\ r.state \notin Held /\ r.cost # None
  <2>1. r.state = "settled" /\ k \in Keys /\ r.calls \in Nat /\ r.cost \in Nat
    BY <1>1, <1>5 DEF States, Held, Rows, Priced, NatOrNone
  <2>2. UnitPrice[k] # None => UnitPrice[k] * r.calls \in Nat
    <3>1. UnitPrice[k] # None => UnitPrice[k] \in Nat
      BY <2>1, QuotedPrice
    <3>2. QED
      BY <2>1, <3>1
  <2>3. Amount(r) = r.reservedCost \/ Amount(r) = r.cost
    BY <2>1 DEF Amount, Held
  <2> DEFINE product == UnitPrice[k] * r.calls
  <2> HIDE DEF product
  <2>4. RowCost(k, r) = IF UnitPrice[k] = None /\ r.calls # 0 THEN AtMost(r.cost, r.reservedCost)
                        ELSE IF r.calls = 0 THEN 0
                        ELSE AtMost(AtMost(r.cost, product), r.reservedCost)
    BY <1>5 DEF RowCost, product
  <2>5. UnitPrice[k] # None => product \in Nat
    BY <2>2 DEF product
  <2>6. /\ RowCost(k, r) \in Nat /\ RowCost(k, r) <= r.reservedCost /\ RowCost(k, r) <= r.cost
    BY <1>1, <2>1, <2>4, <2>5 DEF AtMost
  <2>7. QED
    BY <1>1, <1>2, <2>3, <2>6
<1>6. QED
  BY <1>3, <1>4, <1>5

(* The rows of a key that a step other than its reservation may put in place. *)
Moves(k, r, s) ==
    \/ s = r
    \/ r.state \in Held /\ s.state \in Held /\ s.reservedCost = r.reservedCost
    \/ r.state \in Held /\ s.state = "released"
    \/ /\ r.state \in Held /\ s.reservedCost = r.reservedCost
       /\ \E n \in Nat : s = SettledRow(k, r, n)
    \/ /\ r.state \in {"uncertain", "settled"} /\ r.costStatus # "actual"
       /\ \E n \in Nat, cost \in Nat :
             s = [r EXCEPT !.state = "settled", !.calls = n, !.cost = cost,
                           !.costStatus = "actual"]
             /\ (r.state = "settled" => r.calls = n)

LEMMA MovesCostsNoMore ==
    ASSUME NEW k \in Keys, NEW r \in Row, NEW s \in Row, r.state # "legacy", s.state # "legacy",
           Priced(k, r), Moves(k, r, s)
    PROVE  Priced(k, s) /\ RowCost(k, s) <= RowCost(k, r)
<1>0. k \in Rows /\ k \notin LegacyKeys
  BY BudgetAssumption DEF Rows
<1>1. /\ RowCost(k, r) \in Nat /\ r.reservedCost \in Nat /\ s.reservedCost \in Nat
      /\ Priced(k, s) => RowCost(k, s) \in Nat /\ RowCost(k, s) <= s.reservedCost
  <2>1. RowCost(k, r) \in Nat /\ r.reservedCost \in Nat
    BY <1>0, RowCostBounded
  <2>2. s.reservedCost \in Nat
    BY DEF Row
  <2>3. ASSUME Priced(k, s)
        PROVE  RowCost(k, s) \in Nat /\ RowCost(k, s) <= s.reservedCost
    BY <1>0, <2>3, RowCostBounded
  <2>4. QED
    BY <2>1, <2>2, <2>3
<1>2. r.state \in Held => RowCost(k, r) = r.reservedCost
  BY <1>0 DEF RowCost, Held
<1>3. CASE s = r
  BY <1>1, <1>3
<1>4. CASE r.state \in Held /\ s.state \in Held /\ s.reservedCost = r.reservedCost
  <2>1. Priced(k, s)
    BY <1>4 DEF Priced, Held
  <2>2. QED
    BY <1>1, <1>2, <1>4, <2>1
<1>5. CASE r.state \in Held /\ s.state = "released"
  BY <1>1, <1>5 DEF Priced, RowCost
<1>6. ASSUME NEW n \in Nat, s = SettledRow(k, r, n), r.state \in Held,
             s.reservedCost = r.reservedCost
      PROVE  Priced(k, s) /\ RowCost(k, s) <= RowCost(k, r)
  <2>1. /\ s.state = "settled" /\ s.calls = n
        /\ s.cost = IF n = 0 \/ UnitPrice[k] = 0 THEN 0
                    ELSE IF UnitPrice[k] # None THEN UnitPrice[k] * n ELSE None
    BY <1>6 DEF SettledRow, Row
  <2>2. UnitPrice[k] = 0 => UnitPrice[k] * n = 0
    OBVIOUS
  <2>3. UnitPrice[k] = 0 => UnitPrice[k] # None
    BY DEF None
  <2>4. Priced(k, s)
    BY <2>1, <2>2, <2>3 DEF Priced
  <2>5. QED
    BY <1>1, <1>2, <1>6, <2>4
<1>7. ASSUME NEW n \in Nat, NEW cost \in Nat,
             s = [r EXCEPT !.state = "settled", !.calls = n, !.cost = cost,
                           !.costStatus = "actual"],
             r.state \in {"uncertain", "settled"}, r.costStatus # "actual",
             r.state = "settled" => r.calls = n
      PROVE  Priced(k, s) /\ RowCost(k, s) <= RowCost(k, r)
  <2>1. /\ s.state = "settled" /\ s.calls = n /\ s.cost = cost /\ s.costStatus = "actual"
        /\ s.reservedCost = r.reservedCost
    BY <1>7 DEF Row
  <2>2. Priced(k, s)
    BY <2>1 DEF Priced
  <2>3. CASE r.state = "uncertain"
    BY <1>1, <1>2, <2>1, <2>2, <2>3 DEF Held
  <2>4. CASE r.state = "settled"
    <3>1. r.calls = n /\ r.cost = IF n = 0 THEN 0
                                  ELSE IF UnitPrice[k] = None THEN None ELSE UnitPrice[k] * n
      BY <1>7, <2>4 DEF Priced
    <3>2. CASE n = 0
      BY <1>0, <1>1, <2>1, <2>2, <3>2 DEF RowCost, Held, None
    <3>3. CASE n # 0 /\ UnitPrice[k] = None
      <4>1. RowCost(k, r) = r.reservedCost
        BY <1>0, <2>4, <3>1, <3>3 DEF RowCost
      <4>2. QED
        BY <1>1, <2>1, <2>2, <4>1
    <3>4. CASE n # 0 /\ UnitPrice[k] # None
      <4> DEFINE product == UnitPrice[k] * n
      <4>1. product \in Nat
        <5>1. UnitPrice[k] \in Nat
          BY <3>4, QuotedPrice
        <5>2. QED
          BY <5>1
      <4>2. r.cost = product /\ s.cost = cost /\ UnitPrice[k] * r.calls = product
            /\ UnitPrice[k] * s.calls = product
        BY <2>1, <3>1, <3>4
      <4> HIDE DEF product
      <4>3. /\ r.cost # None /\ s.cost # None
        BY <4>1, <4>2 DEF None
      <4>4. /\ RowCost(k, r) = AtMost(AtMost(product, product), r.reservedCost)
            /\ RowCost(k, s) = AtMost(AtMost(cost, product), r.reservedCost)
        BY <1>0, <2>1, <2>4, <3>1, <3>4, <4>2, <4>3 DEF RowCost, Held
      <4>5. QED
        BY <1>1, <2>2, <4>1, <4>4 DEF AtMost
    <3>5. QED
      BY <3>2, <3>3, <3>4
  <2>5. QED
    BY <1>7, <2>3, <2>4
<1>8. QED
  BY <1>3, <1>4, <1>5, <1>6, <1>7 DEF Moves

(* Every step but a new reservation moves the rows.                          *)
LEMMA RowsMove ==
    ASSUME TypeOK, TypeOK', [Next]_vars
    PROVE  \/ \E w \in Callers, k \in Keys : \E n \in ReservedCalls[k] : ReserveNew(w, k, n)
           \/ \A k \in Keys : Moves(k, ledger[k], ledger'[k])
<1>0. ledger \in [Rows -> Row] /\ \A k \in Keys : k \in Rows /\ k \notin LegacyKeys
      /\ ledger[k] \in Row /\ ledger[k].state # "legacy"
  BY BudgetAssumption DEF TypeOK, Rows
<1>1. ASSUME UNCHANGED ledger
      PROVE  \A k \in Keys : Moves(k, ledger[k], ledger'[k])
  BY <1>1 DEF Moves
<1>2. ASSUME NEW w \in Callers,
             \/ Dispatch(w) \/ DispatchCancelled(w)
      PROVE  \A k \in Keys : Moves(k, ledger[k], ledger'[k])
  <2>1. /\ held[w] \in Rows /\ ledger[held[w]] \in Row /\ ledger[held[w]].state = "reserved"
        /\ \/ ledger'[held[w]] = SentRow(ledger[held[w]])
           \/ ledger'[held[w]] = Released(ledger[held[w]])
        /\ \A k \in Rows \ {held[w]} : ledger'[k] = ledger[k]
    BY <1>2, <1>0 DEF Dispatch, DispatchCancelled, TypeOK, Rows
  <2>2. \/ ledger'[held[w]].state = "in_flight"
           /\ ledger'[held[w]].reservedCost = ledger[held[w]].reservedCost
        \/ ledger'[held[w]].state = "released"
    BY <2>1 DEF SentRow, Released, Row
  <2>3. QED
    BY <1>0, <2>1, <2>2 DEF Moves, Held
<1>3. ASSUME NEW w \in Callers, Settle(w)
      PROVE  \A k \in Keys : Moves(k, ledger[k], ledger'[k])
  <2>1. held[w] \in Keys /\ made[w] \in Nat
    BY <1>3 DEF Settle, TypeOK
  <2>2. SettledRow(held[w], ledger[held[w]], made[w]).reservedCost = ledger[held[w]].reservedCost
    BY <1>0, <2>1 DEF SettledRow, Row
  <2>3. \/ ledger' = ledger
        \/ /\ ledger[held[w]].state \in {"in_flight", "uncertain"}
           /\ ledger'[held[w]] = SettledRow(held[w], ledger[held[w]], made[w])
           /\ \A k \in Rows \ {held[w]} : ledger'[k] = ledger[k]
    BY <1>0, <2>1, <1>3 DEF Settle
  <2>4. QED
    BY <1>0, <2>1, <2>2, <2>3 DEF Moves, Held
<1>4. ASSUME NEW task, NEW c \in BOOLEAN, Recover(task, c)
      PROVE  \A k \in Keys : Moves(k, ledger[k], ledger'[k])
  <2>1. ASSUME NEW k \in Keys, NEW r \in Row
        PROVE  Moves(k, r, r) /\ Moves(k, r, RecoveredRow(r, c))
    <3>1. CASE r.state = "reserved" /\ c
      BY <3>1 DEF Moves, RecoveredRow, Released, Row, Held
    <3>2. CASE r.state \in {"in_flight", "uncertain"}
      BY <3>2 DEF Moves, RecoveredRow, Row, Held
    <3>3. CASE ~(r.state = "reserved" /\ c) /\ r.state \notin {"in_flight", "uncertain"}
      BY <3>3 DEF Moves, RecoveredRow
    <3>4. QED
      BY <3>1, <3>2, <3>3 DEF Moves
  <2>2. \A k \in Keys : ledger'[k] = ledger[k] \/ ledger'[k] = RecoveredRow(ledger[k], c)
    BY <1>0, <1>4 DEF Recover
  <2>3. QED
    BY <1>0, <2>1, <2>2
<1>5. ASSUME NEW j \in Rows, NEW n \in CallCounts \cup LegacyCounts, NEW cost \in Costs,
             Reconcile(j, n, cost)
      PROVE  \A k \in Keys : Moves(k, ledger[k], ledger'[k])
  <2>1. n \in Nat /\ cost \in Nat
    BY BudgetAssumption
  <2>2. /\ ledger'[j] = ConfirmedRow(ledger[j], n, cost)
        /\ \A k \in Rows \ {j} : ledger'[k] = ledger[k]
    BY <1>0, <1>5 DEF Reconcile
  <2>3. ASSUME j \in Keys
        PROVE  Moves(j, ledger[j], ledger'[j])
    BY <1>0, <1>5, <2>1, <2>2, <2>3 DEF Moves, Reconcile, ConfirmedRow
  <2>4. QED
    BY <1>0, <2>2, <2>3 DEF Moves
<1>6. ASSUME NEW w \in Callers, NEW k \in Keys, NEW n \in ReservedCalls[k], ReserveAgain(w, k, n)
      PROVE  UNCHANGED ledger
  BY <1>6 DEF ReserveAgain
<1>7. ASSUME NEW w \in Callers,
             DispatchRefused(w) \/ Crash(w) \/ \E n \in CallCounts : CallProvider(w, n)
      PROVE  UNCHANGED ledger
  BY <1>7 DEF DispatchRefused, Crash, CallProvider
<1>8. ASSUME NextDay \/ UNCHANGED vars
      PROVE  UNCHANGED ledger
  BY <1>8 DEF NextDay, vars
<1>9. QED
  BY <1>1, <1>2, <1>3, <1>4, <1>5, <1>6, <1>7, <1>8 DEF Next

-----------------------------------------------------------------------------
(* The five limits of a key one by one, with the windows' first days.        *)

ScopesHold(k) ==
    /\ Total(TaskRows(k), AuthorizedCost) <= TaskCostLimit
    /\ Total(CompanyRows(k) \cap Window(today), AuthorizedCost) <= CompanyDailyLimit
    /\ Total(CompanyRows(k) \cap Window(WeekStart[today]), AuthorizedCost) <= CompanyWeeklyLimit
    /\ Total(Window(WeekStart[today]), AuthorizedCost) <= SystemWeeklyLimit
    /\ Total(Window(MonthStart[today]), AuthorizedCost) <= SystemMonthlyLimit

LEMMA MoneyByScope == MoneyWithinLimits <=> \A k \in Keys : ScopesHold(k)
  BY DEF MoneyWithinLimits, MoneyScopes, ScopesHold

LEMMA MoneyByScopeNext == MoneyWithinLimits' <=> \A k \in Keys : ScopesHold(k)'
<1>1. MoneyWithinLimits' <=> (\A k \in Keys : ScopesHold(k))'
  BY MoneyByScope, PTL
<1>2. QED
  BY <1>1

LEMMA CostType ==
    ASSUME TypeOK, SettledAsPriced
    PROVE  \A k \in Rows : /\ AuthorizedCost[k] \in Nat /\ AuthorizedCost[k] = RowCost(k, ledger[k])
                           /\ Amounts[k] \in NatOrNone
                           /\ Amounts[k] # None => AuthorizedCost[k] <= Amounts[k]
<1> SUFFICES ASSUME NEW k \in Rows
             PROVE  /\ AuthorizedCost[k] \in Nat /\ AuthorizedCost[k] = RowCost(k, ledger[k])
                    /\ Amounts[k] \in NatOrNone
                    /\ Amounts[k] # None => AuthorizedCost[k] <= Amounts[k]
  OBVIOUS
<1>1. ledger[k] \in Row /\ (ledger[k].state = "legacy" <=> k \in LegacyKeys)
  BY DEF TypeOK
<1>2. AuthorizedCost[k] = RowCost(k, ledger[k]) /\ Amounts[k] = Amount(ledger[k])
  BY DEF AuthorizedCost, RowCost, Amounts
<1>3. k \in Keys => Priced(k, ledger[k])
  BY DEF SettledAsPriced
<1>4. QED
  BY <1>1, <1>2, <1>3, RowCostBounded

LEMMA ScopesAreRows ==
    ASSUME NEW k \in Keys
    PROVE  /\ TaskRows(k) \subseteq Rows /\ CompanyRows(k) \subseteq Rows
           /\ \A since : Window(since) \subseteq Rows
  BY DEF TaskRows, CompanyRows, Window, Rows

(* A step that moves the rows keeps the prices; the rows of each window were *)
(* in it before and count for no more.                                      *)
LEMMA MovesKeepMoney ==
    ASSUME TypeOK, TypeOK', MoneyInv, \A k \in Keys : Moves(k, ledger[k], ledger'[k]),
           NextDay \/ (Shrinks /\ today' = today)
    PROVE  MoneyInv'
<1>1. /\ \A k \in Rows : /\ ledger[k] \in Row /\ ledger'[k] \in Row
                         /\ ledger[k].state = "legacy" <=> k \in LegacyKeys
                         /\ ledger'[k].state = "legacy" <=> k \in LegacyKeys
      /\ \A k \in Keys : k \in Rows /\ k \notin LegacyKeys
  BY BudgetAssumption DEF TypeOK, Rows
<1>2. \A k \in Keys : Priced(k, ledger'[k]) /\ RowCost(k, ledger'[k]) <= RowCost(k, ledger[k])
  BY <1>1, MovesCostsNoMore DEF MoneyInv, SettledAsPriced
<1>3. SettledAsPriced'
  BY <1>2 DEF SettledAsPriced, Priced
<1>4. \A k \in Rows : AuthorizedCost'[k] = RowCost(k, ledger'[k])
  BY DEF AuthorizedCost, RowCost
<1>5. \A k \in Rows : /\ AuthorizedCost[k] \in Nat /\ AuthorizedCost'[k] \in Nat
                      /\ AuthorizedCost'[k] <= AuthorizedCost[k]
  <2> SUFFICES ASSUME NEW k \in Rows
               PROVE  /\ AuthorizedCost[k] \in Nat /\ AuthorizedCost'[k] \in Nat
                      /\ AuthorizedCost'[k] <= AuthorizedCost[k]
    OBVIOUS
  <2>1. AuthorizedCost[k] \in Nat /\ AuthorizedCost[k] = RowCost(k, ledger[k])
    BY CostType DEF MoneyInv
  <2>2. RowCost(k, ledger'[k]) \in Nat
    BY <1>1, <1>2, RowCostBounded
  <2>3. CASE k \in Keys
    BY <1>2, <1>4, <2>1, <2>2, <2>3
  <2>4. CASE k \in LegacyKeys
    BY <1>4, <2>1, <2>4 DEF RowCost
  <2>5. QED
    BY <2>3, <2>4 DEF Rows
<1>6. /\ today \in 0 .. MaxDay /\ today' \in 0 .. MaxDay /\ today <= today' /\ MaxDay \in Nat
  <2>1. today \in 0 .. MaxDay /\ today' \in 0 .. MaxDay /\ MaxDay \in Nat
    BY BudgetAssumption DEF TypeOK
  <2>2. today' = today + 1 \/ today' = today
    BY DEF NextDay
  <2>3. QED
    BY <2>1, <2>2
<1>7. /\ today <= today' /\ today \in Nat /\ today' \in Nat
      /\ \A start \in {WeekStart, MonthStart} :
            start[today] <= start[today'] /\ start[today] \in Nat /\ start[today'] \in Nat
  <2>1. ASSUME NEW start \in {WeekStart, MonthStart}
        PROVE  start[today] <= start[today'] /\ start[today] \in Nat /\ start[today'] \in Nat
    <3>1. start \in [0 .. MaxDay -> 0 .. MaxDay]
      BY BudgetAssumption
    <3>2. start[today] <= start[today']
      BY <1>6, BudgetAssumption
    <3>3. QED
      BY <1>6, <3>1, <3>2
  <2>2. QED
    BY <1>6, <2>1
<1> DEFINE After(since) == {k \in Rows : \/ ledger'[k].state \in Held
                                         \/ ledger'[k].state # "absent" /\ ledger'[k].day >= since}
<1>8. ASSUME NEW a \in Nat, NEW b \in Nat, a <= b
      PROVE  After(b) \subseteq Window(a)
  <2>1. \A k \in Rows : ledger[k].day \in Nat /\ ledger'[k].day \in Nat
    BY <1>1 DEF Row
  <2>2. CASE NextDay
    BY <1>8, <2>1, <2>2 DEF NextDay, Window
  <2>3. CASE Shrinks
    BY <1>8, <2>1, <2>3 DEF Shrinks, Window
  <2>4. QED
    BY <2>2, <2>3
<1>9. /\ Window(today)' = After(today')
      /\ Window(WeekStart[today])' = After(WeekStart[today'])
      /\ Window(MonthStart[today])' = After(MonthStart[today'])
  BY DEF Window
<1>10. /\ Window(today)' \subseteq Window(today)
       /\ Window(WeekStart[today])' \subseteq Window(WeekStart[today])
       /\ Window(MonthStart[today])' \subseteq Window(MonthStart[today])
  BY <1>7, <1>8, <1>9
<1> HIDE DEF After
<1>11. ASSUME NEW S, S \subseteq Rows, NEW T, T \subseteq S, NEW limit \in Nat,
              Total(S, AuthorizedCost) <= limit
       PROVE  Total(T, AuthorizedCost') <= limit
  <2>1. IsFiniteSet(S) /\ IsFiniteSet(T)
    BY <1>11, RowsFinite
  <2>2. Total(T, AuthorizedCost') <= Total(S, AuthorizedCost)
    BY <1>5, <1>11, <2>1, TotalMonotone
  <2>3. Total(T, AuthorizedCost') \in Nat /\ Total(S, AuthorizedCost) \in Nat
    BY <1>5, <1>11, <2>1, TotalType
  <2>4. QED
    BY <1>11, <2>2, <2>3
<1>12. {TaskCostLimit, CompanyDailyLimit, CompanyWeeklyLimit,
        SystemWeeklyLimit, SystemMonthlyLimit} \subseteq Nat
  BY BudgetAssumption
<1>13. ASSUME NEW k \in Keys
       PROVE  /\ Total(TaskRows(k), AuthorizedCost') <= TaskCostLimit
              /\ Total(CompanyRows(k) \cap Window(today)', AuthorizedCost') <= CompanyDailyLimit
              /\ Total(CompanyRows(k) \cap Window(WeekStart[today])', AuthorizedCost')
                   <= CompanyWeeklyLimit
              /\ Total(Window(WeekStart[today])', AuthorizedCost') <= SystemWeeklyLimit
              /\ Total(Window(MonthStart[today])', AuthorizedCost') <= SystemMonthlyLimit
  <2>1. /\ TaskRows(k) \subseteq Rows /\ CompanyRows(k) \subseteq Rows
        /\ \A since : Window(since) \subseteq Rows
    BY ScopesAreRows
  <2>2. /\ Total(TaskRows(k), AuthorizedCost) <= TaskCostLimit
        /\ Total(CompanyRows(k) \cap Window(today), AuthorizedCost) <= CompanyDailyLimit
        /\ Total(CompanyRows(k) \cap Window(WeekStart[today]), AuthorizedCost)
             <= CompanyWeeklyLimit
        /\ Total(Window(WeekStart[today]), AuthorizedCost) <= SystemWeeklyLimit
        /\ Total(Window(MonthStart[today]), AuthorizedCost) <= SystemMonthlyLimit
    BY MoneyByScope DEF MoneyInv, ScopesHold
  <2>3. /\ CompanyRows(k) \cap Window(today) \subseteq Rows
        /\ CompanyRows(k) \cap Window(WeekStart[today]) \subseteq Rows
        /\ CompanyRows(k) \cap Window(today)' \subseteq CompanyRows(k) \cap Window(today)
        /\ CompanyRows(k) \cap Window(WeekStart[today])'
             \subseteq CompanyRows(k) \cap Window(WeekStart[today])
    BY <1>10, <2>1
  <2>4. Total(TaskRows(k), AuthorizedCost') <= TaskCostLimit
    BY <1>11, <1>12, <2>1, <2>2
  <2>5. Total(CompanyRows(k) \cap Window(today)', AuthorizedCost') <= CompanyDailyLimit
    BY <1>11, <1>12, <2>2, <2>3
  <2>6. Total(CompanyRows(k) \cap Window(WeekStart[today])', AuthorizedCost')
           <= CompanyWeeklyLimit
    BY <1>11, <1>12, <2>2, <2>3
  <2>7. /\ Total(Window(WeekStart[today])', AuthorizedCost') <= SystemWeeklyLimit
        /\ Total(Window(MonthStart[today])', AuthorizedCost') <= SystemMonthlyLimit
    BY <1>10, <1>11, <1>12, <2>1, <2>2
  <2>8. QED
    BY <2>4, <2>5, <2>6, <2>7
<1>14. \A k \in Keys : ScopesHold(k)'
  BY <1>13 DEF ScopesHold, TaskRows, CompanyRows
<1>15. MoneyWithinLimits'
  BY <1>14, MoneyByScopeNext
<1>16. QED
  BY <1>3, <1>15 DEF MoneyInv

(* What a check of a key says about the others in the key's scopes.          *)
LEMMA MoneyRoomByScope ==
    ASSUME NEW k \in Keys, NEW c, MoneyRoom(k, c),
           NEW S, NEW limit,
           \/ S = TaskRows(k) /\ limit = TaskCostLimit
           \/ S = CompanyRows(k) \cap Window(today) /\ limit = CompanyDailyLimit
           \/ S = CompanyRows(k) \cap Window(WeekStart[today]) /\ limit = CompanyWeeklyLimit
           \/ S = Window(WeekStart[today]) /\ limit = SystemWeeklyLimit
           \/ S = Window(MonthStart[today]) /\ limit = SystemMonthlyLimit
    PROVE  /\ \A j \in S \ {k} : Amounts[j] # None
           /\ Total(S \ {k}, Amounts) + c <= limit
<1>1. PICK scope \in MoneyScopes(k) : scope.rows = S /\ scope.limit = limit
  BY DEF MoneyScopes
<1>2. /\ \A j \in scope.rows \ {k} : Amounts[j] # None
      /\ Total(scope.rows \ {k}, Amounts) + c <= scope.limit
  BY DEF MoneyRoom
<1>3. QED
  BY <1>1, <1>2

(* A priced reservation fits beside all that is charged in the scopes of its *)
(* key, and a free one adds nothing.                                        *)
LEMMA ReserveKeepsMoney ==
    ASSUME TypeOK, TypeOK', MoneyInv,
           NEW w \in Callers, NEW k \in Keys, NEW n \in ReservedCalls[k], ReserveNew(w, k, n)
    PROVE  MoneyInv'
<1> DEFINE c == UpperPrice(k) * n
<1>1. n \in Nat /\ k \in Rows /\ k \notin LegacyKeys
  BY BudgetAssumption DEF Rows
<1>2. c \in Nat
  BY <1>1, PriceType DEF ReserveNew
<1>3. /\ \A j \in Rows \ {k} : ledger'[j] = ledger[j]
      /\ ledger'[k].state = "reserved" /\ ledger'[k].reservedCost = c
      /\ today' = today /\ (c # 0 => MoneyRoom(k, c))
  BY <1>1 DEF ReserveNew, TypeOK, Fits
<1> HIDE DEF c
<1>4. /\ \A j \in Rows \ {k} : AuthorizedCost'[j] = AuthorizedCost[j]
      /\ AuthorizedCost'[k] = c
  <2>1. ASSUME NEW j \in Rows \ {k}
        PROVE  AuthorizedCost'[j] = AuthorizedCost[j]
    BY <1>3, <2>1 DEF AuthorizedCost
  <2>2. AuthorizedCost'[k] = c
    BY <1>1, <1>3 DEF AuthorizedCost, Held
  <2>3. QED
    BY <2>1, <2>2
<1>5. SettledAsPriced'
  <2>1. Priced(k, ledger'[k])
    BY <1>3 DEF Priced
  <2>2. \A j \in Keys \ {k} : Priced(j, ledger'[j])
    BY <1>3 DEF MoneyInv, SettledAsPriced, Rows
  <2>3. \A j \in Keys : Priced(j, ledger'[j])
    BY <2>1, <2>2
  <2>4. QED
    BY <2>3 DEF SettledAsPriced, Priced
<1>6. \A j \in Rows : /\ AuthorizedCost[j] \in Nat /\ AuthorizedCost'[j] \in Nat
                      /\ Amounts[j] # None => Amounts[j] \in Nat /\ AuthorizedCost[j] <= Amounts[j]
  <2>1. \A j \in Rows : /\ AuthorizedCost[j] \in Nat /\ Amounts[j] \in NatOrNone
                        /\ Amounts[j] # None => AuthorizedCost[j] <= Amounts[j]
    BY CostType DEF MoneyInv
  <2>2. \A j \in Rows : AuthorizedCost'[j] \in Nat
    BY <1>2, <1>4, <2>1
  <2>3. QED
    BY <2>1, <2>2 DEF NatOrNone
<1>7. ASSUME NEW S, S \subseteq Rows, NEW T, T \subseteq Rows, T \ {k} \subseteq S \ {k},
             NEW limit \in Nat, Total(S, AuthorizedCost) <= limit,
             c # 0 /\ k \in T => /\ \A j \in S \ {k} : Amounts[j] # None
                                 /\ Total(S \ {k}, Amounts) + c <= limit
      PROVE  Total(T, AuthorizedCost') <= limit
  <2>1. IsFiniteSet(S) /\ IsFiniteSet(T) /\ IsFiniteSet(S \ {k}) /\ IsFiniteSet(T \ {k})
        /\ S \ {k} \subseteq Rows /\ T \ {k} \subseteq Rows /\ T \ {k} \subseteq S
    BY <1>7, RowsFinite
  <2>2. /\ Total(T, AuthorizedCost') \in Nat /\ Total(T \ {k}, AuthorizedCost') \in Nat
        /\ Total(S, AuthorizedCost) \in Nat
    <3>1. Total(T, AuthorizedCost') \in Nat
      BY <1>6, <1>7, <2>1, TotalType
    <3>2. Total(T \ {k}, AuthorizedCost') \in Nat
      BY <1>6, <1>7, <2>1, TotalType
    <3>3. Total(S, AuthorizedCost) \in Nat
      BY <1>6, <1>7, <2>1, TotalType
    <3>4. QED
      BY <3>1, <3>2, <3>3
  <2>3. Total(T \ {k}, AuthorizedCost') <= Total(S, AuthorizedCost)
    <3>1. \A j \in T \ {k} : AuthorizedCost'[j] \in Nat /\ AuthorizedCost'[j] <= AuthorizedCost[j]
      BY <1>4, <1>6, <1>7
    <3>2. \A j \in S : AuthorizedCost[j] \in Nat
      BY <1>6, <1>7
    <3>3. QED
      BY <2>1, <3>1, <3>2, TotalMonotone
  <2>4. k \in T => Total(T, AuthorizedCost') <= Total(T \ {k}, AuthorizedCost') + c
    BY <1>4, <1>6, <1>7, <2>1, TotalWith
  <2>5. CASE k \notin T
    <3>1. T \ {k} = T
      BY <2>5
    <3>2. QED
      BY <1>7, <2>2, <2>3, <3>1
  <2>6. CASE k \in T /\ c = 0
    BY <1>7, <2>2, <2>3, <2>4, <2>6
  <2>7. CASE k \in T /\ c # 0
    <3>1. \A j \in S \ {k} : Amounts[j] \in Nat /\ AuthorizedCost[j] <= Amounts[j]
      BY <1>6, <1>7, <2>7
    <3>2. \A j \in T \ {k} : AuthorizedCost'[j] \in Nat /\ AuthorizedCost'[j] <= Amounts[j]
      BY <1>4, <1>6, <1>7, <3>1
    <3>3. Total(T \ {k}, AuthorizedCost') <= Total(S \ {k}, Amounts)
      BY <1>7, <2>1, <3>1, <3>2, TotalMonotone
    <3>4. Total(S \ {k}, Amounts) \in Nat
      BY <2>1, <3>1, TotalType
    <3>5. QED
      BY <1>2, <1>7, <2>2, <2>4, <2>7, <3>3, <3>4
  <2>8. QED
    BY <2>5, <2>6, <2>7
<1> DEFINE After(since) == {j \in Rows : \/ ledger'[j].state \in Held
                                         \/ ledger'[j].state # "absent" /\ ledger'[j].day >= since}
<1>8. /\ Window(today)' = After(today)
      /\ Window(WeekStart[today])' = After(WeekStart[today])
      /\ Window(MonthStart[today])' = After(MonthStart[today])
  BY <1>3 DEF Window
<1>9. \A since : After(since) \subseteq Rows /\ After(since) \ {k} \subseteq Window(since) \ {k}
  BY <1>3 DEF Window
<1> HIDE DEF After
<1>10. {TaskCostLimit, CompanyDailyLimit, CompanyWeeklyLimit,
        SystemWeeklyLimit, SystemMonthlyLimit} \subseteq Nat
  BY BudgetAssumption
<1>11. ASSUME NEW i \in Keys
       PROVE  ScopesHold(i)'
  <2>1. /\ TaskRows(i) \subseteq Rows /\ CompanyRows(i) \subseteq Rows
        /\ \A since : Window(since) \subseteq Rows
    BY ScopesAreRows
  <2>2. /\ Total(TaskRows(i), AuthorizedCost) <= TaskCostLimit
        /\ Total(CompanyRows(i) \cap Window(today), AuthorizedCost) <= CompanyDailyLimit
        /\ Total(CompanyRows(i) \cap Window(WeekStart[today]), AuthorizedCost)
             <= CompanyWeeklyLimit
        /\ Total(Window(WeekStart[today]), AuthorizedCost) <= SystemWeeklyLimit
        /\ Total(Window(MonthStart[today]), AuthorizedCost) <= SystemMonthlyLimit
    BY MoneyByScope DEF MoneyInv, ScopesHold
  <2>3. k \in TaskRows(i) => TaskRows(k) = TaskRows(i)
    BY DEF TaskRows
  <2>4. k \in CompanyRows(i) => CompanyRows(k) = CompanyRows(i)
    BY <1>1 DEF CompanyRows
  <2>5. Total(TaskRows(i), AuthorizedCost') <= TaskCostLimit
    <3>1. c # 0 /\ k \in TaskRows(i) =>
             /\ \A j \in TaskRows(i) \ {k} : Amounts[j] # None
             /\ Total(TaskRows(i) \ {k}, Amounts) + c <= TaskCostLimit
      BY <1>3, <2>3, MoneyRoomByScope
    <3>2. QED
      BY <1>7, <1>10, <2>1, <2>2, <3>1
  <2>6. ASSUME NEW since, NEW limit \in Nat,
               Total(CompanyRows(i) \cap Window(since), AuthorizedCost) <= limit,
               \/ since = today /\ limit = CompanyDailyLimit
               \/ since = WeekStart[today] /\ limit = CompanyWeeklyLimit
        PROVE  Total(CompanyRows(i) \cap After(since), AuthorizedCost') <= limit
    <3>1. c # 0 /\ k \in CompanyRows(i) =>
             /\ \A j \in (CompanyRows(i) \cap Window(since)) \ {k} : Amounts[j] # None
             /\ Total((CompanyRows(i) \cap Window(since)) \ {k}, Amounts) + c <= limit
      BY <1>3, <2>4, <2>6, MoneyRoomByScope
    <3>2. /\ CompanyRows(i) \cap Window(since) \subseteq Rows
          /\ CompanyRows(i) \cap After(since) \subseteq Rows
          /\ (CompanyRows(i) \cap After(since)) \ {k} \subseteq (CompanyRows(i) \cap Window(since)) \ {k}
      BY <1>9, <2>1
    <3>3. k \in CompanyRows(i) \cap After(since) => k \in CompanyRows(i)
      OBVIOUS
    <3>4. QED
      BY <1>7, <2>6, <3>1, <3>2, <3>3
  <2>7. ASSUME NEW since, NEW limit \in Nat,
               Total(Window(since), AuthorizedCost) <= limit,
               \/ since = WeekStart[today] /\ limit = SystemWeeklyLimit
               \/ since = MonthStart[today] /\ limit = SystemMonthlyLimit
        PROVE  Total(After(since), AuthorizedCost') <= limit
    <3>1. c # 0 => /\ \A j \in Window(since) \ {k} : Amounts[j] # None
                   /\ Total(Window(since) \ {k}, Amounts) + c <= limit
      BY <1>3, <2>7, MoneyRoomByScope
    <3>2. QED
      BY <1>7, <1>9, <2>1, <2>7, <3>1
  <2>8. /\ Total(CompanyRows(i) \cap After(today), AuthorizedCost') <= CompanyDailyLimit
        /\ Total(CompanyRows(i) \cap After(WeekStart[today]), AuthorizedCost')
             <= CompanyWeeklyLimit
    BY <1>10, <2>2, <2>6
  <2>9. /\ Total(After(WeekStart[today]), AuthorizedCost') <= SystemWeeklyLimit
        /\ Total(After(MonthStart[today]), AuthorizedCost') <= SystemMonthlyLimit
    BY <1>10, <2>2, <2>7
  <2>10. QED
    BY <1>8, <2>5, <2>8, <2>9 DEF ScopesHold, TaskRows, CompanyRows
<1>12. MoneyWithinLimits'
  BY <1>11, MoneyByScopeNext
<1>13. QED
  BY <1>5, <1>12 DEF MoneyInv

LEMMA InitMoney == Init => MoneyInv
<1> SUFFICES ASSUME Init
             PROVE  MoneyInv
  OBVIOUS
<1>1. TypeOK
  BY InitTyped
<1>2. SettledAsPriced
  BY BudgetAssumption DEF Init, SettledAsPriced, Priced, Rows, TypeOK, AbsentRow, LegacyRows, LegacyRow
<1>3. \A k \in Rows : AuthorizedCost[k] = 0
  BY DEF Init, AuthorizedCost, Rows
<1>4. \A S : S \subseteq Rows => Total(S, AuthorizedCost) = 0
  <2> SUFFICES ASSUME NEW S, S \subseteq Rows
               PROVE  Total(S, AuthorizedCost) = 0
    OBVIOUS
  <2>1. Units(S, AuthorizedCost) = {}
    BY <1>3, UnitsMembers
  <2>2. QED
    BY <2>1, FS_EmptySet DEF Total, Units
<1>5. {TaskCostLimit, CompanyDailyLimit, CompanyWeeklyLimit,
       SystemWeeklyLimit, SystemMonthlyLimit} \subseteq Nat
  BY BudgetAssumption
<1>6. ASSUME NEW k \in Keys
      PROVE  ScopesHold(k)
  <2>1. /\ TaskRows(k) \subseteq Rows /\ CompanyRows(k) \subseteq Rows
        /\ \A since : Window(since) \subseteq Rows
    BY ScopesAreRows
  <2>2. /\ CompanyRows(k) \cap Window(today) \subseteq Rows
        /\ CompanyRows(k) \cap Window(WeekStart[today]) \subseteq Rows
    BY <2>1
  <2>3. QED
    BY <1>4, <1>5, <2>1, <2>2 DEF ScopesHold
<1>7. QED
  BY <1>2, <1>6, MoneyByScope DEF MoneyInv

(* The money that reservations authorize never exceeds a limit, neither of a *)
(* task nor of a company's day and week nor of the system's week and month,  *)
(* for any prices, whatever settlements, receipts, recoveries and new days   *)
(* come between a reservation and its confirmation.                          *)
THEOREM MoneyStaysWithinLimits == Spec => []MoneyWithinLimits
<1>1. TypeOK /\ TypeOK' /\ MoneyInv /\ [Next]_vars => MoneyInv'
  <2> SUFFICES ASSUME TypeOK, TypeOK', MoneyInv, [Next]_vars
               PROVE  MoneyInv'
    OBVIOUS
  <2>1. CASE \E w \in Callers, k \in Keys : \E n \in ReservedCalls[k] : ReserveNew(w, k, n)
    BY <2>1, ReserveKeepsMoney
  <2>2. CASE ~\E w \in Callers, k \in Keys : \E n \in ReservedCalls[k] : ReserveNew(w, k, n)
    <3>1. \A k \in Keys : Moves(k, ledger[k], ledger'[k])
      BY <2>2, RowsMove
    <3>2. NextDay \/ (Shrinks /\ today' = today)
      <4>1. \/ \E w \in Callers, k \in Keys : \E n \in ReservedCalls[k] : ReserveNew(w, k, n)
            \/ NextDay
            \/ Shrinks /\ today' = today
        BY StepKinds, Zenon
      <4>2. QED
        BY <2>2, <4>1
    <3>3. QED
      BY <3>1, <3>2, MovesKeepMoney
  <2>3. QED
    BY <2>1, <2>2
<1>2. MoneyInv => MoneyWithinLimits
  BY DEF MoneyInv
<1>3. QED
  BY <1>1, <1>2, InitMoney, TypeCorrect, PTL DEF Spec

=============================================================================
